SPECIFICATION LiveSpec
CONSTANTS
    N = 2
    FifoMax = 1
    Kinds = {"cpu1"}
    Flags <- EthAndRecord
    PbufMayFail = FALSE
    WrapWindow = 1
PROPERTY EnqueuedIsHandled
