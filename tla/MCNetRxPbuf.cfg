SPECIFICATION LiveSpec
CONSTANTS
    N = 3
    FifoMax = 1
    Kinds = {"cpu1"}
    Flags <- OnlyEth
    PbufMayFail = TRUE
    WrapWindow = 1
PROPERTY EnqueuedIsHandled
