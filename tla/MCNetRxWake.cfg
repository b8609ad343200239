SPECIFICATION LiveSpec
CONSTANTS
    N = 3
    FifoMax = 1
    Kinds = {"cpu1"}
    Flags <- OnlyEth
    PbufMayFail = FALSE
    WrapWindow = 1
INVARIANT NoneForgotten
PROPERTIES EnqueuedIsHandled ReceiverComesBack
