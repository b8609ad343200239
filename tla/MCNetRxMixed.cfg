SPECIFICATION Spec
CONSTANTS
    N = 2
    FifoMax = 1
    Kinds = {"share", "none"}
    Flags <- AllFlags
    PbufMayFail = TRUE
    WrapWindow = 1
INVARIANTS TypeOK UnreadWindow
\* Bound: one other flag at a time.
CONSTRAINT OneOther
