SPECIFICATION Spec
CONSTANTS
    N = 3
    Tasks = {t1, t2}
    BatchSizes = {2}
    cpu0 = cpu0
    timer = timer
    NoMsg = NoMsg
SYMMETRY Symmetric
INVARIANTS TypeOK MutualExclusion CheckStillHolds SlotsMatchWindow BatchContiguous
PROPERTIES StallIsForever IsFifo
\* A batch that finds the ring full never lets go of the key.
CHECK_DEADLOCK FALSE
