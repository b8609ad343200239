SPECIFICATION LiveSpec
CONSTANTS
    N = 2
    Tasks = {t1, t2}
    BatchSizes = {1}
    cpu0 = cpu0
    timer = timer
    NoMsg = NoMsg
PROPERTY PostCompletes
\* A batch that finds the ring full never lets go of the key.
CHECK_DEADLOCK FALSE
