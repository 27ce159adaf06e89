CONSTANTS
    Thread = {t1, t2}
    Null = Null
    File <- MCFile
    FirstBuffer = 3
    FastBuffer = 4
    TmpSize = 3
    Flag = 8
    Unit = 3
SPECIFICATION Spec
CHECK_DEADLOCK FALSE
INVARIANTS
    TypeOK
    EachMessageOnce
    OffsetsAgree
PROPERTY
    EveryLoopEnds
