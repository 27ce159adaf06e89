CONSTANTS
    t1 = t1
    t2 = t2
    out1 = out1
    in1 = in1
    r = r
    w = w
    Thread = {t1, t2}
    Name = {out1, in1}
    Mode = {r, w}
    Uses <- Shared
    Deletes <- Closing
    Address = {x1, x2}
    Stream = {s1, s2, s3}
    Null = Null
    MaxOpened = 0
SYMMETRY Symmetry
SPECIFICATION Spec
CHECK_DEADLOCK FALSE
INVARIANTS
    TypeOK
    OneEntryPerName
    CountMatches
    StreamsOwned
    LimitAtRest
    NothingLeftOpen
