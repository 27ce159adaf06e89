CONSTANTS
    h1 = h1
    h2 = h2
    f1 = f1
    f2 = f2
    File = {f1, f2}
    Null = Null
    Handles <- MCHandles
    Starts = {0, 2, 3, 4}
    MaxFields = 2
    Garbage <- MCGarbage
    Streams = {}
    Resettable = {}
    MaxSupports = 1
    MaxHandles = 4
SPECIFICATION RTSpec
CHECK_DEADLOCK FALSE
INVARIANTS
    FieldsComeBack
