CONSTANTS
    f1 = f1
    f2 = f2
    File = {f1, f2}
    Null = Null
    Streams <- StreamSets
    Resettable = {f1}
    MaxSupports = 3
    MaxHandles = 7
SPECIFICATION Spec
INVARIANTS
    TypeOK
    FieldsInOrder
    HandlesAreWhole
    OneCleanEntryPerFile
