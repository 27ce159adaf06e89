CONSTANTS
    a = a
    b = b
    odd = odd
    bad = bad
    none = none
    step = step
    level = level
    date = date
    name = name
    File <- MCFile
    Contents <- MCContents
    Key = {step, level, date, name}
    Long = {step, date}
    Double = {level}
    Strings = {0, 1}
    KeyLists <- MCKeyLists
    OrderBys <- MCOrderBys
    FileLists <- MCFileLists
    Set = {s1, s2}
    Null = Null
    Damaged = Damaged
    NotFound = NotFound
    Unreadable = Unreadable
    MaxOpened = 1
    IntHalf = 4
SYMMETRY Symmetry
SPECIFICATION Spec
INVARIANTS
    InOrder
    RowsDescribeFields
    HandlesInOrder
