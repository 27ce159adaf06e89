CONSTANTS
    two = two
    one = one
    odd = odd
    later = later
    none = none
    step = step
    level = level
    File = {two, one, odd, none}
    Absent = {none}
    Others = {none}
    Contents <- MCContents
    Key = {step, level}
    Value = {0, 1}
    KeyLists <- MCKeyLists
    Null = Null
    Unselected = Unselected
    TotalLength = TotalLength
    Unreadable = Unreadable
    Damaged = Damaged
    MaxAdds = 2
    MaxFields = 2
SPECIFICATION Spec
INVARIANTS
    TypeOK
    ListedValuesReachAll
    HandlesMatchSelection
