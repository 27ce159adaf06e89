CONSTANTS
    Kind <- TemplateList
    MaxKey = 2
    Depth = 2
    Unwanted <- Filters
    CreateCanFail = TRUE
    LengthCanOverflow = TRUE
SPECIFICATION IterSpec
INVARIANTS
    TypeOK
    LookupsReachTree
    ContentFollowsKey
    LayoutConsistent
    NoKidAtRest
    KeysReturnedOnce
PROPERTY
    ValuesSurvive
