CONSTANTS
    d1 = d1
    d2 = d2
    Thread = {t1, t2}
    Null = Null
    Dir = {d1, d2}
    EnvPath <- MCEnvPath
    Paths <- MCPaths
    Holds <- MCHolds
    Includes <- MCIncludes
    Broken <- MCBroken
    Empty <- MCEmpty
    Boot = "boot.def"
    Templates <- MCTemplates
    Keys <- MCKeys
    MaxCalls = 3
    MaxDeletes = 1
SPECIFICATION Spec
CHECK_DEADLOCK FALSE
INVARIANTS
    TypeOK
    FilesFound
    OneRoot
    TablesWhole
PROPERTY
    EveryCallReturns
