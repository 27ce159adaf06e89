CONSTANTS
    Accessor = {a1, a2, a3}
    Null = Null
    MaxDeps = 3
    MaxDepth = 2
SYMMETRY Symmetry
SPECIFICATION Spec
INVARIANTS
    TypeOK
    ListSound
    PassTellsMarked
PROPERTY
    EntriesOnlyDecay
