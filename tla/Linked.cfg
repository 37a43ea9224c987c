SPECIFICATION LinkedSpec
CONSTANTS
    a = a  b = b  Wrong = Wrong
    Items = {a, b}
    Slots = 4
    MinCapacity = 2
    Indices <- SomeIndices
    Bounds <- SomeBounds
    Steps <- SomeSteps
    Replacements <- SomeSeqs
    NoBound = NoBound
    SizeMod = 64
    MaxLen = 3
    LeftToRight = FALSE
    k1 = k1  k2 = k2  k3 = k3  k4 = k4
    Keys = {k1, k2, k3, k4}
    Hash <- SomeHashes
    Buckets = 8
    TableMin = 4
    Moves <- SomeMoves
    Limits = {0, 2}
    MaxSize = 4
    MaxStart = 1
INVARIANTS ChainOK FreeListOK FrozenIffGuarded SetChainOK TableOK
PROPERTIES StableWhileFrozen RollBackRestores   TakeBackRestores OnlyKnownDamage BehavesAsOrderedSet
SYMMETRY ItemSymmetry
VIEW LinkedView
CHECK_DEADLOCK FALSE
