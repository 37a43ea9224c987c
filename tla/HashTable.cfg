SPECIFICATION SetSpec
CONSTANTS
    k1 = k1  k2 = k2  k3 = k3  k4 = k4  Wrong = Wrong
    Keys = {k1, k2, k3, k4}
    Hash <- SomeHashes
    Buckets = 8
    TableMin = 4
    Moves <- SomeMoves
    Limits = {0, 2}
    MaxSize = 4
    MaxStart = 1
INVARIANTS FindsItsMembers
VIEW SetView
CHECK_DEADLOCK FALSE
