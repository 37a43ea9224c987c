SPECIFICATION Spec
CONSTANTS
    p1 = p1  p2 = p2  t1 = t1  t2 = t2  t3 = t3
    i1 = i1  i2 = i2  i3 = i3  NoOne = NoOne
    Procs = {p1, p2}
    Tasks = {t1, t2, t3}
    Insts = {i1, i2}
    TaskProc <- SharedTasks
    InstProc <- SharedInsts
    Duration <- OneTick
    Skew <- FirstAhead
    MaxSkew = 1
    MayDelete = TRUE
    MaxClock = 2
    MaxVersion = 3
    MaxDepth = 2
    MaxWire = 2
INVARIANTS TypeOK ExclusiveWithinTerm NoRenewLeak NoAbsentOwner RequestsGuarded
PROPERTIES StealOnlyExpired ReleaseOnlyOwn
SYMMETRY SharedSymmetry
CHECK_DEADLOCK FALSE
