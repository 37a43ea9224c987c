SPECIFICATION Spec
CONSTANTS
    p1 = p1  p2 = p2  t1 = t1  t2 = t2  t3 = t3
    i1 = i1  i2 = i2  i3 = i3  NoOne = NoOne
    Procs = {p1}
    Tasks = {t1, t2}
    Insts = {i1, i2, i3}
    TaskProc <- OneProcTasks
    InstProc <- OneProcInsts
    Duration <- OneTick
    Skew <- NoSkew
    MaxSkew = 0
    MayDelete = FALSE
    MaxClock = 3
    MaxVersion = 3
    MaxDepth = 2
    MaxWire = 2
INVARIANT Reentrant
CHECK_DEADLOCK FALSE
