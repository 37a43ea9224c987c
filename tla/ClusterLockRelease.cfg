SPECIFICATION Spec
CONSTANTS
    p1 = p1  p2 = p2  t1 = t1  t2 = t2  t3 = t3
    i1 = i1  i2 = i2  i3 = i3  NoOne = NoOne
    Procs = {p1, p2}
    Tasks = {t1, t2}
    Insts = {i1, i2, i3}
    TaskProc <- TwoProcTasks
    InstProc <- TwoProcInsts
    Duration <- OneTick
    Skew <- FirstAhead
    MaxSkew = 1
    MayDelete = FALSE
    MaxClock = 3
    MaxVersion = 3
    MaxDepth = 1
    MaxWire = 2
PROPERTIES ReleaseEffective
CHECK_DEADLOCK FALSE
