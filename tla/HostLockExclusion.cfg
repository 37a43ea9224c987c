SPECIFICATION Spec
CONSTANTS
    p1 = p1  p2 = p2  t1 = t1  t2 = t2  t3 = t3
    i1 = i1  i2 = i2  i3 = i3  NoOne = NoOne
    Procs = {p1, p2}
    Tasks = {t1, t2, t3}
    Insts = {i1, i2, i3}
    TaskProc <- TwoProcTasks
    InstProc <- TwoProcInsts
    MaxInode = 3
    MaxDepth = 2
    MayCancel = TRUE
INVARIANTS MutualExclusion
CHECK_DEADLOCK FALSE
