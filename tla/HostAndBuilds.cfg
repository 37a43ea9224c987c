SPECIFICATION PartSpec
CONSTANTS
    p1 = p1  p2 = p2  t1 = t1  t2 = t2  t3 = t3
    i1 = i1  i2 = i2  i3 = i3  NoOne = NoOne  Nil = Nil
    Procs = {p1, p2}
    Tasks = {t1, t2, t3}
    Insts = {i1, i2, i3}
    TaskProc <- TwoProcTasks
    InstProc <- OneInstPerTwoTasks
    MaxInode = 3
    MaxDepth = 2
    MayCancel = TRUE
    b1 = b1  b2 = b2  w = w  x = x  y = y  z = z  j1 = j1
    Builds = {b1, b2}
    Rank <- InOrder
    Trees = {w}
    TreeOf <- OneTree
    Images <- SharedPlatform
    Jobs = {j1}
    MaxFaults = 2
INVARIANTS TypeOK FlockMatchesHold ActivePublished ActiveIntact PodsKeepImages ReadOnlyIsMarked GarbageIsMarked OneFinishedActive
PROPERTIES   WritableAgain
CHECK_DEADLOCK FALSE
