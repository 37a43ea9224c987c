SPECIFICATION PartSpec
CONSTANTS
    r1 = r1  r2 = r2  o1 = o1  o2 = o2  h1 = h1  h2 = h2  Ctl = Ctl
    NoOne = NoOne
    Res = {r1, r2}
    OSDs = {o1}
    Loops = {}
    Hosts = {h1}
    HostOf <- OneHost
    Controller <- Ctl
    Need <- OneUnit
    Size <- TwoUnits
    Used = 0
    Headroom = 1
    Watermark = 70
    ReadySets = {{o1}}
    ShrinkEnabled = FALSE
    MaxActions = 1
    MaxCreated = 0
    MaxWire = 3
    MaxFaults = 1
    MayFlap = FALSE
    a = a  b = b  c = c  g1 = g1  g2 = g2  None = None
    Branches = {a, b, c}
    Inside <- OneInAnother
    Sorted <- Lexical
    Hooks = {g1, g2}
    MaxEvents = 3
INVARIANTS TypeOK HardReservation SyncTypeOK EveryBranchServed
PROPERTIES RecordsSurvive SnapshotsDecide LeftoversAreFailures
SYMMETRY ResSymmetry
