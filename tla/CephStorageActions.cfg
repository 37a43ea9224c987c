SPECIFICATION StorySpec
CONSTANTS
    r1 = r1  r2 = r2  o1 = o1  o2 = o2  h1 = h1  h2 = h2  Ctl = Ctl
    NoOne = NoOne
    Res = {r1}
    OSDs = {o1, o2}
    Loops = {o1}
    Hosts = {h1}
    HostOf <- OneHost
    Controller <- Ctl
    Need <- OneUnit
    Size <- TwoUnits
    Used = 0
    Headroom = 1
    Watermark = 70
    ReadySets = {{o1}, {o1, o2}}
    ShrinkEnabled = TRUE
    MaxActions = 1
    MaxCreated = 1
    MaxWire = 3
    MaxFaults = 2
    MayFlap = TRUE
INVARIANT NoReplay
PROPERTIES ActionsEnd ReservationsEnd
