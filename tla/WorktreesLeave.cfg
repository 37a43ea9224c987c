SPECIFICATION SyncSpec
CONSTANTS
    a = a  b = b  c = c  g1 = g1  g2 = g2  None = None
    Branches = {a, b, c}
    Inside <- OneInAnother
    Sorted <- Lexical
    Hooks = {g1, g2}
    MaxEvents = 3
INVARIANTS DeletedBranchesLeave
CHECK_DEADLOCK FALSE
