SPECIFICATION SplitSpec
CONSTANTS
    u1 = u1
    u2 = u2
    u3 = u3
    Users = {u1, u2, u3}
    Kinds = {"mysql"}
    minSize = 1
    maxSize = 2
    MaxAcquires = 2
    MaxLosses = 1
INVARIANTS
    WritesOnMaster
CHECK_DEADLOCK FALSE
