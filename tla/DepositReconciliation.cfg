SPECIFICATION FairSpec
CONSTANTS
    w1 = w1
    p1 = p1
    p2 = p2
    PrivyWallets = {w1}
    Workers = {p1, p2}
    MaxSigs = 3
    Kind <- MCKind
    PageSize = 2
    MaxPages = 1
    MaxFaults = 1
CHECK_DEADLOCK FALSE
INVARIANTS NothingSkipped LeaseExcludes
PROPERTIES DepositNotified
