SPECIFICATION FairSpec
CONSTANTS
    Nodes = {n0, n1, n2, n3}
    F = 1
    Leader = n0
    SlotsNum = 1
    StatFrom = 1
    TxSupply = {0, 1}
    None = None
ACTION_CONSTRAINTS
    OnlyLeaderCrashes
    UselessVotesFirst
    OneByOne
CHECK_DEADLOCK FALSE
PROPERTIES
    FastPathReturns
