SPECIFICATION BdtSpec
CONSTANTS
    Nodes = {n0, n1, n2, n3}
    F = 1
    Leader = n0
    SlotsNum = 1
    StatFrom = 8
    TxSupply = {2}
    TxCounts = {0}
    None = None
CHECK_DEADLOCK FALSE
INVARIANTS
    NotarizationSent
