SPECIFICATION BdtSpec
CONSTANTS
    Nodes = {n0, n1, n2, n3}
    F = 1
    Leader = n0
    SlotsNum = 1
    StatFrom = 1
    TxSupply = {0, 1}
    TxCounts = {0, 1}
    None = None
SYMMETRY Symmetry
CHECK_DEADLOCK FALSE
INVARIANTS
    BdtTypeOK
    InputsAdjacent
    AtMostOneFixedLost
    AgreedBlockHeld
    StuckOnlyInAgreement
