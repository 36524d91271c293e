SPECIFICATION Spec
CONSTANTS
    Nodes = {n0, n1, n2, n3}
    F = 1
    NwPriority = FALSE
    NwMaxTx = 3
    NwMaxCrash = 1
    NgMaxRound = 2
    NgMaxCrash = 1
    DlMaxCrash = 1
    CsMaxCrash = 1
    SfSlots = 2
    SfStatFrom = 1
    SfMuteFrom = 3
    BkSlots = 3
    None = None
SYMMETRY Symmetry
CHECK_DEADLOCK FALSE
INVARIANTS
    NwDelivers
    CutHeld
    EpochsGoOn
    DlRetrieved
    SubsetReturned
    FallbackKeepsFixed
    WaitsExplained
    BoltKeepsChain
    MeAgreeUnlessStale
    MeHaltsUnlessSkipped
