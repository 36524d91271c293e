SPECIFICATION Spec
CONSTANTS
    Nodes = {n0, n1, n2, n3}
    F = 1
    BaMixedLast = 0
    BaEqualLast = 1
    VaMaxCrash = 1
    MvRounds = {0, 1}
    MvElections = {0}
    PdMaxCrash = 1
    DmMaxCrash = 1
    DrRounds = 1
    DrBaRounds = 3
    HbMaxCrash = 1
    EdEpochs = 2
    None = None
ACTION_CONSTRAINTS
    DropsLast
    LateCertificatesFirst
    UselessStoredFirst
SYMMETRY Symmetry
CHECK_DEADLOCK FALSE
INVARIANTS
    BaAgreement
    OnlyDecidedWait
    CommittedLeaderWins
    IterationEnds
    HaltsLeaveTheirMark
    RcRecovers
    DmComesToRecast
    DrStuckOnlyByLeaving
    LaggardsWaitInAgreements
    HoneyBadgerReturns
