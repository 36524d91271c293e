SPECIFICATION MvSpec
CONSTANTS
    Nodes = {n0, n1, n2, n3}
    F = 1
    MvRounds = {0, 1}
    MvElections = {0, 1}
    None = None
SYMMETRY Symmetry
CHECK_DEADLOCK FALSE
INVARIANTS
    MvAgreement
