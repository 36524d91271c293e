SPECIFICATION Spec
CONSTANTS
    Nodes = {n0, n1, n2, n3}
    F = 1
    Values = {1, 2}
    Inputs = {1, 2}
    MaxRound = 0
    MaxCrash = 0
    None = None
SYMMETRY Symmetry
CHECK_DEADLOCK FALSE
INVARIANTS
    EveryNodeDecides
