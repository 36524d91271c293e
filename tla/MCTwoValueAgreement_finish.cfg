SPECIFICATION Spec
CONSTANTS
    Nodes = {0, 1, 2, 3, 4, 5, 6}
    F = 2
    Values = {1, 2}
    Inputs = {1}
    MaxRound = 0
    MaxCrash = 2
    None = None
CONSTRAINT InOrder
CHECK_DEADLOCK FALSE
INVARIANTS
    EveryNodeDecides
