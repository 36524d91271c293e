SPECIFICATION Spec
CONSTANTS
    Nodes = {n0, n1, n2, n3}
    F = 1
    Values = {1, 2}
    Inputs = {1, 2}
    MaxRound = 0
    MaxCrash = 1
    None = None
SYMMETRY Symmetry
CONSTRAINT CrashesWithEqualInputs
CHECK_DEADLOCK FALSE
INVARIANTS
    TypeOK
    SameValues
    OneEstimate
    EqualInputsDecide
PROPERTIES
    ImplementsPromise
