SPECIFICATION RbSpec
CONSTANTS
    Nodes = {n0, n1, n2, n3}
    F = 1
    Leader = n0
    MaxCrash = 1
SYMMETRY Symmetry
CHECK_DEADLOCK FALSE
INVARIANTS
    Totality
    Validity
