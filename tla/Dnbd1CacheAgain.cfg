\* A second session walks the tree of the first one.
SPECIFICATION Spec
CONSTANTS
    Nodes = {n1, n2, n3}
    Sectors = {x1, x2, x3, x4}
    MaxBlocks = 3
    None = None
    MaxSessions = 2
SYMMETRY Symmetry
INVARIANT NoFault
CHECK_DEADLOCK FALSE
