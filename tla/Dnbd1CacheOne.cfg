\* A cache file of one block: the tail has no predecessor.
SPECIFICATION Spec
CONSTANTS
    Nodes = {n1, n2, n3}
    Sectors = {x1, x2, x3, x4}
    MaxBlocks = 1
    None = None
    MaxSessions = 1
SYMMETRY Symmetry
INVARIANT NoFault
CHECK_DEADLOCK FALSE
