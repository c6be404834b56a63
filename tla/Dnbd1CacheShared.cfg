\* A write fails that reuses an evicted block: two entries share a block.
SPECIFICATION Spec
CONSTANTS
    Nodes = {n1, n2, n3}
    Sectors = {x1, x2, x3, x4}
    MaxBlocks = 3
    None = None
    MaxSessions = 1
SYMMETRY Symmetry
INVARIANT OneOwnerAlways
CHECK_DEADLOCK FALSE
