\* One session with a cache of three blocks for four sectors.
SPECIFICATION Spec
CONSTANTS
    Nodes = {n1, n2, n3}
    Sectors = {x1, x2, x3, x4}
    MaxBlocks = 3
    None = None
    MaxSessions = 1
SYMMETRY Symmetry
INVARIANTS TypeOK NoFault OneOwner ListIsTree
PROPERTY ImplementsBlockCache
CHECK_DEADLOCK FALSE
