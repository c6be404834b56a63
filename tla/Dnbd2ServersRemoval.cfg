\* A removal and a receiver wait for each other.
SPECIFICATION FairSpec
CONSTANTS
    NSlots = 1
    Hosts = {h1}
    Datasets = {d1}
    MaxSends = 1
    Ctl = {c1}
    MaxReqs = 1
    None = None
PROPERTY RemovalEnds
CHECK_DEADLOCK FALSE
