\* A capacity of another dataset is used.
SPECIFICATION Spec
CONSTANTS
    NSlots = 1
    Hosts = {h1}
    Datasets = {d1, d2}
    MaxSends = 1
    Ctl = {c1}
    MaxReqs = 1
    None = None
INVARIANT CapacityRight
CHECK_DEADLOCK FALSE
