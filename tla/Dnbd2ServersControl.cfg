\* Safety: two control requests of one slot.
SPECIFICATION Spec
CONSTANTS
    NSlots = 1
    Hosts = {h1}
    Datasets = {d1}
    MaxSends = 2
    Ctl = {c1, c2}
    MaxReqs = 1
    None = None
SYMMETRY Symmetry
INVARIANT OneHolder
CHECK_DEADLOCK FALSE
