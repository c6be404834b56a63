\* One request, one slot: a slot that no request owns stays in use.
SPECIFICATION Spec
CONSTANTS
    Reqs = {r1}
    Slots = {i1}
    Servers = {s1}
    Sectors = {x1}
    None = None
    MaxOpens = 1
    CntMax = 1
INVARIANT SlotsFreed
CHECK_DEADLOCK FALSE
