\* Two requests, one slot: the request function never comes to an end.
SPECIFICATION FairSpec
CONSTANTS
    Reqs = {r1, r2}
    Slots = {i1}
    Servers = {s1}
    Sectors = {x1}
    None = None
    MaxOpens = 1
    CntMax = 1
PROPERTY Dispatched
CHECK_DEADLOCK FALSE
