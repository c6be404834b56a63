\* Safety: two requests share two slots of the pool and the replies of a server.
SPECIFICATION Spec
CONSTANTS
    Reqs = {r1, r2}
    Slots = {i1, i2}
    Servers = {s1}
    Sectors = {x1, x2}
    None = None
    MaxOpens = 1
    CntMax = 1
SYMMETRY Symmetry
INVARIANTS TypeOK OneHolder SlotExclusive PendingReqsExact RightData
PROPERTY ImplementsBlockDevice
CHECK_DEADLOCK FALSE
