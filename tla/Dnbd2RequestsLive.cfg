\* Liveness: one reader, two servers that lose datagrams and take over.
SPECIFICATION FairSpec
CONSTANTS
    Reqs = {r1}
    Slots = {i1}
    Servers = {s1, s2}
    Sectors = {x1}
    None = None
    MaxOpens = 1
    CntMax = 1
PROPERTY Answered
CHECK_DEADLOCK FALSE
