\* Violated, to be checked with -continue: the memory and the count of a request
\* that is sent again.
SPECIFICATION Spec
CONSTANTS
    NSlots = 1
    Hosts = {h1}
    Datasets = {d1}
    MaxSends = 2
    Ctl = {c1}
    MaxReqs = 1
    None = None
INVARIANTS SenderOwnsRequest SendsBounded
CHECK_DEADLOCK FALSE
