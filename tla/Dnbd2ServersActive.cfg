\* The active server loses its socket.
SPECIFICATION Spec
CONSTANTS
    NSlots = 2
    Hosts = {h1}
    Datasets = {d1}
    MaxSends = 1
    Ctl = {c1}
    MaxReqs = 1
    None = None
INVARIANT ActiveConfigured
CHECK_DEADLOCK FALSE
