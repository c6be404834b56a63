\* A timer goes on in emergency mode.
SPECIFICATION Spec
CONSTANTS
    NSlots = 1
    Hosts = {h1}
    Datasets = {d1}
    MaxSends = 1
    Ctl = {c1}
    MaxReqs = 1
    None = None
INVARIANT EmergencyStopsTimers
CHECK_DEADLOCK FALSE
