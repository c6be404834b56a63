\* Safety: two slots for one server, of which take-overs and removals make use.
SPECIFICATION Spec
CONSTANTS
    NSlots = 2
    Hosts = {h1}
    Datasets = {d1}
    Ctl = {c1}
    MaxSends = 1
    MaxReqs = 1
    None = None
SYMMETRY Symmetry
INVARIANTS TypeOK OneHolder ActiveSet TimersRun ReceiverRuns
CHECK_DEADLOCK FALSE
