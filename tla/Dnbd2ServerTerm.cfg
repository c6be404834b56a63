\* Liveness: the end of the server.
SPECIFICATION FairSpec
CONSTANTS
    a1 = a1
    a2 = a2
    d1 = d1
    d2 = d2
    f1 = f1
    f2 = f2
    Fds = {0, 1, 2}
    Addrs = {a1}
    Datasets = {d1}
    Files = {f1}
    Size <- MCSizeOne
    Configs <- MCConfigsOne
    MaxInbox = 1
    None = None
PROPERTY TermEnds
CHECK_DEADLOCK FALSE
