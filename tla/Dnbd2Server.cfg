\* Safety: reloads until there are no descriptors left.
SPECIFICATION Spec
CONSTANTS
    a1 = a1
    a2 = a2
    d1 = d1
    d2 = d2
    f1 = f1
    f2 = f2
    Fds = {0, 1, 2, 3, 4}
    Addrs = {a1, a2}
    Datasets = {d1, d2}
    Files = {f1, f2}
    Size <- MCSize
    Configs <- MCConfigs
    MaxInbox = 1
    None = None
INVARIANTS TypeOK OneConfiguration DescriptorsRight ReplyRight
VIEW ViewNow
CHECK_DEADLOCK FALSE
