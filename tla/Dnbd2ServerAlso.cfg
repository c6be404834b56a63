\* Violated, to be checked with -continue: what reloads, signals and short reads
\* do to descriptors, buffer and configuration.
SPECIFICATION Spec
CONSTANTS
    a1 = a1
    a2 = a2
    d1 = d1
    d2 = d2
    f1 = f1
    f2 = f2
    Fds = {0, 1, 2, 3, 4}
    Addrs = {a1, a2}
    Datasets = {d1, d2}
    Files = {f1, f2}
    Size <- MCSize
    Configs <- MCConfigs
    MaxInbox = 1
    None = None
INVARIANTS FdsFreed PayloadOwn Remembered Awake
VIEW View
CHECK_DEADLOCK FALSE
