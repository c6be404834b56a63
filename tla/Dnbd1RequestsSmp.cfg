\* Violated: the last thread waits for a lock that it holds.
SPECIFICATION Spec
CONSTANTS
    Reqs = {r1}
    Blocks = {0, 1}
    Asks <- Reads
    MaxBlocks = 2
    MaxSessions = 1
    MaxReplies = 1
    None = none
    Smp = TRUE
INVARIANT NoSelfLock
