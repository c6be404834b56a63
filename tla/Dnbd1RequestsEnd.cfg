\* Violated, to be checked with -continue: a request outlives its session, and a
\* session ends the next one.
SPECIFICATION Spec
CONSTANTS
    Reqs = {r1}
    Blocks = {0, 1}
    Asks <- Reads
    MaxBlocks = 2
    MaxSessions = 2
    MaxReplies = 1
    None = none
    Smp = FALSE
INVARIANTS NobodyLeft SessionKept
