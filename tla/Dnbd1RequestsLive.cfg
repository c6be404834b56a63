\* One request, one session, a cache of one block, under fairness.
SPECIFICATION FairSpec
CONSTANTS
    Reqs = {r1}
    Blocks = {0, 1}
    Asks <- Reads
    MaxBlocks = 1
    MaxSessions = 1
    MaxReplies = 1
    None = none
    Smp = FALSE
PROPERTIES Answered Ends
CHECK_DEADLOCK FALSE
