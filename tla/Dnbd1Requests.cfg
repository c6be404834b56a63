\* Two requests and replies that are overheard; the block that no request is
\* for makes room in the cache necessary.
SPECIFICATION Spec
CONSTANTS
    Reqs = {r1, r2}
    Blocks = {0, 1, 2}
    Asks <- Reads
    MaxBlocks = 2
    MaxSessions = 2
    MaxReplies = 1
    None = none
    Smp = FALSE
SYMMETRY Symmetry
INVARIANTS TypeOK OneHolder RightData
PROPERTY ImplementsReadService
