\* Safety: two servers, all the values the smoothed times can have.
SPECIFICATION RttSpec
CONSTANTS
    NSlots = 2
    RttMax = 2
    Word = 2097152
    Samples = {0, 2, 3}
    ToPercent = 50
    ToJiffies = 1
INVARIANTS RttTypeOK SrttBounded Unmeasured TakeOverImproves
