\* Safety: four ticks to the second, so that all ages are reached.
SPECIFICATION Spec
CONSTANTS
    Second = 4
    None = None
INVARIANTS TypeOK Detected ControlEnds NotHasty
