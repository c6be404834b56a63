\* A control request that is not answered.
SPECIFICATION Spec
CONSTANTS
    Second = 8
    None = None
INVARIANT FourSeconds
