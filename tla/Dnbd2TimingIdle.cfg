\* An idle server gets a request.
SPECIFICATION Spec
CONSTANTS
    Second = 20
    None = None
INVARIANT DownOnlyIfOwed
