\* One handler, as built; a ring of four slots.
SPECIFICATION FairSpec
CONSTANTS
    a = a
    b = b
    Queries <- Asked
    Handlers = {h1}
    MaxQueries = 4
    MaxTime = 1
    None = None
INVARIANT TypeOK
PROPERTIES ImplementsRequestQueue DropHeard Handled
