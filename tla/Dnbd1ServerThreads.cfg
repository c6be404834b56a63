\* Violated: with two handlers a query in hand is overwritten.
SPECIFICATION Spec
CONSTANTS
    a = a
    b = b
    Queries <- Asked
    Handlers = {h1, h2}
    MaxQueries = 3
    MaxTime = 0
    None = None
PROPERTY ImplementsRequestQueue
