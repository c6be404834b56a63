\* Violated: a read is dropped for the sake of one that is long answered.
SPECIFICATION Spec
CONSTANTS
    a = a
    b = b
    Queries <- Asked
    Handlers = {h1}
    MaxQueries = 4
    MaxTime = 3
    None = None
PROPERTY OneSecond
