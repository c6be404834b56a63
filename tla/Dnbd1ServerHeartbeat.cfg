\* Violated: a read is dropped for the sake of a heartbeat.
SPECIFICATION Spec
CONSTANTS
    a = a
    b = b
    Queries <- AskedFirst
    Handlers = {h1}
    MaxQueries = 4
    MaxTime = 0
    None = None
PROPERTY OnlyReads
