\* Two requests over two names, room for one database, under fairness; opening may fail.
SPECIFICATION FairSpec
CONSTANTS
    Names = {a, b}
    Requests = {r1, r2}
    Cleaners = {}
    Checkpointers = {}
    Entries = {e1, e2}
    None = None
    CLOSED = 9
    MaxOpenDatabases = 1
    MaxPerDatabase = 1
    MaxConcurrent = 1
    MAX_ATTEMPTS = 2
    OpenMayFail = TRUE
PROPERTIES AcquireReturns
