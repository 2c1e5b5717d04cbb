\* Two requests over three names, room for two databases.
SPECIFICATION Spec
CONSTANTS
    Names = {a, b, c}
    Requests = {r1, r2}
    Cleaners = {}
    Checkpointers = {}
    Entries = {e1, e2, e3, e4}
    None = None
    CLOSED = 9
    MaxOpenDatabases = 2
    MaxPerDatabase = 1
    MaxConcurrent = 1
    MAX_ATTEMPTS = 2
    OpenMayFail = FALSE
SYMMETRY ManagerSymmetry
PROPERTIES RefusedOnlyWhenBusy
