\* Two requests and the checkpointer over two names; opening may fail.
SPECIFICATION Spec
CONSTANTS
    Names = {a, b}
    Requests = {r1, r2}
    Cleaners = {}
    Checkpointers = {k}
    Entries = {e1, e2}
    None = None
    CLOSED = 9
    MaxOpenDatabases = 1
    MaxPerDatabase = 1
    MaxConcurrent = 1
    MAX_ATTEMPTS = 2
    OpenMayFail = TRUE
SYMMETRY ManagerSymmetry
INVARIANTS LeasesCounted PermitsConserved UsedIsOpen
