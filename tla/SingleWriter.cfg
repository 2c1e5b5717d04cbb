\* Two requests over two names: a closing writer and its successor.
SPECIFICATION Spec
CONSTANTS
    Names = {a, b}
    Requests = {r1, r2}
    Cleaners = {}
    Checkpointers = {}
    Entries = {e1, e2, e3}
    None = None
    CLOSED = 9
    MaxOpenDatabases = 1
    MaxPerDatabase = 1
    MaxConcurrent = 1
    MAX_ATTEMPTS = 2
    OpenMayFail = FALSE
SYMMETRY ManagerSymmetry
INVARIANTS SingleWriter
