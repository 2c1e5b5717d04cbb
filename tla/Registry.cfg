\* Two requests and the cleaner over two names, room for one database.
SPECIFICATION Spec
CONSTANTS
    Names = {a, b}
    Requests = {r1, r2}
    Cleaners = {c}
    Checkpointers = {}
    Entries = {e1, e2}
    None = None
    CLOSED = 9
    MaxOpenDatabases = 1
    MaxPerDatabase = 1
    MaxConcurrent = 2
    MAX_ATTEMPTS = 2
    OpenMayFail = FALSE
SYMMETRY ManagerSymmetry
INVARIANTS TypeOK CapacityExact ClosedIsLeaving LeasedIsResident TenantShare EvictsOnce
PROPERTIES NeverReplaced UnlinksWhatItClosed FreedOnlyWhenClosed ImplementsCache
