\* Two requests and two databases, room for two.
SPECIFICATION FairSpec
CONSTANTS
    Requests = {r1, r2}
    Entries = {e1, e2}
    MaxOpenDatabases = 2
    Checkpointer = Checkpointer
    Nobody = Nobody
INVARIANTS TypeOK NoRequestCutOff LeftOnlyIfRefused LeftOnlyInFlight
PROPERTIES ShutdownEnds
