\* Three names, room for two; checkpoints rarer than idle timeout and cleanup even if
\* the clock is put back.
SPECIFICATION FairSpec
CONSTANTS
    Names = {a, b, c}
    None = None
    MaxOpenDatabases = 2
    MaxRequests = 1
    IdleTimeout = 1
    CleanupInterval = 2
    CheckpointInterval = 5
    MaxSkew = 1
    Files <- MCFiles
    Environments <- MCEnvironments
    Strings <- MCStrings
    Malformed = Malformed
    Empty = Empty
    Unset = Unset
    Refused = Refused
    Word = 1073741824
INVARIANTS TypeOK FreshWhenIdle SleepsInTime LoadMeetsReference LoadedSettingsServe
PROPERTIES IdleSleeps
