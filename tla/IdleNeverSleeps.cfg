\* As in the defaults, checkpoints are more frequent than the idle timeout.
SPECIFICATION FairSpec
CONSTANTS
    Names = {a}
    None = None
    MaxOpenDatabases = 1
    MaxRequests = 2
    IdleTimeout = 2
    CleanupInterval = 1
    CheckpointInterval = 1
    MaxSkew = 0
PROPERTIES IdleSleeps
