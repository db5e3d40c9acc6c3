\* One runtime: ownership, promotion and rollback, and repair by one request.
SPECIFICATION FairSpec
CONSTANTS
    Pids = {1, 2}
    MaxVersion = 2
    MaxSpec = 2
    MaxMishaps = 2
INVARIANTS
    NoOrphans
PROPERTIES
    FailureRestoresConfig
    RequestRepairs
CHECK_DEADLOCK FALSE
