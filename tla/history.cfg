\* The history at a limit of two rows: what is reported, and what pruning takes.
SPECIFICATION Spec
CONSTANTS
    Scopes = {"update", "php"}
    Observed = {"gateway"}
    Errors = {e1}
    e1 = e1
    Limit = 2
    MaxJobs = 3
    MaxTime = 2
INVARIANTS
    UnresolvedIsCurrent
PROPERTIES
    PruningTakesNothingNeeded
    FailureStaysReported
CHECK_DEADLOCK FALSE
