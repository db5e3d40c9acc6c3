\* Job rows and progress across failures of pv.db, shutdowns, crashes and restarts.
SPECIFICATION FairSpec
CONSTANTS
    Scopes = {s1}
    s1 = s1
    s2 = s2
    UpdateSystem = UpdateSystem
    Probers = {c1}
    MaxJobs = 3
    MaxChanges = 0
    MaxFaults = 1
    MaxRestarts = 2
INVARIANTS
    RowsMatchTasks
PROPERTIES
    AcceptedJobsEnd
