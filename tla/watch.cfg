\* Edits of a Project config, from the watcher to the jobs.
SPECIFICATION FairWatchSpec
CONSTANTS
    Scopes = {p1}
    p1 = p1
    c1 = c1
    UpdateSystem = UpdateSystem
    Probers = {c1}
    MaxChanges = 2
INVARIANTS
    NoEditForgotten
PROPERTIES
    EditsAreReconciled
