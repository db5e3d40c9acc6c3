\* Installs, updates and rollbacks with one error, death or damaged release.
SPECIFICATION Spec
CONSTANTS
    Procs = {cli}
    MaxEdition = 4
    Version <- MCVersion
    MaxCommands = 5
    MaxInterruptions = 1
INVARIANTS
    InstallationSound
    FailedGroupRestored
    UpdateBringsLatest
CHECK_DEADLOCK FALSE
