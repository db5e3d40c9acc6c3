\* Three commands of any kind, with one failing step or death and one change to the host.
SPECIFICATION Spec
CONSTANTS
    MaxCommands = 3
    MaxFaults = 1
    MaxEvents = 1
    Events <- AllEvents
    Commands <- AllCommands
INVARIANTS
    SuccessIsHealthy
    RemovalLeavesNothing
    RerunRepairs
PROPERTY
    UserContentKept
CHECK_DEADLOCK FALSE
