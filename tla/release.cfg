\* A repository of three recipes and five other commits, two versions of PV, two
\* runs of the build workflows.
SPECIFICATION Spec
CONSTANTS
    None = None
    NotLoaded = NotLoaded
    PvVersion = 2
    RequiredExtensions = {"curl", "intl"}
    Kinds = {"php", "composer", "redis"}
    Trees <- MCTrees
    FirstTree <- Base
    AppVersions = {1, 2}
    RequiredPlatforms = {"darwin-arm64"}
    MaxRuns = 2
    MaxEdits = 1
    MaxRevocations = 1
    MaxFaults = 1
INVARIANTS
    ClientsCanInstall
    CompleteBuildPublishes
PROPERTIES
    NothingWithdrawn
    AppNeverOlder
CHECK_DEADLOCK FALSE
