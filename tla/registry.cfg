\* Two directories of the same name, two PHP tracks, releases with and without the
\* extension, and any three commands and edits.
SPECIFICATION Spec
CONSTANTS
    None = None
    Invalid = Invalid
    System = System
    Resources = Resources
    Paths = {p1, p2}
    Slugs <- MCSlugs
    Hostnames = {"shop-1"}
    Configs <- MCConfigs
    Tracks = {"8.3", "8.4"}
    Extensions = {"redis"}
    Latest = "8.4"
    Catalogs = {{"redis"}, {}}
    MaxIds = 3
    MaxCommands = 3
    MaxEdits = 2
INVARIANTS
    AppliedOrReported
    ServedRoutesCurrent
    ShimMatchesWorker
CONSTRAINT ThreeChanges
SYMMETRY PathSymmetry
CHECK_DEADLOCK FALSE
