\* Projects, tracks, ports and processes of a SQL resource.
SPECIFICATION Spec
CONSTANTS
    Projects = {p1, p2}
    Tracks = {t1, t2}
    p1 = p1
    p2 = p2
    t1 = t1
    t2 = t2
    DefaultTrack = t1
    Latest = Latest
    None = None
    Configs <- MCConfigs
    InitConfig <- MCInitConfig
    Checks = {TRUE, FALSE}
    Ports = {1, 2}
    Attempts = 2
    MaxVersion = 2
    MaxEvents = 1
    MaxJobs = 2
INVARIANTS
    SecretsMatchData
    ReadyAllocationExists
PROPERTIES
    NeededRuntimeKept
    RenderedEnvCurrent
CHECK_DEADLOCK FALSE
