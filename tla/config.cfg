\* Eight configurations, two edits and one command.
SPECIFICATION Spec
CONSTANTS
    None = None
    Disk <- MCDisk
    AllocationOrder <- MCAllocationOrder
    MaxSuffix = 3
    Documents <- MCDocuments
    EnvFiles <- MCEnvFiles
    UserLine <- MCUserLine
    EnvPaths <- MCEnvPaths
    Examples <- MCExamples
    SignalSets <- MCSignalSets
    Answers <- MCAnswers
    PhpTracks = {"8.3"}
    PrimaryHostname <- MCPrimaryHostname
    MaxEdits = 2
    MaxCommands = 1
INVARIANT
    PreflightDecides
PROPERTIES
    UserLinesKept
    InitSafeToRerun
    WrittenConfigReadsBack
CHECK_DEADLOCK FALSE
