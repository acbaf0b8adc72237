SPECIFICATION FairSpec
CONSTANTS
    NumDisks = 2
    NumParts = 4
    Plans <- FailurePlans
    MaxRuns <- OneRun
    Interference <- FailureActors
CHECK_DEADLOCK FALSE
INVARIANTS
    TypeOK
    OwnedIsRecorded
    ReleasedOrReported
    ExitZeroMeansInstalled
    HostFilesRecoverable
    HttpUsesOriginalPolicy
    BootChainWhole
PROPERTIES
    CleanupEnds
