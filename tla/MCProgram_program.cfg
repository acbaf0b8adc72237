SPECIFICATION ProgramSpec
CONSTANTS
    PipeCapacity = 2
    OutputLength = 3
    AI_MAX_DISKS = 2
    MaxPartsPerDisk = 3
    MaxDepth = 4
    IntMax = 15
    UintMax = 31
    Int64Max = 63
    Uint64Max = 127
    MaxPlanDisks = 2
    MaxPlanParts = 2
    DialogWidth = 4
    DialogLines = 12
    ListPage = 2
    TextSize = 6
    GroupSize = 2
    MaxChanges = 2
    MaxChoices = 4
    PackageFiles <- MCPackageFiles
    PlanFiles <- MCPlanFiles
    SessionFiles <- MCSessionFiles
    DeviceTrees <- MCDeviceTrees
    Devices <- MCDevices
    Warnings <- MCWarnings
INVARIANTS
    ProgramTypeOK
    InventoryIsWhole
    PlanIsReadAsWritten
    PackageFileReplacedOnlyWhenAgreed
    PlanOutlivesScript
    InstalledIsShownAndResolved
    NoLateSurprise
    FinishedSystemBoots
    DialogsStayInBounds
PROPERTY CallReturns
CHECK_DEADLOCK FALSE
