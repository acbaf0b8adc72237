SPECIFICATION Spec
CONSTANTS
    MaxDisks    <- MCMaxDisks
    Tails       <- MCTails
    Sizes       <- MCSizes
    Memories    <- MCMemories
    Edits       <- MCEdits
    KeptLayouts <- MCKeptLayouts
INVARIANTS
    TypeOK
    ValidatedPlanIsBuilt
    ListedInMountOrder
CHECK_DEADLOCK FALSE
