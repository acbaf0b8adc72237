SPECIFICATION Spec
CONSTANTS
    MaxDisks    <- MCMaxDisks
    Tails       <- MCTails
    Sizes       <- MCSizes
    Memories    <- MCMemories
    Edits       <- MCEdits
    KeptLayouts <- MCKeptLayouts
INVARIANTS
    AcceptedLayoutIsNotRefused
CHECK_DEADLOCK FALSE
