SPECIFICATION Spec
CONSTANTS
    NumDisks = 2
    NumParts = 4
    Plans <- ActorPlans
    MaxRuns <- ActorRuns
    Interference <- ActorsOf
CHECK_DEADLOCK FALSE
INVARIANTS
    KeptDataSurvives
    KeptIsIdentifiedBeforeUse
PROPERTIES
    ForeignMountsSpared
    NothingRemovedThroughMount
    WritesAreAuthorized
