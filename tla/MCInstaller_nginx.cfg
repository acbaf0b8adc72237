SPECIFICATION Spec
CONSTANTS
    NumDisks = 2
    NumParts = 4
    Plans <- LocalPlans
    MaxRuns <- OneRun
    Interference <- Undisturbed
CHECK_DEADLOCK FALSE
INVARIANTS
    NginxAlwaysReaped
