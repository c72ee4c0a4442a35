CONSTANTS
    j1 = j1
    Jobs <- MCJobs
    MaxAttempts = 2
    Deployments <- OneReload
    RuntimeLimit = 3
SPECIFICATION Spec
INVARIANTS InFlightContinues
CHECK_DEADLOCK FALSE
