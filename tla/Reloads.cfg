CONSTANTS
    j1 = j1
    Jobs <- MCJobs
    MaxAttempts = 2
    Deployments <- MCDeployments
    RuntimeLimit = 4
SPECIFICATION FairSpec
CHECK_DEADLOCK FALSE
INVARIANTS Handover NoStuckRow
PROPERTIES AllEnds
