CONSTANTS
    PipelineSets <- PipesMain
    Emits <- Quietly
    Values = {1, 2}
    Notify = {"r"}
    Roots = {"r"}
    Starts = {"main"}
    Failures = {"a", "r"}
    MaxJobs = 12
SPECIFICATION PipelinesSpec
CHECK_DEADLOCK FALSE
INVARIANTS  EveryStepRuns LedgerSound
