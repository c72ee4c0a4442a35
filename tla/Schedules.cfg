SPECIFICATION SchedulesSpec
CONSTANTS
    Command = {"poll", "sync"}
    TickInterval = 1
    CatchUpMax = 2
    Deployments <- MCDeployments
    JobLimit = 3
    NoZone = NoZone
CHECK_DEADLOCK FALSE
INVARIANTS BreakerExplained FiresOnce CronAsWritten
PROPERTIES SuccessSpacing BreakerObeyed OneShotFires
