SPECIFICATION FairSpec
CONSTANTS
    p1 = p1
    p2 = p2
    k1 = k1
    k2 = k2
    k3 = k3
    k4 = k4
    e1 = e1
    w1 = w1
    w2 = w2
    Plugin = {p1, p2}
    Command = {"poll", "handle"}
    Key = {k1, k2}
    NoKey = NoKey
    Event = {e1}
    NoEvent = NoEvent
    NoJob = NoJob
    NoRequest = NoRequest
    Parallelism <- Parallel
    MaxOutstandingPolls <- OnePoll
    MaxAttempts = 2
    Worker = {w1, w2}
    JobId = {1, 2}
    Ingress <- KeyedRequest
    Scheduled <- OneSchedule
    CatchUp = {}
    Policy <- Skipping
    Routed = {}
    HookOf <- NoHooks
    Failures = {"timed_out"}
    MaxStarts = 1
    MaxFaults = 0
CHECK_DEADLOCK FALSE
PROPERTIES
    QueuedFinishes
    StopEnds
