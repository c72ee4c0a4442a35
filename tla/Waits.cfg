CONSTANTS
    c1 = c1
    c2 = c2
    Requests <- MCRequests
    Deployments <- MCDeployments
    JobLimit = 3
    Publishers = {p, q}
    Clients = {client}
    Capacity = 2
    Buffer = 2
    MaxEvents = 4
SPECIFICATION MCSpec
CHECK_DEADLOCK FALSE
INVARIANTS CallsSound StreamFaithful
PROPERTIES NobodyStuck
