CONSTANT
    Deployments <- MCDeployments
SPECIFICATION Spec
CHECK_DEADLOCK FALSE
INVARIANTS ConsistentAtRest
PROPERTIES AcceptsOnlyVouched LockRestores
