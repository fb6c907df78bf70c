CONSTANTS
    MaxId = 5
    MaxHeld = 1
    Ops <- OpenLambdaOps
    ProxyKinds <- BvProxyKinds
    MatchFreedIds = FALSE
SPECIFICATION Spec
CHECK_DEADLOCK FALSE
INVARIANT
    AlphaShared
