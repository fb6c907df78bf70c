CONSTANTS
    MaxId = 3
    MaxHeld = 2
    Ops <- MatchOps
    ProxyKinds <- BvProxyKinds
    MatchFreedIds = TRUE
SPECIFICATION Spec
CHECK_DEADLOCK FALSE
INVARIANT
    NoDangling
