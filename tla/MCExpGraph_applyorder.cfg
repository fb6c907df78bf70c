CONSTANTS
    MaxId = 6
    MaxHeld = 1
    Ops <- ApplyOrderOps
    ProxyKinds <- BvProxyKinds
    MatchFreedIds = FALSE
SPECIFICATION Spec
CHECK_DEADLOCK FALSE
INVARIANTS
    ParentListOrder
