CONSTANTS
    MaxId = 5
    MaxHeld = 2
    Ops <- ApplyOps
    ProxyKinds <- BvProxyKinds
    MatchFreedIds = FALSE
SPECIFICATION Spec
CHECK_DEADLOCK FALSE
INVARIANTS
    RefConservation
    ParentListExact
    NoDangling
    NoGarbage
