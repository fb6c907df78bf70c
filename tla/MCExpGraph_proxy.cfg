CONSTANTS
    MaxId = 4
    MaxHeld = 1
    Ops <- ProxyOps
    ProxyKinds <- BvProxyKinds
    MatchFreedIds = FALSE
SPECIFICATION Spec
CHECK_DEADLOCK FALSE
INVARIANTS
    RefConservation
    NoDangling
    NoGarbage
    UniqueTableExact
