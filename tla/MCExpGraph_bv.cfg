CONSTANTS
    MaxId = 3
    MaxHeld = 2
    Ops <- BvOps
    ProxyKinds <- BvProxyKinds
    MatchFreedIds = FALSE
SPECIFICATION Spec
CHECK_DEADLOCK FALSE
INVARIANTS
    TypeOK
    RefConservation
    NoDangling
    NoGarbage
    ParentListExact
    HashConsUnique
    UniqueTableExact
