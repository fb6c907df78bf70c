CONSTANTS
    MaxId = 5
    MaxHeld = 2
    Ops <- LambdaOps
    ProxyKinds <- BvProxyKinds
    MatchFreedIds = FALSE
SPECIFICATION Spec
CHECK_DEADLOCK FALSE
INVARIANTS
    BindingConsistent
    NoGarbage
    HashConsUnique
