CONSTANTS
    NumVars = 2
    MaxId = 7
    MaxRefs = 2
    Limit = 2
    Width = 2
    ConstHash <- MCConstHash
    ConstInputs <- MCConstInputs
    SliceInputs <- MCSliceInputs
    BvInputs <- MCBvInputs
    Commutative <- MCCommutative
    NoKey = NoKey
    Proxy = Proxy
SPECIFICATION Spec
CHECK_DEADLOCK FALSE
INVARIANTS
    TypeOK
    LookupComplete
    LoadBound
PROPERTIES
    ImplementsUniqueIndex
