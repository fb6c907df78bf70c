CONSTANT MaxArgc = 16
SPECIFICATION Spec
CHECK_DEADLOCK FALSE
INVARIANTS
    TypeOK
    ChainFlattens
    ChainMinimal
    ChainOwnership
