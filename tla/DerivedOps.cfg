CONSTANTS
    MaxWidth = 5
    MaxExt = 2
    MaxArrayW = 2
SPECIFICATION Spec
\* one constructor call, then the caller holds its result
CHECK_DEADLOCK FALSE
INVARIANTS
    TypeOK
    LogicCorrect
    CompareCorrect
    MulOverflowCorrect
    OverflowCorrect
    ShiftCorrect
    SignedDivCorrect
    ArrayCorrect
