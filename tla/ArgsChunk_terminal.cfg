CONSTANT MaxArgc = 16
SPECIFICATION Spec
CHECK_DEADLOCK FALSE
INVARIANT TerminalAsSpecified

