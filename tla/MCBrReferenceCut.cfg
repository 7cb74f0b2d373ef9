SPECIFICATION Spec
CONSTANT MaxCalls <- MCMaxCalls
PROPERTY CutOnlyAtZero
CHECK_DEADLOCK FALSE
