CONSTANT MaxStarts = 2
SPECIFICATION Spec
CHECK_DEADLOCK FALSE
INVARIANT StopClosesSocket
