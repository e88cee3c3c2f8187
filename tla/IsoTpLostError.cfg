CONSTANT MaxRequests = 2
SPECIFICATION Spec
CHECK_DEADLOCK FALSE
PROPERTIES ClearsWhatItRaises
