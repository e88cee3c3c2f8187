CONSTANTS
  Connections = {1, 2}
  Kinds = {"activate", "request", "other", "garbage"}
  Patient = {1}
  MaxSent = 2
SPECIFICATION Spec
CHECK_DEADLOCK FALSE
INVARIANTS TypeOK AnsweredInOrder ConnectionsOwned
PROPERTIES ClientsAnswered CallsReturn KeepsPromise
