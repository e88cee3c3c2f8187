CONSTANTS
  Observers = {1}
  Verdicts = {"replace"}
  Trickling = {1}
  Chatty = {}
  MaxPublished = 1
  MaxWire = 1
SPECIFICATION Spec
CHECK_DEADLOCK FALSE
PROPERTIES NoObserverBlocks
