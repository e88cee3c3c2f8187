CONSTANTS
  Observers = {1, 2}
  Verdicts = {"replace", "pass", "not_json", "uncaught"}
  Trickling = {2}
  Chatty = {2}
  MaxPublished = 3
  MaxWire = 2
SPECIFICATION Spec
CHECK_DEADLOCK FALSE
INVARIANTS ReplyAnswersItsMessage ReplyFromItsReader SocketsOwned
PROPERTIES PublishEnds
