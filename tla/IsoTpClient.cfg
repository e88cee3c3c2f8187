CONSTANT MaxRequests = 4
SPECIFICATION Spec
CHECK_DEADLOCK FALSE
INVARIANTS
  WrongAnswerOnlyAfterFailure AnswerFollowsDrain
PROPERTIES RequestsReturn AnswersInTurn
