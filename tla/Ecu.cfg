CONSTANTS
  InitialSession = 1
  Dids <- MCDids
  SecurityLevels <- MCLevels
  Dtcs <- MCDtcs
  FailureInjections <- MCInjections
  Requests <- MCRequests
  MaxExchanges = 5
SPECIFICATION Spec
CHECK_DEADLOCK FALSE
INVARIANTS
  TypeOK SessionFollowsConversation GatedReads ReadsReturnLastWrite
  KeyAnswersSeed UnlockedByKey
PROPERTIES RefusalsChangeNothing
