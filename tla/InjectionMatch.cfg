CONSTANTS
  InitialSession = 1
  Dids <- NoDids
  SecurityLevels <- NoLevels
  Dtcs <- NoList
  FailureInjections <- NoList
  Lists <- MCLists
  Services = {34}
  Selectors <- MCSelectors
SPECIFICATION Spec
CHECK_DEADLOCK FALSE
INVARIANT ReturnsMatch
