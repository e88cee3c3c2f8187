CONSTANTS
  MaxInbox = 3
  MaxTimeout = 3
  MaxTasks = 2
SPECIFICATION Spec
CHECK_DEADLOCK FALSE
INVARIANTS TypeOK NothingOutlivesTest ClientEndsFirst PollLooksAfterSleep
PROPERTIES WaitLosesNothing WaitsEnd
