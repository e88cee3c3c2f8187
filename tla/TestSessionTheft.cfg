CONSTANTS
  MaxInbox = 2
  MaxTimeout = 2
  MaxTasks = 1
SPECIFICATION Spec
CHECK_DEADLOCK FALSE
INVARIANT TimeoutMeansNever
