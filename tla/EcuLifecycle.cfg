CONSTANT MaxStarts = 3
SPECIFICATION Spec
CHECK_DEADLOCK FALSE
INVARIANTS OneServeThread StartReturnsServing StopReleases
PROPERTIES CallsReturn StartIsAnswered KeepsPromise
