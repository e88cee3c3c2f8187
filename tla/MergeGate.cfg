CONSTANTS
  f1 = f1
  f2 = f2
  x1 = x1
  o1 = o1
  c1 = c1
  c2 = c2
  big = big
  Contents = {c1, c2, big}
  Oversized = {big}
  Absent = Absent
  Expected = {x1}
  Elsewhere = {o1}
  Paperwork = {o1}
  FixtureSeq <- MCFixtureSeq
  FirstFiles <- MCFirstFiles
  FirstReport <- RoundedUp
  CoverageReports <- MCReports
  Radii <- MCRadii
  HandFloors <- MCHandFloors
  MaxLines = 2
  MaxEdits = 3
  MaxMerges = 2
SPECIFICATION Spec
CHECK_DEADLOCK FALSE
INVARIANTS TypeOK VouchedOrRewritten
PROPERTIES OraclesExplained  UpdateSettles LockedIn
