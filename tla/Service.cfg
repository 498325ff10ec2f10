SPECIFICATION Spec
CONSTANTS
  Absent = Absent
  Mistyped = Mistyped
  Nan = Nan
  MinInterval = 2
  MaxInterval = 6
  DefaultInterval = 3
  DefaultTimeout = 1
  WatchdogSec = 15
  Files <- Mistakes
  Attempts = 3
INVARIANTS
  ServiceTypeOK
  WedgeIsBounded
  NothingElseSlipsThrough
  NothingInsideAClosedStore
PROPERTIES
  CalmIsNeverKilled
  UnhealthyEnds
  StartEnds
  StopEnds
  ImplementsUnit
