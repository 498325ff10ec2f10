SPECIFICATION CheckSpec
CONSTANTS
  Absent = Absent
  Mistyped = Mistyped
  Nan = Nan
  MinInterval = 1
  MaxInterval = 3
  DefaultInterval = 2
  DefaultTimeout = 1
  WatchdogSec = 3
  Files <- DefaultFile
  Attempts = 3
PROPERTIES
  HealthcheckIsRight
