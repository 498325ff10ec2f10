SPECIFICATION Spec
CONSTANTS
  Days = 2
  MaxEvents = 1
  ShortestDay = 2
  LongestDay = 4
  NominalDay = 3
  Earlier = 1
  MajorOutage = 2
INVARIANTS
  CellsMatchTheLog
