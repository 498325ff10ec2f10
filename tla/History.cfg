SPECIFICATION Spec
CONSTANTS
  Days = 3
  MaxEvents = 2
  ShortestDay = 2
  LongestDay = 4
  NominalDay = 3
  Earlier = 1
  MajorOutage = 2
INVARIANTS
  TypeOK
  OrdinaryDaysAreExact
  IncidentsMatchTheLog
  ColoursMatchTheLog
PROPERTIES
  Terminates
