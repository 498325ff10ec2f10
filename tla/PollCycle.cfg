SPECIFICATION Spec
CONSTANTS
  Targets <- ThreeTargets
  Settings <- CalmAndRough
INVARIANTS
  HealthyIsNeverDown
  RequestsAreBounded
  NoPermitIsLost
PROPERTIES
  CyclesComplete
  ChecksEnd
