SPECIFICATION Spec
CONSTANTS
  Targets <- ThreeTargets
  Settings <- OneRaises
PROPERTIES
  OthersAreStored
