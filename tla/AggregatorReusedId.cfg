SPECIFICATION Spec
CONSTANTS
  Keys <- TwoKeys
  Infos = {i1}
  Sources = {"register", "self"}
  None = None
  MaxTime = 5
  MaxCount = 1
  MaxServiceId = 2
  MaxEventId = 3
  Interval = 1
  Retention = 3
  SelfKey = None
  RegisterUntil = 0
  MayCutShort = FALSE
  MayRemoveLive = TRUE
PROPERTIES
  ResultsLandOnTheirService
