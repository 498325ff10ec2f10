SPECIFICATION Spec
CONSTANTS
  Keys <- OneKey
  Infos = {i1}
  Sources = {"register", "self"}
  None = None
  MaxTime = 6
  MaxCount = 1
  MaxServiceId = 1
  MaxEventId = 5
  Interval = 1
  Retention = 3
  SelfKey = None
  RegisterUntil = 1
  MayCutShort = FALSE
  MayRemoveLive = FALSE
INVARIANTS
  PruningKeepsTheColour
