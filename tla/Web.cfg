SPECIFICATION WebSpec
CONSTANTS
  Keys <- TwoKeys
  Infos = {i1}
  Sources = {"register", "self"}
  None = None
  MaxTime = 2
  MaxCount = 1
  MaxServiceId = 1
  MaxEventId = 2
  Interval = 1
  Retention = 2
  SelfKey = 2
  RegisterUntil = 1
  MayCutShort = FALSE
  MayRemoveLive = FALSE
  Requests = {q1}
  PageTime = 1
  Staleness = 0
INVARIANTS
  RowsWereVetted
PROPERTIES
  PageShowsOwnHistory
  BannerMatchesStrips
  Spec
