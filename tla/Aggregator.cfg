SPECIFICATION Spec
CONSTANTS
  Keys <- TwoKeys
  Infos = {i1}
  Sources = {"register", "self"}
  None = None
  MaxTime = 5
  MaxCount = 1
  MaxServiceId = 2
  MaxEventId = 3
  Interval = 1
  Retention = 3
  SelfKey = 2
  RegisterUntil = 0
  MayCutShort = FALSE
  MayRemoveLive = FALSE
INVARIANTS
  AggregatorTypeOK
  HonestGaps
  EventsInOrder
  LiveMatchesStrip
  NothingFromTheFuture
  HistoryHasItsService
  RowIsCoherent
  StateIsLogged
PROPERTIES
  NobodyIsLiveAfterAGap
  ResultsLandOnTheirService
  FreshRowHasNoPast
  ChangeIsLoggedOnce
