CONSTANTS
  a = a
  b = b
  NJobs = 3
  Syncpt = {a, b}
  CounterMod = 16
  Scenarios <- Scenes
SPECIFICATION Spec
INVARIANTS
  TypeOK
  SlotsAccounted
  FetchWhole
  UnpinnedUnfetched
  NothingAfterFailure
  PinnedWhileUsed
  OwnTimeout
PROPERTIES
  JobsEndHere
CHECK_DEADLOCK FALSE
