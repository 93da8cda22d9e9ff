CONSTANTS
  f1 = f1
  f2 = f2
  f3 = f3
  Fence = {f1, f2, f3}
  None = none
  CounterMod = 10
  Start = 8
  Ahead = 2
  MaxIncr = 2
  MaxSuspends = 1
  HotSuspend = FALSE
  QuietRelease = TRUE
  Scenarios <- Mixes
SPECIFICATION DoorbellSpec
INVARIANTS
  TypeOK
  RefsExact
  Armed
  ErrorInTime
PROPERTIES
  ShadowForward
  TimelineSpec
  FencesEnd
  AllHeard
CHECK_DEADLOCK FALSE
