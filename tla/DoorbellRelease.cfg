CONSTANTS
  f1 = f1
  f2 = f2
  f3 = f3
  Fence = {f1, f2, f3}
  None = none
  CounterMod = 10
  Start = 8
  Ahead = 2
  MaxIncr = 2
  MaxSuspends = 0
  HotSuspend = FALSE
  QuietRelease = FALSE
  Scenarios <- Mixes
SPECIFICATION DoorbellSpec
INVARIANT NoneLeft
CHECK_DEADLOCK FALSE
