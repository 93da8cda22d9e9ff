CONSTANTS
  Reqs = {r1, r2}
  Ioctls = {r2}
  Bad = {}
  None = none
  Nframes = 2
  MaxRequests = 2
  MaxIoctl = 1
  U32Mod = 4
  ServerErrors = TRUE
  StoreBuffer = FALSE
  MaxSuspends = 0
SPECIFICATION Spec
INVARIANT EndedOnce

CHECK_DEADLOCK FALSE
