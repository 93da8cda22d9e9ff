CONSTANTS
  Reqs = {r1, r2, r3}
  Ioctls = {r3}
  Bad = {r2}
  None = none
  Nframes = 2
  MaxRequests = 2
  MaxIoctl = 1
  U32Mod = 4
  ServerErrors = FALSE
  StoreBuffer = FALSE
  MaxSuspends = 1
SPECIFICATION Spec
PROPERTIES SuspendedSubmitsNothing RequestsEnd SuspendReturns
CHECK_DEADLOCK FALSE
