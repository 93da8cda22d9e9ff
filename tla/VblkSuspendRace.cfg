CONSTANTS
  Reqs = {r1, r2}
  Ioctls = {}
  Bad = {}
  None = none
  Nframes = 2
  MaxRequests = 2
  MaxIoctl = 1
  U32Mod = 4
  ServerErrors = FALSE
  StoreBuffer = FALSE
  MaxSuspends = 1
SPECIFICATION Spec
INVARIANT SuspendedIsQuiet

CHECK_DEADLOCK FALSE
