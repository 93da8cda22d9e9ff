CONSTANTS
  Reqs = {r1, r2, r3, r4}
  Ioctls = {r3, r4}
  Bad = {r2}
  None = none
  Nframes = 3
  MaxRequests = 3
  MaxIoctl = 2
  U32Mod = 4
  ServerErrors = FALSE
  StoreBuffer = TRUE
  MaxSuspends = 0
SPECIFICATION Spec
INVARIANTS TypeOK AnswersMatch EndedOnce IoctlBuffersDistinct

CHECK_DEADLOCK FALSE
