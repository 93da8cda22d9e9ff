CONSTANTS
  Clients = {c1, c2}
  NCmds = 2
  NAdmin = 1
  NRpc = 1
  Frames = 2
  MaxSuspends = 2
  Environments = {{}, {"nomem"}, {"faults"}, {"signals", "overlap"}}
SPECIFICATION Spec
INVARIANTS
  TypeOK
  OwnStatus
  OwnResponse
  NoOrphanState
  BootDoneIsTrue
  AdminAfterBootCmds
PROPERTIES
  BootCompletes
  SuspendReturns
CHECK_DEADLOCK FALSE
