CONSTANTS
  A = a
  B = b
  Nframes = 1
  CounterMod = 4
  Payload = {x}
  NoPayload = none
  Resetters = {}
  Rebooters = {}
  HastyReset = FALSE
SPECIFICATION Spec
INVARIANT SubtractionSafe
