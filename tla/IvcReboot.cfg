CONSTANTS
  A = a
  B = b
  Nframes = 2
  CounterMod = 6
  Payload = {x}
  NoPayload = none
  Resetters = {a, b}
  Rebooters = {a, b}
  HastyReset = TRUE
SPECIFICATION Spec
INVARIANTS
  PositionsAgree
