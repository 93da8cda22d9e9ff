CONSTANTS
  A = a
  B = b
  Nframes = 2
  CounterMod = 6
  Payload = {x, y}
  NoPayload = none
  Resetters = {a, b}
  Rebooters = {}
  HastyReset = FALSE
SPECIFICATION Spec
SYMMETRY Symmetry
INVARIANTS
  TypeOK
  NoFrameRace
  CopiedInOrder
  CountersNotInUse
PROPERTY QueueSpec
