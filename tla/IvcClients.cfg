CONSTANTS
  A = a
  B = b
  Nframes = 2
  CounterMod = 6
  Payload = {x}
  NoPayload = none
  Resetters = {a, b}
  Rebooters = {}
  HastyReset = FALSE
  MaxTodo = 1
  MaxResets = 2
  Senders = {a}
SPECIFICATION ClientSpec
PROPERTIES
  HandshakeCompletes
  FramesTaken
  RequestsSent
CHECK_DEADLOCK FALSE
