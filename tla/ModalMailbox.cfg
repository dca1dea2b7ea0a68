CONSTANTS
  s1 = s1
  u1 = u1
  u2 = u2
  quit = quit
  NoMessage = NoMessage
  Messages <- FourMessages
  Safe = {s1}
  Quits = {quit}
  Slots = 2
  Batch = 1
SPECIFICATION LiveSpec
INVARIANTS NotStranded NothingLeftDeferred
PROPERTIES ImplementsLine KeepsMoving AllHandled
CHECK_DEADLOCK FALSE
