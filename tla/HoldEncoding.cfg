SPECIFICATION Spec
CONSTANTS
  Sessions = {a, b}
  a = a
  b = b
  Layouts = {x}
  x = x
  MaxEncodings = 2
  MaxPauses = 1
INVARIANTS
  NoLateDelivery
PROPERTIES
  MethodsReturn
  PauseFollows
CHECK_DEADLOCK FALSE
