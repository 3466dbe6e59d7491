SPECIFICATION Spec
CONSTANTS
  Clients = {c1}
  Layouts = {us, ru}
  Us = us
  None = none
  MaxStrokes = 2
INVARIANT KeyReadAsMeant
CHECK_DEADLOCK FALSE
