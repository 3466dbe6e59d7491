SPECIFICATION Spec
CONSTANTS
  Clients = {c1, c2}
  Slots = {s1, s2}
  None = none
  Devices = {"pointer", "touch"}
  Ids = {i1}
  Outputs = {}
  Fingers = {f1}
INVARIANT RolesLive
CHECK_DEADLOCK FALSE
