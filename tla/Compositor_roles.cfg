SPECIFICATION TidySpec
CONSTANTS
  Clients = {c1, c2}
  Slots = {s1, s2, s3}
  None = none
  Devices = {"pointer", "touch"}
  Ids = {i1, i2}
  Outputs = {o1, o2}
  Fingers = {f1}
INVARIANTS
  TypeOK
  RolesLive
  FocusOnToplevel
  OutputPointerLive
PROPERTY ContactsLostElsewhere
CONSTRAINT FewTouches
SYMMETRY CompositorSymmetry
CHECK_DEADLOCK FALSE
