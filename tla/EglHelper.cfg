SPECIFICATION Spec
CONSTANTS
  Windows = {w1, w2}
  Surfaces = {e1, e2}
  Contexts = {g1, g2, g3}
  FirstContext = g1
  None = none
  MaxFaults = 3
INVARIANTS
  SurfaceOwned
  SurfaceOfWindow
  NamesOfContext
PROPERTIES
  CallsReturn
  ImplementsDrawTarget
CHECK_DEADLOCK FALSE
