SPECIFICATION Spec
CONSTANTS
  Surfaces = {s1, s2}
  Buffers = {b1}
  None = none
  TexIds = {1, 2, 3}
  MaxFrames = 1
  MaxWindows = 1
INVARIANTS
  TypeOK
  RedrawScheduled
  ValidTexturesLive
  FrameAnsweredOnce
PROPERTIES
  RedrawHappens
CHECK_DEADLOCK FALSE
