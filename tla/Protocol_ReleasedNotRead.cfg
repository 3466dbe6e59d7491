SPECIFICATION PSpec
CONSTANTS
  Surfaces = {s1}
  Buffers = {b1, b2}
  None = none
  TexIds = {1, 2, 3}
  MaxFrames = 0
  MaxWindows = 2
PROPERTY ReleasedNotRead
CHECK_DEADLOCK FALSE
