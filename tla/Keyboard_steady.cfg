SPECIFICATION KeyPathSpec
CONSTANTS
  Clients = {c1, c2}
  Layouts = {us, ru}
  Us = us
  None = none
  MaxStrokes = 3
  Names = {n1, n2}
  NoName = noname
  MaxKeycode = 1
  MaxLeds = 2
  MaxDepth = 1
  MaxStatements = 4
  shift = shift
  caps = caps
  level2 = level2
  level3 = level3
  next = next
  letter = letter
  Keys = {shift, caps, level2, level3, next, letter}
  NoKey = nokey
  Mods = {"Shift", "Lock", "LevelThree"}
  Lock = "Lock"
  NumGroups = 2
  KeyMap <- MCKeyMap
  MaxHeld <- MCMaxHeld
  MaxDown = 2
INVARIANTS
  ShiftAsMeant
  ShiftReleased
  KeymapSettles
  KeyNamesSound
  OverrideWins
  BaseModsHeld
  LatchBreakable
PROPERTIES
  AugmentKeeps
  LocksLostOnlyByTheirKeys
CHECK_DEADLOCK FALSE
