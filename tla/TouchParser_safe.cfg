SPECIFICATION Spec
CONSTANT MaxFingers = 3
INVARIANTS
  GestureHolds
  LongPressExcludesTaps
  ClickFitsGesture
