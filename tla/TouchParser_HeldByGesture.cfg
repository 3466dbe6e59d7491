SPECIFICATION Spec
CONSTANT MaxFingers = 3
INVARIANT HeldByGesture
