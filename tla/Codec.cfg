SPECIFICATION Spec
CONSTANTS
  Base = 2
  W16 = 2
  W32 = 4
  W64 = 4
  TypeNumber <- Numbers
  ElemSize <- Sizes
  ElemType = 1
  CONFIG_HASH = 6
  Objects <- Messages
CHECK_DEADLOCK FALSE
INVARIANTS
  TypeOK
  RoundTrip
  ShapeOrNothing
  TensorIsFilled
  NarrowedIsNotSent
