SPECIFICATION Spec
CONSTANTS
  Args <- FewArgs
  Locals <- FewLocals
  MaxStack = 5
  MaxNest = 5
INVARIANTS
  CallsTypeOK
  PointersLive
  FramesAreApart
  CallersOperandsKept
  NothingStaleOnStack
CHECK_DEADLOCK FALSE
