SPECIFICATION Spec
CONSTANTS
  Args <- FewArgs
  Locals <- FewLocals
  MaxStack = 4
  MaxNest = 5
PROPERTY ProtectedCallKeepsOperands
CHECK_DEADLOCK FALSE
