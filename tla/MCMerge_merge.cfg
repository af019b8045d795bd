SPECIFICATION Spec
CONSTANTS
  a = a
  b = b
  NumFibers = 3
  MaxNodes = 3
  Results <- SmallResults
  Uses = {"methods", "table"}
  MaxCalls = 2
CHECK_DEADLOCK FALSE
INVARIANTS
  TypeOK
  MethodsListTheirCallTrees
  GraphFromBothSides
  CallersAccountForCalls
  MinDepthIsLeastDepth
  MethodsCacheIsFresh
PROPERTIES
  ImplementsSums
