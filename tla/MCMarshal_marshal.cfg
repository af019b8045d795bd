SPECIFICATION Spec
CONSTANTS
  root = root
  one = one
  two = two
  left = left
  right = right
  deep = deep
  UnsetKey = UnsetKey
  PendingKey = PendingKey
  Trees <- AllTrees
  MaxObjects = 7
CHECK_DEADLOCK FALSE
INVARIANTS
  TypeOK
  ReferencesSurvive
  ChildrenLostOnlyToPending
PROPERTY
  EventuallyLoaded
