SPECIFICATION AuditSpec
CONSTANTS
  f1 = f1
  f2 = f2
  f3 = f3
  main = main
  each = each
  foo = foo
  InsertedParent = InsertedParent
  NoFiber = NoFiber
  Fibers = {f1, f2}
  Methods = {main, foo}
  CMethods = {}
  Excluded = {}
  Untraced = {}
  Home <- HomeMain
  Uses = {"pause", "resume block"}
  Ticks = {1}
  MaxTime = 6
  MaxDepth = 3
CHECK_DEADLOCK FALSE
INVARIANTS
  PauseMarksOnTop
  LiveTimeIsKept
