SPECIFICATION Spec
CONSTANTS
  f1 = f1
  f2 = f2
  f3 = f3
  main = main
  each = each
  foo = foo
  InsertedParent = InsertedParent
  NoFiber = NoFiber
  Fibers = {f1, f2, f3}
  Methods = {main, each}
  CMethods = {each}
  Excluded = {main}
  Untraced = {f3}
  Home <- HomeMain
  Uses = {"yield", "restart", "pause", "resume block", "profile block"}
  Ticks = {1}
  MaxTime = 5
  MaxDepth = 3
CHECK_DEADLOCK FALSE
INVARIANTS
  StoppedIsIdle
