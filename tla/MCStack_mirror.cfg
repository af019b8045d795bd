SPECIFICATION StackAuditSpec
CONSTANTS
  f1 = f1
  f2 = f2
  f3 = f3
  main = main
  each = each
  foo = foo
  InsertedParent = InsertedParent
  NoFiber = NoFiber
  Fibers = {f1, f2}
  Methods = {main, each}
  CMethods = {each}
  Excluded = {main}
  Untraced = {}
  Home <- HomeMain
  Uses = {"yield", "unobserved", "restart", "profile block"}
  Ticks = {1}
  MaxTime = 5
  MaxDepth = 4
CHECK_DEADLOCK FALSE
INVARIANTS
  StackMirrorsProgram
