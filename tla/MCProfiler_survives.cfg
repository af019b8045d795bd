SPECIFICATION Spec
CONSTANTS
  f1 = f1
  f2 = f2
  f3 = f3
  main = main
  each = each
  foo = foo
  InsertedParent = InsertedParent
  NoFiber = NoFiber
  Fibers = {f1, f2}
  Methods = {main, foo}
  CMethods = {}
  Excluded = {}
  Untraced = {f2}
  Home <- HomeMain
  Uses = {"pause"}
  Ticks = {1}
  MaxTime = 6
  MaxDepth = 3
CHECK_DEADLOCK FALSE
INVARIANTS
  ResumeSurvives
