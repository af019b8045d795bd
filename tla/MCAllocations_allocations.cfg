SPECIFICATION Spec
CONSTANTS
  main = main
  foo = foo
  bar = bar
  each = each
  rb = rb
  p1 = p1
  p2 = p2
  InsertedParent = InsertedParent
  Imemo = Imemo
  NoFile = NoFile
  Methods = {main, foo, bar, each}
  CMethods = {each}
  Sources <- SourceFile
  Profiles = {p1, p2}
  AllocationMode = {p1, p2}
  Tracking = {}
  Classes <- Slots
  Home <- HomeMain
  MaxDepth = 4
  MaxSteps = 4
SYMMETRY Interchangeable
CHECK_DEADLOCK FALSE
INVARIANTS
  TypeOK
  NeverOvercounted
  CountedWhereMade
  AloneMeasuresExactly
