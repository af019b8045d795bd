SPECIFICATION Spec
CONSTANTS
  s1 = s1
  l1 = l1
  b1 = b1
  b2 = b2
  b3 = b3
  x = x
  y = y
  Garbage = Garbage
  Stacks = {s1}
  Lists = {l1}
  Blocks = {b1, b2, b3}
  Value = {x, y}
  InitialSize = 1
  MaxLength = 3
CHECK_DEADLOCK FALSE
INVARIANTS
  TypeOK
  PointersFit
  ElementsWritten
PROPERTIES
  ImplementsSequences
