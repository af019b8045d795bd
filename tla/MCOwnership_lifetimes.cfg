SPECIFICATION Spec
CONSTANTS
  p = p
  q = q
  t1 = t1
  m1 = m1
  l1 = l1
  r1 = r1
  c1 = c1
  k1 = k1
  n1 = n1
  t2 = t2
  m2 = m2
  l2 = l2
  r2 = r2
  t3 = t3
  m0 = m0
  m3 = m3
  l3 = l3
  r3 = r3
  c3 = c3
  x3 = x3
  y3 = y3
  c4 = c4
  a = a
  ka = ka
  kb = kb
  NULL = NULL
  Worlds <- AllWorlds
  Copies <- OneCopy
  Duplicates <- OneDuplicate
  MaxHeld = 2
CHECK_DEADLOCK FALSE
INVARIANTS
  TypeOK
  LinksAgree
  OneOwner
  HeldAreThere
  NothingIsLeft
PROPERTY
  PointersStayValid
  
