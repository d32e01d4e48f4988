CONSTANTS
  r1 = r1
  Request = {r1, r2}
  NameOf <- OwnNames
  LifeOf <- LifeOne
  Thread = {t1, t2}
  Node = {n1, n2}
  HeadNode = HeadNode
  NULL = NULL
  Wild = Wild
  FreshNext <- AnyBits
  Drawer = Drawer
  Free = Free
SPECIFICATION FelixSpec
SYMMETRY Symmetry
INVARIANTS SerialUpdatesSafe AddsOnlyLose
