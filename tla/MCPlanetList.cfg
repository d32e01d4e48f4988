CONSTANTS
  r1 = r1
  r2 = r2
  Request = {r1, r2}
  NameOf <- OwnNames
  LifeOf <- LifeTwo
  Thread = {t1, t2}
  Node = {n1, n2}
  HeadNode = HeadNode
  NULL = NULL
  Wild = Wild
  FreshNext <- AnyBits
  Drawer = Drawer
  Free = Free
SPECIFICATION FairSpec
INVARIANTS ListIntact LockedWalksSafe OwnPlanetStays OnlyRemovalHurts
PROPERTY PlanetMoves
