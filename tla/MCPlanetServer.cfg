CONSTANTS
  r1 = r1
  c1 = c1
  c2 = c2
  Request = {r1, r2}
  NameOf <- OwnNames
  LifeOf <- LifeNone
  Thread = {t1, t2}
  Node = {n1, n2}
  HeadNode = HeadNode
  NULL = NULL
  Wild = Wild
  FreshNext <- OnlyNULL
  Drawer = Drawer
  Free = Free
  Client = {c1, c2}
  Asker <- Askers
  m1 = m1
  m2 = m2
  Mailslot = {m1, m2}
  Names <- Apart
  Closed = Closed
  BUFFER_SIZE = 2
  MAXMSG = 2
SPECIFICATION ServerSpec
SYMMETRY Symmetry
INVARIANT LeaverTold
