CONSTANTS
  c1 = c1
  m1 = m1
  m2 = m2
  Mailslot = {m1, m2}
  Names <- Either
  Thread = {t1, t2, t3}
  Client = {c1, c2}
  Closed = Closed
  BUFFER_SIZE = 2
  MAXMSG = 2
SPECIFICATION FairSpec
INVARIANTS TokensCount NoReportLost
PROPERTY ReportsArrive
