CONSTANTS
  Producer = {p1, p2}
  Consumer = {c1, c2}
  BUFFER_SIZE = 2
  IntRange = 3
  Free = Free
  Nothing = Nothing
SPECIFICATION FairSpec
INVARIANTS TypeOK NoError Accounting SlotStable
PROPERTIES ImplementsStack ItemsFlow
