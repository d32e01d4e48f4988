CONSTANTS
  Producer = {p1, p2}
  Consumer = {c1, c2}
  BUFFER_SIZE = 5
  MaxDrift = 2
SPECIFICATION OldFairSpec
INVARIANT InBounds
PROPERTY BothGoOn
CHECK_DEADLOCK FALSE
