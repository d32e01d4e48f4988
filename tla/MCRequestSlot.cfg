CONSTANTS
  Client = {c1, c2}
  BUFFER_SIZE = 2
  MAXMSG = 2
  MaxRequests = 2
  MaxEnds = 2
  Unnamed = Unnamed
SPECIFICATION FairSpec
INVARIANTS NoExtraTokens RoomInSlot TokensAreRequests OnlyEndsLoseTokens
PROPERTY RequestsArrive
