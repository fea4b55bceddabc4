SPECIFICATION FairSpec
CONSTANTS
  Callers = {c1, c2}
  Ids = {i1, i2}
  Replies = {r1, r2, r3}
  None = None
INVARIANTS
  NothingLeftBehind
  OwnReply
PROPERTIES
  ExchangeReturns
