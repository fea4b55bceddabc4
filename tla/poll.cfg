SPECIFICATION FairSpec
CONSTANTS
  Rows = {r1, r2, r3, r4}
  Workers = {w1, w2}
  MaxInFlight = 2
  PollMaxBatch = 2
  MaxExcess = 1
  NoRow = NoRow
INVARIANTS
  CreditsAccounted
  HandOffNeverBlocks
  NothingForgotten
PROPERTIES
  ShutdownCompletes
