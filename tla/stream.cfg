SPECIFICATION FairSpec
CONSTANTS
  Msgs = {m1, m2, m3}
  Workers = {w1, w2}
  MaxInFlight = 1
  Setups <- MCSetups
  Second = 2
  NoMsg = NoMsg
INVARIANTS
  Conserved
PROPERTIES
  ShutdownCompletes
  RequeueCompletes
