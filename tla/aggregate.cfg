SPECIFICATION FairSpec
CONSTANTS
  k1 = k1
  Keys = {k1}
  Msgs = {m1, m2}
  MaxGroups = 1
  Engines = {"memory", "postgres"}
  Cases = {"pair", "residual", "full", "unkeyed", "failing"}
  Case <- MCCase
  h1 = h1
  h2 = h2
  reaper = reaper
  p1 = p1
  p2 = p2
  Handlers = {h1, h2}
  Reapers = {reaper}
  Owner <- MCOwner
  MaxFaults = 1
  NoKey = NoKey
  NoMsg = NoMsg
  NoOwner = NoOwner
INVARIANTS
  NoLoss
  
  OnceWithoutFaults
  DialectsAgree

  
