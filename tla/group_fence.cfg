SPECIFICATION Spec
CONSTANTS
  k1 = k1
  Keys = {k1}
  Msgs = {m1, m2}
  MaxGroups = 1
  Engines = {"postgres"}
  Cases = {"residual"}
  Case <- MCCase
  h1 = h1
  h2 = h2
  reaper = reaper
  p1 = p1
  p2 = p2
  Handlers = {h1, h2}
  Reapers = {reaper}
  Owner <- MCOwner
  MaxFaults = 2
  NoKey = NoKey
  NoMsg = NoMsg
  NoOwner = NoOwner
INVARIANT NeverALoss
