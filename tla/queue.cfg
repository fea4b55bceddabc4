SPECIFICATION Spec
CONSTANTS
  Msgs = {m1, m2, m3}
  Capacity = 2
  Overflows = {"block", "dropNewest", "dropOldest", "reject"}
  MaxClaim = 2
  MaxEpoch = 4
SYMMETRY Symmetry
INVARIANTS
  SlotsAccounted
  FIFO
PROPERTIES
  Implements
