SPECIFICATION Spec
CONSTANTS
  Instances = {i1, i2, i3}
  Engines = {"postgres", "mysql", "sqlite"}
  Fires = {2, 4}
  Windows = {0, 1, 2}
  Period = 2
  MaxSkew = 1
  MaxLag = 1
  MaxNow = 5
  MaxFaults = 1
  Nobody = Nobody
SYMMETRY Symmetry
INVARIANTS OneLeader SingleFire ClaimIsEmitted
CHECK_DEADLOCK FALSE
