SPECIFICATION FairSpec
CONSTANTS
  Workers = {w1, w2, w3}
  Ingresses = {i1, i2}
  Threshold = 2
  Plugins <- MCPlugins
INVARIANTS
  OneProbePerCycle
  NoMissedWakeup
PROPERTIES
  NoWedge
