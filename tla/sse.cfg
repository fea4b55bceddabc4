SPECIFICATION FairSpec
CONSTANTS
  c1 = c1
  c2 = c2
  Slots <- MCSlots
  NoSlot = NoSlot
  Invalid = {2}
  Anon = {4}
  Big = {5}
  ReconnectMin = 1
  ReconnectMax = 3
  MaxEvents = 5
  MaxConns = 1
  ConnBuffer = 1
  ReplaySize = 2
  MaxWire = 3
  Retries <- MCRetries
  MaxFaults = 2
INVARIANTS
  AtMostOnce
  ResumeIsGapless
PROPERTIES
  CloseEnds
CHECK_DEADLOCK FALSE
