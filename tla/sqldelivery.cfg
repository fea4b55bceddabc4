SPECIFICATION FairSpec
CONSTANTS
  Msgs = {m1, bad}
  Sessions = {w1, w2, app}
  Workers = {w1, w2}
  Sender = app
  Corrupt = {bad}
  Nobody = Nobody
  Engines = {"mysql", "postgres"}
  MaxEpoch = 4
  MaxFaults = 3
INVARIANTS GoneHadEffect EffectOnce OutboxAtomic DialectsAgree
PROPERTY Delivered
CHECK_DEADLOCK FALSE
