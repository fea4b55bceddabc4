SPECIFICATION FairSpec
CONSTANTS
  Msgs = {m1}
  Workers = {w1, w2}
  MaxAttempts = 2
  Setups = {{"deadLetter", "byteCap"}, {"deadLetter", "invalidSink", "nativeCount", "codec", "byteCap"}, {"deadLetter", "nativeDLQ", "liveValue"}, {"deadLetter", "liveValue", "codec"}, {"invalidSink"}}
  NoMsg = NoMsg
INVARIANTS
  NoLoss
  DeadLetterAfterBudget
PROPERTIES
  EveryMessageLeaves
