SPECIFICATION FairSpec
CONSTANTS
  s1 = s1
  s2 = s2
  d1 = d1
  Subs = {s1, s2, d1}
  Side = {d1}
  NoSub = NoSub
  Chans = {1, 2, 3}
  NoChan = 0
  Requests = {1, 2}
  NoRequest = 0
  Scenarios <- MCScenarios
  Headers <- MCHeaders
  MaxInt = 7
  MinRetryDelay = 1
  RetryAfterCap = 3
  MaxResponseBytes = 2
  MaxRetryAfter = 50
  RetryBudget = 7
  LastAttempt = 4
  MaxFaults = 1
INVARIANTS NilReachesSubscribers DivertedOrTold
PROPERTIES SendEnds PaceNeverPicksUp WholeReply
CHECK_DEADLOCK FALSE
