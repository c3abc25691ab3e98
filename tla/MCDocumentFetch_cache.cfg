CONSTANTS
  Reads = {r1, r2}
  Urls = {u1, u2}
  Capacity = 1
  MaxVersion = 2
  MaxGeneration = 1
  NoUrl = NoUrl
SPECIFICATION FairSpec
INVARIANTS TypeOK CacheIsStorable
  PrivateReadsTakeTurns DeliveredIsAnswered
PROPERTIES OnlyABodyHoldsReadsUp OnlyDisconnectCancels
CHECK_DEADLOCK FALSE
