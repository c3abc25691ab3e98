CONSTANTS
  Reads = {r1, r2}
  Urls = {u1}
  Capacity = 1
  MaxVersion = 1
  MaxGeneration = 1
  NoUrl = NoUrl
SPECIFICATION Spec
INVARIANTS RotatingReadsNeverRace
CHECK_DEADLOCK FALSE
