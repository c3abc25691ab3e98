CONSTANTS
  p = p  q = q  r = r
  d1 = d1  d2 = d2  d3 = d3  dq = dq  dr = dr
  stable = stable  empty = empty  all = all
  None = None
  Loads = {l1, l2, l3}
  Coordinates = {p, q, r}
  Documents = {d1, d2, d3, dq, dr}
  Root <- MCRoot
  Deps <- MCDeps
  Malformed = {d3}
  Latest <- MCLatest
  Versions = {d1, d2, d3}
  Channels = {all, stable, empty}
  Sources <- MCSources
  BatchSize = 2
  MaxNodes = 4
  MaxEdges = 2
  MaxSequence = 2
SPECIFICATION FairSpec
INVARIANTS TypeOK NewestLoadRules FailedExpansionCanBeRetried
  DocumentsFitWhole ComposedIsTrue
PROPERTIES StatusSettles
CHECK_DEADLOCK FALSE
