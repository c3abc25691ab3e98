CONSTANTS
  Requests = {r1}
  Viewers = {alice}
  Nobody = Nobody
  Routes = {"latest", "export"}
  InProject = TRUE
  LatestMaxAge = 1
  MaxVersion = 1
SPECIFICATION Spec
INVARIANTS TypeOK SharedCacheIsPublic OutsidersLearnNothing LatestIsRecent
