CONSTANTS
  alice = alice  o1 = o1  o2 = o2  j1 = j1  j2 = j2  k1 = k1  p1 = p1  q1 = q1
  Users = {alice}  Nobody = Nobody
  Orgs = {o1, o2}  Projects = {j1, j2, k1}  Packages = {p1, q1}
  OrgOf <- MCOrgOf
  ProjectOf <- MCProjectOf
  None = None
  Releases <- MCReleases
  PageLimit = 1
  ProjectLimit = 3
  PackageLimit = 2
  MaxChanges = 0
  ScopeLimit = 1
  Registries <- Both
  Environments <- AllEnvironments
  AttemptTime = 2
  RetryPause = 2
  DefaultWait = 4
  Unset = Unset  Malformed = Malformed
  Tabs = {t1, t2}
  Targets = {}
  Paths = {}
  MaxDepth = 12
  LoginAge = 1
  MaxCeremonies = 0
  MaxTime = 0
  NoLogin = NoLogin
SPECIFICATION Spec
INVARIANT AuthorizationIsNotPaged
CHECK_DEADLOCK FALSE
