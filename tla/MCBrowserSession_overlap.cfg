SPECIFICATION Spec
CONSTANTS
  r1 = r1 r2 = r2 f1 = f1 f2 = f2 alice = alice bob = bob
  Requests <- TwoRequests
  Families <- TwoFamilies
  Users <- Principals
  Owner <- OwnerOfTwo
  Traffic <- AllButReads
  SessionMaxAge = 1
  RecheckAfter = 1
  MaxSkew = 0
  MaxTime = 0
  MaxRotations = 1
  NoCookie = NoCookie NoHandle = NoHandle Keep = Keep Never = Never
SYMMETRY Symmetry
INVARIANTS TypeOK HandleCustody SessionNotStranded VerifiedIsEarned
  MutationVerdictIsTrue CookieNamesOwner
PROPERTIES CookieNeverGoesBack HandleIsSingleUse
