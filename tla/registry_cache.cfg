CONSTANTS
  Handlers = {h1, h2}
  Roots = {root1, root2}
  Registries <- MCRegistries
  IssuerKeys = {key1, key2}
  Origins = {site1, site2}
  Enrollments = {enrollment1}
  Advertises <- MCAdvertises
  Ttl = 0
  MaxTime = 1
  None = None
  root1 = root1
  root2 = root2
  key1 = key1
  key2 = key2
  site1 = site1
  site2 = site2
SPECIFICATION OnboardingSpec
CONSTRAINT FewSent
SYMMETRY HandlerSymmetry
INVARIANTS
  TypeOK
  CacheIsVerified
  MintsAreApproved
  EnrolledAsStarted
PROPERTIES
  CacheNeverRollsBack
  IssuersKept
