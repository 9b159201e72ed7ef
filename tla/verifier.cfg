CONSTANTS
  Requests = {r1, r2}
  ChallengeIds = {c1, c2}
  Nonces = {n1, n2}
  c1 = c1
  c2 = c2
  n1 = n1
  n2 = n2
  None = None
  Issuers <- MCIssuers
  Keys <- MCKeys
  Policy <- MCPolicy
  Presentations <- MCPresentations
  TrustedIssuer = "gov"
  Audience = "site"
  Ttl = 1
  MaxTime = 2
  MaxRestarts = 1
SPECIFICATION FairSpec
INVARIANTS
  TypeOK
  OneGrantPerChallenge
  OneGrantPerToken
  TokenBurnedOnlyByGrant
  GrantedInsideBothWindows
PROPERTIES
  ImplementsGate
  BurnedStaysBurned
  EveryRequestAnswered
