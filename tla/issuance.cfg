SPECIFICATION Spec
CONSTANTS
  n1 = n1
  n2 = n2
  ph1 = ph1
  ph2 = ph2
  Nonces <- MCNonces
  Salts <- MCSalts
  Encode <- MCEncode
  r = 5
  P1 = 1
  Q1 = 3
  H <- MCH
  Tildes <- MCTildes
  CalculateDomain <- MCCalculateDomain
  HashE <- MCHashE
  ClaimScalar <- MCClaimScalar
  KeyFiles <- MCKeyFiles
  ClaimSets <- MCClaimSets
  Challenges <- MCChallenges
  MaxBatch = 2
  MaxRotations = 1
  MaxProofs = 1
CONSTRAINT OneProduct
INVARIANTS
  TypeOK
  BatchUnblinds
  TokensVerify
  TokenUnlinkable
  HonestProofAccepted
  ProofBound
  HiddenClaimsStayHidden
CHECK_DEADLOCK FALSE
