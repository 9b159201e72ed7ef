SPECIFICATION Spec
CONSTANTS
  n1 = n1
  n2 = n2
  ph1 = ph1
  ph2 = ph2
  Nonces = {}
  Salts <- MCSalts
  Encode <- MCEncode
  r = 5
  P1 = 1
  Q1 = 3
  H <- MCH
  Tildes <- MCTildes
  CalculateDomain <- MCCalculateDomain
  HashE <- MCHashE
  ClaimScalar <- MCClaimScalar
  KeyFiles <- MCKeyFiles
  ClaimSets <- MCClaimSets
  Challenges <- MCChallenges
  MaxBatch = 2
  MaxRotations = 0
  MaxProofs = 1
INVARIANT RevealsOnlyRequired
CHECK_DEADLOCK FALSE
