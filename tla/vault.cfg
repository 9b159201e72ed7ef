CONSTANTS
  Processes = {p1, p2}
  Issuers = {"gov"}
  Nonces = {n1, n2}
  Challenges = {chA, chB}
  Eligible <- MCEligible
  Count = 1
  None = None
  n1 = n1
  n2 = n2
  chA = chA
  chB = chB
SPECIFICATION Spec
SYMMETRY ProcessSymmetry
INVARIANTS
  TypeOK
  ExportedNotReleased
PROPERTIES
  PurseUntilClobbered
  RecordsKept
