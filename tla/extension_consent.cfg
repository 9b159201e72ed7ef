CONSTANTS
  Handlers = {h1}
  Tabs = {t1}
  Sites = {siteA, siteB}
  Challenges = {chA, chB}
  Audience <- MCAudience
  Eligible <- MCEligible
  ImportFiles <- MCImportFiles
  MintNonces <- MCMintNonces
  Batch = 1
  Threshold = 2
  None = None
  siteA = siteA
  siteB = siteB
  chA = chA
  chB = chB
  i1 = i1
  m1 = m1
SPECIFICATION Spec
INVARIANT ReleasedAsConsented
