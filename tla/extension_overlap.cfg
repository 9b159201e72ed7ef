CONSTANTS
  Handlers = {h1, h2}
  Tabs = {t1}
  Sites = {siteA}
  Challenges = {chA, chB}
  Audience <- MCOneAudience
  Eligible <- MCAnyEligible
  ImportFiles <- MCImportFiles
  MintNonces <- MCMintNonces
  Batch = 1
  Threshold = 2
  None = None
  siteA = siteA
  siteB = siteB
  chA = chA
  chB = chB
  i1 = i1
  m1 = m1
SPECIFICATION Spec
INVARIANT DisjointTokens
