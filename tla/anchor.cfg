CONSTANTS
  Docs = {d1, d2}
  d1 = d1
  d2 = d2
  GeneratedAt <- MCGeneratedAt
  Publishers = {p1}
  Requests = {r1}
  MinDelay = 1
  Delay = 1
  Ttl = 1
  RpcTimeout = 1
  MaxVersion = 2
  MaxTime = 3
  None = None
  Executed = Executed
SPECIFICATION Spec
CONSTRAINTS
  OneObserver
  TwoPending
INVARIANTS
  TypeOK
  AnchorMovesForward
  PublishedIsAnchored
  ServedIsAnchored
  
  PassMeansAnchored
