SPECIFICATION Spec
CONSTANTS
  ann = ann
  ben = ben
  elsewhere = elsewhere
  R = R
  U = U
  M = M
  Nodes <- MCNodes
  Links <- MCLinks
  Bundles <- MCBundles
  TypeOf <- MCTypeOf
  RecipientOf <- MCRecipientOf
  AuthorOf <- MCAuthorOf
  Known <- MCKnown
  Nobody = Nobody
  Ttl = 0
  HighWater = 0
  MaxHandIns = 2
  MaxFaults = 1
  MaxTime = 1
INVARIANTS
  TypeOK
  NothingVanishes
  RevocationsFirst
PROPERTIES
  StormEnds
CHECK_DEADLOCK FALSE
