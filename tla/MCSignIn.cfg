SPECIFICATION Spec
CONSTANTS
  Identities = {i, j}
  Signers = {i}
  Elsewhere = {j}
  Chains <- MCChains
  Forged = "forged"
  Enrol = "enrol"
  Revoke = "revoke"
  Heads = {"note"}
  NoWant = NoWant
  Requests = {r}
  MaxPending = 1
  MaxSources = 1
  MaxAttempts = 2
  MaxFailures = 1
  MaxRenewals = 1
  MaxLoad = 6
INVARIANTS
  TypeOK
  HeldIffFetching
  ArrivalIsAnswered
PROPERTIES
  ApprovedIsFinal
  RevokedNeverSignIn
  PendingEnds
CHECK_DEADLOCK FALSE
