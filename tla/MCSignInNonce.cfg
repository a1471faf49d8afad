SPECIFICATION Spec
CONSTANTS
  Identities = {i}
  Signers = {i}
  Elsewhere = {}
  Chains <- MCChains
  Forged = "forged"
  Enrol = "enrol"
  Revoke = "revoke"
  Heads = {"note"}
  NoWant = NoWant
  Requests = {r, s}
  MaxPending = 1
  MaxSources = 1
  MaxAttempts = 1
  MaxFailures = 1
  MaxRenewals = 1
  MaxLoad = 4
INVARIANT NonceBuysOneCode
CHECK_DEADLOCK FALSE
