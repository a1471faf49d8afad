SPECIFICATION Spec
CONSTANTS
  mail = mail
  phone = phone
  abroad = abroad
  holder = holder
  inbox = inbox
  number = number
  far = far
  Claims <- MCClaims
  KindOf <- MCKindOf
  OwnerOf <- MCOwnerOf
  AddressOf <- MCAddressOf
  Chains <- MCChains
  Limit <- MCLimit
  JobIds <- MCIds
  GatewayIds <- MCIds
  NoChain = NoChain
  MaxRequests = 2
  MaxPending <- MCMaxPending
  MaxAttempts = 1
  CodeTtl = 1
  RateWindow = 1
  Numbers = {number}
  LeaseSeconds = 0
  MaxLeases = 2
  MaxQueue = 1
  Batch = 2
  KeepJobs = 0
  GatewayMask = {number}
  MaxSms = 1
  MaxPerNumber = 1
  SmsWindow = 1
  KeepIds = 1
  Allowed = {number}
  MaxTime = 2
  MaxRestarts = 1
INVARIANTS
  TypeOK
  SentAtMostOnce
  BudgetHolds
  SentWasTaken
  RefusedNeverLeft
PROPERTIES
  KeepsPromise
  BoughtByNewestCode
  OthersLeaveItAlone
CHECK_DEADLOCK FALSE
