SPECIFICATION Spec
CONSTANTS
  alice = alice
  bob = bob
  carol = carol
  dave = dave
  erin = erin
  ka = ka
  kb = kb
  kc = kc
  kd = kd
  ke = ke
  kr = kr
  phone = phone
  tablet = tablet
  laptop = laptop
  c1 = c1
  a1 = a1
  a2 = a2
  a3 = a3
  a4 = a4
  a5 = a5
  p = p
  q = q
  me = me
  x = x
  y = y
  subject = subject
  Keys <- MCKeys
  Claims = {c1}
  ClaimTypes = {"email"}
  Capabilities <- MCCapabilities
  Trustees = {}
  MaxOrder = 1
  None = None
  MaxTime = 2
  Identities <- MCIdentities
  History <- MCHistory
  Around <- MCAround
  Publisher = alice
  PublicationWindow = 1
  AttestationIds = {a1, a2, a3, a4, a5}
  Letters <- MCLetters
  Presented <- MCPresented
  Presentations <- MCPresentations
  Rule <- MCRule
  ClockSkew = 0
  MaxPerClaim = 1
  Visitor = bob
  Audiences = {"own", "other"}
  OwnAudience = "own"
  Skew = 0
  Lifetimes = {1, 2}
  MaxLifetime = 1
  SessionLifetime = 1
  JwtExpiry = 1
  RequestAge = 1
  MaxPending = 1
  MaxChallenges = 2
  MaxOpen = 2
  MaxRestarts = 1
  People = {me, x, y, subject}
  Delegable <- Pairs
  Unit = 2
  Offers <- MCOffers
  Topics = {"email", "phone"}
  AllTopics = AllTopics
  NoLimit = NoLimit
  MaxHops = 3
  Absent = Absent
  Points = {p, q}
  Named <- MCNamed
  Relayable <- MCRelayable
  Offered <- MCOffered
  Desks <- MCDocumentsOnly
  ReadBy <- MCReadBy
  Stamps <- MCStamps
INVARIANT TakenBackStaysOut
CHECK_DEADLOCK FALSE
