------------------------- MODULE SigchainLog_proofs -------------------------
(***************************************************************************)
(* Proofs about SigchainLog, for every set of keys, claims and times and   *)
(* every length of chain.                                                  *)
(***************************************************************************)
EXTENDS SigchainLog, Sigchain_proofs

-----------------------------------------------------------------------------
(* Every step appends one well-formed event that is not a genesis *)

\* The envelope itself, on top of any chain that is not empty.
LEMMA NextBaseTyped ==
    ASSUME TypeOK
    PROVE  \A signer \in Keys, t \in Nat : NextBase(signer, t) \in EventFields
  <1>1. events[Len(events)] \in EventFields
    BY DEF TypeOK, Chains, Event
  <1>2. events[Len(events)].hash \in Nat
    BY <1>1 DEF EventFields
  <1>3. Len(events) + 1 \in Nat
    BY DEF TypeOK
  <1> QED
    BY <1>2, <1>3, SigchainAssumption DEF NextBase, BaseEvent, EventFields, EventTypes

\* A step of anyone is Sigchain.append of such an event.
LEMMA StepExtends ==
    ASSUME TypeOK, Next
    PROVE  \E e \in LaterEvent : Extend(e)
  <1> DEFINE Grown == \E e \in LaterEvent : Extend(e)
  <1>1. PICK signer \in Keys :
            \/ AddDevice(signer) \/ RevokeDevice(signer) \/ RotateMaster(signer)
            \/ SetRecovery(signer) \/ SetDistribution(signer)
            \/ SocialRecovery(signer) \/ AddClaim(signer)
            \/ SetClaimOrder(signer) \/ RevokeClaim(signer)
    BY DEF Next
  <1>2. \A t \in Nat : NextBase(signer, t) \in EventFields
    BY NextBaseTyped
  <1>3. NextBase(signer, SomeTime) \in EventFields
    BY <1>2 DEF SomeTime
  <1>4. \A t \in Times : NextBase(signer, t) \in EventFields
    BY <1>2, SigchainLogAssumption
  <1>a. CASE AddDevice(signer)
    <2>1. PICK device \in Keys, caps \in DeviceGrants, expires \in Expiries :
              Extend(AddDeviceEvent(NextBase(signer, SomeTime), device, caps, expires))
      BY <1>a DEF AddDevice
    <2>2. caps \in SUBSET Capabilities /\ expires \in Nat
      BY SigchainLogAssumption
    <2> QED
      BY <2>1, <2>2, <1>3, AddDeviceTyped
  <1>b. CASE RevokeDevice(signer)
    BY <1>b, <1>3, RevokeDeviceTyped DEF RevokeDevice
  <1>c. CASE RotateMaster(signer)
    BY <1>c, <1>3, MasterKeyTyped DEF RotateMaster
  <1>d. CASE SetRecovery(signer)
    BY <1>d, <1>3, UnkeyedTyped DEF SetRecovery
  <1>e. CASE SetDistribution(signer)
    BY <1>e, <1>3, UnkeyedTyped DEF SetDistribution
  <1>f. CASE SocialRecovery(signer)
    BY <1>f, <1>3, MasterKeyTyped DEF SocialRecovery
  <1>g. CASE AddClaim(signer)
    BY <1>g, <1>4, ClaimEventTyped, SigchainLogAssumption DEF AddClaim
  <1>h. CASE SetClaimOrder(signer)
    BY <1>h, <1>4, ClaimEventTyped, SigchainLogAssumption DEF SetClaimOrder
  <1>i. CASE RevokeClaim(signer)
    BY <1>i, <1>4, RevokeClaimTyped DEF RevokeClaim
  <1> QED
    BY <1>1, <1>a, <1>b, <1>c, <1>d, <1>e, <1>f, <1>g, <1>h, <1>i

-----------------------------------------------------------------------------
(* Type correctness *)

\* One turn of the loop of verify() keeps the types of its locals.
LEMMA AdvanceTyped ==
    ASSUME NEW a \in Accumulators, NEW e \in Event
    PROVE  Advance(a, e) \in Accumulators
  <1>1. MasterAfter(a, e) \in Keys
    BY DEF MasterAfter, Accumulators, Event, MasterKeyTypes
  <1>2. e.hash \in Nat /\ e.caps \in SUBSET Capabilities /\ e.expires \in Nat
        /\ e.ctype \in ClaimTypes \cup {None}
    BY DEF Event, EventFields
  <1>3. DevicesAfter(a, e) \in [Keys -> [caps : SUBSET Capabilities, expires : Nat]]
    BY <1>2 DEF DevicesAfter, Accumulators
  <1>4. RevokedAfter(a, e) \in SUBSET Keys
    BY DEF RevokedAfter, Accumulators, Event
  <1>5. ClaimStatesAfter(a, e) \in [Claims -> {"unknown", "active", "revoked"}]
    BY DEF ClaimStatesAfter, Accumulators
  <1>6. ClaimTypesAfter(a, e) \in [Claims -> ClaimTypes \cup {None}]
    BY <1>2 DEF ClaimTypesAfter, Accumulators
  <1> QED
    BY <1>1, <1>2, <1>3, <1>4, <1>5, <1>6 DEF Advance, Accumulators

\* Identity.create() starts from a well-formed genesis.
LEMMA InitTyped ==
    ASSUME Init
    PROVE  TypeOK
  <1>1. PICK k \in Keys : LET g == GenesisEvent(1, SomeTime, k)
                          IN  events = <<g>> /\ acc = StartOf(g)
    BY DEF Init
  <1> DEFINE g == GenesisEvent(1, SomeTime, k)
  <1> DEFINE base == BaseEvent("genesis", 1, 0, SomeTime, k)
  <1>b. base \in EventFields
    BY SigchainAssumption DEF BaseEvent, EventFields, EventTypes, SomeTime
  <1>2. g \in EventFields
    BY <1>b DEF GenesisEvent, EventFields
  <1>3. g.type = "genesis" /\ g.key = k /\ g.hash = 1
    BY DEF GenesisEvent, BaseEvent
  <1>4. g \in Event
    BY <1>2, <1>3 DEF Event
  <1>5. StartOf(g) \in Accumulators
    BY <1>3 DEF StartOf, Accumulators
  <1>6. events = <<g>> /\ acc = StartOf(g)
    BY <1>1
  <1> QED
    BY <1>4, <1>5, <1>6 DEF TypeOK, Chains

\* Appending a well-formed event that verify() accepts keeps the types.
LEMMA ExtendTyped ==
    ASSUME TypeOK, NEW e \in Event, Extend(e)
    PROVE  TypeOK'
  <1>1. events' = Append(events, e) /\ acc' = Advance(acc, e)
    BY DEF Extend
  <1>2. acc' \in Accumulators
    BY <1>1, AdvanceTyped DEF TypeOK
  <1>3. events' \in Seq(Event) /\ Len(events') >= 1
    BY <1>1 DEF TypeOK, Chains
  <1> QED
    BY <1>2, <1>3 DEF TypeOK, Chains

\* The chain is a sequence of well-formed events that never becomes empty, and
\* the locals of verify() keep their types, whoever signs what.
THEOREM TypeCorrect == Spec => []TypeOK
  <1>1. Init => TypeOK
    BY InitTyped
  <1>2. TypeOK /\ [Next]_vars => TypeOK'
    <2> SUFFICES ASSUME TypeOK, [Next]_vars
                 PROVE  TypeOK'
      OBVIOUS
    <2>1. CASE Next
      BY <2>1, StepExtends, ExtendTyped DEF LaterEvent
    <2>2. CASE UNCHANGED vars
      BY <2>2 DEF vars, TypeOK
    <2> QED
      BY <2>1, <2>2
  <1> QED
    BY <1>1, <1>2, PTL DEF Spec

-----------------------------------------------------------------------------
(* Sequences that grow at the end *)

\* The prefixes of a chain are the same after an append.
LEMMA PrefixOfAppend ==
    ASSUME NEW S, NEW s \in Seq(S), NEW e \in S, NEW n \in 0 .. Len(s)
    PROVE  SubSeq(Append(s, e), 1, n) = SubSeq(s, 1, n)
  <1>1. SubSeq(Append(s, e), 1, n) \in Seq(S) /\ SubSeq(s, 1, n) \in Seq(S)
    BY AppendProperties, SubSeqProperties
  <1>2. Len(SubSeq(Append(s, e), 1, n)) = n /\ Len(SubSeq(s, 1, n)) = n
    BY AppendProperties, SubSeqProperties
  <1>3. \A i \in 1 .. n : SubSeq(Append(s, e), 1, n)[i] = SubSeq(s, 1, n)[i]
    BY AppendProperties, SubSeqProperties
  <1> QED
    BY <1>1, <1>2, <1>3, SeqEqual

\* What a step does to the chain, in terms of its elements.
LEMMA ExtendEffect ==
    ASSUME TypeOK, NEW e \in LaterEvent, Extend(e)
    PROVE  /\ events' = Append(events, e) /\ acc' = Advance(acc, e)
           /\ Len(events) \in Nat \ {0} /\ Len(events') = Len(events) + 1
           /\ DOMAIN events = 1 .. Len(events) /\ DOMAIN events' = 1 .. Len(events')
           /\ events'[Len(events')] = e
           /\ \A i \in 1 .. Len(events) : events'[i] = events[i]
           /\ \A n \in 0 .. Len(events) : Prefix(n)' = Prefix(n)
           /\ Prefix(Len(events)) = events
  <1>1. events' = Append(events, e) /\ acc' = Advance(acc, e)
    BY DEF Extend
  <1>2. e \in Event /\ events \in Seq(Event)
    BY DEF LaterEvent, TypeOK, Chains
  <1>3. /\ Len(events) \in Nat \ {0} /\ Len(events') = Len(events) + 1
        /\ DOMAIN events = 1 .. Len(events) /\ DOMAIN events' = 1 .. Len(events')
        /\ events'[Len(events')] = e
        /\ \A i \in 1 .. Len(events) : events'[i] = events[i]
    BY <1>1, <1>2 DEF TypeOK
  <1>4. \A n \in 0 .. Len(events) : Prefix(n)' = Prefix(n)
    BY <1>1, <1>2, PrefixOfAppend DEF Prefix
  <1>5. Prefix(Len(events)) = events
    BY <1>2, SubSeqFull DEF Prefix
  <1> QED
    BY <1>1, <1>3, <1>4, <1>5

-----------------------------------------------------------------------------
(* The locals of verify() and the list it walked say the same *)

LastMasterAt(c, m) ==
    /\ m \in 1 .. Len(c)
    /\ c[m].type \in MasterKeyTypes
    /\ \A i \in m + 1 .. Len(c) : c[i].type \notin MasterKeyTypes

LastGrantAt(c, k, d) ==
    /\ d \in 1 .. Len(c)
    /\ c[d].type = "add_device" /\ c[d].key = k
    /\ \A i \in d + 1 .. Len(c) : ~(c[i].type = "add_device" /\ c[i].key = k)

LastClaimAt(c, id, d) ==
    /\ d \in 1 .. Len(c)
    /\ c[d].type = "add_claim" /\ c[d].claim = id
    /\ \A i \in d + 1 .. Len(c) : ~(c[i].type = "add_claim" /\ c[i].claim = id)

RevokedAfterIndex(c, id, d) ==
    \E j \in d + 1 .. Len(c) : c[j].type = "revoke_claim" /\ c[j].claim = id

GenesisFirst == \A i \in 2 .. Len(events) : events[i].type # "genesis"

MasterTracked == \E m \in Nat : LastMasterAt(events, m) /\ acc.master = events[m].key

RevocationsTracked == \A k \in Keys : k \in acc.revoked <=> IsRevoked(events, k)

DevicesTracked ==
    \A k \in Keys : acc.devices[k].caps # {} =>
        \E d \in Nat : /\ LastGrantAt(events, k, d)
                       /\ acc.devices[k].caps = events[d].caps
                       /\ acc.devices[k].expires = events[d].expires

ClaimTracked(id) ==
    \/ ~HasClaim(events, id) /\ acc.claim_states[id] = "unknown"
    \/ \E d \in Nat :
          /\ LastClaimAt(events, id, d)
          /\ \/ RevokedAfterIndex(events, id, d) /\ acc.claim_states[id] = "revoked"
             \/ ~RevokedAfterIndex(events, id, d) /\ acc.claim_states[id] = "active"

Tracked ==
    /\ GenesisFirst
    /\ MasterTracked
    /\ RevocationsTracked
    /\ DevicesTracked
    /\ \A id \in Claims : ClaimTracked(id)

\* Before its loop verify() holds what the genesis alone determines.
LEMMA InitTracked ==
    ASSUME Init
    PROVE  Tracked
  <1>1. PICK k \in Keys : LET g == GenesisEvent(1, SomeTime, k)
                          IN  events = <<g>> /\ acc = StartOf(g)
    BY DEF Init
  <1> DEFINE g == GenesisEvent(1, SomeTime, k)
  <1>2. events = <<g>> /\ acc = StartOf(g)
    BY <1>1
  <1>3. g.type = "genesis" /\ g.key = k
    BY DEF GenesisEvent, BaseEvent
  <1>4. Len(events) = 1 /\ events[1] = g /\ DOMAIN events = {1}
    BY <1>2
  <1>5. GenesisFirst
    BY <1>4 DEF GenesisFirst
  <1>6. MasterTracked
    <2>1. LastMasterAt(events, 1)
      BY <1>3, <1>4 DEF LastMasterAt, MasterKeyTypes
    <2> QED
      BY <2>1, <1>2, <1>4 DEF MasterTracked, StartOf
  <1>7. RevocationsTracked
    BY <1>2, <1>3, <1>4 DEF RevocationsTracked, IsRevoked, StartOf
  <1>8. DevicesTracked
    BY <1>2 DEF DevicesTracked, StartOf
  <1>9. \A id \in Claims : ClaimTracked(id)
    BY <1>2, <1>3, <1>4 DEF ClaimTracked, HasClaim, StartOf
  <1> QED
    BY <1>5, <1>6, <1>7, <1>8, <1>9 DEF Tracked

\* One turn of the loop keeps the master key that of the newest master event.
LEMMA MasterStaysTracked ==
    ASSUME TypeOK, NEW e \in LaterEvent, Extend(e), MasterTracked
    PROVE  MasterTracked'
  <1> USE ExtendEffect
  <1>1. acc'.master = MasterAfter(acc, e)
    BY DEF Advance
  <1>2. CASE e.type \in {"rotate_master", "social_recovery"}
    <2>1. LastMasterAt(events', Len(events'))
      BY <1>2 DEF LastMasterAt, MasterKeyTypes
    <2> QED
      BY <2>1, <1>1, <1>2 DEF MasterTracked, MasterAfter
  <1>3. CASE e.type \notin {"rotate_master", "social_recovery"}
    <2>1. PICK m \in Nat : LastMasterAt(events, m) /\ acc.master = events[m].key
      BY DEF MasterTracked
    <2>2. e.type \notin MasterKeyTypes
      BY <1>3 DEF MasterKeyTypes, LaterEvent
    <2>3. LastMasterAt(events', m)
      BY <2>1, <2>2 DEF LastMasterAt
    <2>4. events'[m] = events[m]
      BY <2>1 DEF LastMasterAt
    <2> QED
      BY <2>1, <2>3, <2>4, <1>1, <1>3 DEF MasterTracked, MasterAfter
  <1> QED
    BY <1>2, <1>3

\* One turn keeps `revoked` the set of keys some revoke_device names.
LEMMA RevocationsStayTracked ==
    ASSUME TypeOK, NEW e \in LaterEvent, Extend(e), RevocationsTracked
    PROVE  RevocationsTracked'
  <1>1. acc'.revoked = RevokedAfter(acc, e)
    BY ExtendEffect DEF Advance
  <1>2. \A k \in Keys : IsRevoked(events', k) <=>
            IsRevoked(events, k) \/ (e.type = "revoke_device" /\ e.key = k)
    BY ExtendEffect DEF IsRevoked
  <1> QED
    BY <1>1, <1>2 DEF RevocationsTracked, RevokedAfter

\* One turn keeps `devices` the grants of the newest add_device of each key.
LEMMA DevicesStayTracked ==
    ASSUME TypeOK, NEW e \in LaterEvent, Extend(e), DevicesTracked
    PROVE  DevicesTracked'
  <1>1. acc'.devices = DevicesAfter(acc, e)
    BY ExtendEffect DEF Advance
  <1>2. acc.devices \in [Keys -> [caps : SUBSET Capabilities, expires : Nat]]
    BY DEF TypeOK, Accumulators
  <1> SUFFICES ASSUME NEW k \in Keys, acc'.devices[k].caps # {}
               PROVE  \E d \in Nat : /\ LastGrantAt(events', k, d)
                                     /\ acc'.devices[k].caps = events'[d].caps
                                     /\ acc'.devices[k].expires = events'[d].expires
    BY DEF DevicesTracked
  <1>3. CASE e.type = "add_device" /\ e.key = k
    <2>1. LastGrantAt(events', k, Len(events'))
      BY <1>3, ExtendEffect DEF LastGrantAt
    <2>2. acc'.devices[k] = [caps |-> e.caps, expires |-> e.expires]
      BY <1>1, <1>2, <1>3 DEF DevicesAfter
    <2>3. events'[Len(events')] = e /\ Len(events') \in Nat
      BY ExtendEffect
    <2> QED
      BY <2>1, <2>2, <2>3
  <1>4. CASE ~(e.type = "add_device" /\ e.key = k)
    <2>1. acc'.devices[k] = acc.devices[k]
      BY <1>1, <1>2, <1>4 DEF DevicesAfter
    <2>2. PICK d \in Nat : /\ LastGrantAt(events, k, d)
                           /\ acc.devices[k].caps = events[d].caps
                           /\ acc.devices[k].expires = events[d].expires
      BY <2>1 DEF DevicesTracked
    <2>3. LastGrantAt(events', k, d)
      BY <2>2, <1>4, ExtendEffect DEF LastGrantAt
    <2>4. events'[d] = events[d]
      BY <2>2, ExtendEffect DEF LastGrantAt
    <2> QED
      BY <2>1, <2>2, <2>3, <2>4
  <1> QED
    BY <1>3, <1>4

\* The rule of the claim events is what keeps the two ledgers together: an id is
\* added once and withdrawn once.
LEMMA ClaimsStayTracked ==
    ASSUME TypeOK, NEW e \in LaterEvent, Extend(e), NEW id \in Claims, ClaimTracked(id)
    PROVE  ClaimTracked(id)'
  <1>1. acc'.claim_states = ClaimStatesAfter(acc, e)
    BY ExtendEffect DEF Advance
  <1>2. acc.claim_states \in [Claims -> {"unknown", "active", "revoked"}]
    BY DEF TypeOK, Accumulators
  <1>3. e.type \in ClaimEventTypes => ClaimRuleOk(acc, e)
    BY DEF Extend, Accepts, MasterOnlyTypes, ClaimEventTypes
  <1>4. CASE e.type = "add_claim" /\ e.claim = id
    <2>1. LastClaimAt(events', id, Len(events'))
      BY <1>4, ExtendEffect DEF LastClaimAt
    <2>2. ~RevokedAfterIndex(events', id, Len(events'))
      BY ExtendEffect DEF RevokedAfterIndex
    <2>3. acc'.claim_states[id] = "active"
      BY <1>1, <1>2, <1>4 DEF ClaimStatesAfter
    <2>4. Len(events') \in Nat
      BY ExtendEffect
    <2> QED
      BY <2>1, <2>2, <2>3, <2>4 DEF ClaimTracked
  <1>5. CASE e.type = "revoke_claim" /\ e.claim = id
    <2>1. acc.claim_states[id] = "active"
      BY <1>3, <1>5 DEF ClaimRuleOk, ClaimEventTypes
    <2>2. PICK d \in Nat : LastClaimAt(events, id, d)
      BY <2>1 DEF ClaimTracked
    <2>3. LastClaimAt(events', id, d)
      BY <2>2, <1>5, ExtendEffect DEF LastClaimAt
    <2>4. RevokedAfterIndex(events', id, d)
      BY <2>2, <1>5, ExtendEffect DEF LastClaimAt, RevokedAfterIndex
    <2>5. acc'.claim_states[id] = "revoked"
      BY <1>1, <1>2, <1>5 DEF ClaimStatesAfter
    <2> QED
      BY <2>3, <2>4, <2>5 DEF ClaimTracked
  <1>6. CASE ~(e.type \in {"add_claim", "revoke_claim"} /\ e.claim = id)
    <2>1. acc'.claim_states[id] = acc.claim_states[id]
      <3>1. CASE e.type = "add_claim"
        BY <3>1, <1>1, <1>2, <1>6 DEF ClaimStatesAfter
      <3>2. CASE e.type = "revoke_claim"
        BY <3>2, <1>1, <1>2, <1>6 DEF ClaimStatesAfter
      <3>3. CASE e.type \notin {"add_claim", "revoke_claim"}
        BY <3>3, <1>1 DEF ClaimStatesAfter
      <3> QED
        BY <3>1, <3>2, <3>3
    <2>2. CASE ~HasClaim(events, id) /\ acc.claim_states[id] = "unknown"
      <3>1. ~HasClaim(events', id)
        BY <2>2, <1>6, ExtendEffect DEF HasClaim
      <3> QED
        BY <3>1, <2>1, <2>2 DEF ClaimTracked
    <2>3. ASSUME NEW d \in Nat, LastClaimAt(events, id, d),
                 \/ RevokedAfterIndex(events, id, d) /\ acc.claim_states[id] = "revoked"
                 \/ ~RevokedAfterIndex(events, id, d) /\ acc.claim_states[id] = "active"
          PROVE  ClaimTracked(id)'
      <3>1. LastClaimAt(events', id, d)
        BY <2>3, <1>6, ExtendEffect DEF LastClaimAt
      <3>2. RevokedAfterIndex(events', id, d) <=> RevokedAfterIndex(events, id, d)
        BY <2>3, <1>6, ExtendEffect DEF LastClaimAt, RevokedAfterIndex
      <3> QED
        BY <3>1, <3>2, <2>1, <2>3 DEF ClaimTracked
    <2> QED
      BY <2>2, <2>3 DEF ClaimTracked
  <1> QED
    BY <1>4, <1>5, <1>6

\* So one turn keeps all of the inductive invariant.
LEMMA StaysTracked ==
    ASSUME TypeOK, Tracked, [Next]_vars
    PROVE  Tracked'
  <1>1. CASE Next
    <2>1. PICK e \in LaterEvent : Extend(e)
      BY <1>1, StepExtends
    <2>2. GenesisFirst'
      BY <2>1, ExtendEffect DEF Tracked, GenesisFirst, LaterEvent
    <2>3. MasterTracked' /\ RevocationsTracked' /\ DevicesTracked'
      BY <2>1, MasterStaysTracked, RevocationsStayTracked, DevicesStayTracked DEF Tracked
    <2>4. \A id \in Claims : ClaimTracked(id)'
      BY <2>1, ClaimsStayTracked DEF Tracked
    <2> QED
      BY <2>2, <2>3, <2>4 DEF Tracked
  <1>2. CASE UNCHANGED vars
    BY <1>2 DEF vars, Tracked, GenesisFirst, MasterTracked, RevocationsTracked,
                DevicesTracked, ClaimTracked
  <1> QED
    BY <1>1, <1>2

-----------------------------------------------------------------------------
(* What the readers return, given the index they look for *)

\* get_current_master_key() in terms of positions in the chain.
LEMMA MasterAt ==
    ASSUME NEW c \in Chains, NEW m, LastMasterAt(c, m)
    PROVE  GetCurrentMasterKey(c) = c[m].key
  <1> DEFINE I == {i \in 1 .. Len(c) : c[i].type \in MasterKeyTypes}
  <1>1. m \in I /\ \A i \in I : m >= i
    BY DEF LastMasterAt, Chains
  <1>2. Max(I) = m
    BY <1>1 DEF Max
  <1>3. SelectLastInSeq(c, LAMBDA e : e.type \in MasterKeyTypes) = m
    BY <1>1, <1>2 DEF SelectLastInSeq
  <1>4. m # 0
    BY DEF LastMasterAt
  <1> QED
    BY <1>3, <1>4 DEF GetCurrentMasterKey

\* get_claim() in terms of positions in the chain.
LEMMA ClaimAt ==
    ASSUME NEW c \in Chains, NEW id, NEW d \in Nat, LastClaimAt(c, id, d)
    PROVE  GetClaim(c, id).revoked <=> RevokedAfterIndex(c, id, d)
  <1> DEFINE I == {i \in 1 .. Len(c) : c[i].type = "add_claim" /\ c[i].claim = id}
  <1>1. d \in I /\ \A i \in I : d >= i
    BY DEF LastClaimAt, Chains
  <1>2. Max(I) = d
    BY <1>1 DEF Max
  <1>3. SelectLastInSeq(c, LAMBDA e : e.type = "add_claim" /\ e.claim = id) = d
    BY <1>1, <1>2 DEF SelectLastInSeq
  <1> QED
    BY <1>3 DEF GetClaim, RevokedAfterIndex

\* A key whose newest grant is not expired at t is listed with that grant, even
\* when it is the key of the genesis as well.
LEMMA GrantAt ==
    ASSUME NEW c \in Chains, NEW k, NEW d \in Nat, NEW t, LastGrantAt(c, k, d),
           ~Expired(c[d].expires, t), \A i \in 2 .. Len(c) : c[i].type # "genesis"
    PROVE  GrantIndex(c, k, t) = d
  <1> DEFINE I == {i \in 1 .. Len(c) :
                      \/ c[i].type = "genesis" /\ c[i].key = k
                      \/ /\ c[i].type = "add_device" /\ c[i].key = k
                         /\ ~Expired(c[i].expires, t)}
  <1>1. d \in I /\ \A i \in I : d >= i
    BY DEF LastGrantAt, Chains
  <1>2. Max(I) = d
    BY <1>1 DEF Max
  <1> QED
    BY <1>1, <1>2 DEF GrantIndex, SelectLastInSeq

-----------------------------------------------------------------------------
(* The two views of a chain agree *)

\* The inductive invariant: every local of verify() is what the events up to here
\* determine, so a second pass over the chain finds the same state.
THEOREM LocalsTracked == Spec => []Tracked
  <1>1. Init => Tracked
    BY InitTracked
  <1>2. TypeOK /\ Tracked /\ [Next]_vars => Tracked'
    BY StaysTracked
  <1> QED
    BY <1>1, <1>2, TypeCorrect, PTL DEF Spec

\* The invariant decides the master key as the reader does.
LEMMA TrackedMaster ==
    ASSUME TypeOK, Tracked
    PROVE  MasterAgreement
  <1>1. PICK m \in Nat : LastMasterAt(events, m) /\ acc.master = events[m].key
    BY DEF Tracked, MasterTracked
  <1> QED
    BY <1>1, MasterAt DEF TypeOK, MasterAgreement

\* verify() and get_current_master_key() never disagree about the master key of
\* a chain that verifies.
THEOREM MastersAgree == Spec => []MasterAgreement
  <1>1. TypeOK /\ Tracked => MasterAgreement
    BY TrackedMaster
  <1> QED
    BY <1>1, TypeCorrect, LocalsTracked, PTL

\* The invariant decides each claim as get_claims() does.
LEMMA TrackedLedger ==
    ASSUME TypeOK, Tracked
    PROVE  ClaimLedgerAgreement
  <1> SUFFICES ASSUME NEW id \in Claims
               PROVE  acc.claim_states[id] =
                          IF ~HasClaim(events, id) THEN "unknown"
                          ELSE IF GetClaim(events, id).revoked THEN "revoked" ELSE "active"
    BY DEF ClaimLedgerAgreement
  <1>1. ClaimTracked(id)
    BY DEF Tracked
  <1>2. CASE ~HasClaim(events, id) /\ acc.claim_states[id] = "unknown"
    BY <1>2
  <1>3. ASSUME NEW d \in Nat, LastClaimAt(events, id, d),
               \/ RevokedAfterIndex(events, id, d) /\ acc.claim_states[id] = "revoked"
               \/ ~RevokedAfterIndex(events, id, d) /\ acc.claim_states[id] = "active"
        PROVE  acc.claim_states[id] =
                   IF ~HasClaim(events, id) THEN "unknown"
                   ELSE IF GetClaim(events, id).revoked THEN "revoked" ELSE "active"
    <2>1. HasClaim(events, id)
      BY <1>3 DEF LastClaimAt, HasClaim, TypeOK, Chains
    <2>2. GetClaim(events, id).revoked <=> RevokedAfterIndex(events, id, d)
      BY <1>3, ClaimAt DEF TypeOK
    <2> QED
      BY <2>1, <2>2, <1>3
  <1> QED
    BY <1>1, <1>2, <1>3 DEF ClaimTracked

\* get_claims() and verify() never disagree about a claim.
THEOREM LedgersAgree == Spec => []ClaimLedgerAgreement
  <1>1. TypeOK /\ Tracked => ClaimLedgerAgreement
    BY TrackedLedger
  <1> QED
    BY <1>1, TypeCorrect, LocalsTracked, PTL

\* No event that verify() accepts revives a withdrawn claim.
LEMMA WithdrawalStep ==
    ASSUME TypeOK, Tracked, Next,
           NEW id \in Claims, HasClaim(events, id), GetClaim(events, id).revoked
    PROVE  GetClaim(events', id).revoked
  <1>1. PICK e \in LaterEvent : Extend(e)
    BY StepExtends
  <1>2. acc.claim_states[id] = "revoked"
    BY TrackedLedger DEF ClaimLedgerAgreement
  <1>3. PICK d \in Nat : LastClaimAt(events, id, d) /\ RevokedAfterIndex(events, id, d)
    BY <1>2 DEF Tracked, ClaimTracked
  <1>4. ~(e.type = "add_claim" /\ e.claim = id)
    BY <1>1, <1>2 DEF Extend, Accepts, ClaimRuleOk, MasterOnlyTypes, ClaimEventTypes
  <1>5. LastClaimAt(events', id, d) /\ RevokedAfterIndex(events', id, d)
    <2>1. /\ Len(events) \in Nat /\ Len(events') = Len(events) + 1 /\ events'[Len(events')] = e
          /\ \A i \in 1 .. Len(events) : events'[i] = events[i]
      BY <1>1, ExtendEffect
    <2>2. /\ d \in 1 .. Len(events) /\ events[d].type = "add_claim" /\ events[d].claim = id
          /\ \A i \in d + 1 .. Len(events) : ~(events[i].type = "add_claim" /\ events[i].claim = id)
      BY <1>3 DEF LastClaimAt
    <2>3. PICK j \in d + 1 .. Len(events) : events[j].type = "revoke_claim" /\ events[j].claim = id
      BY <1>3 DEF RevokedAfterIndex
    <2>4. /\ d \in 1 .. Len(events') /\ j \in d + 1 .. Len(events') /\ j \in 1 .. Len(events)
          /\ \A i \in d + 1 .. Len(events') :
                i = Len(events') \/ (i \in d + 1 .. Len(events) /\ i \in 1 .. Len(events))
      BY <2>1, <2>2
    <2>5. \A i \in d + 1 .. Len(events') : ~(events'[i].type = "add_claim" /\ events'[i].claim = id)
      BY <1>4, <2>1, <2>2, <2>4
    <2>6. LastClaimAt(events', id, d)
      BY <2>1, <2>2, <2>4, <2>5 DEF LastClaimAt
    <2>7. RevokedAfterIndex(events', id, d)
      BY <2>1, <2>3, <2>4 DEF RevokedAfterIndex
    <2> QED
      BY <2>6, <2>7
  <1>6. events' \in Chains
    BY <1>1, ExtendTyped DEF TypeOK, LaterEvent
  <1> QED
    BY <1>5, <1>6, ClaimAt

\* A withdrawn claim stays withdrawn, for any length of chain.
THEOREM WithdrawalsAreFinal == Spec => WithdrawalIsFinal
  <1> DEFINE Stays == \A c \in Claims :
                          /\ HasClaim(events, c)
                          /\ GetClaim(events, c).revoked
                          => GetClaim(events', c).revoked
  <1>1. TypeOK /\ Tracked /\ [Next]_vars => [Stays]_vars
    BY WithdrawalStep
  <1> QED
    BY <1>1, TypeCorrect, LocalsTracked, PTL DEF Spec, WithdrawalIsFinal

-----------------------------------------------------------------------------
(* Revocation *)

\* No event takes a revocation back.
LEMMA RevokedStep ==
    ASSUME TypeOK, Next, NEW k, IsRevoked(events, k)
    PROVE  IsRevoked(events', k)
  <1>1. PICK e \in LaterEvent : Extend(e)
    BY StepExtends
  <1> QED
    BY <1>1, ExtendEffect DEF IsRevoked

\* A revoked device is out of get_active_devices() for good.
THEOREM RevokedStayOut == Spec => RevokedStaysOut
  <1> DEFINE Out == \A k \in Keys, t \in Times :
                        IsRevoked(events, k) => k \notin GetActiveDevices(events', t)
  <1>1. TypeOK /\ [Next]_vars => [Out]_vars
    BY RevokedStep DEF GetActiveDevices
  <1> QED
    BY <1>1, TypeCorrect, PTL DEF Spec, RevokedStaysOut

\* A claim event that was just accepted has a signer that the readers, asked
\* about the chain before it, know as the master or as a device in force.
LEMMA SignerKnown ==
    ASSUME TypeOK, Tracked, NEW e \in LaterEvent, Extend(e), e.type \in ClaimEventTypes
    PROVE  \/ e.signed_by = GetCurrentMasterKey(events)
           \/ /\ ~IsRevoked(events, e.signed_by)
              /\ e.signed_by \in GetActiveDevices(events, e.timestamp)
              /\ "manage_claims" \in DeviceCapabilities(events, e.signed_by, e.timestamp)
  <1> DEFINE k == e.signed_by
             t == e.timestamp
  <1>1. k \in Keys
    BY DEF LaterEvent, Event, EventFields
  <1>2. CASE k = acc.master
    BY <1>2, TrackedMaster DEF MasterAgreement
  <1>3. CASE MayManageClaims(acc, k, t)
    <2>1. ~IsRevoked(events, k)
      BY <1>1, <1>3 DEF MayManageClaims, Tracked, RevocationsTracked
    <2>2. PICK d \in Nat : /\ LastGrantAt(events, k, d)
                           /\ acc.devices[k].caps = events[d].caps
                           /\ acc.devices[k].expires = events[d].expires
      BY <1>1, <1>3 DEF MayManageClaims, Tracked, DevicesTracked
    <2>3. GrantIndex(events, k, t) = d
      BY <2>2, <1>3, GrantAt DEF MayManageClaims, Tracked, GenesisFirst, TypeOK
    <2>4. d # 0 /\ events[d].type = "add_device"
      BY <2>2 DEF LastGrantAt
    <2>5. k \in GetActiveDevices(events, t)
      BY <1>1, <2>1, <2>3, <2>4 DEF GetActiveDevices
    <2>6. "manage_claims" \in DeviceCapabilities(events, k, t)
      BY <2>2, <2>3, <2>4, <1>3 DEF DeviceCapabilities, MayManageClaims
    <2> QED
      BY <2>1, <2>5, <2>6
  <1> QED
    BY <1>2, <1>3 DEF Extend, Accepts, MasterOnlyTypes, ClaimEventTypes

\* The new event was signed as its position allows; the older ones still were.
LEMMA ClaimSignersStep ==
    ASSUME TypeOK, Tracked, ClaimSignersWereActive, Next
    PROVE  ClaimSignersWereActive'
  <1>1. PICK e \in LaterEvent : Extend(e)
    BY StepExtends
  <1> SUFFICES ASSUME NEW j \in 2 .. Len(events'), events'[j].type \in ClaimEventTypes
               PROVE  \/ events'[j].signed_by = GetCurrentMasterKey(Prefix(j - 1)')
                      \/ /\ events'[j].signed_by \in
                                GetActiveDevices(Prefix(j - 1)', events'[j].timestamp)
                         /\ "manage_claims" \in
                                DeviceCapabilities(Prefix(j - 1)', events'[j].signed_by,
                                                   events'[j].timestamp)
    BY DEF ClaimSignersWereActive
  <1>2. CASE j \in 2 .. Len(events)
    <2>1. Prefix(j - 1)' = Prefix(j - 1) /\ events'[j] = events[j]
      BY <1>1, <1>2, ExtendEffect
    <2> QED
      BY <2>1, <1>2 DEF ClaimSignersWereActive
  <1>3. CASE j = Len(events')
    <2>1. Prefix(j - 1)' = events /\ events'[j] = e
      BY <1>1, <1>3, ExtendEffect
    <2> QED
      BY <2>1, <1>1, SignerKnown
  <1> QED
    BY <1>1, <1>2, <1>3, ExtendEffect

\* Every claim event of a chain that verifies was signed by the master of that
\* moment or by a device that the readers list with manage_claims.
THEOREM ClaimSignersActive == Spec => []ClaimSignersWereActive
  <1>1. Init => ClaimSignersWereActive
    BY DEF Init, ClaimSignersWereActive
  <1>2. TypeOK /\ Tracked /\ ClaimSignersWereActive /\ [Next]_vars
        => ClaimSignersWereActive'
    <2>1. CASE UNCHANGED vars
      BY <2>1 DEF vars, ClaimSignersWereActive, Prefix
    <2> QED
      BY <2>1, ClaimSignersStep
  <1> QED
    BY <1>1, <1>2, TypeCorrect, LocalsTracked, PTL DEF Spec

\* The new event is not a claim event of a key revoked before it.
LEMMA RevokedSilencedStep ==
    ASSUME TypeOK, Tracked, RevokedSilenced, Next
    PROVE  RevokedSilenced'
  <1>1. PICK e \in LaterEvent : Extend(e)
    BY StepExtends
  <1> SUFFICES ASSUME NEW i \in 1 .. Len(events'), NEW j \in 1 .. Len(events'), i < j,
                      events'[i].type = "revoke_device",
                      events'[j].type \in ClaimEventTypes,
                      events'[j].signed_by = events'[i].key
               PROVE  events'[j].signed_by = GetCurrentMasterKey(Prefix(j - 1)')
    BY <1>1, ExtendEffect DEF RevokedSilenced
  <1>2. i \in 1 .. Len(events) /\ events'[i] = events[i]
    BY <1>1, ExtendEffect
  <1>3. CASE j \in 1 .. Len(events)
    <2>1. Prefix(j - 1)' = Prefix(j - 1) /\ events'[j] = events[j]
      BY <1>1, <1>3, ExtendEffect
    <2>2. DOMAIN events = 1 .. Len(events)
      BY <1>1, ExtendEffect
    <2> QED
      BY <2>1, <2>2, <1>2, <1>3 DEF RevokedSilenced
  <1>4. CASE j = Len(events')
    <2>1. Prefix(j - 1)' = events /\ events'[j] = e
      BY <1>1, <1>4, ExtendEffect
    <2>2. IsRevoked(events, e.signed_by)
      BY <2>1, <1>1, <1>2, ExtendEffect DEF IsRevoked
    <2> QED
      BY <2>1, <2>2, <1>1, SignerKnown
  <1> QED
    BY <1>1, <1>3, <1>4, ExtendEffect

\* A revoked key signs no further claim event, unless it is the master key.
THEOREM RevokedAreSilenced == Spec => []RevokedSilenced
  <1>1. Init => RevokedSilenced
    <2> SUFFICES ASSUME Init PROVE RevokedSilenced
      OBVIOUS
    <2>1. DOMAIN events = {1}
      BY DEF Init
    <2> QED
      BY <2>1 DEF RevokedSilenced
  <1>2. TypeOK /\ Tracked /\ RevokedSilenced /\ [Next]_vars => RevokedSilenced'
    <2>1. CASE UNCHANGED vars
      BY <2>1 DEF vars, RevokedSilenced, Prefix
    <2> QED
      BY <2>1, RevokedSilencedStep
  <1> QED
    BY <1>1, <1>2, TypeCorrect, LocalsTracked, PTL DEF Spec

-----------------------------------------------------------------------------
(* The order of claims *)

\* verify() refuses a listing that names a claim twice.
ListingsDistinct ==
    \A i \in DOMAIN events : events[i].type = "set_claim_order" => Distinct(events[i].order)

LEMMA ListingsStayDistinct ==
    ASSUME TypeOK, ListingsDistinct, [Next]_vars
    PROVE  ListingsDistinct'
  <1>1. CASE Next
    <2>1. PICK e \in LaterEvent : Extend(e)
      BY <1>1, StepExtends
    <2>2. e.type = "set_claim_order" => Distinct(e.order)
      BY <2>1 DEF Extend, Accepts, ClaimRuleOk, OrderOk, MasterOnlyTypes, Distinct
    <2>3. \A i \in DOMAIN events' : (i \in DOMAIN events /\ events'[i] = events[i]) \/ events'[i] = e
      BY <2>1, ExtendEffect
    <2> QED
      BY <2>2, <2>3 DEF ListingsDistinct
  <1>2. CASE UNCHANGED vars
    BY <1>2 DEF vars, ListingsDistinct
  <1> QED
    BY <1>1, <1>2

\* claim_order() offers every active claim of a type once and nothing else, for
\* any chain that verifies.
THEOREM ClaimOrderIsComplete == Spec => []ClaimOrderComplete
  <1>1. Init => ListingsDistinct
    <2> SUFFICES ASSUME Init
                 PROVE  ListingsDistinct
      OBVIOUS
    <2>1. PICK k \in Keys : events = <<GenesisEvent(1, SomeTime, k)>>
      BY DEF Init
    <2>2. DOMAIN events = {1} /\ events[1].type = "genesis"
      BY <2>1 DEF GenesisEvent, BaseEvent
    <2> QED
      BY <2>2 DEF ListingsDistinct
  <1>2. TypeOK /\ ListingsDistinct /\ [Next]_vars => ListingsDistinct'
    BY ListingsStayDistinct
  <1>3. TypeOK /\ ListingsDistinct => ClaimOrderComplete
    <2> SUFFICES ASSUME TypeOK, ListingsDistinct, NEW type \in ClaimTypes, NEW t \in Times
                 PROVE  LET order == ClaimOrder(events, type, t)
                        IN  /\ \A i, j \in DOMAIN order : i # j => order[i] # order[j]
                            /\ ToSet(order) = {c \in ToSet(ClaimIds(events)) :
                                                  /\ GetClaim(events, c).claim_type = type
                                                  /\ ClaimStatus(GetClaim(events, c), t) = "active"}
      BY DEF ClaimOrderComplete
    <2>1. /\ Distinct(ClaimOrder(events, type, t))
          /\ ToSet(ClaimOrder(events, type, t)) =
               {c \in ToSet(ClaimIds(events)) :
                   /\ GetClaim(events, c).claim_type = type
                   /\ ClaimStatus(GetClaim(events, c), t) = "active"}
      BY ClaimOrderIs DEF TypeOK, ListingsDistinct
    <2> QED
      BY <2>1 DEF Distinct
  <1> QED
    BY <1>1, <1>2, <1>3, TypeCorrect, PTL DEF Spec

=============================================================================
