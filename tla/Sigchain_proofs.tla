---------------------------- MODULE Sigchain_proofs ----------------------------
(***************************************************************************)
(* Facts about the operators of Sigchain that the proofs about the modules *)
(* built on it have in common: the types of the events, and what a reader  *)
(* that looks for the newest event of a kind finds.                        *)
(***************************************************************************)
EXTENDS Sigchain, SequenceTheorems, NumberLemmas, TLAPS

-----------------------------------------------------------------------------
(* What each create() makes of a filled envelope is an event of its class, and not a genesis *)

LaterEvent == {e \in Event : e.type # "genesis"}

\* A new device is granted at least one capability.
LEMMA AddDeviceTyped ==
    ASSUME NEW base \in EventFields, NEW device \in Keys,
           NEW caps \in SUBSET Capabilities, NEW expires \in Nat
    PROVE  AddDeviceEvent(base, device, caps, expires) \in LaterEvent
  <1> DEFINE e == AddDeviceEvent(base, device, caps, expires)
  <1>1. e \in EventFields
    BY DEF AddDeviceEvent, EventFields, EventTypes
  <1>2. e.type = "add_device" /\ e.key = device
    BY DEF AddDeviceEvent, EventFields
  <1> QED
    BY <1>1, <1>2 DEF Event, LaterEvent

\* A revocation names a key and leaves the rest of the envelope alone.
LEMMA RevokeDeviceTyped ==
    ASSUME NEW base \in EventFields, NEW device \in Keys
    PROVE  RevokeDeviceEvent(base, device) \in LaterEvent
  <1> DEFINE e == RevokeDeviceEvent(base, device)
  <1>1. e \in EventFields
    BY DEF RevokeDeviceEvent, EventFields, EventTypes
  <1>2. e.type = "revoke_device" /\ e.key = device
    BY DEF RevokeDeviceEvent, EventFields
  <1> QED
    BY <1>1, <1>2 DEF Event, LaterEvent

\* Rotation and recovery name the key that takes over.
LEMMA MasterKeyTyped ==
    ASSUME NEW base \in EventFields, NEW new_pubkey \in Keys
    PROVE  /\ RotateMasterEvent(base, new_pubkey) \in LaterEvent
           /\ SocialRecoveryEvent(base, new_pubkey) \in LaterEvent
  <1>1. RotateMasterEvent(base, new_pubkey) \in LaterEvent
    <2> DEFINE e == RotateMasterEvent(base, new_pubkey)
    <2>1. e \in EventFields
      BY DEF RotateMasterEvent, EventFields, EventTypes
    <2>2. e.type = "rotate_master" /\ e.key = new_pubkey
      BY DEF RotateMasterEvent, EventFields
    <2> QED
      BY <2>1, <2>2 DEF Event, LaterEvent
  <1>2. SocialRecoveryEvent(base, new_pubkey) \in LaterEvent
    <2> DEFINE e == SocialRecoveryEvent(base, new_pubkey)
    <2>1. e \in EventFields
      BY DEF SocialRecoveryEvent, EventFields, EventTypes
    <2>2. e.type = "social_recovery" /\ e.key = new_pubkey
      BY DEF SocialRecoveryEvent, EventFields
    <2> QED
      BY <2>1, <2>2 DEF Event, LaterEvent
  <1> QED
    BY <1>1, <1>2

\* Events without a key of their own are well formed as they stand.
LEMMA UnkeyedTyped ==
    ASSUME NEW base \in EventFields
    PROVE  /\ \A trustees \in SUBSET Trustees, threshold \in Nat :
                 SetRecoveryEvent(base, trustees, threshold) \in LaterEvent
           /\ \A type \in {"set_distribution", "resolve_fork"} :
                 [base EXCEPT !.type = type] \in LaterEvent
  <1>1. ASSUME NEW trustees \in SUBSET Trustees, NEW threshold \in Nat
        PROVE  SetRecoveryEvent(base, trustees, threshold) \in LaterEvent
    <2> DEFINE e == SetRecoveryEvent(base, trustees, threshold)
    <2>1. e \in EventFields
      BY DEF SetRecoveryEvent, EventFields, EventTypes
    <2>2. e.type = "set_recovery"
      BY DEF SetRecoveryEvent, EventFields
    <2> QED
      BY <2>1, <2>2 DEF Event, LaterEvent, MasterKeyTypes
  <1>2. ASSUME NEW type \in {"set_distribution", "resolve_fork"}
        PROVE  [base EXCEPT !.type = type] \in LaterEvent
    <2> DEFINE e == [base EXCEPT !.type = type]
    <2>1. e \in EventFields
      BY DEF EventFields, EventTypes
    <2>2. e.type = type
      BY DEF EventFields
    <2> QED
      BY <2>1, <2>2 DEF Event, LaterEvent, MasterKeyTypes
  <1> QED
    BY <1>1, <1>2

\* A claim, and an order of claims, name a claim type.
LEMMA ClaimEventTyped ==
    ASSUME NEW base \in EventFields, NEW type \in ClaimTypes
    PROVE  /\ \A c \in Claims, expires \in Nat :
                 AddClaimEvent(base, c, type, expires) \in LaterEvent
           /\ \A order \in Seq(Claims) : SetClaimOrderEvent(base, type, order) \in LaterEvent
  <1>1. ASSUME NEW c \in Claims, NEW expires \in Nat
        PROVE  AddClaimEvent(base, c, type, expires) \in LaterEvent
    <2> DEFINE e == AddClaimEvent(base, c, type, expires)
    <2>1. e \in EventFields
      BY DEF AddClaimEvent, EventFields, EventTypes
    <2>2. e.type = "add_claim" /\ e.claim = c /\ e.ctype = type
      BY DEF AddClaimEvent, EventFields
    <2> QED
      BY <2>1, <2>2 DEF Event, LaterEvent, MasterKeyTypes
  <1>2. ASSUME NEW order \in Seq(Claims)
        PROVE  SetClaimOrderEvent(base, type, order) \in LaterEvent
    <2> DEFINE e == SetClaimOrderEvent(base, type, order)
    <2>1. e \in EventFields
      BY DEF SetClaimOrderEvent, EventFields, EventTypes
    <2>2. e.type = "set_claim_order" /\ e.ctype = type
      BY DEF SetClaimOrderEvent, EventFields
    <2> QED
      BY <2>1, <2>2 DEF Event, LaterEvent, MasterKeyTypes
  <1> QED
    BY <1>1, <1>2

\* A withdrawal names the claim.
LEMMA RevokeClaimTyped ==
    ASSUME NEW base \in EventFields, NEW c \in Claims
    PROVE  RevokeClaimEvent(base, c) \in LaterEvent
  <1> DEFINE e == RevokeClaimEvent(base, c)
  <1>1. e \in EventFields
    BY DEF RevokeClaimEvent, EventFields, EventTypes
  <1>2. e.type = "revoke_claim" /\ e.claim = c
    BY DEF RevokeClaimEvent, EventFields
  <1> QED
    BY <1>1, <1>2 DEF Event, LaterEvent, MasterKeyTypes

-----------------------------------------------------------------------------
(* The newest event of a kind *)

\* get_recovery_config returns a set_recovery event of the chain, if it has one.
LEMMA RecoveryConfigIs ==
    ASSUME NEW c \in Chains, RecoveryConfigIndex(c) # 0
    PROVE  /\ RecoveryConfigIndex(c) \in DOMAIN c
           /\ c[RecoveryConfigIndex(c)].type = "set_recovery"
  <1> DEFINE I == {i \in 1 .. Len(c) : c[i].type = "set_recovery"}
  <1>1. Len(c) \in Nat /\ DOMAIN c = 1 .. Len(c)
    BY DEF Chains
  <1>2. I # {} /\ RecoveryConfigIndex(c) = Max(I)
    BY DEF RecoveryConfigIndex, SelectLastInSeq
  <1>3. PICK m \in I : \A j \in I : m >= j
    BY <1>1, <1>2, LargestExists
  <1>4. Max(I) \in I
    BY <1>3 DEF Max
  <1> QED
    BY <1>1, <1>2, <1>4

-----------------------------------------------------------------------------
(* verify() and the claims *)

\* The locals of verify() after each event of a chain that verifies.
LEMMA VerifyLocals ==
    ASSUME NEW chain \in Chains, Verify(chain)
    PROVE  \E acc : /\ acc[1] = StartOf(chain[1])
                    /\ \A i \in 2 .. Len(chain) : /\ acc[i] = Advance(acc[i - 1], chain[i])
                                                  /\ Accepts(acc[i - 1], chain[i])
  <1> DEFINE Turn(g, i) == IF i = 1 THEN StartOf(chain[1]) ELSE Advance(g[i - 1], chain[i])
             Locals(g, n) == g = [i \in 1 .. n |-> Turn(g, i)]
             Fails == {n \in 1 .. Len(chain) : ~ \E g : Locals(g, n)}
  <1>1. Len(chain) \in Nat /\ Len(chain) >= 1
    BY DEF Verify, Chains
  <1>2. ASSUME NEW n \in 1 .. Len(chain), NEW g, n = 1 \/ Locals(g, n - 1)
        PROVE  \E h : Locals(h, n)
    <2> DEFINE h == [i \in 1 .. n |-> IF i = n THEN Turn(g, n) ELSE g[i]]
    <2>1. ASSUME NEW i \in 1 .. n
          PROVE  h[i] = Turn(h, i)
      <3>1. CASE i = 1 /\ n = 1
        BY <3>1
      <3>2. CASE n # 1
        <4>1. i # 1 => i - 1 \in 1 .. n - 1 /\ i - 1 \in 1 .. n /\ i - 1 # n
          BY <1>1
        <4>2. i # n => i \in 1 .. n - 1
          BY <1>1
        <4>3. \A j \in 1 .. n - 1 : g[j] = Turn(g, j)
          BY <1>2, <3>2
        <4>4. i # 1 => h[i - 1] = g[i - 1]
          BY <4>1
        <4>5. Turn(h, i) = Turn(g, i)
          BY <4>4
        <4>6. h[i] = Turn(g, i)
          BY <4>2, <4>3
        <4> QED
          BY <4>5, <4>6
      <3> QED
        BY <1>1, <3>1, <3>2
    <2>2. Locals(h, n)
      BY <2>1
    <2> QED
      BY <2>2
  <1>3. \E g : Locals(g, Len(chain))
    <2> SUFFICES ASSUME ~ \E g : Locals(g, Len(chain))
                 PROVE  FALSE
      OBVIOUS
    <2>1. Fails # {} /\ Fails \in SUBSET Nat
      <3>1. Len(chain) \in Fails
        BY <1>1
      <3>2. \A n \in 1 .. Len(chain) : n \in Nat
        OBVIOUS
      <3> QED
        BY <3>1, <3>2
    <2>2. PICK n \in Fails : \A m \in Fails : n <= m
      BY <2>1, LeastExists
    <2>3. n = 1 \/ \E g : Locals(g, n - 1)
      <3>1. n # 1 => n - 1 \in 1 .. Len(chain) /\ ~(n <= n - 1)
        BY <1>1
      <3> QED
        BY <2>2, <3>1
    <2>4. n \in 1 .. Len(chain) /\ ~ \E h : Locals(h, n)
      OBVIOUS
    <2> HIDE DEF Locals
    <2> QED
      BY <1>2, <2>3, <2>4
  <1> DEFINE acc == CHOOSE g : Locals(g, Len(chain))
  <1>4. Locals(acc, Len(chain))
    BY <1>3
  <1>5. \A i \in 2 .. Len(chain) : Accepts(acc[i - 1], chain[i])
    BY DEF Verify
  <1>6. \A i \in 1 .. Len(chain) : acc[i] = Turn(acc, i)
    BY <1>4
  <1>7. 1 \in 1 .. Len(chain) /\ 2 .. Len(chain) \subseteq 1 .. Len(chain) /\ 1 \notin 2 .. Len(chain)
    BY <1>1
  <1>8. acc[1] = StartOf(chain[1])
    BY <1>6, <1>7
  <1>9. \A i \in 2 .. Len(chain) : acc[i] = Advance(acc[i - 1], chain[i])
    BY <1>6, <1>7
  <1> HIDE DEF acc
  <1> QED
    BY <1>5, <1>8, <1>9

\* verify() accepts a claim id once: a second add_claim of it, even after a
\* withdrawal, is refused.
LEMMA AddedOnce ==
    ASSUME NEW chain \in Chains, Verify(chain), NEW c \in Claims,
           NEW i \in 1 .. Len(chain), NEW j \in 1 .. Len(chain), i < j,
           chain[i].type = "add_claim", chain[i].claim = c
    PROVE  ~(chain[j].type = "add_claim" /\ chain[j].claim = c)
  <1>1. Len(chain) \in Nat /\ \A k \in 1 .. Len(chain) : chain[k] \in Event
    BY DEF Chains
  <1>2. PICK acc : /\ acc[1] = StartOf(chain[1])
                   /\ \A k \in 2 .. Len(chain) : /\ acc[k] = Advance(acc[k - 1], chain[k])
                                                 /\ Accepts(acc[k - 1], chain[k])
    BY VerifyLocals
  <1> DEFINE Known(k) == acc[k].claim_states[c] \in {"active", "revoked"}
             Table(k) == DOMAIN acc[k].claim_states = Claims
             Odd == {k \in 1 .. Len(chain) : ~Table(k)}
             Lost == {k \in i .. Len(chain) : ~Known(k)}
  <1>3. ASSUME NEW k \in 2 .. Len(chain)
        PROVE  acc[k].claim_states = ClaimStatesAfter(acc[k - 1], chain[k])
    <2>1. acc[k] = Advance(acc[k - 1], chain[k])
      BY <1>2
    <2> QED
      BY <2>1 DEF Advance
  <1>4. \A k \in 1 .. Len(chain) : Table(k)
    <2> SUFFICES ASSUME Odd # {}
                 PROVE  FALSE
      OBVIOUS
    <2>1. Odd \in SUBSET Nat
      OBVIOUS
    <2>2. PICK k \in Odd : \A m \in Odd : k <= m
      BY <2>1, LeastExists
    <2>3. k # 1
      BY <1>2 DEF StartOf
    <2>4. k \in 2 .. Len(chain) /\ k - 1 \in 1 .. Len(chain) /\ ~(k <= k - 1)
      BY <1>1, <2>3
    <2>5. Table(k - 1)
      BY <2>2, <2>4
    <2>6. Table(k)
      BY <1>3, <2>4, <2>5 DEF ClaimStatesAfter
    <2> QED
      BY <2>6
  <1>5. i # 1
    BY DEF Verify, GenesisOk
  <1>6. Known(i)
    <2>1. i \in 2 .. Len(chain) /\ i - 1 \in 1 .. Len(chain)
      BY <1>1, <1>5
    <2> QED
      BY <1>3, <1>4, <2>1 DEF ClaimStatesAfter
  <1>7. \A k \in i .. Len(chain) : Known(k)
    <2> SUFFICES ASSUME Lost # {}
                 PROVE  FALSE
      OBVIOUS
    <2>1. Lost \in SUBSET Nat
      BY <1>1
    <2>2. PICK k \in Lost : \A m \in Lost : k <= m
      BY <2>1, LeastExists
    <2>3. k \in 2 .. Len(chain) /\ k - 1 \in i .. Len(chain) /\ k - 1 \in 1 .. Len(chain) /\ ~(k <= k - 1)
      <3>1. k # i
        BY <1>6
      <3> QED
        BY <1>1, <3>1
    <2>4. Known(k - 1)
      BY <2>2, <2>3
    <2>5. Known(k)
      BY <1>1, <1>3, <1>4, <2>3, <2>4 DEF ClaimStatesAfter
    <2> QED
      BY <2>5
  <1>8. j \in 2 .. Len(chain) /\ j - 1 \in i .. Len(chain)
    BY <1>1, <1>5
  <1>9. Known(j - 1) /\ Accepts(acc[j - 1], chain[j])
    BY <1>2, <1>7, <1>8
  <1> QED
    BY <1>9 DEF Accepts, ClaimRuleOk, MasterOnlyTypes, ClaimEventTypes

\* So the record get_claims holds is that of the only add_claim, withdrawn if a
\* revoke_claim comes behind it.
LEMMA ClaimRecordIs ==
    ASSUME NEW chain \in Chains, NEW c \in Claims, NEW i \in 1 .. Len(chain),
           chain[i].type = "add_claim", chain[i].claim = c,
           \A j \in 1 .. Len(chain) : chain[j].type = "add_claim" /\ chain[j].claim = c => j = i
    PROVE  /\ HasClaim(chain, c)
           /\ GetClaim(chain, c).revoked <=>
                 \E j \in i + 1 .. Len(chain) : chain[j].type = "revoke_claim" /\ chain[j].claim = c
  <1> DEFINE I == {j \in 1 .. Len(chain) : chain[j].type = "add_claim" /\ chain[j].claim = c}
  <1>1. Len(chain) \in Nat /\ DOMAIN chain = 1 .. Len(chain)
    BY DEF Chains
  <1>2. I = {i}
    OBVIOUS
  <1>3. Max(I) = i
    <2>1. \E m \in I : \A n \in I : m >= n
      BY <1>2
    <2>2. Max(I) \in I
      BY <2>1 DEF Max
    <2> QED
      BY <1>2, <2>2
  <1>4. SelectLastInSeq(chain, LAMBDA e : e.type = "add_claim" /\ e.claim = c) = i
    BY <1>2, <1>3 DEF SelectLastInSeq
  <1> QED
    BY <1>1, <1>4 DEF HasClaim, GetClaim

-----------------------------------------------------------------------------
(* The order of claims *)

Distinct(s) == \A i, j \in DOMAIN s : i # j => s[i] # s[j]

\* What is selected from a list of distinct things.
LEMMA SelectedDistinct ==
    ASSUME NEW T, NEW q \in Seq(T), Distinct(q), NEW S \in SUBSET (1 .. Len(q))
    PROVE  /\ Selected(q, S) \in Seq(T) /\ Distinct(Selected(q, S))
           /\ ToSet(Selected(q, S)) = {q[i] : i \in S}
  <1> DEFINE s == Selected(q, S)
             m == Cardinality(S)
  <1>1. /\ s \in Seq(T) /\ DOMAIN s = 1 .. m
        /\ \A k \in 1 .. m : Nth(S, k) \in S /\ s[k] = q[Nth(S, k)]
        /\ \A i \in S : \E k \in 1 .. m : s[k] = q[i]
        /\ \A k, h \in 1 .. m : Nth(S, k) = Nth(S, h) => k = h
    BY SelectedIs
  <1>2. \A i \in S : i \in DOMAIN q
    OBVIOUS
  <1> HIDE DEF s, m
  <1>3. Distinct(s)
    <2> SUFFICES ASSUME NEW k \in 1 .. m, NEW h \in 1 .. m, k # h
                 PROVE  s[k] # s[h]
      BY <1>1 DEF Distinct
    <2>1. Nth(S, k) # Nth(S, h) /\ Nth(S, k) \in DOMAIN q /\ Nth(S, h) \in DOMAIN q
      BY <1>1, <1>2
    <2>2. q[Nth(S, k)] # q[Nth(S, h)]
      BY <2>1 DEF Distinct
    <2> QED
      BY <1>1, <2>2
  <1>4. ToSet(s) = {q[i] : i \in S}
    <2>1. ASSUME NEW k \in 1 .. m
          PROVE  s[k] \in {q[i] : i \in S}
      BY <1>1
    <2>2. ASSUME NEW i \in S
          PROVE  q[i] \in {s[k] : k \in 1 .. m}
      <3>1. PICK k \in 1 .. m : s[k] = q[i]
        BY <1>1
      <3> QED
        BY <3>1
    <2>3. ToSet(s) = {s[k] : k \in 1 .. m}
      BY <1>1 DEF ToSet
    <2>4. \A x : x \in ToSet(s) <=> x \in {q[i] : i \in S}
      BY <2>1, <2>2, <2>3, Zenon
    <2> QED
      BY <2>4
  <1> QED
    BY <1>1, <1>3, <1>4 DEF s

\* get_claims() lists every claim once.
LEMMA ClaimIdsAre ==
    ASSUME NEW chain \in Chains
    PROVE  ClaimIds(chain) \in Seq(Claims) /\ Distinct(ClaimIds(chain))
  <1> DEFINE S == FirstAdds(chain)
             m == Cardinality(S)
             first == Selected(chain, S)
  <1>1. chain \in Seq(Event) /\ Len(chain) \in Nat /\ DOMAIN chain = 1 .. Len(chain)
    BY DEF Chains
  <1>2. S \in SUBSET (1 .. Len(chain))
    BY <1>1 DEF FirstAdds
  <1>3. /\ DOMAIN first = 1 .. m /\ m \in Nat
        /\ \A k \in 1 .. m : Nth(S, k) \in S /\ first[k] = chain[Nth(S, k)]
        /\ \A k, h \in 1 .. m : Nth(S, k) = Nth(S, h) => k = h
    BY <1>1, <1>2, SelectedIs
  <1>4. \A i \in S : i \in 1 .. Len(chain) /\ i \in Nat /\ chain[i] \in Event
                     /\ chain[i].type = "add_claim"
    BY <1>1 DEF FirstAdds
  <1>5. \A i, j \in S : j < i => chain[j].claim # chain[i].claim
    <2> SUFFICES ASSUME NEW i \in S, NEW j \in S, j < i
                 PROVE  chain[j].claim # chain[i].claim
      OBVIOUS
    <2>1. i \in Nat /\ j \in Nat /\ 1 <= j /\ chain[j].type = "add_claim"
      BY <1>1, <1>4
    <2>2. j \in 1 .. i - 1
      BY <2>1
    <2> QED
      BY <2>1, <2>2 DEF FirstAdds
  <1>6. \A e \in Event : e.type = "add_claim" => e.claim \in Claims
    BY DEF Event
  <1>7. ClaimIds(chain) = [k \in 1 .. m |-> first[k].claim]
    BY <1>3 DEF ClaimIds
  <1> HIDE DEF S, m, first
  <1>8. \A k \in 1 .. m : first[k].claim \in Claims
    BY <1>3, <1>4, <1>6
  <1>9. ClaimIds(chain) \in Seq(Claims) /\ DOMAIN ClaimIds(chain) = 1 .. m
        /\ \A k \in 1 .. m : ClaimIds(chain)[k] = first[k].claim
    BY <1>3, <1>7, <1>8
  <1>10. ASSUME NEW k \in 1 .. m, NEW h \in 1 .. m, k # h
         PROVE  first[k].claim # first[h].claim
    <2>1. PICK i \in S : i = Nth(S, k)
      BY <1>3
    <2>2. PICK j \in S : j = Nth(S, h)
      BY <1>3
    <2>3. i # j
      BY <1>3, <1>10, <2>1, <2>2
    <2>4. i < j \/ j < i
      BY <1>4, <2>3
    <2>5. chain[i].claim # chain[j].claim
      BY <1>5, <2>4
    <2> QED
      BY <1>3, <2>1, <2>2, <2>5
  <1> QED
    BY <1>9, <1>10 DEF Distinct

\* claim_order() lists the active claims of a type once each, if no listing of
\* the chain names a claim twice.
LEMMA ClaimOrderIs ==
    ASSUME NEW chain \in Chains, NEW type, NEW t,
           \A i \in DOMAIN chain : chain[i].type = "set_claim_order" => Distinct(chain[i].order)
    PROVE  /\ Distinct(ClaimOrder(chain, type, t))
           /\ ToSet(ClaimOrder(chain, type, t)) =
                {c \in ToSet(ClaimIds(chain)) :
                    /\ GetClaim(chain, c).claim_type = type
                    /\ ClaimStatus(GetClaim(chain, c), t) = "active"}
  <1> DEFINE Wanted(c) == /\ GetClaim(chain, c).claim_type = type
                          /\ ClaimStatus(GetClaim(chain, c), t) = "active"
             ids == ClaimIds(chain)
             active == ActiveClaimIds(chain, type, t)
             listed == ListedClaimIds(chain, type)
             first == Among(listed, active)
             rest == Without(active, first)
  <1>1. ids \in Seq(Claims) /\ Distinct(ids)
    BY ClaimIdsAre
  <1>2. active \in Seq(Claims) /\ Distinct(active) /\ ToSet(active) = {c \in ToSet(ids) : Wanted(c)}
    <2> DEFINE S == {k \in DOMAIN ids : Wanted(ids[k])}
    <2>1. active = Selected(ids, S)
      BY DEF ActiveClaimIds
    <2>2. S \in SUBSET (1 .. Len(ids))
      BY <1>1
    <2> HIDE DEF ids
    <2>3. {ids[k] : k \in S} = {c \in ToSet(ids) : Wanted(c)}
      BY DEF ToSet
    <2> HIDE DEF S, active
    <2> QED
      BY <1>1, <2>1, <2>2, <2>3, SelectedDistinct
  <1>3. listed \in Seq(Claims) /\ Distinct(listed)
    <2> DEFINE I == {i \in 1 .. Len(chain) : chain[i].type = "set_claim_order" /\ chain[i].ctype = type}
               newest == IF I # {} THEN Max(I) ELSE 0
    <2>1. listed = IF newest = 0 THEN << >> ELSE chain[newest].order
      BY DEF ListedClaimIds, SelectLastInSeq
    <2>2. Len(chain) \in Nat /\ DOMAIN chain = 1 .. Len(chain) /\ \A i \in 1 .. Len(chain) : chain[i] \in Event
      BY DEF Chains
    <2>3. newest # 0 => newest \in I
      <3> SUFFICES ASSUME I # {}
                   PROVE  Max(I) \in I
        OBVIOUS
      <3>1. I \in SUBSET (1 .. Len(chain))
        OBVIOUS
      <3>2. \E x \in I : \A y \in I : x >= y
        <4> HIDE DEF I
        <4> QED
          BY <2>2, <3>1, LargestExists
      <3> QED
        BY <3>2 DEF Max
    <2>4. \A e \in Event : e.order \in Seq(Claims)
      BY DEF Event, EventFields
    <2>5. << >> \in Seq(Claims) /\ Distinct(<< >>)
      BY DEF Distinct
    <2> HIDE DEF newest
    <2> QED
      BY <2>1, <2>2, <2>3, <2>4, <2>5
  <1> HIDE DEF ids, active, listed
  <1>4. first \in Seq(Claims) /\ Distinct(first) /\ ToSet(first) \subseteq ToSet(active)
    <2> DEFINE S == {k \in DOMAIN listed : listed[k] \in ToSet(active)}
    <2>1. first = Selected(listed, S) /\ S \in SUBSET (1 .. Len(listed))
      BY <1>3 DEF Among
    <2>2. {listed[k] : k \in S} \subseteq ToSet(active)
      OBVIOUS
    <2> HIDE DEF S, first
    <2> QED
      BY <1>3, <2>1, <2>2, SelectedDistinct
  <1> HIDE DEF first
  <1>5. rest \in Seq(Claims) /\ Distinct(rest) /\ ToSet(rest) = ToSet(active) \ ToSet(first)
    <2> DEFINE S == {k \in DOMAIN active : active[k] \notin ToSet(first)}
    <2>1. rest = Selected(active, S) /\ S \in SUBSET (1 .. Len(active))
      BY <1>2 DEF Without
    <2>2. {active[k] : k \in S} = ToSet(active) \ ToSet(first)
      BY DEF ToSet
    <2> HIDE DEF S, rest
    <2> QED
      BY <1>2, <2>1, <2>2, SelectedDistinct
  <1>6. ClaimOrder(chain, type, t) = first \o rest
    BY DEF ClaimOrder, first, rest, active, listed
  <1> HIDE DEF rest
  <1>7. Distinct(first \o rest) /\ ToSet(first \o rest) = ToSet(first) \cup ToSet(rest)
    <2> DEFINE a == Len(first)
               b == Len(rest)
               whole == first \o rest
    <2>1. /\ a \in Nat /\ b \in Nat /\ DOMAIN first = 1 .. a /\ DOMAIN rest = 1 .. b
          /\ DOMAIN whole = 1 .. a + b
          /\ \A k \in 1 .. a : whole[k] = first[k] /\ k \in 1 .. a + b
          /\ \A k \in 1 .. b : whole[k + a] = rest[k] /\ k + a \in 1 .. a + b
      BY <1>4, <1>5
    <2>2. ASSUME NEW k \in 1 .. a + b
          PROVE  \/ k \in 1 .. a /\ whole[k] = first[k] /\ first[k] \in ToSet(first)
                 \/ k - a \in 1 .. b /\ whole[k] = rest[k - a] /\ rest[k - a] \in ToSet(rest)
      <3>1. CASE k <= a
        BY <2>1, <3>1 DEF ToSet
      <3>2. CASE ~(k <= a)
        <4>1. k - a \in 1 .. b /\ (k - a) + a = k
          BY <2>1, <3>2
        <4> QED
          BY <2>1, <4>1 DEF ToSet
      <3> QED
        BY <3>1, <3>2
    <2>3. \A c \in ToSet(rest) : c \notin ToSet(first)
      BY <1>5
    <2> HIDE DEF whole
    <2>4. ASSUME NEW k \in 1 .. a + b, NEW h \in 1 .. a + b, k # h
          PROVE  whole[k] # whole[h]
      <3>1. CASE k \in 1 .. a /\ h \in 1 .. a
        <4>1. first[k] # first[h]
          BY <1>4, <2>1, <2>4, <3>1 DEF Distinct
        <4> QED
          BY <2>1, <3>1, <4>1
      <3>2. CASE k \notin 1 .. a /\ h \notin 1 .. a
        <4>1. /\ k - a \in 1 .. b /\ whole[k] = rest[k - a]
              /\ h - a \in 1 .. b /\ whole[h] = rest[h - a]
          BY <2>2, <3>2
        <4>2. k - a # h - a
          BY <2>1, <2>4
        <4>3. rest[k - a] # rest[h - a]
          BY <1>5, <2>1, <4>1, <4>2 DEF Distinct
        <4> QED
          BY <4>1, <4>3
      <3>3. CASE k \in 1 .. a /\ h \notin 1 .. a
        <4>1. whole[k] \in ToSet(first) /\ whole[h] \in ToSet(rest)
          BY <2>1, <2>2, <3>3 DEF ToSet
        <4> QED
          BY <2>3, <4>1
      <3>4. CASE k \notin 1 .. a /\ h \in 1 .. a
        <4>1. whole[h] \in ToSet(first) /\ whole[k] \in ToSet(rest)
          BY <2>1, <2>2, <3>4 DEF ToSet
        <4> QED
          BY <2>3, <4>1
      <3> QED
        BY <3>1, <3>2, <3>3, <3>4
    <2>5. ToSet(whole) = ToSet(first) \cup ToSet(rest)
      <3>1. ToSet(whole) \subseteq ToSet(first) \cup ToSet(rest)
        BY <2>1, <2>2 DEF ToSet
      <3>2. ToSet(first) \cup ToSet(rest) \subseteq ToSet(whole)
        BY <2>1 DEF ToSet
      <3> QED
        BY <3>1, <3>2
    <2>6. Distinct(whole)
      BY <2>1, <2>4 DEF Distinct
    <2> QED
      BY <2>5, <2>6 DEF whole
  <1>8. ToSet(first) \cup ToSet(rest) = {c \in ToSet(ids) : Wanted(c)}
    BY <1>2, <1>4, <1>5
  <1> QED
    BY <1>6, <1>7, <1>8 DEF ids

=============================================================================
