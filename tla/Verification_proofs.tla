------------------------ MODULE Verification_proofs ------------------------
(***************************************************************************)
(* Proofs about Verification, for every set of claims, numbers and chains, *)
(* all limits, leases and lifetimes, and any number of requests, restarts  *)
(* and lost answers.                                                       *)
(***************************************************************************)
EXTENDS Verification, SequenceTheorems, FiniteSetTheorems, NumberLemmas, TLAPS

-----------------------------------------------------------------------------
(* What a step may do to the verifications *)

\* The verifiers' tables are touched by the requests of the person, the
\* cleanup, another writer of the chains, and a restart.
LEMMA VerifierStep ==
    ASSUME [Next]_vars
    PROVE  \/ UNCHANGED verifierVars /\ restarts' \in {restarts, restarts + 1}
           \/ VerifierRestart /\ restarts' = restarts + 1
           \/ /\ restarts' = restarts
              /\ \/ VerifierCleanup
                 \/ \E c \in Claims, chain \in Chains : StartRefused(c, chain) \/ StartAccepted(c, chain)
                 \/ \E c \in Claims : \E supplied : StartPhone(c, supplied)
                 \/ \E v \in Vids : Delivered(v) \/ DeliveryFails(v) \/ Confirm(v)
                 \/ \E i \in Owners, chain \in Chains : StoredElsewhere(i, chain)
  <1>1. CASE ClockTicks \/ CleanupTask
    BY <1>1 DEF ClockTicks, CleanupTask
  <1>2. ASSUME NEW c \in Claims, NEW supplied, Refuses(c, supplied)
        PROVE  restarts' = restarts /\ \E chain \in Chains : StartRefused(c, chain)
    BY <1>2 DEF Refuses, StartRefused, Startable
  <1>3. ASSUME NEW c \in Claims, NEW supplied, StartEmail(c, supplied)
        PROVE  restarts' = restarts /\ \E chain \in Chains : StartAccepted(c, chain)
    BY <1>3 DEF StartEmail, StartAccepted, Startable
  <1>4. ASSUME NEW c \in Claims, NEW supplied, StartPhone(c, supplied)
        PROVE  restarts' = restarts
    BY <1>4 DEF StartPhone
  <1>5. ASSUME NEW v \in Vids, MailAccepted(v) \/ MailFails(v) \/ Confirm(v)
        PROVE  restarts' = restarts /\ (Delivered(v) \/ DeliveryFails(v) \/ Confirm(v))
    BY <1>5 DEF MailAccepted, MailFails, Confirm
  <1>6. ASSUME NEW i \in Owners, NEW chain \in Chains, ChainStored(i, chain)
        PROVE  restarts' = restarts /\ StoredElsewhere(i, chain)
    BY <1>6 DEF ChainStored
  <1>7. ASSUME \/ \E lost : GatewayAsks(lost) \/ \E request, late : GatewayWaits(request, late, lost)
               \/ GatewayProcesses \/ \E confirmed : GatewaySends(confirmed)
               \/ \E arrives : GatewayReports(arrives)
        PROVE  UNCHANGED verifierVars /\ restarts' = restarts
    BY <1>7 DEF GatewayAsks, GatewayWaits, GatewayProcesses, GatewaySends, GatewayReports
  <1>8. CASE GatewayRestarts \/ ServiceRestarts
    BY <1>8 DEF GatewayRestarts, ServiceRestarts
  <1>9. CASE UNCHANGED vars
    BY <1>9 DEF vars
  <1> QED
    BY <1>1, <1>2, <1>3, <1>4, <1>5, <1>6, <1>7, <1>8, <1>9 DEF Next

\* The clock never goes back.
LEMMA ClockStep ==
    ASSUME [Next]_vars, now \in Nat
    PROVE  now' \in Nat /\ now <= now'
  <1>1. CASE ClockTicks
    BY <1>1 DEF ClockTicks, Tick
  <1>2. CASE CleanupTask \/ GatewayProcesses \/ GatewayRestarts \/ ServiceRestarts
    BY <1>2 DEF CleanupTask, GatewayProcesses, GatewayRestarts, ServiceRestarts
  <1>3. ASSUME \/ \E c, supplied : Refuses(c, supplied) \/ StartEmail(c, supplied) \/ StartPhone(c, supplied)
               \/ \E v : MailAccepted(v) \/ MailFails(v) \/ Confirm(v)
               \/ \E i, chain : ChainStored(i, chain)
        PROVE  now' = now
    <2>1. ASSUME NEW c, NEW supplied, Refuses(c, supplied) \/ StartEmail(c, supplied) \/ StartPhone(c, supplied)
          PROVE  now' = now
      BY <2>1 DEF Refuses, StartEmail, StartPhone
    <2>2. ASSUME NEW v, MailAccepted(v) \/ MailFails(v) \/ Confirm(v)
          PROVE  now' = now
      BY <2>2 DEF MailAccepted, MailFails, Confirm
    <2> QED
      BY <1>3, <2>1, <2>2 DEF ChainStored
  <1>4. CASE \/ \E lost : GatewayAsks(lost) \/ \E request, late : GatewayWaits(request, late, lost)
             \/ \E confirmed : GatewaySends(confirmed) \/ \E arrives : GatewayReports(arrives)
    BY <1>4 DEF GatewayAsks, GatewayWaits, GatewaySends, GatewayReports
  <1>5. CASE UNCHANGED vars
    BY <1>5 DEF vars
  <1> QED
    BY <1>1, <1>2, <1>3, <1>4, <1>5 DEF Next

-----------------------------------------------------------------------------
(* The pending verifications *)

\* The history of requests is a sequence, and the rows are chains.
VerifierShape ==
    /\ now \in Nat /\ restarts \in Nat
    /\ requests \in Seq([claim : Claims, time : Nat])
    /\ stored \in [Owners -> Chains \cup {NoChain}]

\* A pending verification is the newest of its claim; it has the claim and
\* the time of its request and a chain in which the claim is not withdrawn.
PendingTracked(v) ==
    /\ v \in 1 .. Len(requests)
    /\ DOMAIN pending[v] = {"claim", "expires_at", "chain", "attempts"}
    /\ pending[v].claim = requests[v].claim
    /\ pending[v].expires_at = requests[v].time + CodeTtl
    /\ pending[v].chain \in Chains /\ ~Contains(pending[v].chain, pending[v].claim)
    /\ ~Newer(v, requests)

CodesInv == VerifierShape /\ \A v \in DOMAIN pending : PendingTracked(v)

\* Verifications go, or lose attempts.
Fewer ==
    /\ requests' = requests
    /\ DOMAIN pending' \subseteq DOMAIN pending
    /\ \A v \in DOMAIN pending' : pending'[v] = pending[v]
                                \/ \E n : pending'[v] = [pending[v] EXCEPT !.attempts = n]

\* A new one comes for claim c, unless it cannot be queued, and the others of
\* the claim go.
OneMore(c, chain) ==
    /\ requests' = Append(requests, NewRequest(c))
    /\ chain \in Chains /\ ActiveIn(chain, c)
    /\ \A v \in DOMAIN pending' :
          \/ v \in DOMAIN pending /\ pending[v].claim # c /\ pending'[v] = pending[v]
          \/ v = Len(requests) + 1 /\ pending'[v] = NewPending(c, chain)

\* A request leaves every other one as it was.
LEMMA AppendKeeps ==
    ASSUME requests \in Seq([claim : Claims, time : Nat]), now \in Nat,
           NEW c \in Claims, requests' = Append(requests, NewRequest(c))
    PROVE  /\ requests' \in Seq([claim : Claims, time : Nat])
           /\ Len(requests) \in Nat /\ Len(requests') = Len(requests) + 1
           /\ \A v \in 1 .. Len(requests) : requests'[v] = requests[v]
           /\ requests'[Len(requests) + 1] = NewRequest(c)
  <1>1. NewRequest(c) \in [claim : Claims, time : Nat]
    BY DEF NewRequest
  <1> QED
    BY <1>1, AppendProperties

LEMMA FewerKeepsTrack ==
    ASSUME CodesInv, VerifierShape', Fewer
    PROVE  CodesInv'
  <1>1. ASSUME NEW v \in DOMAIN pending'
        PROVE  PendingTracked(v)'
    BY <1>1 DEF CodesInv, PendingTracked, Fewer, Newer
  <1> QED
    BY <1>1 DEF CodesInv

LEMMA OneMoreKeepsTrack ==
    ASSUME CodesInv, VerifierShape', NEW c \in Claims, NEW chain, OneMore(c, chain)
    PROVE  CodesInv'
  <1>1. /\ now \in Nat /\ requests \in Seq([claim : Claims, time : Nat])
        /\ requests' = Append(requests, NewRequest(c))
    BY DEF CodesInv, VerifierShape, OneMore
  <1>2. /\ Len(requests) \in Nat /\ Len(requests') = Len(requests) + 1
        /\ \A v \in 1 .. Len(requests) : requests'[v] = requests[v]
        /\ requests'[Len(requests) + 1] = NewRequest(c)
    BY <1>1, AppendKeeps
  <1>3. ASSUME NEW v \in DOMAIN pending'
        PROVE  PendingTracked(v)'
    <2>1. CASE v \in DOMAIN pending /\ pending[v].claim # c /\ pending'[v] = pending[v]
      <3>1. PendingTracked(v)
        BY <2>1 DEF CodesInv
      <3>2. ~Newer(v, requests)'
        BY <1>2, <2>1, <3>1 DEF Newer, NewRequest, PendingTracked
      <3> QED
        BY <1>2, <2>1, <3>1, <3>2 DEF PendingTracked
    <2>2. CASE v = Len(requests) + 1 /\ pending'[v] = NewPending(c, chain)
      <3>1. ~Newer(v, requests)'
        BY <1>2, <2>2 DEF Newer
      <3>2. chain \in Chains /\ ~Contains(chain, c)
        BY DEF OneMore, ActiveIn
      <3> QED
        BY <1>2, <2>2, <3>1, <3>2 DEF PendingTracked, NewPending, NewRequest
    <2> QED
      BY <1>3, <2>1, <2>2 DEF OneMore
  <1> QED
    BY <1>3 DEF CodesInv

\* What each operation of a verifier comes to.
LEMMA OperationEffect ==
    ASSUME NEW c, NEW chain, NEW v, NEW i,
           \/ VerifierCleanup \/ StartRefused(c, chain) \/ Delivered(v) \/ DeliveryFails(v)
           \/ Confirm(v) \/ StoredElsewhere(i, chain) \/ VerifierRestart
    PROVE  Fewer
  <1>1. CASE VerifierCleanup \/ StartRefused(c, chain)
    BY <1>1 DEF VerifierCleanup, StartRefused, Fewer, Keep, Live
  <1>2. CASE Delivered(v) \/ DeliveryFails(v) \/ StoredElsewhere(i, chain) \/ VerifierRestart
    BY <1>2 DEF Delivered, DeliveryFails, StoredElsewhere, VerifierRestart, Fewer, Keep
  <1>3. CASE Confirm(v)
    <2>1. ASSUME pending' = Keep(DOMAIN pending \ {v})
          PROVE  DOMAIN pending' \subseteq DOMAIN pending /\ \A w \in DOMAIN pending' : pending'[w] = pending[w]
      BY <2>1 DEF Keep
    <2>2. CASE ConfirmWrong(v)
      BY <2>1, <2>2 DEF ConfirmWrong, Fewer
    <2>3. CASE ConfirmExpired(v) \/ ConfirmRight(v)
      BY <2>1, <2>3 DEF ConfirmExpired, ConfirmRight, Fewer
    <2> QED
      BY <1>3, <2>2, <2>3 DEF Confirm
  <1> QED
    BY <1>1, <1>2, <1>3

LEMMA StartEffect ==
    ASSUME NEW c \in Claims, NEW chain, NEW supplied, StartAccepted(c, chain) \/ StartPhone(c, supplied)
    PROVE  \E shown : OneMore(c, shown)
  <1>1. ASSUME NEW shown, Startable(c, shown), requests' = Append(requests, NewRequest(c)),
               \/ Register(c, shown)
               \/ pending' = Keep({w \in Live("phone") : pending[w].claim # c})
        PROVE  OneMore(c, shown)
    <2>1. shown \in Chains /\ ActiveIn(shown, c)
      BY <1>1 DEF Startable
    <2>2. ASSUME NEW v \in DOMAIN pending'
          PROVE  \/ v \in DOMAIN pending /\ pending[v].claim # c /\ pending'[v] = pending[v]
                 \/ v = Len(requests) + 1 /\ pending'[v] = NewPending(c, shown)
      BY <1>1, <2>2 DEF Register, Keep, Live
    <2> QED
      BY <1>1, <2>1, <2>2 DEF OneMore
  <1>2. CASE StartAccepted(c, chain)
    BY <1>1, <1>2 DEF StartAccepted
  <1>3. CASE StartPhone(c, supplied)
    BY <1>1, <1>3 DEF StartPhone
  <1> QED
    BY <1>2, <1>3

LEMMA CodesStep ==
    ASSUME CodesInv, [Next]_vars
    PROVE  CodesInv'
  <1>1. now' \in Nat
    BY ClockStep DEF CodesInv, VerifierShape
  <1>2. ASSUME UNCHANGED verifierVars, restarts' \in {restarts, restarts + 1}
        PROVE  CodesInv'
    BY <1>1, <1>2 DEF CodesInv, VerifierShape, PendingTracked, Newer, verifierVars
  <1>3. ASSUME Fewer, restarts' \in {restarts, restarts + 1},
               stored' \in [Owners -> Chains \cup {NoChain}]
        PROVE  CodesInv'
    <2>1. VerifierShape'
      BY <1>1, <1>3 DEF CodesInv, VerifierShape, Fewer
    <2> QED
      BY <1>3, <2>1, FewerKeepsTrack
  <1>4. ASSUME NEW c \in Claims, NEW chain, OneMore(c, chain), restarts' = restarts, stored' = stored
        PROVE  CodesInv'
    <2>1. requests' \in Seq([claim : Claims, time : Nat])
      BY <1>4, AppendKeeps DEF CodesInv, VerifierShape, OneMore
    <2>2. VerifierShape'
      BY <1>1, <1>4, <2>1 DEF CodesInv, VerifierShape
    <2> QED
      BY <1>4, <2>2, OneMoreKeepsTrack
  <1>5. stored \in [Owners -> Chains \cup {NoChain}]
    BY DEF CodesInv, VerifierShape
  <1>6. CASE VerifierRestart /\ restarts' = restarts + 1
    <2>1. Fewer /\ stored' = stored
      BY <1>6 DEF VerifierRestart, Fewer
    <2> QED
      BY <1>3, <1>5, <1>6, <2>1
  <1>7. ASSUME restarts' = restarts, NEW c \in Claims, NEW chain, NEW supplied,
               StartAccepted(c, chain) \/ StartPhone(c, supplied)
        PROVE  CodesInv'
    <2>1. stored' = stored
      BY <1>7 DEF StartAccepted, StartPhone
    <2> QED
      BY <1>4, <1>7, <2>1, StartEffect
  <1>8. ASSUME restarts' = restarts, NEW c, NEW chain, NEW v,
               VerifierCleanup \/ StartRefused(c, chain) \/ Delivered(v) \/ DeliveryFails(v) \/ Confirm(v)
        PROVE  CodesInv'
    <2>1. stored' = stored
      BY <1>8 DEF VerifierCleanup, StartRefused, Delivered, DeliveryFails, Confirm,
                  ConfirmExpired, ConfirmWrong, ConfirmRight
    <2> QED
      BY <1>3, <1>5, <1>8, <2>1, OperationEffect
  <1>9. ASSUME restarts' = restarts, NEW i \in Owners, NEW chain \in Chains, StoredElsewhere(i, chain)
        PROVE  CodesInv'
    <2>1. Fewer
      BY <1>9 DEF StoredElsewhere, Fewer
    <2>2. stored' \in [Owners -> Chains \cup {NoChain}]
      BY <1>5, <1>9 DEF StoredElsewhere
    <2> QED
      BY <1>3, <1>9, <2>1, <2>2
  <1>10. CASE restarts' = restarts /\ VerifierCleanup
    BY <1>8, <1>10
  <1>11. ASSUME restarts' = restarts,
                \/ \E c \in Claims, chain \in Chains : StartRefused(c, chain) \/ StartAccepted(c, chain)
                \/ \E c \in Claims : \E supplied : StartPhone(c, supplied)
         PROVE  CodesInv'
    BY <1>7, <1>8, <1>11
  <1>12. ASSUME restarts' = restarts, NEW v \in Vids, Delivered(v) \/ DeliveryFails(v) \/ Confirm(v)
         PROVE  CodesInv'
    BY <1>8, <1>12
  <1> QED
    BY <1>2, <1>6, <1>9, <1>10, <1>11, <1>12, VerifierStep

\* The longer of the stored chain and the one shown has the withdrawals of
\* both: a claim active in it is withdrawn in neither.
LEMMA ActiveInBoth ==
    ASSUME NEW mine \in Chains \cup {NoChain}, NEW shown \in Chains, NEW c,
           ActiveIn(ChooseSigchain(mine, shown), c), ~Contains(shown, c)
    PROVE  mine # NoChain => ~Contains(mine, c)
  <1> SUFFICES ASSUME mine # NoChain
               PROVE  ~Contains(mine, c)
    OBVIOUS
  <1>1. mine \in Seq(Claims) /\ shown \in Seq(Claims) /\ shown # NoChain
    BY CodeVerifierAssumption
  <1>2. CASE IsPrefix(mine, shown)
    <2>1. Len(mine) \in Nat /\ Len(shown) \in Nat /\ Len(mine) <= Len(shown)
      BY <1>1, <1>2, LenProperties DEF IsPrefix
    <2>2. SubSeq(mine, 1, Len(mine)) = SubSeq(shown, 1, Len(mine))
      BY <1>2 DEF IsPrefix
    <2>3. \A k \in 1 .. Len(mine) : mine[k] = shown[k]
      BY <1>1, <2>1, <2>2, SubSeqProperties
    <2> QED
      BY <2>1, <2>3 DEF Contains
  <1>3. CASE ~IsPrefix(mine, shown)
    <2>1. ChooseSigchain(mine, shown) \in {mine, NoChain}
      BY <1>1, <1>3 DEF ChooseSigchain
    <2> QED
      BY <2>1 DEF ActiveIn
  <1> QED
    BY <1>2, <1>3

LEMMA CodesInit == Init => CodesInv
  <1> SUFFICES ASSUME Init
               PROVE  CodesInv
    OBVIOUS
  <1>1. pending = << >> /\ DOMAIN pending = {} /\ requests = << >> /\ now = 0 /\ restarts = 0
        /\ stored = [i \in Owners |-> NoChain]
    BY DEF Init, ClockInit, VerifierInit
  <1> QED
    BY <1>1 DEF CodesInv, VerifierShape

\* An attestation is bought with the code of the newest request for its
\* claim, in time, and for a claim that neither chain withdraws.
THEOREM NewestCodesBuy == Spec => BoughtByNewestCode
  <1> DEFINE Bought ==
          \A a \in attestations' \ attestations :
              /\ ~Newer(a.vid, requests)
              /\ now <= requests[a.vid].time + CodeTtl
              /\ ~Contains(pending[a.vid].chain, a.claim)
              /\ stored[OwnerOf[a.claim]] # NoChain => ~Contains(stored[OwnerOf[a.claim]], a.claim)
  <1>1. ASSUME CodesInv, [Next]_vars
        PROVE  Bought
    <2>1. ASSUME attestations' = attestations
          PROVE  Bought
      BY <2>1
    <2>2. ASSUME NEW v, ConfirmRight(v)
          PROVE  Bought
      <3> DEFINE c == pending[v].claim
                 chain == ChooseSigchain(stored[OwnerOf[c]], pending[v].chain)
      <3>1. v \in DOMAIN pending /\ ~CodeExpired(v)
            /\ attestations' = IF ActiveIn(chain, c) THEN attestations \cup {[vid |-> v, claim |-> c]}
                               ELSE attestations
        BY <2>2 DEF ConfirmRight
      <3>2. PendingTracked(v)
        BY <1>1, <3>1 DEF CodesInv
      <3>3. CASE ActiveIn(chain, c)
        <4>1. c \in Claims /\ requests[v].time \in Nat
          <5>1. requests \in Seq([claim : Claims, time : Nat]) /\ v \in 1 .. Len(requests)
            BY <1>1, <3>2 DEF CodesInv, VerifierShape, PendingTracked
          <5>2. requests[v] \in [claim : Claims, time : Nat]
            BY <5>1, ElementOfSeq
          <5> QED
            BY <3>2, <5>2 DEF PendingTracked
        <4>2. stored[OwnerOf[c]] \in Chains \cup {NoChain}
          BY <1>1, <4>1, VerificationAssumption DEF CodesInv, VerifierShape, Owners, Range
        <4>3. pending[v].chain \in Chains /\ ~Contains(pending[v].chain, c)
          BY <3>2 DEF PendingTracked
        <4>4. stored[OwnerOf[c]] # NoChain => ~Contains(stored[OwnerOf[c]], c)
          BY <3>3, <4>2, <4>3, ActiveInBoth
        <4>5. ~Newer(v, requests)
          BY <3>2 DEF PendingTracked
        <4>6. now <= requests[v].time + CodeTtl
          BY <1>1, <3>1, <3>2, <4>1, CodeVerifierAssumption DEF CodeExpired, PendingTracked, CodesInv, VerifierShape
        <4>7. \A a \in attestations' \ attestations : a.vid = v /\ a.claim = c
          BY <3>1
        <4> QED
          BY <4>3, <4>4, <4>5, <4>6, <4>7
      <3>4. CASE ~ActiveIn(chain, c)
        BY <2>1, <3>1, <3>4
      <3> QED
        BY <3>3, <3>4
    <2>3. ASSUME NEW v, Delivered(v) \/ DeliveryFails(v) \/ ConfirmExpired(v) \/ ConfirmWrong(v)
          PROVE  Bought
      BY <2>1, <2>3 DEF Delivered, DeliveryFails, ConfirmExpired, ConfirmWrong
    <2>4. ASSUME NEW c, NEW chain, StartRefused(c, chain) \/ StartAccepted(c, chain) \/ StartPhone(c, chain)
          PROVE  Bought
      BY <2>1, <2>4 DEF StartRefused, StartAccepted, StartPhone
    <2>5. ASSUME \/ UNCHANGED verifierVars \/ VerifierRestart \/ VerifierCleanup
                 \/ \E i, chain : StoredElsewhere(i, chain)
          PROVE  Bought
      BY <2>1, <2>5 DEF verifierVars, VerifierRestart, VerifierCleanup, StoredElsewhere
    <2>6. ASSUME NEW v, Confirm(v)
          PROVE  Bought
      BY <2>2, <2>3, <2>6 DEF Confirm
    <2> QED
      BY <1>1, <2>3, <2>4, <2>5, <2>6, VerifierStep
  <1>2. ASSUME CodesInv, [Next]_vars
        PROVE  [Bought]_vars
    BY <1>1, <1>2
  <1> QED
    BY <1>2, CodesInit, CodesStep, PTL DEF Spec, BoughtByNewestCode

\* What takes a verification away is its end, a newer request, its own failed
\* delivery, or a restart.
THEOREM VerificationsLeftAlone == Spec => OthersLeaveItAlone
  <1> DEFINE Alone ==
          \A v \in DOMAIN pending \ DOMAIN pending' :
              CodeExpired(v) \/ Confirm(v) \/ Newer(v, requests')
                 \/ v \in delivering \ delivering' \/ restarts' > restarts
  <1>1. ASSUME CodesInv, [Next]_vars
        PROVE  Alone
    <2>1. ASSUME DOMAIN pending' = DOMAIN pending
          PROVE  Alone
      BY <2>1
    <2>2. \A v \in DOMAIN pending : pending[v].expires_at \in Int
      <3>1. ASSUME NEW v \in DOMAIN pending
            PROVE  requests[v] \in [claim : Claims, time : Nat] /\ PendingTracked(v)
        BY <1>1, ElementOfSeq DEF CodesInv, VerifierShape, PendingTracked
      <3> QED
        BY <3>1, CodeVerifierAssumption DEF PendingTracked
    <2>3. now \in Nat /\ restarts \in Nat
      BY <1>1 DEF CodesInv, VerifierShape
    <2>4. ASSUME NEW c, NEW chain, VerifierCleanup \/ StartRefused(c, chain)
          PROVE  Alone
      BY <2>2, <2>3, <2>4 DEF VerifierCleanup, StartRefused, Keep, Live, CodeExpired
    <2>5. ASSUME NEW c \in Claims, NEW chain, StartAccepted(c, chain) \/ StartPhone(c, chain)
          PROVE  Alone
      <3>1. requests' = Append(requests, NewRequest(c))
            /\ {v \in Live(KindOf[c]) : pending[v].claim # c} \subseteq DOMAIN pending'
        BY <2>5 DEF StartAccepted, StartPhone, Register, Keep
      <3>2. /\ Len(requests) \in Nat /\ Len(requests') = Len(requests) + 1
            /\ \A v \in 1 .. Len(requests) : requests'[v] = requests[v]
            /\ requests'[Len(requests) + 1] = NewRequest(c)
        BY <1>1, <3>1, AppendKeeps DEF CodesInv, VerifierShape
      <3>3. ASSUME NEW v \in DOMAIN pending \ DOMAIN pending'
            PROVE  CodeExpired(v) \/ Newer(v, requests')
        <4>1. CASE v \notin Live(KindOf[c])
          BY <2>2, <2>3, <4>1 DEF Live, CodeExpired
        <4>2. CASE v \in Live(KindOf[c])
          <5>1. v \in 1 .. Len(requests) /\ requests[v].claim = c
            BY <1>1, <3>1, <3>3, <4>2 DEF CodesInv, PendingTracked
          <5> QED
            BY <3>2, <5>1 DEF Newer, NewRequest
        <4> QED
          BY <4>1, <4>2
      <3> QED
        BY <3>3
    <2>6. ASSUME NEW v, Delivered(v) \/ DeliveryFails(v)
          PROVE  Alone
      BY <2>6 DEF Delivered, DeliveryFails, Keep
    <2>7. ASSUME NEW v, Confirm(v)
          PROVE  Alone
      <3>1. DOMAIN pending \ {v} \subseteq DOMAIN pending'
        BY <2>7 DEF Confirm, ConfirmExpired, ConfirmWrong, ConfirmRight, Keep
      <3> QED
        BY <2>7, <3>1
    <2>8. ASSUME \/ UNCHANGED verifierVars \/ \E i, chain : StoredElsewhere(i, chain)
          PROVE  Alone
      BY <2>1, <2>8 DEF verifierVars, StoredElsewhere
    <2>9. ASSUME restarts' = restarts + 1
          PROVE  Alone
      BY <2>3, <2>9
    <2> QED
      BY <1>1, <2>4, <2>5, <2>6, <2>7, <2>8, <2>9, VerifierStep
  <1>2. ASSUME CodesInv, [Next]_vars
        PROVE  [Alone]_vars
    BY <1>1, <1>2
  <1> QED
    BY <1>2, CodesInit, CodesStep, PTL DEF Spec, OthersLeaveItAlone

-----------------------------------------------------------------------------
(* The jobs, the ledger and the modem *)

Job == [to : Allowed, expires_at : Nat, state : {QUEUED, LEASED, SENT, FAILED}, attempts : 0 .. MaxLeases,
        lease_until : Nat, error : {"", "gateway_no_answer", "rejected", "failed"}]
SmsMessage == [id : Nat, to : Allowed, expires_at : Nat]
Attempt == [id : Nat, to : Allowed, time : Nat, handed : BOOLEAN]

\* When the code of request `id` expires.
Due(id) == requests[id].time + CodeTtl

TakenIds == {modem[m].id : m \in DOMAIN modem}

\* A job has the number and the expiry of its request, and is "sent" only if
\* the gateway let it through.
OutboxTracked ==
    \A id \in Jobs : /\ id \in 1 .. Len(requests) /\ jobs[id] \in Job
                     /\ jobs[id].expires_at = Due(id)
                     /\ jobs[id].state = SENT => id \in TakenIds

\* So have the messages in the gateway's hands; a report of "sent" is about a
\* message that was let through.
LoopTracked ==
    /\ batch \in Seq(SmsMessage)
    /\ \A k \in 1 .. Len(batch) : /\ batch[k].id \in 1 .. Len(requests)
                                  /\ batch[k].expires_at = Due(batch[k].id)
    /\ at \in {"next", "send", "report"} => batch # << >>
    /\ at = "send" => Message.id \in TakenIds
    /\ at = "report" => verdict \in {"sent", "failed", "rejected"}
    /\ at = "report" /\ verdict = "sent" => Message.id \in TakenIds

\* The ledger has ids that were let through, not before they were asked for.
LedgerTracked ==
    \A id \in DOMAIN ledger.done :
        /\ id \in 1 .. Len(requests) /\ id \in TakenIds
        /\ ledger.done[id] \in Nat /\ requests[id].time <= ledger.done[id]

\* No id is let through twice, and the ledger forgets none before the code is
\* dead.
ModemTracked ==
    /\ modem \in Seq(Attempt)
    /\ \A m \in 1 .. Len(modem) : /\ modem[m].id \in 1 .. Len(requests)
                                  /\ modem[m].id \in DOMAIN ledger.done \/ Due(modem[m].id) <= now
    /\ \A m, n \in 1 .. Len(modem) : modem[m].id = modem[n].id => m = n

RequestsPast == \A v \in 1 .. Len(requests) : requests[v].time <= now

OnceInv == RequestsPast /\ OutboxTracked /\ LoopTracked /\ LedgerTracked /\ ModemTracked

\* Time passes and requests are added.
Onward ==
    /\ VerifierShape /\ VerifierShape'
    /\ now <= now'
    /\ Len(requests) \in Nat /\ Len(requests') \in Nat /\ Len(requests) <= Len(requests')
    /\ \A v \in 1 .. Len(requests) : /\ requests[v] \in [claim : Claims, time : Nat]
                                     /\ requests'[v] = requests[v] /\ Due(v)' = Due(v)
                                     /\ Due(v) \in Nat

LEMMA OnwardStep ==
    ASSUME CodesInv, [Next]_vars
    PROVE  Onward
  <1>1. /\ requests \in Seq([claim : Claims, time : Nat]) /\ Len(requests) \in Nat /\ now \in Nat
        /\ \A v \in 1 .. Len(requests) : requests[v] \in [claim : Claims, time : Nat]
    BY ElementOfSeq, LenProperties DEF CodesInv, VerifierShape
  <1>2. VerifierShape /\ VerifierShape' /\ now <= now'
    BY CodesStep, <1>1, ClockStep DEF CodesInv
  <1>3. requests' = requests \/ \E c \in Claims : \E shown : OneMore(c, shown)
    BY VerifierStep, OperationEffect, StartEffect DEF verifierVars, Fewer, StoredElsewhere
  <1>4. Len(requests') \in Nat /\ Len(requests) <= Len(requests')
        /\ \A v \in 1 .. Len(requests) : requests'[v] = requests[v]
    BY <1>1, <1>3, AppendKeeps DEF OneMore
  <1>5. \A v \in 1 .. Len(requests) : Due(v)' = Due(v) /\ Due(v) \in Nat
    BY <1>1, <1>4, CodeVerifierAssumption DEF Due
  <1> QED
    BY <1>1, <1>2, <1>4, <1>5 DEF Onward

-----------------------------------------------------------------------------
(* The queue *)

USE DEF Jobs

\* Jobs go, change without losing their outcome or their expiry, or are the
\* one of a new request.
JobsEffect ==
    \A id \in DOMAIN jobs' :
        /\ jobs'[id] \in Job
        /\ \/ /\ id \in Jobs /\ jobs'[id].expires_at = jobs[id].expires_at
              /\ ~Waiting(jobs[id]) => jobs'[id].state = jobs[id].state
              /\ jobs'[id].state = SENT => jobs[id].state = SENT \/ id \in TakenIds
           \/ /\ id = Len(requests) + 1 /\ Len(requests') = id
              /\ jobs'[id].expires_at = Due(id)' /\ jobs'[id].state = QUEUED

LEMMA LeaseEffect ==
    ASSUME OutboxTracked, now \in Nat, Lease
    PROVE  JobsEffect
  <1>1. \A id \in Jobs : jobs[id] \in Job
    BY DEF OutboxTracked
  <1>2. ASSUME NEW id \in Jobs
        PROVE  /\ jobs'[id] \in Job /\ jobs'[id].expires_at = jobs[id].expires_at
               /\ ~Waiting(jobs[id]) => jobs'[id].state = jobs[id].state
               /\ jobs'[id].state = SENT => jobs[id].state = SENT
    <2>1. CASE id \in Leased
      <3>0. jobs[id].attempts \in 0 .. MaxLeases
        BY <1>1 DEF Job
      <3>1. jobs'[id] = HandedOut(jobs[id])
        <4>1. id \notin GivenUp
          BY <2>1, <3>0, SmsOutboxAssumption DEF Leased, Leasable, GivenUp
        <4> QED
          BY <2>1, <4>1 DEF Lease
      <3>2. Waiting(jobs[id])
        BY <2>1 DEF Leased, Leasable, Offered, Waiting
      <3>3. HandedOut(jobs[id]) \in Job
        <4>1. now + LeaseSeconds \in Nat /\ jobs[id].attempts + 1 \in 0 .. MaxLeases
          BY <2>1, <3>0, SmsOutboxAssumption DEF Leased, Leasable
        <4> QED
          BY <1>1, <4>1 DEF HandedOut, Job
      <3>4. /\ HandedOut(jobs[id]).state = LEASED
            /\ HandedOut(jobs[id]).expires_at = jobs[id].expires_at
        BY <1>1 DEF HandedOut, Job
      <3> QED
        BY <3>1, <3>2, <3>3, <3>4 DEF LEASED, SENT
    <2>2. CASE id \notin Leased /\ id \in GivenUp
      <3>1. jobs'[id] = [jobs[id] EXCEPT !.state = FAILED, !.error = "gateway_no_answer"]
        BY <2>2 DEF Lease
      <3>2. Waiting(jobs[id])
        BY <2>2 DEF GivenUp, Offered, Waiting
      <3> QED
        BY <1>1, <3>1, <3>2 DEF Job, FAILED, SENT
    <2>3. CASE id \notin Leased /\ id \notin GivenUp
      BY <1>1, <2>3 DEF Lease
    <2> QED
      BY <2>1, <2>2, <2>3
  <1>3. DOMAIN jobs' = Jobs
    BY DEF Lease
  <1> QED
    BY <1>2, <1>3 DEF JobsEffect

LEMMA ReportEffect ==
    ASSUME OutboxTracked, LoopTracked, Reported, ReportOutcome(Message.id, verdict)
    PROVE  JobsEffect
  <1>1. \A id \in Jobs : jobs[id] \in Job
    BY DEF OutboxTracked
  <1>2. /\ verdict \in {"sent", "failed", "rejected"}
        /\ verdict = "sent" => Message.id \in TakenIds
    BY DEF LoopTracked, Reported
  <1>3. CASE ~Reportable(Message.id)
    BY <1>1, <1>3 DEF ReportOutcome, JobsEffect
  <1>4. CASE Reportable(Message.id)
    <2>1. Message.id \in Jobs /\ Waiting(jobs[Message.id])
      BY <1>4 DEF Reportable
    <2>2. ASSUME NEW id \in Jobs
          PROVE  jobs'[id] = IF id # Message.id THEN jobs[id]
                             ELSE [jobs[id] EXCEPT !.state = IF verdict = "sent" THEN SENT ELSE FAILED,
                                                   !.error = IF verdict = "sent" THEN "" ELSE verdict]
      BY <1>4, <2>1 DEF ReportOutcome
    <2>3. DOMAIN jobs' = Jobs
      BY <1>4 DEF ReportOutcome
    <2>4. ASSUME NEW id \in Jobs
          PROVE  /\ jobs'[id] \in Job /\ jobs'[id].expires_at = jobs[id].expires_at
                 /\ ~Waiting(jobs[id]) => jobs'[id].state = jobs[id].state
                 /\ jobs'[id].state = SENT => jobs[id].state = SENT \/ id \in TakenIds
      <3>1. CASE id # Message.id
        BY <1>1, <2>2, <3>1
      <3>2. CASE id = Message.id
        <4>1. jobs'[id] = [jobs[id] EXCEPT !.state = IF verdict = "sent" THEN SENT ELSE FAILED,
                                           !.error = IF verdict = "sent" THEN "" ELSE verdict]
          BY <2>2, <3>2
        <4>2. jobs'[id] \in Job /\ jobs'[id].expires_at = jobs[id].expires_at
          BY <1>1, <1>2, <4>1 DEF Job, SENT, FAILED
        <4>3. jobs'[id].state = IF verdict = "sent" THEN SENT ELSE FAILED
          BY <1>1, <4>1 DEF Job
        <4> QED
          BY <1>2, <2>1, <3>2, <4>2, <4>3 DEF SENT, FAILED
      <3> QED
        BY <3>1, <3>2
    <2> QED
      BY <2>3, <2>4 DEF JobsEffect
  <1> QED
    BY <1>3, <1>4

LEMMA StartJobsEffect ==
    ASSUME OutboxTracked, Onward, NEW c \in Claims, NEW supplied, StartPhone(c, supplied)
    PROVE  JobsEffect
  <1>1. \A id \in DOMAIN KeptJobs : id \in Jobs /\ KeptJobs[id] = jobs[id] /\ jobs[id] \in Job
    BY DEF OutboxTracked, KeptJobs
  <1>2. CASE OutboxFull
    <2>1. jobs' = KeptJobs
      BY <1>2 DEF StartPhone, EnqueueRefused
    <2> QED
      BY <1>1, <2>1 DEF JobsEffect
  <1>3. CASE ~OutboxFull
    <2>0. PICK v \in Nat : v = Len(requests) + 1
      BY DEF Onward
    <2> DEFINE new == [to |-> AddressOf[c], expires_at |-> now + CodeTtl, state |-> QUEUED,
                       attempts |-> 0, lease_until |-> 0, error |-> ""]
    <2>1. jobs' = [i \in DOMAIN KeptJobs \cup {v} |-> IF i = v THEN new ELSE jobs[i]]
      BY <1>3, <2>0 DEF StartPhone, Enqueue
    <2>2. requests' = Append(requests, NewRequest(c))
      BY DEF StartPhone
    <2>3. Len(requests') = v /\ requests'[v] = NewRequest(c) /\ now \in Nat
      BY <2>0, <2>2, AppendKeeps DEF Onward, VerifierShape
    <2>4. Due(v)' = now + CodeTtl
      BY <2>3 DEF Due, NewRequest
    <2>5. new \in Job
      <3>1. AddressOf[c] \in Allowed /\ now + CodeTtl \in Nat /\ 0 \in 0 .. MaxLeases
        BY <2>3, CodeVerifierAssumption, SmsOutboxAssumption DEF StartPhone, ValueOk
      <3> QED
        BY <3>1 DEF Job, QUEUED, LEASED, SENT, FAILED
    <2>6. ASSUME NEW id \in DOMAIN jobs', id # v
          PROVE  id \in Jobs /\ jobs'[id] = jobs[id] /\ jobs[id] \in Job
      BY <1>1, <2>1, <2>6
    <2>7. v \in DOMAIN jobs' => jobs'[v] = new
      BY <2>1
    <2> QED
      <3>1. new.expires_at = now + CodeTtl /\ new.state = QUEUED
        OBVIOUS
      <3>2. ASSUME NEW id \in DOMAIN jobs', id = v
            PROVE  /\ jobs'[id] \in Job /\ id = Len(requests) + 1 /\ Len(requests') = id
                   /\ jobs'[id].expires_at = Due(id)' /\ jobs'[id].state = QUEUED
        <4> HIDE DEF new
        <4> QED
          BY <2>0, <2>3, <2>4, <2>5, <2>7, <3>1, <3>2
      <3> QED
        BY <2>6, <3>2 DEF JobsEffect
  <1> QED
    BY <1>2, <1>3

LEMMA JobsStep ==
    ASSUME CodesInv, OnceInv, [Next]_vars
    PROVE  JobsEffect
  <1>1. OutboxTracked /\ LoopTracked /\ now \in Nat
    BY DEF OnceInv, CodesInv, VerifierShape
  <1>2. ASSUME DOMAIN jobs' \subseteq Jobs, \A id \in DOMAIN jobs' : jobs'[id] = jobs[id]
        PROVE  JobsEffect
    BY <1>1, <1>2 DEF OutboxTracked, JobsEffect
  <1>3. CASE CleanupTask
    BY <1>2, <1>3 DEF CleanupTask, OutboxCleanup, KeptJobs
  <1>4. CASE ServiceRestarts
    <2>1. jobs' = << >> /\ DOMAIN jobs' = {}
      BY <1>4 DEF ServiceRestarts, OutboxRestart
    <2> QED
      BY <2>1 DEF JobsEffect
  <1>5. CASE ClockTicks \/ GatewayProcesses \/ GatewayRestarts \/ UNCHANGED vars
    BY <1>2, <1>5 DEF ClockTicks, GatewayProcesses, GatewayRestarts, vars, outboxVars
  <1>6. ASSUME NEW c \in Claims, NEW supplied, Refuses(c, supplied) \/ StartEmail(c, supplied)
        PROVE  JobsEffect
    BY <1>2, <1>6 DEF Refuses, StartEmail, outboxVars
  <1>7. ASSUME NEW c \in Claims, NEW supplied, StartPhone(c, supplied)
        PROVE  JobsEffect
    BY <1>1, <1>7, StartJobsEffect, OnwardStep
  <1>8. ASSUME NEW v, MailAccepted(v) \/ MailFails(v) \/ Confirm(v)
        PROVE  JobsEffect
    BY <1>2, <1>8 DEF MailAccepted, MailFails, Confirm, outboxVars
  <1>9. ASSUME NEW i, NEW chain, ChainStored(i, chain)
        PROVE  JobsEffect
    BY <1>2, <1>9 DEF ChainStored, outboxVars
  <1>10. ASSUME NEW lost, NEW request, NEW late, GatewayAsks(lost) \/ GatewayWaits(request, late, lost)
         PROVE  JobsEffect
    BY <1>1, <1>10, LeaseEffect DEF GatewayAsks, GatewayWaits
  <1>11. ASSUME NEW confirmed, GatewaySends(confirmed)
         PROVE  JobsEffect
    BY <1>2, <1>11 DEF GatewaySends, outboxVars
  <1>12. ASSUME NEW arrives, GatewayReports(arrives)
         PROVE  JobsEffect
    BY <1>1, <1>2, <1>12, ReportEffect DEF GatewayReports
  <1> QED
    BY <1>3, <1>4, <1>5, <1>6, <1>7, <1>8, <1>9, <1>10, <1>11, <1>12 DEF Next

\* An outcome that was shown stays.
LEMMA OutcomesKept ==
    ASSUME CodesInv, OnceInv, [Next]_vars
    PROVE  \A id \in Jobs \cap DOMAIN jobs' : ~Waiting(jobs[id]) => jobs'[id].state = jobs[id].state
  <1>1. JobsEffect /\ Onward
    BY JobsStep, OnwardStep
  <1>2. \A id \in Jobs : id \in 1 .. Len(requests)
    BY DEF OnceInv, OutboxTracked
  <1>3. Len(requests) + 1 \notin Jobs
    BY <1>1, <1>2 DEF Onward
  <1> QED
    BY <1>1, <1>3 DEF JobsEffect

LEMMA OutboxKept ==
    ASSUME OutboxTracked, JobsEffect, Onward, TakenIds \subseteq TakenIds'
    PROVE  OutboxTracked'
  <1>1. ASSUME NEW id \in DOMAIN jobs'
        PROVE  /\ id \in 1 .. Len(requests') /\ jobs'[id] \in Job
               /\ jobs'[id].expires_at = Due(id)'
               /\ jobs'[id].state = SENT => id \in TakenIds'
    <2>1. CASE /\ id \in Jobs /\ jobs'[id].expires_at = jobs[id].expires_at
               /\ jobs'[id].state = SENT => jobs[id].state = SENT \/ id \in TakenIds
      BY <1>1, <2>1 DEF OutboxTracked, JobsEffect, Onward
    <2>2. CASE /\ id = Len(requests) + 1 /\ Len(requests') = id
               /\ jobs'[id].expires_at = Due(id)' /\ jobs'[id].state = QUEUED
      BY <1>1, <2>2 DEF JobsEffect, Onward, QUEUED, SENT
    <2> QED
      BY <1>1, <2>1, <2>2 DEF JobsEffect
  <1> QED
    BY <1>1 DEF OutboxTracked

-----------------------------------------------------------------------------
(* The messages of an answer *)

\* The messages of an answer are those of jobs.
LEMMA MessagesTracked ==
    ASSUME OutboxTracked, Onward
    PROVE  /\ MessagesOf(Leased) \in Seq(SmsMessage)
           /\ \A k \in 1 .. Len(MessagesOf(Leased)) :
                 /\ MessagesOf(Leased)[k].id \in 1 .. Len(requests)
                 /\ MessagesOf(Leased)[k].expires_at = Due(MessagesOf(Leased)[k].id)
  <1>1. Leased \in SUBSET Nat /\ Leased \subseteq 1 .. Len(requests) /\ Leased \subseteq Jobs
    <2>1. Leased \subseteq Jobs
      BY DEF Leased, Leasable
    <2>2. Jobs \subseteq 1 .. Len(requests) /\ Len(requests) \in Nat
      BY DEF OutboxTracked, Onward
    <2> QED
      BY <2>1, <2>2
  <1>2. Cardinality(Leased) \in Nat
    <2>1. IsFiniteSet(1 .. Len(requests))
      BY FS_Interval DEF Onward
    <2> QED
      BY <1>1, <2>1, FS_Subset, FS_CardinalityType
  <1> DEFINE Kth(k) == Nth(Leased, k)
             Msg(id) == [id |-> id, to |-> jobs[id].to, expires_at |-> jobs[id].expires_at]
  <1>3. \A k \in 1 .. Cardinality(Leased) : Kth(k) \in Leased
    <2>1. Len(requests) \in Nat /\ Leased \in SUBSET (1 .. Len(requests))
      BY <1>1 DEF Onward
    <2> QED
      BY <2>1, NthIs
  <1> HIDE DEF Kth
  <1>4. \A id \in Leased : Msg(id) \in SmsMessage /\ Msg(id).id = id /\ Msg(id).expires_at = Due(id)
    BY <1>1 DEF OutboxTracked, Job, SmsMessage
  <1> HIDE DEF Msg
  <1>5. MessagesOf(Leased) = [k \in 1 .. Cardinality(Leased) |-> Msg(Kth(k))]
    <2>1. \A k \in 1 .. Cardinality(Leased) :
            [id \in Leased |-> [id |-> id, to |-> jobs[id].to, expires_at |-> jobs[id].expires_at]][Nth(Leased, k)]
              = Msg(Nth(Leased, k))
      BY <1>3 DEF Msg, Kth
    <2> QED
      BY <2>1 DEF MessagesOf, Selected, Kth
  <1>6. \A k \in 1 .. Cardinality(Leased) : MessagesOf(Leased)[k] = Msg(Kth(k))
    BY <1>5
  <1>7. MessagesOf(Leased) \in Seq(SmsMessage) /\ Len(MessagesOf(Leased)) = Cardinality(Leased)
    BY <1>2, <1>3, <1>4, <1>5, IsASeq
  <1> QED
    <2>1. ASSUME NEW k \in 1 .. Len(MessagesOf(Leased))
          PROVE  /\ MessagesOf(Leased)[k].id \in 1 .. Len(requests)
                 /\ MessagesOf(Leased)[k].expires_at = Due(MessagesOf(Leased)[k].id)
      <3>1. Kth(k) \in Leased /\ MessagesOf(Leased)[k] = Msg(Kth(k))
        BY <1>3, <1>6, <1>7
      <3> QED
        BY <1>1, <1>4, <3>1
    <2> QED
      BY <1>7, <2>1

-----------------------------------------------------------------------------
(* The gateway *)

\* What a step does to the gateway.
LEMMA GatewayStep ==
    ASSUME [Next]_vars
    PROVE  \/ UNCHANGED gatewayVars \/ Answered(<< >>) \/ Answered(MessagesOf(Leased)) \/ Ask
           \/ (Process /\ now' = now) \/ Reported \/ GatewayRestart \/ \E confirmed : ModemSend(confirmed)
  <1>1. CASE ClockTicks \/ CleanupTask \/ UNCHANGED vars
    BY <1>1 DEF ClockTicks, CleanupTask, vars
  <1>2. ASSUME NEW c, NEW supplied, Refuses(c, supplied) \/ StartEmail(c, supplied) \/ StartPhone(c, supplied)
        PROVE  UNCHANGED gatewayVars
    BY <1>2 DEF Refuses, StartEmail, StartPhone
  <1>3. ASSUME NEW v, MailAccepted(v) \/ MailFails(v) \/ Confirm(v)
        PROVE  UNCHANGED gatewayVars
    BY <1>3 DEF MailAccepted, MailFails, Confirm
  <1>4. ASSUME NEW i, NEW chain, ChainStored(i, chain)
        PROVE  UNCHANGED gatewayVars
    BY <1>4 DEF ChainStored
  <1>5. ASSUME NEW lost, NEW request, NEW late, GatewayAsks(lost) \/ GatewayWaits(request, late, lost)
        PROVE  \/ UNCHANGED gatewayVars \/ Answered(<< >>) \/ Answered(MessagesOf(Leased)) \/ Ask
    BY <1>5 DEF GatewayAsks, GatewayWaits, Answer
  <1>6. CASE GatewayProcesses
    BY <1>6 DEF GatewayProcesses
  <1>7. ASSUME NEW confirmed, GatewaySends(confirmed)
        PROVE  ModemSend(confirmed)
    BY <1>7 DEF GatewaySends
  <1>8. ASSUME NEW arrives, GatewayReports(arrives)
        PROVE  Reported
    BY <1>8 DEF GatewayReports
  <1>9. CASE GatewayRestarts \/ ServiceRestarts
    BY <1>9 DEF GatewayRestarts, ServiceRestarts
  <1> QED
    BY <1>1, <1>2, <1>3, <1>4, <1>5, <1>6, <1>7, <1>8, <1>9 DEF Next

\* Requests never lie in the future.
LEMMA RequestsStayPast ==
    ASSUME RequestsPast, CodesInv, [Next]_vars
    PROVE  RequestsPast'
  <1>1. Onward
    BY OnwardStep
  <1>2. requests' = requests \/ \E c \in Claims : \E shown : OneMore(c, shown)
    BY VerifierStep, OperationEffect, StartEffect DEF verifierVars, Fewer, StoredElsewhere
  <1> QED
    <2>1. now \in Nat /\ now' \in Nat /\ now <= now'
          /\ \A v \in 1 .. Len(requests) : requests[v].time \in Nat /\ requests[v].time <= now
      BY <1>1 DEF RequestsPast, Onward, VerifierShape
    <2>2. CASE requests' = requests
      BY <2>1, <2>2 DEF RequestsPast
    <2>3. ASSUME NEW c \in Claims, NEW shown, OneMore(c, shown)
          PROVE  RequestsPast'
      <3>1. /\ Len(requests) \in Nat /\ Len(requests') = Len(requests) + 1
            /\ \A v \in 1 .. Len(requests) : requests'[v] = requests[v]
            /\ requests'[Len(requests) + 1].time = now
        BY <1>1, <2>3, AppendKeeps DEF Onward, OneMore, NewRequest, VerifierShape
      <3> QED
        BY <2>1, <3>1 DEF RequestsPast
    <2> QED
      BY <1>2, <2>2, <2>3

\* A step that leaves ledger and modem alone.
LEMMA LedgerKept ==
    ASSUME LedgerTracked, ModemTracked, Onward, ledger' = ledger, modem' = modem
    PROVE  LedgerTracked' /\ ModemTracked' /\ TakenIds' = TakenIds
  <1>1. TakenIds' = TakenIds
    BY DEF TakenIds
  <1>2. LedgerTracked'
    BY <1>1 DEF LedgerTracked, Onward
  <1>3. ASSUME NEW m \in 1 .. Len(modem)
        PROVE  (/\ modem[m].id \in 1 .. Len(requests)
                /\ modem[m].id \in DOMAIN ledger.done \/ Due(modem[m].id) <= now)'
    <2>1. PICK id \in 1 .. Len(requests) : id = modem[m].id
      BY DEF ModemTracked
    <2>2. Due(id)' = Due(id) /\ Due(id) \in Nat /\ now \in Nat /\ now' \in Nat /\ now <= now'
      BY DEF Onward, VerifierShape
    <2>3. id \in DOMAIN ledger.done \/ Due(id) <= now
      BY <2>1 DEF ModemTracked
    <2>4. (id \in DOMAIN ledger.done \/ Due(id) <= now)'
      BY <2>2, <2>3
    <2>5. id \in 1 .. Len(requests') /\ id = modem'[m].id
      BY <2>1 DEF Onward
    <2> QED
      BY <2>4, <2>5
  <1> QED
    BY <1>1, <1>2, <1>3 DEF ModemTracked

\* The modem answers: the attempt is marked, its id stays.
LEMMA SendKeeps ==
    ASSUME LoopTracked, LedgerTracked, ModemTracked, Onward, NEW confirmed, ModemSend(confirmed)
    PROVE  LedgerTracked' /\ ModemTracked' /\ TakenIds' = TakenIds
  <1>1. modem' \in Seq(Attempt) /\ Len(modem') = Len(modem) /\ Len(modem) \in Nat
    <2>1. modem \in Seq(Attempt) /\ modem' = [modem EXCEPT ![Len(modem)].handed = TRUE]
      BY DEF ModemSend, ModemTracked
    <2>2. DOMAIN modem # {}
      BY DEF LoopTracked, ModemSend, TakenIds
    <2>3. Len(modem) \in 1 .. Len(modem) /\ Len(modem) \in Nat
      BY <2>1, <2>2, LenProperties
    <2>4. modem[Len(modem)] \in Attempt
      BY <2>1, <2>3, ElementOfSeq
    <2>5. [modem[Len(modem)] EXCEPT !.handed = TRUE] \in Attempt
      BY <2>4 DEF Attempt
    <2>6. modem' = [modem EXCEPT ![Len(modem)] = [modem[Len(modem)] EXCEPT !.handed = TRUE]]
      BY <2>1
    <2> QED
      BY <2>1, <2>3, <2>5, <2>6, ExceptSeq
  <1>2. \A m \in 1 .. Len(modem) : modem'[m].id = modem[m].id
    BY ElementOfSeq DEF ModemSend, ModemTracked, Attempt
  <1>3. TakenIds' = TakenIds
    <2>1. DOMAIN modem' = 1 .. Len(modem) /\ DOMAIN modem = 1 .. Len(modem)
      BY <1>1, LenProperties DEF ModemTracked
    <2> QED
      BY <1>2, <2>1 DEF TakenIds
  <1>4. ledger' = ledger
    BY DEF ModemSend
  <1>5. LedgerTracked'
    BY <1>3, <1>4 DEF LedgerTracked, Onward
  <1>6. ASSUME NEW m \in 1 .. Len(modem)
        PROVE  (/\ modem[m].id \in 1 .. Len(requests)
                /\ modem[m].id \in DOMAIN ledger.done \/ Due(modem[m].id) <= now)'
    <2>1. PICK id \in 1 .. Len(requests) : id = modem[m].id
      BY DEF ModemTracked
    <2>2. Due(id)' = Due(id) /\ Due(id) \in Nat /\ now \in Nat /\ now' \in Nat /\ now <= now'
      BY DEF Onward, VerifierShape
    <2>3. id \in DOMAIN ledger.done \/ Due(id) <= now
      BY <2>1 DEF ModemTracked
    <2>4. (id \in DOMAIN ledger.done \/ Due(id) <= now)'
      BY <1>4, <2>2, <2>3
    <2>5. id \in 1 .. Len(requests') /\ id = modem'[m].id
      BY <1>2, <2>1 DEF Onward
    <2> QED
      BY <2>4, <2>5
  <1>7. \A m, n \in 1 .. Len(modem) : modem'[m].id = modem'[n].id => m = n
    BY <1>2 DEF ModemTracked
  <1> QED
    BY <1>1, <1>3, <1>5, <1>6, <1>7 DEF ModemTracked

\* What is written down is let through for the first time, and what the
\* ledger forgets meanwhile has expired.
LEMMA RecordKeeps ==
    ASSUME RequestsPast, LoopTracked, LedgerTracked, ModemTracked, Onward, now' = now, at = "next",
           ~Seen(Message.id), Message.expires_at > now, Record(Message), LetThrough
    PROVE  LedgerTracked' /\ ModemTracked' /\ TakenIds' = TakenIds \cup {Message.id}
  <1> DEFINE taken == [id |-> Message.id, to |-> Message.to, time |-> now, handed |-> FALSE]
  <1>1. PICK id \in 1 .. Len(requests) : id = Message.id /\ Message.expires_at = Due(id)
    <2>1. batch # << >> /\ batch \in Seq(SmsMessage)
      BY DEF LoopTracked
    <2>2. 1 \in 1 .. Len(batch) /\ Message = batch[1]
      BY <2>1, EmptySeq, LenProperties DEF Message
    <2> QED
      BY <2>2 DEF LoopTracked
  <1>2. Message \in SmsMessage
    <2>1. batch # << >> /\ batch \in Seq(SmsMessage)
      BY DEF LoopTracked
    <2> QED
      BY <2>1, HeadTailProperties DEF Message
  <1>3. taken \in Attempt /\ taken.id = id
    BY <1>1, <1>2 DEF Attempt, SmsMessage, Onward, VerifierShape
  <1>4. modem' = Append(modem, taken) /\ modem \in Seq(Attempt)
    BY DEF LetThrough, ModemTracked
  <1> HIDE DEF taken
  <1>5. /\ modem' \in Seq(Attempt) /\ Len(modem) \in Nat /\ Len(modem') = Len(modem) + 1
        /\ DOMAIN modem = 1 .. Len(modem) /\ DOMAIN modem' = 1 .. Len(modem) + 1
        /\ \A m \in 1 .. Len(modem) : modem'[m] = modem[m]
        /\ modem'[Len(modem) + 1] = taken
    BY <1>3, <1>4, AppendProperties, LenProperties
  <1>6. TakenIds' = TakenIds \cup {Message.id}
    BY <1>1, <1>3, <1>5 DEF TakenIds
  <1>7. /\ DOMAIN ledger'.done = {i \in DOMAIN ledger.done : ledger.done[i] > now - KeepIds} \cup {id}
        /\ ledger'.done[id] = now
        /\ \A i \in DOMAIN ledger'.done : i # id => i \in DOMAIN ledger.done /\ ledger'.done[i] = ledger.done[i]
    BY <1>1 DEF Record
  <1>8. now \in Nat /\ \A v \in 1 .. Len(requests) : Due(v) \in Nat /\ Due(v)' = Due(v)
    BY DEF Onward, VerifierShape
  <1>9. LedgerTracked'
    <2>1. ASSUME NEW i \in DOMAIN ledger'.done
          PROVE  /\ i \in 1 .. Len(requests') /\ i \in TakenIds'
                 /\ ledger'.done[i] \in Nat /\ requests'[i].time <= ledger'.done[i]
      <3>1. CASE i = id
        <4>1. requests'[id] = requests[id] /\ requests[id].time <= now /\ id \in 1 .. Len(requests')
          BY DEF Onward, RequestsPast
        <4>2. ledger'.done[i] = now /\ i \in TakenIds'
          BY <1>1, <1>6, <1>7, <3>1
        <4> QED
          BY <1>8, <3>1, <4>1, <4>2
      <3>2. CASE i # id
        <4>1. i \in DOMAIN ledger.done /\ ledger'.done[i] = ledger.done[i]
          BY <1>7, <2>1, <3>2
        <4>2. /\ i \in 1 .. Len(requests) /\ i \in TakenIds
              /\ ledger.done[i] \in Nat /\ requests[i].time <= ledger.done[i]
          BY <4>1 DEF LedgerTracked
        <4>3. i \in 1 .. Len(requests') /\ requests'[i] = requests[i]
          BY <4>2 DEF Onward
        <4> QED
          BY <1>6, <4>1, <4>2, <4>3
      <3> QED
        BY <3>1, <3>2
    <2> QED
      BY <2>1 DEF LedgerTracked
  <1>10. ASSUME NEW v \in 1 .. Len(requests), v \in DOMAIN ledger.done, v \notin DOMAIN ledger'.done
         PROVE  Due(v) <= now
    <2>1. ledger.done[v] \in Nat /\ requests[v].time \in Nat /\ requests[v].time <= ledger.done[v]
      BY <1>10 DEF LedgerTracked, Onward
    <2>2. ~(ledger.done[v] > now - KeepIds)
      BY <1>7, <1>10
    <2>3. KeepIds \in Nat /\ CodeTtl \in Nat /\ CodeTtl <= KeepIds
      BY CodeVerifierAssumption, VerificationAssumption, SmsGatewayAssumption
    <2>4. requests[v].time + CodeTtl <= now
      <3>1. \A t, d, n, k, c \in Nat : t <= d /\ ~(d > n - k) /\ c <= k => t + c <= n
        OBVIOUS
      <3> QED
        BY <1>8, <2>1, <2>2, <2>3, <3>1
    <2> QED
      BY <2>4 DEF Due
  <1>11. ASSUME NEW m \in 1 .. Len(modem')
         PROVE  (modem[m].id \in 1 .. Len(requests)
                   /\ (modem[m].id \in DOMAIN ledger.done \/ Due(modem[m].id) <= now))'
    <2>1. CASE m = Len(modem) + 1
      BY <1>3, <1>5, <1>7, <2>1 DEF Onward
    <2>2. CASE m # Len(modem) + 1
      <3>1. m \in 1 .. Len(modem) /\ modem'[m] = modem[m]
        BY <1>5, <2>2
      <3>2. PICK v \in 1 .. Len(requests) : v = modem[m].id
        BY <3>1 DEF ModemTracked
      <3>3. v \in DOMAIN ledger.done \/ Due(v) <= now
        BY <3>1, <3>2 DEF ModemTracked
      <3>4. (v \in DOMAIN ledger.done \/ Due(v) <= now)'
        BY <1>8, <1>10, <3>3
      <3>5. v \in 1 .. Len(requests') /\ v = modem'[m].id
        BY <3>1, <3>2 DEF Onward
      <3> QED
        BY <3>4, <3>5
    <2> QED
      BY <2>1, <2>2
  <1>12. ASSUME NEW m \in 1 .. Len(modem)
         PROVE  modem[m].id # id
    <2>1. id \notin DOMAIN ledger.done
      BY <1>1 DEF Seen
    <2>2. ~(Due(id) <= now)
      BY <1>1, <1>8
    <2> QED
      BY <2>1, <2>2 DEF ModemTracked
  <1>13. \A m, n \in 1 .. Len(modem') : modem'[m].id = modem'[n].id => m = n
    BY <1>3, <1>5, <1>12 DEF ModemTracked
  <1> QED
    BY <1>5, <1>6, <1>9, <1>11, <1>13 DEF ModemTracked

\* The loop keeps its messages while it stays where it is.
LEMMA LoopKept ==
    ASSUME LoopTracked, Onward, batch' = batch, at' = at, verdict' = verdict, TakenIds \subseteq TakenIds'
    PROVE  LoopTracked'
  <1>1. ASSUME NEW k \in 1 .. Len(batch)
        PROVE  (batch[k].id \in 1 .. Len(requests) /\ batch[k].expires_at = Due(batch[k].id))'
    <2>1. PICK id \in 1 .. Len(requests) : id = batch[k].id /\ batch[k].expires_at = Due(id)
      BY DEF LoopTracked
    <2>2. Due(id)' = Due(id) /\ id \in 1 .. Len(requests')
      BY DEF Onward
    <2>3. (id = batch[k].id /\ batch[k].expires_at = Due(id))'
      BY <2>1, <2>2
    <2> QED
      BY <2>2, <2>3
  <1>2. Message' = Message
    BY DEF Message
  <1> QED
    BY <1>1, <1>2 DEF LoopTracked

\* The same, for the messages only.
LEMMA MessagesKept ==
    ASSUME Onward, batch' \in Seq(SmsMessage),
           \A k \in 1 .. Len(batch') : /\ batch'[k].id \in 1 .. Len(requests)
                                       /\ batch'[k].expires_at = Due(batch'[k].id)
    PROVE  (/\ batch \in Seq(SmsMessage)
            /\ \A k \in 1 .. Len(batch) : /\ batch[k].id \in 1 .. Len(requests)
                                          /\ batch[k].expires_at = Due(batch[k].id))'
  <1>1. ASSUME NEW k \in 1 .. Len(batch')
        PROVE  (batch[k].id \in 1 .. Len(requests) /\ batch[k].expires_at = Due(batch[k].id))'
    <2>1. PICK id \in 1 .. Len(requests) : id = batch'[k].id /\ batch'[k].expires_at = Due(id)
      OBVIOUS
    <2>2. Due(id)' = Due(id) /\ id \in 1 .. Len(requests')
      BY DEF Onward
    <2>3. (id = batch[k].id /\ batch[k].expires_at = Due(id))'
      BY <2>1, <2>2
    <2> QED
      BY <2>2, <2>3
  <1> QED
    BY <1>1

LEMMA OnceStep ==
    ASSUME CodesInv, OnceInv, [Next]_vars
    PROVE  OnceInv'
  <1>1. Onward /\ JobsEffect /\ RequestsPast'
    BY OnwardStep, JobsStep, RequestsStayPast DEF OnceInv
  <1>2. OutboxTracked /\ LoopTracked /\ LedgerTracked /\ ModemTracked /\ RequestsPast
    BY DEF OnceInv
  <1>3. ASSUME TakenIds \subseteq TakenIds', LoopTracked', LedgerTracked', ModemTracked'
        PROVE  OnceInv'
    BY <1>1, <1>2, <1>3, OutboxKept DEF OnceInv
  <1>4. ASSUME ledger' = ledger, modem' = modem
        PROVE  LedgerTracked' /\ ModemTracked' /\ TakenIds' = TakenIds
    BY <1>1, <1>2, <1>4, LedgerKept
  <1>5. ASSUME batch' = batch
        PROVE  (/\ batch \in Seq(SmsMessage)
                /\ \A k \in 1 .. Len(batch) : /\ batch[k].id \in 1 .. Len(requests)
                                              /\ batch[k].expires_at = Due(batch[k].id))'
    BY <1>1, <1>2, <1>5, MessagesKept DEF LoopTracked
  <1>6. CASE UNCHANGED gatewayVars
    BY <1>1, <1>2, <1>3, <1>4, <1>6, LoopKept DEF gatewayVars
  <1>7. ASSUME NEW messages \in Seq(SmsMessage), Answered(messages),
               \A k \in 1 .. Len(messages) : /\ messages[k].id \in 1 .. Len(requests)
                                             /\ messages[k].expires_at = Due(messages[k].id)
        PROVE  OnceInv'
    <2>1. /\ batch' = messages
          /\ at' = IF messages = << >> THEN "idle" ELSE "next"
          /\ ledger' = ledger /\ modem' = modem
      BY <1>7 DEF Answered
    <2>2. LoopTracked'
      BY <1>1, <1>7, <2>1, MessagesKept DEF LoopTracked
    <2> QED
      BY <1>3, <1>4, <2>1, <2>2
  <1>8. CASE Answered(<< >>)
    <2>1. << >> \in Seq(SmsMessage) /\ Len(<< >>) = 0
      BY EmptySeq
    <2>2. PICK none \in Seq(SmsMessage) : none = << >>
      BY <2>1
    <2>3. Answered(none) /\ 1 .. Len(none) = {}
      BY <1>8, <2>1, <2>2
    <2> QED
      BY <1>7, <2>3
  <1>9. CASE Answered(MessagesOf(Leased))
    BY <1>1, <1>2, <1>7, <1>9, MessagesTracked
  <1>10. CASE Ask
    <2>1. LoopTracked'
      BY <1>5, <1>10 DEF Ask, LoopTracked
    <2> QED
      BY <1>3, <1>4, <1>10, <2>1 DEF Ask
  <1>11. CASE GatewayRestart
    <2>1. batch' = << >> /\ at' = "idle"
      BY <1>11 DEF GatewayRestart
    <2>2. LoopTracked'
      BY <2>1, EmptySeq DEF LoopTracked
    <2> QED
      BY <1>3, <1>4, <1>11, <2>2 DEF GatewayRestart
  <1>12. CASE Reported
    <2>1. /\ batch' = Tail(batch)
          /\ at' = IF Tail(batch) = << >> THEN "idle" ELSE "next"
          /\ batch # << >> /\ batch \in Seq(SmsMessage)
      BY <1>2, <1>12 DEF Reported, LoopTracked
    <2>2. /\ batch' \in Seq(SmsMessage) /\ Len(batch') = Len(batch) - 1 /\ Len(batch) \in Nat
          /\ \A k \in 1 .. Len(batch') : k + 1 \in 1 .. Len(batch) /\ batch'[k] = batch[k + 1]
      BY <2>1, HeadTailProperties, LenProperties
    <2>3. LoopTracked'
      BY <1>1, <1>2, <2>1, <2>2, MessagesKept DEF LoopTracked
    <2> QED
      BY <1>3, <1>4, <1>12, <2>3 DEF Reported
  <1>13. ASSUME NEW confirmed, ModemSend(confirmed)
         PROVE  OnceInv'
    <2>1. LedgerTracked' /\ ModemTracked' /\ TakenIds' = TakenIds
      BY <1>1, <1>2, <1>13, SendKeeps
    <2>2. /\ batch' = batch /\ at = "send" /\ at' = "report" /\ Message' = Message
          /\ verdict' \in {"sent", "failed"}
      BY <1>13 DEF ModemSend, Message
    <2>3. LoopTracked'
      BY <1>2, <1>5, <2>1, <2>2 DEF LoopTracked
    <2> QED
      BY <1>3, <2>1, <2>3
  <1>14. CASE Process /\ now' = now
    <2>1. at = "next" /\ batch' = batch /\ Message' = Message
      BY <1>14 DEF Process, Decide, LetThrough, Message
    <2>2. CASE Seen(Message.id) /\ Decide("sent")
      <3>1. Message.id \in TakenIds
        BY <1>2, <2>2 DEF Seen, LedgerTracked
      <3>2. LedgerTracked' /\ ModemTracked' /\ TakenIds' = TakenIds
        BY <1>4, <2>2 DEF Decide
      <3>3. at' = "report" /\ verdict' = "sent"
        BY <2>2 DEF Decide
      <3>4. LoopTracked'
        BY <1>2, <1>5, <2>1, <3>1, <3>2, <3>3 DEF LoopTracked
      <3> QED
        BY <1>3, <3>2, <3>4
    <2>3. CASE Decide("rejected")
      <3>1. LedgerTracked' /\ ModemTracked' /\ TakenIds' = TakenIds
        BY <1>4, <2>3 DEF Decide
      <3>2. at' = "report" /\ verdict' = "rejected"
        BY <2>3 DEF Decide
      <3>3. LoopTracked'
        BY <1>2, <1>5, <2>1, <3>2 DEF LoopTracked
      <3> QED
        BY <1>3, <3>1, <3>3
    <2>4. CASE ~Seen(Message.id) /\ Message.expires_at > now /\ Record(Message) /\ LetThrough
      <3>1. LedgerTracked' /\ ModemTracked' /\ TakenIds' = TakenIds \cup {Message.id}
        BY <1>1, <1>2, <1>14, <2>1, <2>4, RecordKeeps
      <3>2. at' = "send"
        BY <2>4 DEF LetThrough
      <3>3. LoopTracked'
        BY <1>2, <1>5, <2>1, <3>1, <3>2 DEF LoopTracked
      <3> QED
        BY <1>3, <3>1, <3>3
    <2> QED
      BY <1>14, <2>2, <2>3, <2>4 DEF Process
  <1> QED
    BY <1>6, <1>8, <1>9, <1>10, <1>11, <1>12, <1>13, <1>14, GatewayStep

LEMMA OnceInit == Init => OnceInv
  <1> SUFFICES ASSUME Init
               PROVE  OnceInv
    OBVIOUS
  <1>1. /\ requests = << >> /\ Len(requests) = 0 /\ jobs = << >> /\ DOMAIN jobs = {}
        /\ batch = << >> /\ Len(batch) = 0 /\ at = "idle"
        /\ ledger.done = << >> /\ DOMAIN ledger.done = {} /\ modem = << >> /\ Len(modem) = 0
    BY EmptySeq DEF Init, VerifierInit, OutboxInit, GatewayInit
  <1> QED
    BY <1>1, EmptySeq DEF OnceInv, RequestsPast, OutboxTracked, LoopTracked, LedgerTracked, ModemTracked

LEMMA OnceAlways == Spec => [](CodesInv /\ OnceInv)
  <1>1. ASSUME CodesInv /\ OnceInv, [Next]_vars
        PROVE  CodesInv' /\ OnceInv'
    BY <1>1, CodesStep, OnceStep
  <1> QED
    BY <1>1, CodesInit, OnceInit, PTL DEF Spec

-----------------------------------------------------------------------------
(* What the person and the wallet get *)

\* No message is handed to the modem twice.
THEOREM NoSecondSms == Spec => []SentAtMostOnce
  <1>1. OnceInv => SentAtMostOnce
    <2> SUFFICES ASSUME OnceInv
                 PROVE  SentAtMostOnce
      OBVIOUS
    <2>1. DOMAIN modem = 1 .. Len(modem)
      BY LenProperties DEF OnceInv, ModemTracked
    <2> QED
      BY <2>1 DEF OnceInv, ModemTracked, SentAtMostOnce
  <1> QED
    BY <1>1, OnceAlways, PTL

\* "sent" is only said of a message that the gateway let through.
THEOREM SentMeansTaken == Spec => []SentWasTaken
  <1>1. OnceInv => SentWasTaken
    <2> SUFFICES ASSUME OnceInv, NEW id \in Jobs, DeliveryStatus(id) = "sent"
                 PROVE  \E m \in DOMAIN modem : modem[m].id = id
      BY DEF SentWasTaken
    <2>1. jobs[id].state = SENT
      BY DEF DeliveryStatus, SENT
    <2> QED
      BY <2>1 DEF OnceInv, OutboxTracked, TakenIds
  <1> QED
    BY <1>1, OnceAlways, PTL

\* An outcome that was shown does not change.
THEOREM OutcomesAreFinal == Spec => OutcomeIsFinal
  <1> DEFINE Final == \A id \in Jobs \cap DOMAIN jobs' :
                         ~Waiting(jobs[id]) => jobs'[id].state = jobs[id].state
  <1>1. ASSUME CodesInv /\ OnceInv, [Next]_vars
        PROVE  [Final]_vars
    BY <1>1, OutcomesKept
  <1> QED
    BY <1>1, OnceAlways, PTL DEF Spec, OutcomeIsFinal

-----------------------------------------------------------------------------
(* What the wallet is told about a refusal *)

\* The requests lie in the order of their times.
RequestsInOrder ==
    \A v, w \in 1 .. Len(requests) : v <= w => requests[v].time <= requests[w].time

\* So do the messages of an answer.
BatchInOrder == \A j, k \in 1 .. Len(batch) : j < k => batch[j].id < batch[k].id

\* What the gateway has still to look at is in the ledger if it ever left:
\* its code lives longer than that of every message before it.
StillSeen ==
    \A k \in 1 .. Len(batch) :
        (k > 1 \/ at = "next") /\ batch[k].id \in TakenIds => batch[k].id \in DOMAIN ledger.done

\* What the gateway has still to report was not refused yet.
NotRefusedYet ==
    \A k \in 1 .. Len(batch) :
        (k > 1 \/ at # "report") /\ batch[k].id \in Jobs => jobs[batch[k].id].error # "rejected"

RefusedInv ==
    /\ RequestsInOrder /\ BatchInOrder /\ StillSeen /\ NotRefusedYet
    /\ at = "report" /\ verdict = "rejected" => Message.id \notin TakenIds
    /\ \A id \in Jobs : jobs[id].error = "rejected" => ~Waiting(jobs[id]) /\ id \notin TakenIds

\* The messages of an answer are leased jobs, in the order of their requests.
LEMMA MessagesInOrder ==
    ASSUME OutboxTracked, Onward
    PROVE  /\ \A k \in 1 .. Len(MessagesOf(Leased)) : MessagesOf(Leased)[k].id \in Leased
           /\ \A j, k \in 1 .. Len(MessagesOf(Leased)) :
                 j < k => MessagesOf(Leased)[j].id < MessagesOf(Leased)[k].id
  <1>1. Leased \in SUBSET (1 .. Len(requests)) /\ Len(requests) \in Nat
    BY DEF Leased, Leasable, OutboxTracked, Onward
  <1> DEFINE n == Cardinality(Leased)
             Kth(k) == Nth(Leased, k)
  <1>2. /\ n \in Nat
        /\ \A k \in 1 .. n : Kth(k) \in Leased
        /\ \A j \in 1 .. n : \A k \in 1 .. n : j < k => Kth(j) < Kth(k)
    <2>1. \A k \in 1 .. n : Kth(k) \in Leased
      BY <1>1, NthIs
    <2> QED
      BY <1>1, <2>1, NthLists
  <1>3. /\ Len(MessagesOf(Leased)) = n
        /\ \A k \in 1 .. n : MessagesOf(Leased)[k].id = Kth(k)
    <2> DEFINE Msg(id) == [id |-> id, to |-> jobs[id].to, expires_at |-> jobs[id].expires_at]
    <2>1. \A k \in 1 .. n :
            [id \in Leased |-> [id |-> id, to |-> jobs[id].to, expires_at |-> jobs[id].expires_at]][Nth(Leased, k)]
              = Msg(Kth(k))
      BY <1>2
    <2>2. \A id : Msg(id).id = id
      OBVIOUS
    <2> HIDE DEF Msg
    <2>3. MessagesOf(Leased) = [k \in 1 .. n |-> Msg(Kth(k))]
      BY <2>1 DEF MessagesOf, Selected
    <2> HIDE DEF Kth, n
    <2>4. MessagesOf(Leased) \in Seq({Msg(id) : id \in Leased}) /\ Len(MessagesOf(Leased)) = n
      <3>1. \A k \in 1 .. n : Msg(Kth(k)) \in {Msg(id) : id \in Leased}
        BY <1>2
      <3> QED
        BY <1>2, <2>3, <3>1, IsASeq
    <2> QED
      BY <2>2, <2>3, <2>4
  <1> HIDE DEF n, Kth
  <1> QED
    BY <1>2, <1>3

\* A job is refused by a report of "rejected" and by nothing else.
ErrorsEffect ==
    \A id \in DOMAIN jobs' :
        jobs'[id].error = "rejected" =>
           \/ id \in Jobs /\ jobs[id].error = "rejected"
           \/ /\ Reported /\ verdict = "rejected" /\ id = Message.id
              /\ ~Waiting(jobs'[id])

LEMMA LeaseErrors ==
    ASSUME OutboxTracked, Lease
    PROVE  ErrorsEffect
  <1>1. \A id \in Jobs : jobs[id] \in Job
    BY DEF OutboxTracked
  <1>2. ASSUME NEW id \in Jobs
        PROVE  jobs'[id].error \in {jobs[id].error, "gateway_no_answer"}
    <2>1. jobs'[id] = HandedOut(jobs[id]) \/ jobs'[id] = jobs[id]
            \/ jobs'[id] = [jobs[id] EXCEPT !.state = FAILED, !.error = "gateway_no_answer"]
      <3>1. ~(id \in Leased /\ id \in GivenUp)
        <4>1. jobs[id].attempts \in 0 .. MaxLeases
          BY <1>1 DEF Job
        <4> QED
          BY <4>1, SmsOutboxAssumption DEF Leased, Leasable, GivenUp
      <3>2. CASE id \in Leased
        BY <3>1, <3>2 DEF Lease
      <3>3. CASE id \in GivenUp
        BY <3>1, <3>3 DEF Lease
      <3>4. CASE id \notin Leased /\ id \notin GivenUp
        BY <3>4 DEF Lease
      <3> QED
        BY <3>2, <3>3, <3>4
    <2>2. HandedOut(jobs[id]).error = jobs[id].error
      BY <1>1 DEF HandedOut, Job
    <2>3. [jobs[id] EXCEPT !.state = FAILED, !.error = "gateway_no_answer"].error = "gateway_no_answer"
      BY <1>1 DEF Job
    <2> QED
      BY <2>1, <2>2, <2>3
  <1> QED
    BY <1>2 DEF ErrorsEffect, Lease

LEMMA ReportErrors ==
    ASSUME OutboxTracked, LoopTracked, Reported, ReportOutcome(Message.id, verdict)
    PROVE  ErrorsEffect
  <1>1. CASE ~Reportable(Message.id)
    BY <1>1 DEF ReportOutcome, ErrorsEffect
  <1>2. CASE Reportable(Message.id)
    <2>1. /\ DOMAIN jobs' = Jobs
          /\ \A id \in Jobs \ {Message.id} : jobs'[id] = jobs[id]
          /\ Message.id \in Jobs
          /\ jobs'[Message.id] = [jobs[Message.id] EXCEPT !.state = IF verdict = "sent" THEN SENT ELSE FAILED,
                                                          !.error = IF verdict = "sent" THEN "" ELSE verdict]
      BY <1>2 DEF ReportOutcome, Reportable
    <2>2. jobs[Message.id] \in Job
      BY <2>1 DEF OutboxTracked
    <2>3. /\ jobs'[Message.id].error = IF verdict = "sent" THEN "" ELSE verdict
          /\ jobs'[Message.id].state = IF verdict = "sent" THEN SENT ELSE FAILED
      BY <2>1, <2>2 DEF Job
    <2>4. ~Waiting(jobs'[Message.id])
      BY <2>3 DEF Waiting, SENT, FAILED, QUEUED, LEASED
    <2> QED
      BY <2>1, <2>3, <2>4 DEF ErrorsEffect
  <1> QED
    BY <1>1, <1>2

LEMMA ErrorsStep ==
    ASSUME CodesInv, OnceInv, [Next]_vars
    PROVE  ErrorsEffect
  <1>1. OutboxTracked /\ LoopTracked
    BY DEF OnceInv
  <1>2. ASSUME DOMAIN jobs' \subseteq Jobs, \A id \in DOMAIN jobs' : jobs'[id] = jobs[id]
        PROVE  ErrorsEffect
    BY <1>2 DEF ErrorsEffect
  <1>3. CASE CleanupTask
    BY <1>2, <1>3 DEF CleanupTask, OutboxCleanup, KeptJobs
  <1>4. CASE ServiceRestarts
    <2>1. DOMAIN jobs' = {}
      BY <1>4 DEF ServiceRestarts, OutboxRestart
    <2> QED
      BY <2>1 DEF ErrorsEffect
  <1>5. CASE ClockTicks \/ GatewayProcesses \/ GatewayRestarts \/ UNCHANGED vars
    BY <1>2, <1>5 DEF ClockTicks, GatewayProcesses, GatewayRestarts, vars, outboxVars
  <1>6. ASSUME NEW c \in Claims, NEW supplied, Refuses(c, supplied) \/ StartEmail(c, supplied)
        PROVE  ErrorsEffect
    BY <1>2, <1>6 DEF Refuses, StartEmail, outboxVars
  <1>7. ASSUME NEW c \in Claims, NEW supplied, StartPhone(c, supplied)
        PROVE  ErrorsEffect
    <2>1. \A id \in DOMAIN KeptJobs : id \in Jobs /\ KeptJobs[id] = jobs[id]
      BY DEF KeptJobs
    <2>2. CASE OutboxFull
      BY <1>2, <1>7, <2>1, <2>2 DEF StartPhone, EnqueueRefused
    <2>3. CASE ~OutboxFull
      <3> DEFINE v == Len(requests) + 1
      <3>1. Enqueue(v, AddressOf[c], CodeTtl)
        BY <1>7, <2>3 DEF StartPhone
      <3> HIDE DEF v
      <3>2. \A id \in DOMAIN jobs' : /\ id # v => id \in Jobs /\ jobs'[id] = jobs[id]
                                     /\ id = v => jobs'[id].error = ""
        BY <2>1, <3>1 DEF Enqueue
      <3> QED
        BY <3>2 DEF ErrorsEffect
    <2> QED
      BY <2>2, <2>3
  <1>8. ASSUME NEW v, MailAccepted(v) \/ MailFails(v) \/ Confirm(v)
        PROVE  ErrorsEffect
    BY <1>2, <1>8 DEF MailAccepted, MailFails, Confirm, outboxVars
  <1>9. ASSUME NEW i, NEW chain, ChainStored(i, chain)
        PROVE  ErrorsEffect
    BY <1>2, <1>9 DEF ChainStored, outboxVars
  <1>10. ASSUME NEW lost, NEW request, NEW late, GatewayAsks(lost) \/ GatewayWaits(request, late, lost)
         PROVE  ErrorsEffect
    BY <1>1, <1>10, LeaseErrors DEF GatewayAsks, GatewayWaits
  <1>11. ASSUME NEW confirmed, GatewaySends(confirmed)
         PROVE  ErrorsEffect
    BY <1>2, <1>11 DEF GatewaySends, outboxVars
  <1>12. ASSUME NEW arrives, GatewayReports(arrives)
         PROVE  ErrorsEffect
    BY <1>1, <1>2, <1>12, ReportErrors DEF GatewayReports
  <1> QED
    BY <1>3, <1>4, <1>5, <1>6, <1>7, <1>8, <1>9, <1>10, <1>11, <1>12 DEF Next

\* An answer has only jobs that wait for an outcome and live.
LEMMA LeasedIs ==
    ASSUME OutboxTracked, Onward, NEW id \in Leased
    PROVE  id \in Jobs /\ Waiting(jobs[id]) /\ id \in 1 .. Len(requests) /\ ~(Due(id) <= now)
  <1>1. id \in Jobs /\ Waiting(jobs[id]) /\ jobs[id].expires_at > now
    BY DEF Leased, Leasable, Offered, Waiting
  <1>2. id \in 1 .. Len(requests) /\ Due(id) \in Nat /\ now \in Nat /\ jobs[id].expires_at = Due(id)
    BY <1>1 DEF OutboxTracked, Onward, VerifierShape
  <1> QED
    BY <1>1, <1>2

\* A request comes last.
LEMMA OrderKept ==
    ASSUME RequestsPast, RequestsInOrder, CodesInv, [Next]_vars
    PROVE  RequestsInOrder'
  <1>1. Onward
    BY OnwardStep
  <1>2. requests' = requests \/ \E c \in Claims : \E shown : OneMore(c, shown)
    BY VerifierStep, OperationEffect, StartEffect DEF verifierVars, Fewer, StoredElsewhere
  <1>3. ASSUME NEW c \in Claims, NEW shown, OneMore(c, shown)
        PROVE  RequestsInOrder'
    <2>1. /\ Len(requests) \in Nat /\ Len(requests') = Len(requests) + 1
          /\ \A v \in 1 .. Len(requests) : requests'[v] = requests[v]
          /\ requests'[Len(requests) + 1].time = now
      BY <1>1, <1>3, AppendKeeps DEF Onward, OneMore, NewRequest, VerifierShape
    <2>2. now \in Nat /\ \A v \in 1 .. Len(requests) : requests[v].time \in Nat /\ requests[v].time <= now
      BY <1>1 DEF RequestsPast, Onward, VerifierShape
    <2> QED
      BY <2>1, <2>2 DEF RequestsInOrder
  <1> QED
    BY <1>2, <1>3 DEF RequestsInOrder

\* The messages after the one that is let through live at least as long.
LEMMA LaterLive ==
    ASSUME Onward, RequestsInOrder, BatchInOrder, LoopTracked, batch # << >>, Message.expires_at > now,
           NEW k \in 1 .. Len(batch)
    PROVE  ~(Due(batch[k].id) <= now)
  <1>1. Len(batch) \in Nat /\ 1 \in 1 .. Len(batch) /\ Message = batch[1]
    BY EmptySeq, LenProperties DEF LoopTracked, Message
  <1>2. PICK i \in 1 .. Len(requests) : i = batch[1].id /\ batch[1].expires_at = Due(i)
    BY <1>1 DEF LoopTracked
  <1>3. PICK j \in 1 .. Len(requests) : j = batch[k].id
    BY DEF LoopTracked
  <1>4. i <= j
    BY <1>1, <1>2, <1>3 DEF BatchInOrder, Onward
  <1>5. requests[i].time <= requests[j].time
    BY <1>4 DEF RequestsInOrder
  <1>6. requests[i].time \in Nat /\ requests[j].time \in Nat /\ now \in Nat /\ CodeTtl \in Nat
    BY CodeVerifierAssumption DEF Onward, VerifierShape
  <1>7. requests[i].time + CodeTtl > now
    BY <1>1, <1>2 DEF Due
  <1>8. ~(requests[j].time + CodeTtl <= now)
    BY <1>5, <1>6, <1>7
  <1> QED
    BY <1>3, <1>8 DEF Due

\* What a step may let through.
LEMMA TakenStep ==
    ASSUME CodesInv, OnceInv, [Next]_vars
    PROVE  \/ TakenIds' = TakenIds /\ ledger' = ledger
           \/ /\ at = "next" /\ at' = "send" /\ batch' = batch /\ verdict' = verdict /\ now' = now
              /\ Message.expires_at > now /\ TakenIds' = TakenIds \cup {Message.id}
  <1>1. /\ Onward /\ RequestsPast /\ LoopTracked /\ LedgerTracked /\ ModemTracked
    BY OnwardStep DEF OnceInv
  <1>2. ASSUME modem' = modem, ledger' = ledger
        PROVE  TakenIds' = TakenIds /\ ledger' = ledger
    BY <1>2 DEF TakenIds
  <1>3. ASSUME NEW confirmed, ModemSend(confirmed)
        PROVE  TakenIds' = TakenIds /\ ledger' = ledger
    BY <1>1, <1>3, SendKeeps DEF ModemSend
  <1>4. CASE Process /\ now' = now
    <2>1. CASE Decide("sent") \/ Decide("rejected")
      BY <1>2, <2>1 DEF Decide
    <2>2. CASE ~Seen(Message.id) /\ Message.expires_at > now /\ Record(Message) /\ LetThrough
      <3>1. at = "next"
        BY <1>4 DEF Process
      <3>2. TakenIds' = TakenIds \cup {Message.id}
        BY <1>1, <1>4, <2>2, <3>1, RecordKeeps
      <3> QED
        BY <1>4, <2>2, <3>1, <3>2 DEF LetThrough
    <2> QED
      BY <1>4, <2>1, <2>2 DEF Process
  <1> QED
    BY <1>2, <1>3, <1>4, GatewayStep DEF gatewayVars, Answered, Ask, Reported, GatewayRestart

\* What is told of the jobs.
LEMMA ToldStep ==
    ASSUME CodesInv, OnceInv, RefusedInv, [Next]_vars
    PROVE  \A id \in DOMAIN jobs' : jobs'[id].error = "rejected" => ~Waiting(jobs'[id]) /\ id \notin TakenIds'
  <1> SUFFICES ASSUME NEW id \in DOMAIN jobs', jobs'[id].error = "rejected"
               PROVE  ~Waiting(jobs'[id]) /\ id \notin TakenIds'
    OBVIOUS
  <1>1. JobsEffect /\ ErrorsEffect /\ Onward /\ LoopTracked
    BY JobsStep, ErrorsStep, OnwardStep DEF OnceInv
  <1>2. \A i \in Jobs : i \in 1 .. Len(requests)
    BY DEF OnceInv, OutboxTracked
  <1>3. CASE id \in Jobs /\ jobs[id].error = "rejected"
    <2>1. ~Waiting(jobs[id]) /\ id \notin TakenIds
      BY <1>3 DEF RefusedInv
    <2>2. ~Waiting(jobs'[id])
      <3>1. id # Len(requests) + 1
        BY <1>1, <1>2, <1>3 DEF Onward
      <3>2. jobs'[id].state = jobs[id].state
        BY <1>1, <2>1, <3>1 DEF JobsEffect
      <3> QED
        BY <2>1, <3>2 DEF Waiting
    <2>3. ASSUME at = "next"
          PROVE  id # Message.id
      <3>1. 1 \in 1 .. Len(batch) /\ Message = batch[1]
        BY <1>1, <2>3, EmptySeq, LenProperties DEF LoopTracked, Message
      <3>2. jobs[id].error # "rejected" \/ id # batch[1].id
        BY <1>3, <2>3, <3>1 DEF RefusedInv, NotRefusedYet
      <3> QED
        BY <1>3, <3>1, <3>2
    <2> QED
      BY <2>1, <2>2, <2>3, TakenStep
  <1>4. CASE /\ Reported /\ verdict = "rejected" /\ id = Message.id
             /\ ~Waiting(jobs'[id])
    <2>1. at = "report" /\ id \notin TakenIds
      BY <1>4 DEF Reported, RefusedInv
    <2> QED
      BY <1>4, <2>1, TakenStep
  <1> QED
    BY <1>1, <1>3, <1>4 DEF ErrorsEffect

\* A step that keeps the messages of the answer, and the loop's place in
\* front of them or beyond.
LEMMA RefusedKept ==
    ASSUME CodesInv, OnceInv, RefusedInv, [Next]_vars, batch' = batch,
           at = "next" \/ at' # "next", at = "report" => at' = "report"
    PROVE  BatchInOrder' /\ StillSeen' /\ NotRefusedYet'
  <1>1. /\ ErrorsEffect /\ Onward /\ LoopTracked /\ ModemTracked'
        /\ BatchInOrder /\ StillSeen /\ NotRefusedYet /\ RequestsInOrder
    BY ErrorsStep, OnwardStep, OnceStep DEF OnceInv, RefusedInv
  <1>2. BatchInOrder'
    BY <1>1 DEF BatchInOrder
  <1>3. ASSUME NEW k \in 1 .. Len(batch), k > 1 \/ at' = "next", batch[k].id \in TakenIds'
        PROVE  batch[k].id \in DOMAIN ledger'.done
    <2>1. CASE TakenIds' = TakenIds /\ ledger' = ledger
      BY <1>1, <1>3, <2>1 DEF StillSeen
    <2>2. CASE at = "next" /\ at' = "send" /\ now' = now /\ Message.expires_at > now
      <3>1. batch # << >>
        BY <1>1, <2>2 DEF LoopTracked
      <3>2. ~(Due(batch[k].id) <= now)
        BY <1>1, <2>2, <3>1, LaterLive
      <3>3. PICK i \in 1 .. Len(requests) : i = batch[k].id
        BY <1>1 DEF LoopTracked
      <3>4. Due(i)' = Due(i)
        BY <1>1 DEF Onward
      <3>5. ~(Due(i)' <= now')
        BY <2>2, <3>2, <3>3, <3>4
      <3>6. PICK m \in DOMAIN modem' : modem'[m].id = i
        BY <1>3, <3>3 DEF TakenIds
      <3>7. m \in 1 .. Len(modem')
        BY <1>1, <3>6, LenProperties DEF ModemTracked
      <3>8. (modem[m].id \in DOMAIN ledger.done \/ Due(modem[m].id) <= now)'
        BY <1>1, <3>7 DEF ModemTracked
      <3> QED
        BY <3>3, <3>5, <3>6, <3>8
    <2> QED
      BY <2>1, <2>2, TakenStep
  <1>4. ASSUME NEW k \in 1 .. Len(batch), k > 1 \/ at' # "report", batch[k].id \in DOMAIN jobs'
        PROVE  jobs'[batch[k].id].error # "rejected"
    <2>1. \/ batch[k].id \in Jobs /\ jobs[batch[k].id].error = "rejected"
          \/ Reported
          \/ jobs'[batch[k].id].error # "rejected"
      BY <1>1, <1>4 DEF ErrorsEffect
    <2>2. batch[k].id \in Jobs => jobs[batch[k].id].error # "rejected"
      BY <1>1, <1>4 DEF NotRefusedYet
    <2>3. ~Reported
      <3>1. ASSUME Reported
            PROVE  FALSE
        BY <3>1 DEF Reported
      <3> QED
        BY <3>1
    <2> QED
      BY <2>1, <2>2, <2>3
  <1>5. StillSeen' /\ NotRefusedYet'
    BY <1>3, <1>4 DEF StillSeen, NotRefusedYet
  <1> QED
    BY <1>2, <1>5

\* An answer, empty or of leased jobs.
LEMMA RefusedAnswered ==
    ASSUME CodesInv, OnceInv, RefusedInv, [Next]_vars, NEW messages, Answered(messages),
           messages = << >> \/ messages = MessagesOf(Leased)
    PROVE  BatchInOrder' /\ StillSeen' /\ NotRefusedYet'
  <1>1. batch' = messages /\ ledger' = ledger /\ at # "report" /\ at' # "report" /\ modem' = modem
    BY DEF Answered
  <1>2. CASE messages = << >>
    <2>1. 1 .. Len(batch') = {}
      BY <1>1, <1>2, EmptySeq
    <2> QED
      BY <2>1 DEF BatchInOrder, StillSeen, NotRefusedYet
  <1>3. CASE messages = MessagesOf(Leased)
    <2>1. OutboxTracked /\ Onward /\ ErrorsEffect /\ ModemTracked
      BY ErrorsStep, OnwardStep DEF OnceInv
    <2>2. /\ \A k \in 1 .. Len(batch') : batch'[k].id \in Leased
          /\ BatchInOrder'
      BY <1>1, <1>3, <2>1, MessagesInOrder DEF BatchInOrder
    <2>3. ASSUME NEW id \in Leased
          PROVE  /\ id \in TakenIds' => id \in DOMAIN ledger'.done
                 /\ id \in DOMAIN jobs' => jobs'[id].error # "rejected"
      <3>1. id \in Jobs /\ Waiting(jobs[id]) /\ ~(Due(id) <= now)
        BY <2>1, LeasedIs
      <3>2. jobs[id].error # "rejected"
        BY <3>1 DEF RefusedInv
      <3>3. ~Reported
        BY <1>1 DEF Reported
      <3>4. id \in TakenIds => id \in DOMAIN ledger.done
        <4>1. DOMAIN modem = 1 .. Len(modem)
          BY <2>1, LenProperties DEF ModemTracked
        <4> QED
          BY <2>1, <3>1, <4>1 DEF ModemTracked, TakenIds
      <3> QED
        BY <1>1, <2>1, <3>2, <3>3, <3>4 DEF ErrorsEffect, TakenIds
    <2> QED
      BY <2>2, <2>3 DEF StillSeen, NotRefusedYet
  <1> QED
    BY <1>2, <1>3

\* The report of a message is done; the others come one place forward.
LEMMA RefusedReported ==
    ASSUME CodesInv, OnceInv, RefusedInv, [Next]_vars, Reported
    PROVE  BatchInOrder' /\ StillSeen' /\ NotRefusedYet'
  <1>1. /\ batch' = Tail(batch) /\ ledger' = ledger /\ modem' = modem /\ at = "report"
        /\ batch # << >> /\ batch \in Seq(SmsMessage) /\ Message = batch[1]
    BY DEF Reported, OnceInv, LoopTracked, Message
  <1>2. /\ Len(batch') = Len(batch) - 1 /\ Len(batch) \in Nat /\ 1 \in 1 .. Len(batch)
        /\ \A k \in 1 .. Len(batch') : k + 1 \in 1 .. Len(batch) /\ batch'[k] = batch[k + 1]
    BY <1>1, HeadTailProperties, LenProperties, EmptySeq
  <1>3. ErrorsEffect /\ BatchInOrder /\ StillSeen /\ NotRefusedYet /\ LoopTracked
    BY ErrorsStep DEF RefusedInv, OnceInv
  <1>4. ASSUME NEW k \in 1 .. Len(batch')
        PROVE  /\ batch'[k].id \in TakenIds' => batch'[k].id \in DOMAIN ledger'.done
               /\ batch'[k].id \in DOMAIN jobs' => jobs'[batch'[k].id].error # "rejected"
    <2>1. k + 1 \in 1 .. Len(batch) /\ batch'[k] = batch[k + 1] /\ k + 1 > 1 /\ k \in Nat
      BY <1>2
    <2>2. batch[k + 1].id \in TakenIds => batch[k + 1].id \in DOMAIN ledger.done
      BY <1>3, <2>1 DEF StillSeen
    <2>3. batch[k + 1].id \in Jobs => jobs[batch[k + 1].id].error # "rejected"
      BY <1>3, <2>1 DEF NotRefusedYet
    <2>4. batch[k + 1].id # batch[1].id
      <3>1. batch[1].id < batch[k + 1].id
        BY <1>2, <1>3, <2>1 DEF BatchInOrder
      <3>2. batch[1].id \in 1 .. Len(requests)
        BY <1>2, <1>3 DEF LoopTracked
      <3> QED
        BY <3>1, <3>2
    <2> QED
      BY <1>1, <1>3, <2>1, <2>2, <2>3, <2>4 DEF ErrorsEffect, TakenIds
  <1>5. BatchInOrder'
    <2>1. ASSUME NEW j \in 1 .. Len(batch'), NEW k \in 1 .. Len(batch'), j < k
          PROVE  batch'[j].id < batch'[k].id
      <3>1. /\ j + 1 \in 1 .. Len(batch) /\ k + 1 \in 1 .. Len(batch) /\ j + 1 < k + 1
            /\ batch'[j] = batch[j + 1] /\ batch'[k] = batch[k + 1]
        BY <1>2, <2>1
      <3> QED
        BY <1>3, <3>1 DEF BatchInOrder
    <2> QED
      BY <2>1 DEF BatchInOrder
  <1> QED
    BY <1>4, <1>5 DEF StillSeen, NotRefusedYet

\* A refusal is on its way only of a message that never left.
LEMMA VerdictStep ==
    ASSUME CodesInv, OnceInv, RefusedInv, [Next]_vars, at' = "report", verdict' = "rejected"
    PROVE  Message' \in SmsMessage /\ Message'.id \notin TakenIds'
  <1>1. LoopTracked /\ LoopTracked'
    BY OnceStep DEF OnceInv
  <1>2. /\ batch \in Seq(SmsMessage) /\ (at = "next" => 1 \in 1 .. Len(batch) /\ Message = batch[1])
        /\ Message' \in SmsMessage
    BY <1>1, EmptySeq, LenProperties, HeadTailProperties DEF LoopTracked, Message
  <1>3. CASE UNCHANGED gatewayVars
    <2>1. Message' = Message /\ TakenIds' = TakenIds /\ at = "report" /\ verdict = "rejected"
      BY <1>3 DEF gatewayVars, Message, TakenIds
    <2> QED
      BY <1>2, <2>1 DEF RefusedInv
  <1>4. CASE Process /\ now' = now
    <2>1. ~Seen(Message.id) /\ Decide("rejected") /\ at = "next"
      <3>1. CASE Decide("sent")
        BY <3>1 DEF Decide
      <3>2. CASE LetThrough
        BY <3>2 DEF LetThrough
      <3> QED
        BY <1>4, <3>1, <3>2 DEF Process
    <2>2. Message.id \notin TakenIds
      <3>1. 1 \in 1 .. Len(batch) /\ Message = batch[1]
        BY <1>2, <2>1
      <3> QED
        BY <2>1, <3>1 DEF RefusedInv, StillSeen, Seen
    <2> QED
      BY <1>2, <2>1, <2>2 DEF Decide, Message, TakenIds
  <1>5. ASSUME Ask \/ Reported \/ GatewayRestart \/ \E messages : Answered(messages)
        PROVE  FALSE
    BY <1>5 DEF Ask, Reported, GatewayRestart, Answered
  <1>6. ASSUME NEW confirmed, ModemSend(confirmed)
        PROVE  FALSE
    BY <1>6 DEF ModemSend
  <1> QED
    BY <1>3, <1>4, <1>5, <1>6, GatewayStep

LEMMA RefusedStep ==
    ASSUME CodesInv, OnceInv, RefusedInv, [Next]_vars
    PROVE  RefusedInv'
  <1>1. RequestsInOrder'
    BY OrderKept DEF OnceInv, RefusedInv
  <1>2. BatchInOrder' /\ StillSeen' /\ NotRefusedYet'
    <2>1. CASE UNCHANGED gatewayVars \/ Ask \/ \E confirmed : ModemSend(confirmed)
      <3>1. batch' = batch /\ (at = "next" \/ at' # "next") /\ (at = "report" => at' = "report")
        BY <2>1 DEF gatewayVars, Ask, ModemSend
      <3> QED
        BY <3>1, RefusedKept
    <2>2. CASE Process
      <3>1. batch' = batch /\ at = "next"
        BY <2>2 DEF Process, Decide, LetThrough
      <3> QED
        BY <3>1, RefusedKept
    <2>3. CASE Answered(<< >>) \/ Answered(MessagesOf(Leased))
      BY <2>3, RefusedAnswered
    <2>4. CASE Reported
      BY <2>4, RefusedReported
    <2>5. CASE GatewayRestart
      <3>1. 1 .. Len(batch') = {}
        BY <2>5, EmptySeq DEF GatewayRestart
      <3> QED
        BY <3>1 DEF BatchInOrder, StillSeen, NotRefusedYet
    <2> QED
      BY <2>1, <2>2, <2>3, <2>4, <2>5, GatewayStep
  <1> QED
    BY <1>1, <1>2, ToldStep, VerdictStep DEF RefusedInv

LEMMA RefusedInit == Init => RefusedInv
  <1> SUFFICES ASSUME Init
               PROVE  RefusedInv
    OBVIOUS
  <1>1. requests = << >> /\ Len(requests) = 0 /\ DOMAIN jobs = {} /\ Len(batch) = 0 /\ at = "idle"
    BY EmptySeq DEF Init, VerifierInit, OutboxInit, GatewayInit
  <1> QED
    BY <1>1 DEF RefusedInv, RequestsInOrder, BatchInOrder, StillSeen, NotRefusedYet

LEMMA RefusedAlways == Spec => [](CodesInv /\ OnceInv /\ RefusedInv)
  <1>1. ASSUME CodesInv /\ OnceInv /\ RefusedInv, [Next]_vars
        PROVE  (CodesInv /\ OnceInv /\ RefusedInv)'
    BY <1>1, CodesStep, OnceStep, RefusedStep
  <1> QED
    BY <1>1, CodesInit, OnceInit, RefusedInit, PTL DEF Spec

\* The wallet is told "rejected" only about a message that never went to the
\* modem, however many messages an answer has: those behind the one that is
\* sent expire no earlier, so that the ledger still knows them.
THEOREM RefusedMeansNeverSent == Spec => []RefusedNeverLeft
  <1>1. RefusedInv => RefusedNeverLeft
    BY DEF RefusedInv, RefusedNeverLeft, TakenIds
  <1> QED
    BY <1>1, RefusedAlways, PTL

-----------------------------------------------------------------------------
(* The promise about the messages *)

\* What is told, before and after a step.
LEMMA ToldIs ==
    /\ DOMAIN ToldOfJobs = Jobs /\ \A id \in Jobs : ToldOfJobs[id] = Outcome(jobs[id])
    /\ DOMAIN ToldOfJobs' = DOMAIN jobs' /\ \A id \in DOMAIN jobs' : ToldOfJobs'[id] = Outcome(jobs'[id])
  BY DEF ToldOfJobs, Outcome, Waiting

\* What each kind of step is in the terms of SmsPromise.
LEMMA MappedForget ==
    ASSUME requests' = requests, TakenInOrder' = TakenInOrder,
           DOMAIN jobs' \subseteq Jobs, \A id \in DOMAIN jobs' : jobs'[id] = jobs[id]
    PROVE  Promise!Forget
  <1>1. \A id \in DOMAIN jobs' : id \in Jobs /\ ToldOfJobs'[id] = ToldOfJobs[id]
    BY ToldIs
  <1> QED
    BY <1>1, ToldIs DEF Promise!Forget, Promise!Unchanged, Promise!Known

LEMMA MappedTell ==
    ASSUME requests' = requests, TakenInOrder' = TakenInOrder, DOMAIN jobs' = Jobs,
           \A id \in Jobs :
              Outcome(jobs'[id]) # Outcome(jobs[id]) =>
                 /\ Outcome(jobs[id]) = "waiting"
                 /\ \/ Outcome(jobs'[id]) = "sent" /\ id \in TakenIds
                    \/ Outcome(jobs'[id]) = "rejected" /\ id \notin TakenIds
                    \/ Outcome(jobs'[id]) = "failed"
    PROVE  Promise!Tell
  <1>1. {TakenInOrder[k] : k \in DOMAIN TakenInOrder} = TakenIds
    BY DEF TakenIds, TakenInOrder
  <1>2. \A id \in Jobs : ToldOfJobs'[id] # ToldOfJobs[id] =>
            /\ ToldOfJobs[id] = "waiting"
            /\ \/ ToldOfJobs'[id] = "sent" /\ id \in TakenIds
               \/ ToldOfJobs'[id] = "rejected" /\ id \notin TakenIds
               \/ ToldOfJobs'[id] = "failed"
    BY ToldIs
  <1> QED
    BY <1>1, <1>2, ToldIs DEF Promise!Tell, Promise!Known, Promise!Honest, Promise!Taken

LEMMA MappedRequest ==
    ASSUME Len(requests') = Len(requests) + 1, TakenInOrder' = TakenInOrder,
           \A id \in DOMAIN jobs' : \/ id = Len(requests') /\ Waiting(jobs'[id])
                                    \/ id # Len(requests') /\ id \in Jobs /\ jobs'[id] = jobs[id]
    PROVE  Promise!Request
  <1>1. ASSUME NEW id \in DOMAIN jobs', id = Len(requests')
        PROVE  ToldOfJobs'[id] = "waiting"
    <2>1. Waiting(jobs'[id])
      BY <1>1
    <2>2. Outcome(jobs'[id]) = "waiting"
      BY <2>1 DEF Outcome, Waiting, QUEUED, LEASED, SENT
    <2> QED
      BY <2>2, ToldIs
  <1>2. \A id \in DOMAIN jobs' \ {Len(requests')} : id \in Jobs /\ ToldOfJobs'[id] = ToldOfJobs[id]
    BY ToldIs
  <1> QED
    BY <1>1, <1>2, ToldIs DEF Promise!Request, Promise!Unchanged, Promise!Known

LEMMA MappedTake ==
    ASSUME requests' = requests, jobs' = jobs, modem \in Seq(Attempt), NEW new \in Attempt,
           modem' = Append(modem, new), new.id \in 1 .. Len(requests), new.id \notin TakenIds,
           new.id \in Jobs => jobs[new.id].error # "rejected"
    PROVE  Promise!Take
  <1>1. /\ modem' \in Seq(Attempt) /\ Len(modem) \in Nat /\ Len(modem') = Len(modem) + 1
        /\ DOMAIN modem = 1 .. Len(modem) /\ DOMAIN modem' = 1 .. Len(modem) + 1
        /\ \A m \in 1 .. Len(modem) : modem'[m] = modem[m]
        /\ modem'[Len(modem) + 1] = new
    BY AppendProperties, LenProperties
  <1>2. TakenInOrder \in Seq(Nat) /\ Len(TakenInOrder) = Len(modem) /\ new.id \in Nat
        /\ \A m \in 1 .. Len(modem) : TakenInOrder[m] = modem[m].id
    <2>1. \A m \in 1 .. Len(modem) : modem[m].id \in Nat
      <3>1. \A m \in 1 .. Len(modem) : modem[m] \in Attempt
        BY ElementOfSeq
      <3> QED
        BY <3>1 DEF Attempt
    <2>2. TakenInOrder = [m \in 1 .. Len(modem) |-> modem[m].id]
      BY <1>1 DEF TakenInOrder
    <2>3. TakenInOrder \in Seq(Nat) /\ Len(TakenInOrder) = Len(modem)
      BY <1>1, <2>1, <2>2, IsASeq
    <2> QED
      BY <2>2, <2>3 DEF Attempt
  <1> DEFINE more == Append(TakenInOrder, new.id)
  <1>3. /\ more \in Seq(Nat) /\ Len(more) = Len(modem) + 1
        /\ \A m \in 1 .. Len(modem) : more[m] = TakenInOrder[m]
        /\ more[Len(modem) + 1] = new.id
    BY <1>2, AppendProperties
  <1> HIDE DEF more
  <1>4. TakenInOrder' = more
    <2>1. \A m \in 1 .. Len(modem) + 1 : more[m] = modem'[m].id
      BY <1>1, <1>2, <1>3
    <2>2. more = [m \in 1 .. Len(modem) + 1 |-> more[m]]
      BY <1>1, <1>3, LenProperties
    <2>3. TakenInOrder' = [m \in 1 .. Len(modem) + 1 |-> modem'[m].id]
      BY <1>1 DEF TakenInOrder
    <2> QED
      BY <2>1, <2>2, <2>3
  <1>5. new.id \notin {TakenInOrder[k] : k \in DOMAIN TakenInOrder}
    BY DEF TakenIds, TakenInOrder
  <1>6. new.id \in Jobs => ToldOfJobs[new.id] # "rejected"
    BY ToldIs DEF Outcome
  <1>7. ToldOfJobs' = ToldOfJobs /\ Len(requests') = Len(requests)
    BY DEF ToldOfJobs
  <1> QED
    BY <1>4, <1>5, <1>6, <1>7, ToldIs DEF Promise!Take, Promise!Taken, Promise!Known, more

\* A lease tells at most that nobody answered for a job.
LEMMA LeaseTells ==
    ASSUME OutboxTracked, Lease
    PROVE  /\ DOMAIN jobs' = Jobs
           /\ \A id \in Jobs : Outcome(jobs'[id]) # Outcome(jobs[id]) =>
                 Outcome(jobs[id]) = "waiting" /\ Outcome(jobs'[id]) = "failed"
  <1>1. ASSUME NEW id \in Jobs, Outcome(jobs'[id]) # Outcome(jobs[id])
        PROVE  Outcome(jobs[id]) = "waiting" /\ Outcome(jobs'[id]) = "failed"
    <2>1. jobs[id] \in Job
      BY DEF OutboxTracked
    <2>2. ~(id \in Leased /\ id \in GivenUp)
      <3>1. jobs[id].attempts \in 0 .. MaxLeases
        BY <2>1 DEF Job
      <3> QED
        BY <3>1, SmsOutboxAssumption DEF Leased, Leasable, GivenUp
    <2>3. id \in Leased \/ id \in GivenUp => Outcome(jobs[id]) = "waiting"
      BY DEF Leased, Leasable, GivenUp, Offered, Outcome, Waiting, QUEUED, LEASED, SENT
    <2>4. CASE id \in Leased
      <3>1. jobs'[id] = HandedOut(jobs[id])
        BY <2>2, <2>4 DEF Lease
      <3>2. jobs'[id].state = LEASED
        BY <2>1, <3>1 DEF HandedOut, Job
      <3>3. Outcome(jobs'[id]) = "waiting"
        BY <3>2 DEF Outcome, Waiting, QUEUED, LEASED, SENT
      <3> QED
        BY <1>1, <2>3, <2>4, <3>3
    <2>5. CASE id \in GivenUp
      <3>1. jobs'[id] = [jobs[id] EXCEPT !.state = FAILED, !.error = "gateway_no_answer"]
        BY <2>2, <2>5 DEF Lease
      <3>2. jobs'[id].state = FAILED /\ jobs'[id].error = "gateway_no_answer"
        BY <2>1, <3>1 DEF Job
      <3>3. Outcome(jobs'[id]) = "failed"
        BY <3>2 DEF Outcome, Waiting, QUEUED, LEASED, SENT, FAILED
      <3> QED
        BY <2>3, <2>5, <3>3
    <2>6. CASE id \notin Leased /\ id \notin GivenUp
      BY <1>1, <2>6 DEF Lease
    <2> QED
      BY <2>4, <2>5, <2>6
  <1> QED
    BY <1>1 DEF Lease

\* A report that is listened to says what the gateway did.
LEMMA ReportTells ==
    ASSUME OutboxTracked, LoopTracked, RefusedInv, Reported, ReportOutcome(Message.id, verdict)
    PROVE  /\ DOMAIN jobs' = Jobs
           /\ \A id \in Jobs : Outcome(jobs'[id]) # Outcome(jobs[id]) =>
                 /\ Outcome(jobs[id]) = "waiting"
                 /\ \/ Outcome(jobs'[id]) = "sent" /\ id \in TakenIds
                    \/ Outcome(jobs'[id]) = "rejected" /\ id \notin TakenIds
                    \/ Outcome(jobs'[id]) = "failed"
  <1>1. CASE ~Reportable(Message.id)
    BY <1>1 DEF ReportOutcome
  <1>2. CASE Reportable(Message.id)
    <2>1. /\ DOMAIN jobs' = Jobs
          /\ \A id \in Jobs \ {Message.id} : jobs'[id] = jobs[id]
          /\ Message.id \in Jobs /\ Waiting(jobs[Message.id])
          /\ jobs'[Message.id] = [jobs[Message.id] EXCEPT !.state = IF verdict = "sent" THEN SENT ELSE FAILED,
                                                          !.error = IF verdict = "sent" THEN "" ELSE verdict]
      BY <1>2 DEF ReportOutcome, Reportable
    <2>2. jobs[Message.id] \in Job
      BY <2>1 DEF OutboxTracked
    <2>3. /\ jobs'[Message.id].error = IF verdict = "sent" THEN "" ELSE verdict
          /\ jobs'[Message.id].state = IF verdict = "sent" THEN SENT ELSE FAILED
      BY <2>1, <2>2 DEF Job
    <2>4. /\ verdict \in {"sent", "failed", "rejected"}
          /\ verdict = "sent" => Message.id \in TakenIds
          /\ verdict = "rejected" => Message.id \notin TakenIds
      BY DEF Reported, LoopTracked, RefusedInv
    <2>5. Outcome(jobs'[Message.id]) = verdict
      BY <2>3, <2>4 DEF Outcome, Waiting, QUEUED, LEASED, SENT, FAILED
    <2>6. Outcome(jobs[Message.id]) = "waiting"
      BY <2>1 DEF Outcome, Waiting, QUEUED, LEASED, SENT
    <2> QED
      BY <2>1, <2>4, <2>5, <2>6
  <1> QED
    BY <1>1, <1>2

\* The gateway lets a message through for the first time.
LEMMA ProcessTakes ==
    ASSUME CodesInv, OnceInv, RefusedInv, [Next]_vars, GatewayProcesses
    PROVE  Promise!Take \/ Promise!Forget
  <1>1. requests' = requests /\ jobs' = jobs /\ Process
    BY DEF GatewayProcesses, verifierVars, outboxVars
  <1>2. LoopTracked /\ ModemTracked /\ Onward
    BY OnwardStep DEF OnceInv
  <1>3. CASE modem' = modem
    BY <1>1, <1>3, MappedForget DEF TakenInOrder
  <1>4. CASE ~Seen(Message.id) /\ Message.expires_at > now /\ LetThrough
    <2> DEFINE new == [id |-> Message.id, to |-> Message.to, time |-> now, handed |-> FALSE]
    <2>1. at = "next" /\ batch # << >> /\ 1 \in 1 .. Len(batch) /\ Message = batch[1]
          /\ Message \in SmsMessage
      BY <1>1, <1>2, EmptySeq, LenProperties, HeadTailProperties DEF Process, LoopTracked, Message
    <2>2. Message.id \in 1 .. Len(requests)
      BY <1>2, <2>1 DEF LoopTracked
    <2>3. new \in Attempt /\ new.id = Message.id /\ modem' = Append(modem, new) /\ modem \in Seq(Attempt)
      BY <1>2, <1>4, <2>1 DEF LetThrough, Attempt, SmsMessage, ModemTracked, Onward, VerifierShape
    <2>4. Message.id \notin TakenIds
      BY <1>4, <2>1 DEF RefusedInv, StillSeen, Seen
    <2>5. Message.id \in Jobs => jobs[Message.id].error # "rejected"
      BY <2>1 DEF RefusedInv, NotRefusedYet
    <2> HIDE DEF new
    <2> QED
      BY <1>1, <2>2, <2>3, <2>4, <2>5, MappedTake
  <1> QED
    BY <1>1, <1>3, <1>4 DEF Process, Decide

LEMMA PromiseStep ==
    ASSUME CodesInv, OnceInv, RefusedInv, [Next]_vars
    PROVE  Promise!Next \/ UNCHANGED Promise!vars
  <1>1. OutboxTracked /\ LoopTracked /\ ModemTracked /\ LedgerTracked /\ Onward
    BY OnwardStep DEF OnceInv
  <1>2. ASSUME requests' = requests, modem' = modem,
               DOMAIN jobs' \subseteq Jobs, \A id \in DOMAIN jobs' : jobs'[id] = jobs[id]
        PROVE  Promise!Next
    BY <1>2, MappedForget DEF TakenInOrder, Promise!Next
  <1>3. CASE ClockTicks \/ CleanupTask \/ UNCHANGED vars
    BY <1>2, <1>3 DEF ClockTicks, CleanupTask, VerifierCleanup, OutboxCleanup, KeptJobs, vars,
                      verifierVars, outboxVars, gatewayVars
  <1>4. CASE GatewayRestarts \/ ServiceRestarts
    <2>1. requests' = requests /\ modem' = modem
      BY <1>4 DEF GatewayRestarts, ServiceRestarts, GatewayRestart, VerifierRestart, Answered,
                  verifierVars, gatewayVars
    <2>2. jobs' = jobs \/ DOMAIN jobs' = {}
      BY <1>4 DEF GatewayRestarts, ServiceRestarts, OutboxRestart, outboxVars
    <2> QED
      BY <1>2, <2>1, <2>2
  <1>5. ASSUME NEW c \in Claims, NEW supplied, Refuses(c, supplied)
        PROVE  Promise!Next
    BY <1>2, <1>5 DEF Refuses, StartRefused, outboxVars, gatewayVars
  <1>6. ASSUME NEW c \in Claims, NEW supplied, StartEmail(c, supplied)
        PROVE  Promise!Next
    <2>1. requests' = Append(requests, NewRequest(c)) /\ jobs' = jobs /\ modem' = modem
      BY <1>6 DEF StartEmail, StartAccepted, outboxVars, gatewayVars
    <2>2. Len(requests') = Len(requests) + 1 /\ Len(requests) \in Nat
      BY <1>1, <2>1, AppendKeeps DEF Onward, VerifierShape
    <2>3. \A id \in Jobs : id \in 1 .. Len(requests)
      BY <1>1 DEF OutboxTracked
    <2>4. \A id \in DOMAIN jobs' : id # Len(requests') /\ id \in Jobs /\ jobs'[id] = jobs[id]
      BY <2>1, <2>2, <2>3
    <2> QED
      BY <2>1, <2>2, <2>4, MappedRequest DEF TakenInOrder, Promise!Next
  <1>7. ASSUME NEW c \in Claims, NEW supplied, StartPhone(c, supplied)
        PROVE  Promise!Next
    <2>1. requests' = Append(requests, NewRequest(c)) /\ modem' = modem
      BY <1>7 DEF StartPhone, gatewayVars
    <2>2. Len(requests') = Len(requests) + 1 /\ Len(requests) \in Nat
      BY <1>1, <2>1, AppendKeeps DEF Onward, VerifierShape
    <2>3. \A id \in Jobs : id \in 1 .. Len(requests)
      BY <1>1 DEF OutboxTracked
    <2>4. \A id \in DOMAIN KeptJobs : id \in Jobs /\ KeptJobs[id] = jobs[id]
      BY DEF KeptJobs
    <2>5. CASE OutboxFull
      <3>1. jobs' = KeptJobs
        BY <1>7, <2>5 DEF StartPhone, EnqueueRefused
      <3>2. \A id \in DOMAIN jobs' : id # Len(requests') /\ id \in Jobs /\ jobs'[id] = jobs[id]
        BY <2>2, <2>3, <2>4, <3>1
      <3> QED
        BY <2>1, <2>2, <3>2, MappedRequest DEF TakenInOrder, Promise!Next
    <2>6. CASE ~OutboxFull
      <3> DEFINE v == Len(requests) + 1
      <3>1. Enqueue(v, AddressOf[c], CodeTtl)
        BY <1>7, <2>6 DEF StartPhone
      <3>2. v = Len(requests')
        BY <2>2
      <3> HIDE DEF v
      <3>3. \A id \in DOMAIN jobs' : /\ id # v => id \in Jobs /\ jobs'[id] = jobs[id]
                                     /\ id = v => jobs'[id].state = QUEUED
        BY <2>4, <3>1 DEF Enqueue
      <3>4. \A id \in DOMAIN jobs' : \/ id = v /\ Waiting(jobs'[id])
                                     \/ id # v /\ id \in Jobs /\ jobs'[id] = jobs[id]
        BY <3>3 DEF Waiting
      <3> QED
        BY <2>1, <2>2, <3>2, <3>4, MappedRequest DEF TakenInOrder, Promise!Next
    <2> QED
      BY <2>5, <2>6
  <1>8. ASSUME NEW v, MailAccepted(v) \/ MailFails(v) \/ Confirm(v)
        PROVE  Promise!Next
    BY <1>2, <1>8 DEF MailAccepted, MailFails, Confirm, Delivered, DeliveryFails, ConfirmExpired,
                      ConfirmWrong, ConfirmRight, outboxVars, gatewayVars
  <1>9. ASSUME NEW i, NEW chain, ChainStored(i, chain)
        PROVE  Promise!Next
    BY <1>2, <1>9 DEF ChainStored, StoredElsewhere, outboxVars, gatewayVars
  <1>10. ASSUME NEW lost, NEW request, NEW late, GatewayAsks(lost) \/ GatewayWaits(request, late, lost)
         PROVE  Promise!Next
    <2>1. requests' = requests /\ modem' = modem /\ Lease
      BY <1>10 DEF GatewayAsks, GatewayWaits, Answer, Answered, Ask, verifierVars, gatewayVars
    <2> QED
      BY <1>1, <2>1, LeaseTells, MappedTell DEF TakenInOrder, Promise!Next
  <1>11. CASE GatewayProcesses
    BY <1>11, ProcessTakes DEF Promise!Next
  <1>12. ASSUME NEW confirmed, GatewaySends(confirmed)
         PROVE  Promise!Next
    <2>1. requests' = requests /\ jobs' = jobs /\ ModemSend(confirmed)
      BY <1>12 DEF GatewaySends, verifierVars, outboxVars
    <2>2. TakenInOrder' = TakenInOrder
      <3>1. modem \in Seq(Attempt) /\ modem' = [modem EXCEPT ![Len(modem)].handed = TRUE]
        BY <1>1, <2>1 DEF ModemTracked, ModemSend
      <3>2. \A m \in DOMAIN modem : modem'[m].id = modem[m].id
        BY <3>1, ElementOfSeq, LenProperties DEF Attempt
      <3> QED
        BY <3>1, <3>2 DEF TakenInOrder
    <2> QED
      BY <2>1, <2>2, MappedForget DEF Promise!Next
  <1>13. ASSUME NEW arrives, GatewayReports(arrives)
         PROVE  Promise!Next
    <2>1. requests' = requests /\ modem' = modem /\ Reported
      BY <1>13 DEF GatewayReports, Reported, verifierVars
    <2>2. CASE arrives
      <3>1. ReportOutcome(Message.id, verdict)
        BY <1>13, <2>2 DEF GatewayReports
      <3> QED
        BY <1>1, <2>1, <3>1, ReportTells, MappedTell DEF TakenInOrder, Promise!Next
    <2>3. CASE ~arrives
      BY <1>2, <1>13, <2>1, <2>3 DEF GatewayReports
    <2> QED
      BY <2>2, <2>3
  <1> QED
    BY <1>3, <1>4, <1>5, <1>6, <1>7, <1>8, <1>9, <1>10, <1>11, <1>12, <1>13 DEF Next

LEMMA PromiseInit == Init => Promise!Init
  <1> SUFFICES ASSUME Init
               PROVE  Promise!Init
    OBVIOUS
  <1>1. requests = << >> /\ Len(requests) = 0 /\ modem = << >> /\ DOMAIN modem = {} /\ DOMAIN jobs = {}
    BY EmptySeq DEF Init, VerifierInit, OutboxInit, GatewayInit
  <1>2. TakenInOrder = << >> /\ ToldOfJobs = << >>
    BY <1>1 DEF TakenInOrder, ToldOfJobs
  <1> QED
    BY <1>1, <1>2 DEF Promise!Init

\* The verifier, the queue and the gateway keep the promise: nobody's phone
\* gets a message twice, what is told of a message is true and final, and a
\* message that was refused never goes out.
THEOREM PromiseIsKept == Spec => KeepsPromise
  <1>1. ASSUME CodesInv /\ OnceInv /\ RefusedInv, [Next]_vars
        PROVE  [Promise!Next]_(Promise!vars)
    BY <1>1, PromiseStep
  <1> QED
    BY <1>1, PromiseInit, RefusedAlways, PTL DEF Spec, KeepsPromise, Promise!Spec

-----------------------------------------------------------------------------
(* The budget *)

Send == [time : Nat, to : Allowed]

\* The ledger has forgotten the first `old` messages that went to the modem,
\* which left the window, and has time and number of the others.
Remembers(old) ==
    /\ Len(ledger.sends) = Len(modem) - old
    /\ \A i \in 1 .. Len(ledger.sends) : /\ ledger.sends[i].time = modem[old + i].time
                                         /\ ledger.sends[i].to = modem[old + i].to
    /\ \A m \in 1 .. old : modem[m].time <= now - SmsWindow

\* The history of the modem, in the order of its times.
InOrder ==
    /\ \A m \in 1 .. Len(modem) : modem[m].time <= now
    /\ \A m, n \in 1 .. Len(modem) : m <= n => modem[m].time <= modem[n].time

BudgetInv ==
    /\ ledger.sends \in Seq(Send) /\ InOrder
    /\ \E old \in 0 .. Len(modem) : Remembers(old)
    /\ BudgetHolds

\* A step that lets no message through leaves the budget as it is.
LEMMA BudgetKept ==
    ASSUME ModemTracked, BudgetInv, now \in Nat, now' \in Nat, now <= now', ledger' = ledger,
           modem' \in Seq(Attempt), Len(modem') = Len(modem),
           \A m \in 1 .. Len(modem) : modem'[m].time = modem[m].time /\ modem'[m].to = modem[m].to
    PROVE  BudgetInv'
  <1>1. /\ DOMAIN modem = 1 .. Len(modem) /\ DOMAIN modem' = 1 .. Len(modem) /\ Len(modem) \in Nat
        /\ \A m \in 1 .. Len(modem) : modem[m].time \in Nat
    <2>1. \A m \in 1 .. Len(modem) : modem[m] \in Attempt
      BY ElementOfSeq DEF ModemTracked
    <2>2. \A m \in 1 .. Len(modem) : modem[m].time \in Nat
      BY <2>1 DEF Attempt
    <2> QED
      BY <2>2, LenProperties DEF ModemTracked
  <1>2. InOrder'
    BY <1>1 DEF BudgetInv, InOrder
  <1>3. PICK old \in 0 .. Len(modem) : Remembers(old)
    BY DEF BudgetInv
  <1>4. Remembers(old)'
    <2>1. Len(ledger.sends) = Len(modem) - old
      BY <1>3 DEF Remembers
    <2>2. ASSUME NEW i \in 1 .. Len(ledger.sends)
          PROVE  ledger.sends[i].time = modem'[old + i].time /\ ledger.sends[i].to = modem'[old + i].to
      <3>1. old + i \in 1 .. Len(modem)
        BY <1>1, <2>1
      <3>2. ledger.sends[i].time = modem[old + i].time /\ ledger.sends[i].to = modem[old + i].to
        BY <1>3 DEF Remembers
      <3> QED
        BY <3>1, <3>2
    <2>3. ASSUME NEW m \in 1 .. old
          PROVE  modem'[m].time <= now' - SmsWindow
      <3>1. m \in 1 .. Len(modem)
        BY <1>1
      <3>2. modem[m].time <= now - SmsWindow
        BY <1>3 DEF Remembers
      <3>3. modem'[m].time = modem[m].time /\ modem[m].time \in Nat
        BY <1>1, <3>1
      <3> QED
        BY <3>2, <3>3, SmsGatewayAssumption
    <2> QED
      BY <2>1, <2>2, <2>3 DEF Remembers
  <1>5. BudgetHolds'
    <2> SUFFICES ASSUME NEW m \in 1 .. Len(modem)
                 PROVE  LET within == {n \in 1 .. m : modem'[n].time > modem'[m].time - SmsWindow}
                        IN  /\ Cardinality(within) <= MaxSms
                            /\ Cardinality({n \in within : modem'[n].to = modem'[m].to}) <= MaxPerNumber
      BY <1>1 DEF BudgetHolds
    <2> DEFINE within == {n \in 1 .. m : modem[n].time > modem[m].time - SmsWindow}
    <2>1. \A n \in 1 .. m : n \in 1 .. Len(modem)
      BY <1>1
    <2>2. {n \in 1 .. m : modem'[n].time > modem'[m].time - SmsWindow} = within
      BY <2>1
    <2>3. {n \in within : modem'[n].to = modem'[m].to} = {n \in within : modem[n].to = modem[m].to}
      BY <2>1
    <2>4. Cardinality(within) <= MaxSms /\ Cardinality({n \in within : modem[n].to = modem[m].to}) <= MaxPerNumber
      BY <1>1 DEF BudgetInv, BudgetHolds
    <2> QED
      BY <2>2, <2>3, <2>4
  <1> QED
    BY <1>2, <1>3, <1>4, <1>5 DEF BudgetInv

\* What _recent() returns is the end of the ledger's list.
LEMMA RecentIsTail ==
    ASSUME ModemTracked, BudgetInv, now \in Nat
    PROVE  \E p \in 0 .. Len(ledger.sends) :
              /\ RecentSends \in Seq(Send) /\ Len(RecentSends) = Len(ledger.sends) - p
              /\ \A k \in 1 .. Len(ledger.sends) - p : RecentSends[k] = ledger.sends[p + k]
              /\ \A i \in 1 .. p : ledger.sends[i].time <= now - SmsWindow
              /\ \A i \in p + 1 .. Len(ledger.sends) : ledger.sends[i].time > now - SmsWindow
  <1> DEFINE s == ledger.sends
             n == Len(s)
             Old == {i \in 1 .. n : s[i].time <= now - SmsWindow}
  <1>1. s \in Seq(Send) /\ n \in Nat /\ DOMAIN s = 1 .. n /\ \A i \in 1 .. n : s[i] \in Send /\ s[i].time \in Nat
    <2>1. s \in Seq(Send)
      BY DEF BudgetInv
    <2> HIDE DEF s
    <2>2. n \in Nat /\ DOMAIN s = 1 .. n /\ \A i \in 1 .. n : s[i] \in Send
      BY <2>1, LenProperties, ElementOfSeq
    <2> QED
      BY <2>1, <2>2 DEF Send
  <1>2. \A i, j \in 1 .. n : i <= j => s[i].time <= s[j].time
    <2>1. PICK old \in 0 .. Len(modem) : Remembers(old)
      BY DEF BudgetInv
    <2>2. Len(modem) \in Nat
      BY LenProperties DEF ModemTracked
    <2> SUFFICES ASSUME NEW i \in 1 .. n, NEW j \in 1 .. n, i <= j
                 PROVE  s[i].time <= s[j].time
      OBVIOUS
    <2>3. n = Len(modem) - old /\ s[i].time = modem[old + i].time /\ s[j].time = modem[old + j].time
      BY <2>1 DEF Remembers
    <2>4. old + i \in 1 .. Len(modem) /\ old + j \in 1 .. Len(modem) /\ old + i <= old + j
      BY <1>1, <2>2, <2>3
    <2> QED
      BY <2>3, <2>4 DEF BudgetInv, InOrder
  <1>3. PICK p \in 0 .. n : \A i \in 1 .. n : i <= p <=> s[i].time <= now - SmsWindow
    <2>1. CASE Old = {}
      <3>1. \A i \in 1 .. n : ~(i <= 0) /\ ~(s[i].time <= now - SmsWindow)
        BY <1>1, <2>1
      <3> QED
        BY <1>1, <3>1
    <2>2. CASE Old # {}
      <3>1. PICK p \in Old : \A i \in Old : p >= i
        <4>1. Old \in SUBSET (1 .. n)
          OBVIOUS
        <4> HIDE DEF Old
        <4> QED
          BY <1>1, <2>2, <4>1, LargestExists
      <3>2. \A i \in 1 .. n : i <= p <=> s[i].time <= now - SmsWindow
        <4> SUFFICES ASSUME NEW i \in 1 .. n
                     PROVE  i <= p <=> s[i].time <= now - SmsWindow
          OBVIOUS
        <4>1. p \in 1 .. n /\ s[p].time <= now - SmsWindow /\ s[p].time \in Nat /\ s[i].time \in Nat
          BY <1>1
        <4>2. i <= p => s[i].time <= s[p].time
          BY <1>2, <4>1
        <4>3. i <= p => s[i].time <= now - SmsWindow
          BY <4>1, <4>2, SmsGatewayAssumption
        <4>4. s[i].time <= now - SmsWindow => i <= p
          BY <3>1, <4>1
        <4> QED
          BY <4>3, <4>4
      <3> QED
        BY <1>1, <3>2
    <2> QED
      BY <2>1, <2>2
  <1>4. {i \in DOMAIN s : s[i].time > now - SmsWindow} = p + 1 .. n
    <2>1. \A i \in 1 .. n : s[i].time > now - SmsWindow <=> i \in p + 1 .. n
      BY <1>1, <1>3, SmsGatewayAssumption
    <2>2. \A i \in p + 1 .. n : i \in 1 .. n
      BY <1>1
    <2> QED
      BY <1>1, <2>1, <2>2
  <1>5. Cardinality(p + 1 .. n) = n - p /\ \A k \in 1 .. n - p : Nth(p + 1 .. n, k) = p + k
    BY <1>1, NthOfInterval
  <1>6. RecentSends = [k \in 1 .. n - p |-> s[p + k]]
    BY <1>4, <1>5 DEF RecentSends, Selected
  <1>7. \A k \in 1 .. n - p : s[p + k] \in Send
    BY <1>1
  <1>8. n - p \in Nat
    BY <1>1
  <1>9. RecentSends \in Seq(Send) /\ Len(RecentSends) = n - p
    BY <1>6, <1>7, <1>8, IsASeq
  <1>10. \A k \in 1 .. n - p : RecentSends[k] = s[p + k]
    BY <1>6
  <1>11. \A i \in 1 .. p : s[i].time <= now - SmsWindow
    BY <1>1, <1>3
  <1>12. \A i \in p + 1 .. n : s[i].time > now - SmsWindow
    BY <1>1, <1>3, SmsGatewayAssumption
  <1> QED
    BY <1>9, <1>10, <1>11, <1>12

\* As many numbers as numbers of another set, shifted.
LEMMA ShiftedCount ==
    ASSUME NEW m \in Nat, NEW S \in SUBSET (1 .. m), NEW d \in Nat, NEW T,
           \A j \in T : j \in Nat /\ j - d \in S
    PROVE  IsFiniteSet(T) /\ Cardinality(T) <= Cardinality(S)
  <1>1. IsFiniteSet(S)
    <2>1. IsFiniteSet(1 .. m)
      BY FS_Interval
    <2> QED
      BY <2>1, FS_Subset
  <1> DEFINE f == [j \in T |-> j - d]
  <1>2. f \in [T -> S]
    OBVIOUS
  <1>3. \A i, j \in T : f[i] = f[j] => i = j
    OBVIOUS
  <1>4. f \in Injection(T, S)
    BY <1>2, <1>3 DEF Injection, IsInjective
  <1> HIDE DEF f
  <1> QED
    BY <1>1, <1>4, FS_Injection

\* A message is let through when the window has room for it, and written down.
LEMMA RecordSpends ==
    ASSUME ModemTracked, BudgetInv, now \in Nat, now' = now, Message \in SmsMessage,
           ~Refused(Message), Record(Message), LetThrough
    PROVE  BudgetInv'
  <1> DEFINE s == ledger.sends
             r == RecentSends
             L == Len(modem)
             taken == [id |-> Message.id, to |-> Message.to, time |-> now, handed |-> FALSE]
             new == [time |-> now, to |-> Message.to]
  <1>1. taken \in Attempt /\ new \in Send /\ taken.time = now /\ taken.to = Message.to
    BY DEF Attempt, SmsMessage, Send
  <1>2. /\ modem' \in Seq(Attempt) /\ L \in Nat /\ Len(modem') = L + 1 /\ DOMAIN modem' = 1 .. L + 1
        /\ DOMAIN modem = 1 .. L
        /\ \A m \in 1 .. L : modem'[m] = modem[m] /\ modem[m].time \in Nat
        /\ modem'[L + 1].time = now /\ modem'[L + 1].to = Message.to
    <2>1. modem' = Append(modem, taken) /\ modem \in Seq(Attempt)
      BY DEF LetThrough, ModemTracked
    <2> HIDE DEF taken
    <2>2. \A m \in 1 .. L : modem[m] \in Attempt
      BY <2>1, ElementOfSeq
    <2>3. \A m \in 1 .. L : modem[m].time \in Nat
      BY <2>2 DEF Attempt
    <2> QED
      BY <1>1, <2>1, <2>3, AppendProperties, LenProperties
  <1>3. PICK old \in 0 .. L : Remembers(old)
    BY DEF BudgetInv
  <1>4. PICK p \in 0 .. Len(s) :
              /\ r \in Seq(Send) /\ Len(r) = Len(s) - p
              /\ \A k \in 1 .. Len(s) - p : r[k] = s[p + k]
              /\ \A i \in 1 .. p : s[i].time <= now - SmsWindow
              /\ \A i \in p + 1 .. Len(s) : s[i].time > now - SmsWindow
    BY RecentIsTail
  <1>5. /\ s \in Seq(Send) /\ Len(s) \in Nat /\ Len(s) = L - old
        /\ \A i \in 1 .. Len(s) : s[i].time = modem[old + i].time /\ s[i].to = modem[old + i].to
        /\ \A m \in 1 .. old : modem[m].time <= now - SmsWindow
    BY <1>3, LenProperties DEF BudgetInv, Remembers
  <1>6. ledger'.sends = Append(r, new)
    BY DEF Record
  <1> HIDE DEF r, taken, new
  <1>7. /\ ledger'.sends \in Seq(Send) /\ Len(ledger'.sends) = Len(r) + 1 /\ Len(r) \in Nat
        /\ \A k \in 1 .. Len(r) : ledger'.sends[k] = r[k]
        /\ ledger'.sends[Len(r) + 1] = new
    <2>1. r \in Seq(Send) /\ Len(r) \in Nat
      BY <1>4, LenProperties
    <2>2. /\ Append(r, new) \in Seq(Send) /\ Len(Append(r, new)) = Len(r) + 1
          /\ \A k \in 1 .. Len(r) : Append(r, new)[k] = r[k]
          /\ Append(r, new)[Len(r) + 1] = new
      BY <1>1, <2>1, AppendProperties
    <2> QED
      BY <1>6, <2>1, <2>2
  <1>8. new.time = now /\ new.to = Message.to
    BY DEF new
  <1> HIDE DEF s, L
  <1>9. \A k \in 1 .. Len(r) : /\ old + p + k \in 1 .. L
                               /\ r[k].time = modem[old + p + k].time /\ r[k].to = modem[old + p + k].to
    <2> SUFFICES ASSUME NEW k \in 1 .. Len(r)
                 PROVE  /\ old + p + k \in 1 .. L
                        /\ r[k].time = modem[old + p + k].time /\ r[k].to = modem[old + p + k].to
      OBVIOUS
    <2>1. p + k \in 1 .. Len(s) /\ r[k] = s[p + k]
      BY <1>4, <1>5
    <2>2. s[p + k].time = modem[old + (p + k)].time /\ s[p + k].to = modem[old + (p + k)].to
      BY <1>5, <2>1
    <2>3. old + (p + k) = old + p + k /\ old + p + k \in 1 .. L
      BY <1>2, <1>5, <2>1
    <2> QED
      BY <2>1, <2>2, <2>3
  <1>10. \A m \in 1 .. old + p : modem[m].time <= now - SmsWindow
    <2> SUFFICES ASSUME NEW m \in 1 .. old + p
                 PROVE  modem[m].time <= now - SmsWindow
      OBVIOUS
    <2>1. CASE m \in 1 .. old
      BY <1>5, <2>1
    <2>2. CASE m \notin 1 .. old
      <3>1. m - old \in 1 .. p /\ m - old \in 1 .. Len(s) /\ old + (m - old) = m
        BY <1>5, <2>2
      <3>2. s[m - old].time = modem[m].time
        BY <1>5, <3>1
      <3> QED
        BY <1>4, <3>1, <3>2
    <2> QED
      BY <2>1, <2>2
  <1>11. InOrder'
    <2>1. \A m \in 1 .. L : modem[m].time <= now
      BY DEF BudgetInv, InOrder, L
    <2>2. \A m, n \in 1 .. L : m <= n => modem[m].time <= modem[n].time
      BY DEF BudgetInv, InOrder, L
    <2> SUFFICES /\ \A m \in 1 .. L + 1 : modem'[m].time <= now
                 /\ \A m, n \in 1 .. L + 1 : m <= n => modem'[m].time <= modem'[n].time
      BY <1>2 DEF InOrder
    <2>3. \A m \in 1 .. L + 1 : modem'[m].time <= now
      BY <1>2, <2>1
    <2>4. ASSUME NEW m \in 1 .. L + 1, NEW n \in 1 .. L + 1, m <= n
          PROVE  modem'[m].time <= modem'[n].time
      <3>1. CASE n = L + 1
        BY <1>2, <2>3, <3>1
      <3>2. CASE n # L + 1
        <4>1. m \in 1 .. L /\ n \in 1 .. L
          BY <1>2, <2>4, <3>2
        <4> QED
          BY <1>2, <2>2, <2>4, <4>1
      <3> QED
        BY <3>1, <3>2
    <2> QED
      BY <2>3, <2>4
  <1>12. old + p \in 0 .. L + 1 /\ Remembers(old + p)'
    <2>1. Len(ledger'.sends) = L + 1 - (old + p) /\ old + p \in 0 .. L + 1
      <3>1. L \in Nat /\ Len(s) \in Nat /\ Len(s) = L - old
        BY <1>2, <1>5
      <3>2. Len(r) = Len(s) - p /\ Len(ledger'.sends) = Len(r) + 1
        BY <1>4, <1>7
      <3> QED
        BY <3>1, <3>2
    <2>2. ASSUME NEW i \in 1 .. Len(ledger'.sends)
          PROVE  /\ ledger'.sends[i].time = modem'[old + p + i].time
                 /\ ledger'.sends[i].to = modem'[old + p + i].to
      <3>1. CASE i \in 1 .. Len(r)
        BY <1>2, <1>7, <1>9, <3>1
      <3>2. CASE i \notin 1 .. Len(r)
        <4>1. i = Len(r) + 1 /\ old + p + i = L + 1
          BY <1>2, <1>7, <2>1, <3>2
        <4> QED
          BY <1>2, <1>7, <1>8, <4>1
      <3> QED
        BY <3>1, <3>2
    <2>3. ASSUME NEW m \in 1 .. old + p
          PROVE  modem'[m].time <= now - SmsWindow
      <3>1. m \in 1 .. L
        BY <1>2, <1>5
      <3> QED
        BY <1>2, <1>10, <3>1
    <2> QED
      BY <1>2, <2>1, <2>2, <2>3 DEF Remembers
  <1>13. BudgetHolds'
    <2> SUFFICES ASSUME NEW m \in 1 .. L + 1
                 PROVE  LET within == {n \in 1 .. m : modem'[n].time > modem'[m].time - SmsWindow}
                        IN  /\ Cardinality(within) <= MaxSms
                            /\ Cardinality({n \in within : modem'[n].to = modem'[m].to}) <= MaxPerNumber
      BY <1>2 DEF BudgetHolds
    <2>1. CASE m \in 1 .. L
      <3> DEFINE within == {n \in 1 .. m : modem[n].time > modem[m].time - SmsWindow}
      <3>1. \A n \in 1 .. m : n \in 1 .. L
        BY <1>2, <2>1
      <3>2. {n \in 1 .. m : modem'[n].time > modem'[m].time - SmsWindow} = within
        BY <1>2, <2>1, <3>1
      <3>3. {n \in within : modem'[n].to = modem'[m].to} = {n \in within : modem[n].to = modem[m].to}
        BY <1>2, <2>1, <3>1
      <3>4. Cardinality(within) <= MaxSms /\ Cardinality({n \in within : modem[n].to = modem[m].to}) <= MaxPerNumber
        BY <1>2, <2>1 DEF BudgetInv, BudgetHolds
      <3> QED
        BY <3>2, <3>3, <3>4
    <2>2. CASE m \notin 1 .. L
      <3> DEFINE before == {n \in 1 .. L : modem[n].time > now - SmsWindow}
                 same == {n \in before : modem[n].to = Message.to}
                 here == {i \in 1 .. Len(r) : r[i].to = Message.to}
      <3>1. m = L + 1 /\ modem'[m].time = now /\ modem'[m].to = Message.to
        BY <1>2, <2>2
      <3>2. \A n \in before : n \in Nat /\ n - (old + p) \in 1 .. Len(r) /\ r[n - (old + p)].to = modem[n].to
        <4> SUFFICES ASSUME NEW n \in before
                     PROVE  n \in Nat /\ n - (old + p) \in 1 .. Len(r) /\ r[n - (old + p)].to = modem[n].to
          OBVIOUS
        <4>1. n \in 1 .. L /\ modem[n].time > now - SmsWindow /\ modem[n].time \in Nat
          BY <1>2
        <4>2. n \notin 1 .. old + p
          BY <1>10, <4>1, SmsGatewayAssumption
        <4>3. n \in Nat /\ n - (old + p) \in 1 .. Len(r) /\ old + p + (n - (old + p)) = n
          BY <1>2, <1>4, <1>5, <4>1, <4>2
        <4> QED
          BY <1>9, <4>3
      <3>3. /\ Len(r) \in Nat /\ Len(r) < MaxSms /\ Cardinality(here) < MaxPerNumber
            /\ IsFiniteSet(here) /\ here \in SUBSET (1 .. Len(r))
        <4>1. DOMAIN r = 1 .. Len(r)
          BY <1>4, LenProperties
        <4>2. ~(Len(r) >= MaxSms) /\ ~(Cardinality({i \in DOMAIN r : r[i].to = Message.to}) >= MaxPerNumber)
          BY DEF Refused, r
        <4>3. here \in SUBSET (1 .. Len(r)) /\ IsFiniteSet(1 .. Len(r))
          <5>1. here \in SUBSET (1 .. Len(r))
            BY Zenon
          <5>2. 1 \in Int /\ Len(r) \in Int
            BY <1>4, LenProperties
          <5> HIDE DEF r
          <5>3. IsFiniteSet(1 .. Len(r))
            BY <5>2, FS_Interval
          <5> QED
            BY <5>1, <5>3
        <4>4. IsFiniteSet(here) /\ Cardinality(here) \in Nat
          BY <4>3, FS_Subset, FS_CardinalityType
        <4> QED
          <5>1. {i \in DOMAIN r : r[i].to = Message.to} = here
            BY <4>1
          <5>2. Len(r) < MaxSms
            BY <1>7, <4>2, SmsGatewayAssumption
          <5> HIDE DEF here
          <5>3. Cardinality(here) < MaxPerNumber
            <6>1. ~(Cardinality(here) >= MaxPerNumber)
              BY <4>2, <5>1, Zenon
            <6> QED
              BY <4>4, <6>1, SmsGatewayAssumption
          <5> QED
            BY <1>7, <4>3, <4>4, <5>2, <5>3
      <3>4. IsFiniteSet(before) /\ Cardinality(before) <= Len(r) /\ Cardinality(before) \in Nat
        <4>1. old + p \in Nat /\ Cardinality(1 .. Len(r)) = Len(r)
          <5>1. Len(r) \in Nat /\ Len(r) \in Int /\ 1 \in Int
            BY <1>7
          <5>2. Cardinality(1 .. Len(r)) = IF 1 > Len(r) THEN 0 ELSE Len(r) - 1 + 1
            BY <5>1, FS_Interval
          <5> QED
            BY <5>1, <5>2
        <4>2. \A j \in before : j \in Nat /\ j - (old + p) \in 1 .. Len(r)
          BY <3>2
        <4> HIDE DEF before
        <4>3. IsFiniteSet(before) /\ Cardinality(before) <= Cardinality(1 .. Len(r))
          BY <3>3, <4>1, <4>2, ShiftedCount
        <4> QED
          BY <4>1, <4>3, FS_CardinalityType
      <3>5. IsFiniteSet(same) /\ Cardinality(same) <= Cardinality(here) /\ Cardinality(same) \in Nat
        <4>1. old + p \in Nat
          OBVIOUS
        <4>2. \A j \in same : j \in Nat /\ j - (old + p) \in here
          BY <3>2
        <4> HIDE DEF same, here
        <4>3. IsFiniteSet(same) /\ Cardinality(same) <= Cardinality(here)
          BY <3>3, <4>1, <4>2, ShiftedCount
        <4> QED
          BY <4>3, FS_CardinalityType
      <3>6. {n \in 1 .. m : modem'[n].time > modem'[m].time - SmsWindow} \subseteq before \cup {L + 1}
        <4>1. \A n \in 1 .. L + 1 : n \in 1 .. L \/ n = L + 1
          BY <1>2
        <4> QED
          BY <1>2, <3>1, <4>1
      <3>7. {n \in {k \in 1 .. m : modem'[k].time > modem'[m].time - SmsWindow} : modem'[n].to = modem'[m].to}
              \subseteq same \cup {L + 1}
        <4>1. \A n \in 1 .. L + 1 : n \in 1 .. L \/ n = L + 1
          BY <1>2
        <4> QED
          BY <1>2, <3>1, <4>1
      <3> HIDE DEF before, same, here
      <3>8. IsFiniteSet(before \cup {L + 1}) /\ Cardinality(before \cup {L + 1}) <= Cardinality(before) + 1
        <4>1. /\ IsFiniteSet(before \cup {L + 1})
              /\ Cardinality(before \cup {L + 1})
                   = IF L + 1 \in before THEN Cardinality(before) ELSE Cardinality(before) + 1
          BY <3>4, FS_AddElement
        <4> QED
          BY <3>4, <4>1
      <3>9. IsFiniteSet(same \cup {L + 1}) /\ Cardinality(same \cup {L + 1}) <= Cardinality(same) + 1
        <4>1. /\ IsFiniteSet(same \cup {L + 1})
              /\ Cardinality(same \cup {L + 1})
                   = IF L + 1 \in same THEN Cardinality(same) ELSE Cardinality(same) + 1
          BY <3>5, FS_AddElement
        <4> QED
          BY <3>5, <4>1
      <3>10. ASSUME NEW S, NEW T, NEW B \in Nat, IsFiniteSet(T), Cardinality(T) <= B, S \subseteq T
             PROVE  Cardinality(S) <= B
        BY <3>10, FS_Subset, FS_CardinalityType
      <3>11. Cardinality(before \cup {L + 1}) <= MaxSms
        BY <3>3, <3>4, <3>8, FS_CardinalityType, SmsGatewayAssumption
      <3>12. Cardinality(same \cup {L + 1}) <= MaxPerNumber
        BY <3>3, <3>5, <3>9, FS_CardinalityType, SmsGatewayAssumption
      <3> QED
        BY <3>6, <3>7, <3>8, <3>9, <3>10, <3>11, <3>12, SmsGatewayAssumption
    <2> QED
      BY <2>1, <2>2
  <1> QED
    BY <1>2, <1>7, <1>11, <1>12, <1>13 DEF BudgetInv

LEMMA BudgetStep ==
    ASSUME CodesInv, OnceInv, BudgetInv, [Next]_vars
    PROVE  BudgetInv'
  <1>1. now \in Nat /\ now' \in Nat /\ now <= now'
    BY ClockStep DEF CodesInv, VerifierShape
  <1>2. LoopTracked /\ ModemTracked
    BY DEF OnceInv
  <1>3. CASE ledger' = ledger /\ modem' = modem
    BY <1>1, <1>2, <1>3, BudgetKept DEF ModemTracked
  <1>4. ASSUME NEW confirmed, ModemSend(confirmed)
        PROVE  BudgetInv'
    <2>1. ledger' = ledger /\ modem' = [modem EXCEPT ![Len(modem)].handed = TRUE]
      BY <1>4 DEF ModemSend
    <2>2. modem' \in Seq(Attempt) /\ Len(modem') = Len(modem)
      <3>1. OnceInv'
        BY OnceStep
      <3>2. DOMAIN modem' = DOMAIN modem
        BY <2>1
      <3>3. modem' \in Seq(Attempt) /\ modem \in Seq(Attempt)
        BY <1>2, <3>1 DEF OnceInv, ModemTracked
      <3> QED
        BY <3>2, <3>3, LenProperties
    <2>3. \A m \in 1 .. Len(modem) : modem'[m].time = modem[m].time /\ modem'[m].to = modem[m].to
      <3>1. \A m \in 1 .. Len(modem) : modem[m] \in Attempt
        BY <1>2, ElementOfSeq DEF ModemTracked
      <3>2. DOMAIN modem = 1 .. Len(modem)
        BY <1>2, LenProperties DEF ModemTracked
      <3> QED
        BY <2>1, <3>1, <3>2 DEF Attempt
    <2> QED
      BY <1>1, <1>2, <2>1, <2>2, <2>3, BudgetKept
  <1>5. CASE Process /\ now' = now
    <2>1. CASE Decide("sent") \/ Decide("rejected")
      BY <1>3, <2>1 DEF Decide
    <2>2. CASE ~Refused(Message) /\ Record(Message) /\ LetThrough
      <3>1. Message \in SmsMessage
        <4>1. batch # << >> /\ batch \in Seq(SmsMessage)
          BY <1>2, <1>5 DEF LoopTracked, Process
        <4> QED
          BY <4>1, HeadTailProperties DEF Message
      <3> QED
        BY <1>1, <1>2, <1>5, <2>2, <3>1, RecordSpends
    <2> QED
      BY <1>5, <2>1, <2>2 DEF Process
  <1>6. CASE \/ UNCHANGED gatewayVars \/ Answered(<< >>) \/ Answered(MessagesOf(Leased)) \/ Ask
             \/ Reported \/ GatewayRestart
    BY <1>3, <1>6 DEF gatewayVars, Answered, Ask, Reported, GatewayRestart
  <1> QED
    BY <1>4, <1>5, <1>6, GatewayStep

LEMMA BudgetInit == Init => BudgetInv
  <1> SUFFICES ASSUME Init
               PROVE  BudgetInv
    OBVIOUS
  <1>1. ledger.sends = << >> /\ Len(ledger.sends) = 0 /\ modem = << >> /\ Len(modem) = 0 /\ DOMAIN modem = {}
    BY EmptySeq DEF Init, GatewayInit
  <1>2. ledger.sends \in Seq(Send)
    BY <1>1, EmptySeq
  <1>3. 0 \in 0 .. Len(modem) /\ Remembers(0)
    BY <1>1 DEF Remembers
  <1> QED
    BY <1>1, <1>2, <1>3 DEF BudgetInv, InOrder, BudgetHolds

\* No window of time has more attempts at the modem than the limits allow,
\* to all numbers and to one, whatever is lost and whoever restarts.
THEOREM BudgetIsKept == Spec => []BudgetHolds
  <1>1. ASSUME CodesInv /\ OnceInv /\ BudgetInv, [Next]_vars
        PROVE  (CodesInv /\ OnceInv /\ BudgetInv)'
    BY <1>1, CodesStep, OnceStep, BudgetStep
  <1>2. BudgetInv => BudgetHolds
    BY DEF BudgetInv
  <1> QED
    BY <1>1, <1>2, CodesInit, OnceInit, BudgetInit, PTL DEF Spec

-----------------------------------------------------------------------------
(* The shapes *)

\* allow() and cleanup() never make a window longer than it was, but for the
\* one event they add.
LEMMA WindowsShrink ==
    ASSUME now \in Nat, NEW events \in Seq(Nat)
    PROVE  /\ Recent(events) \in Seq(Nat) /\ Len(Recent(events)) <= Len(events)
           /\ Swept(events) \in Seq(Nat) /\ Len(Swept(events)) <= Len(events)
  <1>1. Len(events) \in Nat /\ DOMAIN events = 1 .. Len(events) /\ \A i \in 1 .. Len(events) : events[i] \in Nat
    BY LenProperties, ElementOfSeq
  <1> DEFINE old == {i \in DOMAIN events : \A j \in 1 .. i : events[j] <= now - RateWindow}
  <1>2. Cardinality(old) \in Nat
    <2>1. old \subseteq 1 .. Len(events) /\ IsFiniteSet(1 .. Len(events))
      BY <1>1, FS_Interval
    <2> HIDE DEF old
    <2> QED
      BY <2>1, FS_Subset, FS_CardinalityType
  <1>3. Recent(events) = SubSeq(events, Cardinality(old) + 1, Len(events))
    BY DEF Recent
  <1> HIDE DEF old
  <1>4. \A i \in Cardinality(old) + 1 .. Len(events) : events[i] \in Nat
    BY <1>1, <1>2
  <1>5. /\ SubSeq(events, Cardinality(old) + 1, Len(events)) \in Seq(Nat)
        /\ Len(SubSeq(events, Cardinality(old) + 1, Len(events)))
             = IF Cardinality(old) + 1 <= Len(events) THEN Len(events) - (Cardinality(old) + 1) + 1 ELSE 0
    <2>1. Cardinality(old) + 1 \in Int /\ Len(events) \in Int
      BY <1>1, <1>2
    <2> QED
      BY <1>4, <2>1, SubSeqProperties
  <1>6. Swept(events) \in Seq(Nat) /\ Len(Swept(events)) <= Len(events)
    BY <1>1, EmptySeq DEF Swept
  <1> QED
    BY <1>1, <1>2, <1>3, <1>5, <1>6

WindowsOk == windows \in [WindowKeys -> Seq(Nat)] /\ \A key \in WindowKeys : Len(windows[key]) <= Limit[key[1]]

\* Every way to change the windows.
LEMMA WindowsStep ==
    ASSUME WindowsOk, now \in Nat,
           \/ windows' = windows \/ windows' = [key \in WindowKeys |-> << >>]
           \/ windows' = [key \in WindowKeys |-> Swept(windows[key])]
           \/ \E c \in Claims : Counted(c) \/ SweptOnly(c)
    PROVE  WindowsOk'
  <1>1. \A key \in WindowKeys : /\ windows[key] \in Seq(Nat) /\ Limit[key[1]] \in Nat
                                /\ Len(windows[key]) <= Limit[key[1]] /\ Len(windows[key]) \in Nat
    <2> SUFFICES ASSUME NEW key \in WindowKeys
                 PROVE  /\ windows[key] \in Seq(Nat) /\ Limit[key[1]] \in Nat
                        /\ Len(windows[key]) <= Limit[key[1]] /\ Len(windows[key]) \in Nat
      OBVIOUS
    <2>1. key[1] \in {"address", "identity", "global"}
      BY DEF WindowKeys
    <2>2. windows[key] \in Seq(Nat) /\ Len(windows[key]) <= Limit[key[1]]
      BY DEF WindowsOk
    <2> QED
      BY <2>1, <2>2, LenProperties, CodeVerifierAssumption
  <1>2. ASSUME NEW key \in WindowKeys
        PROVE  /\ Recent(windows[key]) \in Seq(Nat) /\ Len(Recent(windows[key])) <= Limit[key[1]]
               /\ Swept(windows[key]) \in Seq(Nat) /\ Len(Swept(windows[key])) <= Limit[key[1]]
               /\ << >> \in Seq(Nat) /\ Len(<< >>) <= Limit[key[1]]
               /\ HasRoom(key) => /\ Append(Recent(windows[key]), now) \in Seq(Nat)
                                  /\ Len(Append(Recent(windows[key]), now)) <= Limit[key[1]]
    <2>1. windows[key] \in Seq(Nat) /\ Limit[key[1]] \in Nat
          /\ Len(windows[key]) <= Limit[key[1]] /\ Len(windows[key]) \in Nat
      BY <1>1
    <2>2. /\ Recent(windows[key]) \in Seq(Nat) /\ Len(Recent(windows[key])) <= Len(windows[key])
          /\ Swept(windows[key]) \in Seq(Nat) /\ Len(Swept(windows[key])) <= Len(windows[key])
      BY <2>1, WindowsShrink
    <2>3. Len(Recent(windows[key])) \in Nat /\ Len(Swept(windows[key])) \in Nat
      BY <2>2, LenProperties
    <2>4. << >> \in Seq(Nat) /\ Len(<< >>) = 0
      BY EmptySeq
    <2>5. /\ Append(Recent(windows[key]), now) \in Seq(Nat)
          /\ Len(Append(Recent(windows[key]), now)) = Len(Recent(windows[key])) + 1
      BY <2>2, AppendProperties
    <2>6. HasRoom(key) => Len(Recent(windows[key])) < Limit[key[1]]
      BY DEF HasRoom
    <2> QED
      BY <2>1, <2>2, <2>3, <2>4, <2>5, <2>6
  <1>4. CASE windows' = windows
    BY <1>4 DEF WindowsOk
  <1>5. ASSUME DOMAIN windows' = WindowKeys, windows' = [key \in WindowKeys |-> windows'[key]],
               \A key \in WindowKeys : windows'[key] \in Seq(Nat) /\ Len(windows'[key]) <= Limit[key[1]]
        PROVE  WindowsOk'
    BY <1>5 DEF WindowsOk
  <1>6. CASE windows' = [key \in WindowKeys |-> << >>]
    <2>1. \A key \in WindowKeys : windows'[key] = << >>
      BY <1>6
    <2> QED
      BY <1>2, <1>5, <1>6, <2>1
  <1>7. CASE windows' = [key \in WindowKeys |-> Swept(windows[key])]
    <2>1. \A key \in WindowKeys : windows'[key] = Swept(windows[key])
      BY <1>7
    <2> QED
      BY <1>2, <1>5, <1>7, <2>1
  <1>8. ASSUME NEW c \in Claims, SweptOnly(c)
        PROVE  WindowsOk'
    <2>1. \A key \in WindowKeys : windows'[key] = Swept(windows[key]) \/ windows'[key] = windows[key]
      BY <1>8 DEF SweptOnly
    <2>2. DOMAIN windows' = WindowKeys /\ windows' = [key \in WindowKeys |-> windows'[key]]
      BY <1>8 DEF SweptOnly
    <2> QED
      BY <1>1, <1>2, <1>5, <2>1, <2>2
  <1>9. ASSUME NEW c \in Claims, Counted(c)
        PROVE  WindowsOk'
    <2>1. \A key \in WindowKeys :
             \/ windows'[key] = windows[key] \/ windows'[key] = Swept(windows[key])
             \/ windows'[key] = Recent(windows[key])
             \/ HasRoom(key) /\ windows'[key] = Append(Recent(windows[key]), now)
      BY <1>9 DEF Counted
    <2>2. DOMAIN windows' = WindowKeys /\ windows' = [key \in WindowKeys |-> windows'[key]]
      BY <1>9 DEF Counted
    <2>3. \A key \in WindowKeys : windows'[key] \in Seq(Nat) /\ Len(windows'[key]) <= Limit[key[1]]
      BY <1>1, <1>2, <2>1
    <2> QED
      BY <1>5, <2>2, <2>3
  <1> QED
    BY <1>4, <1>6, <1>7, <1>8, <1>9

\* What is left of the verifier's shape when CodesInv is known.
VerifierOk ==
    /\ WindowsOk /\ Len(requests) <= MaxRequests
    /\ \A v \in DOMAIN pending : pending[v].attempts \in 0 .. MaxAttempts - 1
    /\ delivering \subseteq 1 .. Len(requests)
    /\ \A a \in attestations : a.vid \in 1 .. Len(requests)

\* The operations that start no verification.
LEMMA OperationShape ==
    ASSUME CodesInv, VerifierOk, NEW c, NEW chain, NEW v, NEW i,
           \/ VerifierCleanup \/ (c \in Claims /\ StartRefused(c, chain)) \/ Delivered(v) \/ DeliveryFails(v)
           \/ Confirm(v) \/ StoredElsewhere(i, chain) \/ VerifierRestart
    PROVE  VerifierOk'
  <1>1. Fewer /\ now \in Nat
    BY OperationEffect DEF CodesInv, VerifierShape
  <1>2. WindowsOk'
    <2>1. \/ windows' = windows \/ windows' = [key \in WindowKeys |-> << >>]
          \/ windows' = [key \in WindowKeys |-> Swept(windows[key])]
          \/ c \in Claims /\ (Counted(c) \/ SweptOnly(c))
      BY DEF VerifierCleanup, StartRefused, Delivered, DeliveryFails, Confirm, ConfirmExpired,
             ConfirmWrong, ConfirmRight, StoredElsewhere, VerifierRestart
    <2> QED
      BY <1>1, <2>1, WindowsStep DEF VerifierOk
  <1>3. delivering' \subseteq delivering
    BY DEF VerifierCleanup, StartRefused, Delivered, DeliveryFails, Confirm, ConfirmExpired,
           ConfirmWrong, ConfirmRight, StoredElsewhere, VerifierRestart
  <1>4. \A a \in attestations' : a \in attestations \/ (a.vid = v /\ v \in DOMAIN pending)
    BY DEF VerifierCleanup, StartRefused, Delivered, DeliveryFails, Confirm, ConfirmExpired,
           ConfirmWrong, ConfirmRight, StoredElsewhere, VerifierRestart
  <1>5. ASSUME NEW w \in DOMAIN pending'
        PROVE  pending'[w].attempts \in 0 .. MaxAttempts - 1
    <2>1. w \in DOMAIN pending /\ PendingTracked(w) /\ pending[w].attempts \in 0 .. MaxAttempts - 1
      BY <1>1 DEF CodesInv, VerifierOk, Fewer
    <2>2. CASE pending'[w] = pending[w]
      BY <2>1, <2>2
    <2>3. CASE pending'[w] # pending[w]
      <3>1. ConfirmWrong(v)
        <4>1. CASE VerifierCleanup \/ StartRefused(c, chain)
          BY <1>5, <2>3, <4>1 DEF VerifierCleanup, StartRefused, Keep
        <4>2. CASE Delivered(v) \/ DeliveryFails(v) \/ StoredElsewhere(i, chain) \/ VerifierRestart
          BY <1>5, <2>3, <4>2 DEF Delivered, DeliveryFails, StoredElsewhere, VerifierRestart, Keep
        <4>3. CASE ConfirmExpired(v) \/ ConfirmRight(v)
          BY <1>5, <2>3, <4>3 DEF ConfirmExpired, ConfirmRight, Keep
        <4> QED
          BY <4>1, <4>2, <4>3 DEF Confirm
      <3>2. ~(MaxAttempts - (pending[v].attempts + 1) <= 0)
            /\ pending' = [pending EXCEPT ![v].attempts = @ + 1]
        <4>1. CASE pending' = Keep(DOMAIN pending \ {v})
          BY <1>5, <2>3, <4>1 DEF Keep
        <4> QED
          BY <3>1, <4>1 DEF ConfirmWrong
      <3>3. w = v
        BY <2>1, <2>3, <3>2
      <3>4. pending'[w] = [pending[w] EXCEPT !.attempts = pending[w].attempts + 1]
        BY <2>1, <3>2, <3>3
      <3>5. pending'[w].attempts = pending[w].attempts + 1
        BY <2>1, <3>4 DEF PendingTracked
      <3> QED
        BY <2>1, <3>2, <3>3, <3>5, CodeVerifierAssumption
    <2> QED
      BY <2>2, <2>3
  <1>6. \A w \in DOMAIN pending : w \in 1 .. Len(requests)
    BY DEF CodesInv, PendingTracked
  <1> QED
    BY <1>1, <1>2, <1>3, <1>4, <1>5, <1>6 DEF VerifierOk, Fewer

\* The starts.
LEMMA StartShape ==
    ASSUME CodesInv, VerifierOk, NEW c \in Claims, NEW chain, NEW supplied,
           StartAccepted(c, chain) \/ StartPhone(c, supplied)
    PROVE  VerifierOk'
  <1>1. now \in Nat /\ requests \in Seq([claim : Claims, time : Nat])
    BY DEF CodesInv, VerifierShape
  <1>2. WindowsOk'
    BY <1>1, WindowsStep DEF VerifierOk, StartAccepted, StartPhone
  <1>3. requests' = Append(requests, NewRequest(c)) /\ Len(requests) < MaxRequests
    BY DEF StartAccepted, StartPhone, Startable
  <1>4. Len(requests) \in Nat /\ Len(requests') = Len(requests) + 1
    BY <1>1, <1>3, AppendKeeps
  <1>5. attestations' = attestations /\ delivering' \subseteq delivering \cup {Len(requests) + 1}
    BY DEF StartAccepted, StartPhone
  <1>6. PICK shown : OneMore(c, shown)
    BY StartEffect
  <1>7. \A v \in DOMAIN pending' : pending'[v].attempts \in 0 .. MaxAttempts - 1
    <2>1. NewPending(c, shown).attempts = 0
      BY DEF NewPending
    <2> QED
      BY <1>6, <2>1, CodeVerifierAssumption DEF OneMore, VerifierOk
  <1> QED
    <2>1. Len(requests') <= MaxRequests
      BY <1>3, <1>4, CodeVerifierAssumption
    <2>2. 1 .. Len(requests) \subseteq 1 .. Len(requests') /\ Len(requests) + 1 \in 1 .. Len(requests')
      BY <1>4
    <2> QED
      BY <1>2, <1>5, <1>7, <2>1, <2>2 DEF VerifierOk

LEMMA VerifierShapeStep ==
    ASSUME CodesInv, VerifierOk, [Next]_vars
    PROVE  VerifierOk'
  <1>1. CASE UNCHANGED verifierVars
    BY <1>1 DEF verifierVars, VerifierOk, WindowsOk
  <1>2. ASSUME NEW c, NEW chain, NEW v, NEW i,
               \/ VerifierCleanup \/ (c \in Claims /\ StartRefused(c, chain)) \/ Delivered(v) \/ DeliveryFails(v)
               \/ Confirm(v) \/ StoredElsewhere(i, chain) \/ VerifierRestart
        PROVE  VerifierOk'
    BY <1>2, OperationShape
  <1>3. ASSUME NEW c \in Claims, NEW chain, NEW supplied, StartAccepted(c, chain) \/ StartPhone(c, supplied)
        PROVE  VerifierOk'
    BY <1>3, StartShape
  <1> QED
    BY <1>1, <1>2, <1>3, VerifierStep

\* The loop of the gateway: where it is says what it holds.
LoopShape ==
    /\ at \in {"idle", "asked", "next", "send", "report"}
    /\ verdict \in {"none", "sent", "failed", "rejected"}
    /\ (verdict # "none") <=> (at = "report")
    /\ (batch # << >>) <=> (at \in {"next", "send", "report"})

LEMMA LoopShapeStep ==
    ASSUME LoopShape, [Next]_vars
    PROVE  LoopShape'
  <1>1. CASE UNCHANGED gatewayVars
    BY <1>1 DEF gatewayVars, LoopShape
  <1>2. ASSUME NEW messages, Answered(messages)
        PROVE  LoopShape'
    BY <1>2 DEF Answered, LoopShape
  <1>3. CASE Ask \/ GatewayRestart
    BY <1>3 DEF Ask, GatewayRestart, LoopShape
  <1>4. CASE Process
    <2>1. at = "next" /\ batch' = batch
          /\ \/ at' = "report" /\ verdict' \in {"sent", "rejected"}
             \/ at' = "send" /\ verdict' = verdict
      BY <1>4 DEF Process, Decide, LetThrough
    <2> QED
      BY <2>1 DEF LoopShape
  <1>5. CASE Reported \/ \E confirmed : ModemSend(confirmed)
    BY <1>5 DEF Reported, ModemSend, LoopShape
  <1> QED
    BY <1>1, <1>2, <1>3, <1>4, <1>5, GatewayStep

\* A call of gateway_pending() waits for the gateway exactly while it asks.
AskedOk == parked \subseteq {"live", "orphan"} /\ ("live" \in parked <=> at = "asked")

LEMMA AskedStep ==
    ASSUME AskedOk, [Next]_vars
    PROVE  AskedOk'
  <1>1. CASE UNCHANGED <<at, parked>>
    BY <1>1 DEF AskedOk
  <1>2. CASE ClockTicks \/ CleanupTask \/ UNCHANGED vars
    BY <1>1, <1>2 DEF ClockTicks, CleanupTask, vars, gatewayVars
  <1>3. ASSUME NEW c, NEW supplied, Refuses(c, supplied) \/ StartEmail(c, supplied) \/ StartPhone(c, supplied)
        PROVE  AskedOk'
    BY <1>1, <1>3 DEF Refuses, StartEmail, StartPhone, gatewayVars
  <1>4. ASSUME NEW v, MailAccepted(v) \/ MailFails(v) \/ Confirm(v)
        PROVE  AskedOk'
    BY <1>1, <1>4 DEF MailAccepted, MailFails, Confirm, gatewayVars
  <1>5. ASSUME NEW i, NEW chain, ChainStored(i, chain)
        PROVE  AskedOk'
    BY <1>1, <1>5 DEF ChainStored, gatewayVars
  <1>6. ASSUME NEW messages, Answered(messages)
        PROVE  at' # "asked"
    BY <1>6 DEF Answered
  <1>7. ASSUME NEW lost, GatewayAsks(lost)
        PROVE  AskedOk'
    BY <1>6, <1>7 DEF GatewayAsks, Answer, Ask, AskedOk
  <1>8. ASSUME NEW request \in parked, NEW late, NEW lost, GatewayWaits(request, late, lost)
        PROVE  AskedOk'
    BY <1>6, <1>8 DEF GatewayWaits, Answer, AskedOk, gatewayVars
  <1>9. ASSUME NEW confirmed, NEW arrives, GatewayProcesses \/ GatewaySends(confirmed) \/ GatewayReports(arrives)
        PROVE  AskedOk'
    <2>1. parked' = parked /\ at # "asked" /\ at' # "asked"
      BY <1>9 DEF GatewayProcesses, GatewaySends, GatewayReports, Process, Decide, LetThrough,
                  ModemSend, Reported
    <2> QED
      BY <2>1 DEF AskedOk
  <1>10. CASE GatewayRestarts \/ ServiceRestarts
    BY <1>6, <1>10 DEF GatewayRestarts, ServiceRestarts, GatewayRestart, AskedOk, gatewayVars
  <1> QED
    BY <1>2, <1>3, <1>4, <1>5, <1>7, <1>8, <1>9, <1>10 DEF Next

\* Every number in the ledger passed the mask.
MaskedOk == Range(ledger.sends) \subseteq [time : Nat, to : GatewayMask]

LEMMA MaskedStep ==
    ASSUME CodesInv, OnceInv, BudgetInv, MaskedOk, [Next]_vars
    PROVE  MaskedOk'
  <1>1. CASE ledger' = ledger
    BY <1>1 DEF MaskedOk
  <1>2. CASE Process /\ now' = now
    <2>1. CASE Decide("sent") \/ Decide("rejected")
      BY <1>1, <2>1 DEF Decide
    <2>2. CASE ~Refused(Message) /\ Record(Message)
      <3> DEFINE new == [time |-> now, to |-> Message.to]
      <3>1. now \in Nat /\ ModemTracked
        BY DEF CodesInv, VerifierShape, OnceInv
      <3>2. PICK p \in 0 .. Len(ledger.sends) :
                 /\ RecentSends \in Seq(Send) /\ Len(RecentSends) = Len(ledger.sends) - p
                 /\ \A k \in 1 .. Len(ledger.sends) - p : RecentSends[k] = ledger.sends[p + k]
        BY <3>1, RecentIsTail
      <3>3. new \in [time : Nat, to : GatewayMask]
        BY <2>2, <3>1 DEF Refused
      <3>4. ledger'.sends = Append(RecentSends, new)
        BY <2>2 DEF Record
      <3> HIDE DEF new
      <3>5. /\ DOMAIN ledger.sends = 1 .. Len(ledger.sends) /\ Len(ledger.sends) \in Nat
            /\ DOMAIN ledger'.sends = 1 .. Len(RecentSends) + 1 /\ Len(RecentSends) \in Nat
            /\ \A k \in 1 .. Len(RecentSends) : ledger'.sends[k] = RecentSends[k]
            /\ ledger'.sends[Len(RecentSends) + 1] = new
        <4>1. ledger.sends \in Seq(Send) /\ RecentSends \in Seq(Send)
          BY <3>2 DEF BudgetInv
        <4>2. PICK rest : rest = RecentSends
          OBVIOUS
        <4>3. rest \in Seq(Send \cup {new}) /\ new \in Send \cup {new}
          BY <4>1, <4>2
        <4>4. /\ Append(rest, new) \in Seq(Send \cup {new}) /\ Len(Append(rest, new)) = Len(rest) + 1
              /\ \A k \in 1 .. Len(rest) : Append(rest, new)[k] = rest[k]
              /\ Append(rest, new)[Len(rest) + 1] = new
          BY <4>3, AppendProperties
        <4>5. DOMAIN Append(rest, new) = 1 .. Len(rest) + 1 /\ Len(rest) \in Nat
          BY <4>3, <4>4, LenProperties
        <4>6. DOMAIN ledger.sends = 1 .. Len(ledger.sends) /\ Len(ledger.sends) \in Nat
          BY <4>1, LenProperties
        <4> QED
          BY <3>4, <4>2, <4>4, <4>5, <4>6
      <3>6. ASSUME NEW k \in DOMAIN ledger'.sends
            PROVE  ledger'.sends[k] \in [time : Nat, to : GatewayMask]
        <4>1. CASE k \in 1 .. Len(RecentSends)
          <5>1. p + k \in DOMAIN ledger.sends
            BY <3>2, <3>5, <4>1
          <5>2. ledger'.sends[k] = RecentSends[k]
            BY <3>5, <4>1
          <5>3. RecentSends[k] = ledger.sends[p + k]
            BY <3>2, <4>1
          <5> QED
            BY <5>1, <5>2, <5>3 DEF MaskedOk, Range
        <4>2. CASE k \notin 1 .. Len(RecentSends)
          <5>1. k = Len(RecentSends) + 1
            BY <3>5, <4>2
          <5> QED
            BY <3>3, <3>5, <5>1
        <4> QED
          BY <4>1, <4>2
      <3> QED
        BY <3>6 DEF MaskedOk, Range
    <2> QED
      BY <1>2, <2>1, <2>2 DEF Process
  <1> QED
    BY <1>1, <1>2, GatewayStep DEF gatewayVars, Answered, Ask, Reported, GatewayRestart, ModemSend

\* All of it.
ShapeInv == now \in 0 .. MaxTime /\ wake \in BOOLEAN /\ VerifierOk /\ LoopShape /\ AskedOk /\ MaskedOk

LEMMA ShapeIsTypeOK == CodesInv /\ OnceInv /\ ShapeInv => TypeOK
  <1> SUFFICES ASSUME CodesInv, OnceInv, ShapeInv
               PROVE  TypeOK
    OBVIOUS
  <1>1. VerifierTypeOK
    <2>1. \A v \in DOMAIN pending : v \in 1 .. Len(requests) /\ pending[v].claim = requests[v].claim
      BY DEF CodesInv, PendingTracked
    <2>2. stored \in [Owners -> Chains \cup {NoChain}]
      BY DEF CodesInv, VerifierShape
    <2> QED
      BY <2>1, <2>2 DEF ShapeInv, VerifierOk, WindowsOk, VerifierTypeOK
  <1>2. Len(requests) \in Nat /\ 1 .. Len(requests) \subseteq Vids
    <2>1. Len(requests) \in Nat
      BY LenProperties DEF CodesInv, VerifierShape
    <2>2. Len(requests) <= MaxRequests
      BY DEF ShapeInv, VerifierOk
    <2> QED
      BY <2>1, <2>2, CodeVerifierAssumption DEF Vids
  <1>3. OutboxTypeOK
    <2>1. \A id \in Jobs : id \in 1 .. Len(requests) /\ jobs[id] \in Job
      BY DEF OnceInv, OutboxTracked
    <2>2. \A id \in Jobs : jobs[id] \in SmsJob
      BY <2>1, VerificationAssumption DEF Job, SmsJob
    <2> QED
      BY <1>2, <2>1, <2>2, VerificationAssumption DEF OutboxTypeOK, ShapeInv
  <1>4. GatewayTypeOK
    <2>1. DOMAIN ledger.done \subseteq GatewayIds
      BY <1>2, VerificationAssumption DEF OnceInv, LedgerTracked
    <2> QED
      BY <2>1 DEF ShapeInv, LoopShape, MaskedOk, GatewayTypeOK
  <1> QED
    BY <1>1, <1>3, <1>4 DEF ShapeInv, AskedOk, TypeOK

LEMMA ShapeStep ==
    ASSUME CodesInv, OnceInv, BudgetInv, ShapeInv, [Next]_vars
    PROVE  ShapeInv'
  <1>1. VerifierOk' /\ LoopShape' /\ AskedOk' /\ MaskedOk'
    BY VerifierShapeStep, LoopShapeStep, AskedStep, MaskedStep DEF ShapeInv
  <1>2. now' \in 0 .. MaxTime
    <2>1. now \in Nat /\ now <= MaxTime /\ now' \in Nat
      BY ClockStep, MaxTimeAssumption DEF ShapeInv
    <2>2. now' <= MaxTime
      <3>1. CASE ClockTicks
        BY <2>1, <3>1, MaxTimeAssumption DEF ClockTicks, Tick
      <3>2. CASE ~ClockTicks
        <4>1. now' = now
          BY <3>2 DEF Next, CleanupTask, Refuses, StartEmail, StartPhone, MailAccepted, MailFails, Confirm,
                      ChainStored, GatewayAsks, GatewayWaits, GatewayProcesses, GatewaySends,
                      GatewayReports, GatewayRestarts, ServiceRestarts, vars
        <4> QED
          BY <2>1, <4>1
      <3> QED
        BY <3>1, <3>2
    <2> QED
      BY <2>1, <2>2, MaxTimeAssumption
  <1>3. wake' \in BOOLEAN
    <2>1. wake' \in {wake, TRUE, FALSE}
      <3>1. ASSUME NEW c, NEW supplied, Refuses(c, supplied) \/ StartEmail(c, supplied) \/ StartPhone(c, supplied)
            PROVE  wake' \in {wake, TRUE, FALSE}
        BY <3>1 DEF Refuses, StartEmail, StartPhone, EnqueueRefused, Enqueue, outboxVars
      <3>2. ASSUME NEW v, NEW i, NEW chain, NEW confirmed, NEW arrives,
                   \/ MailAccepted(v) \/ MailFails(v) \/ Confirm(v) \/ ChainStored(i, chain)
                   \/ GatewaySends(confirmed) \/ GatewayReports(arrives)
            PROVE  wake' \in {wake, TRUE, FALSE}
        BY <3>2 DEF MailAccepted, MailFails, Confirm, ChainStored, GatewaySends, GatewayReports, outboxVars
      <3>3. ASSUME NEW request, NEW late, NEW lost, GatewayAsks(lost) \/ GatewayWaits(request, late, lost)
            PROVE  wake' \in {wake, TRUE, FALSE}
        BY <3>3 DEF GatewayAsks, GatewayWaits
      <3>4. CASE \/ ClockTicks \/ CleanupTask \/ GatewayProcesses \/ GatewayRestarts
                 \/ ServiceRestarts \/ UNCHANGED vars
        BY <3>4 DEF ClockTicks, CleanupTask, OutboxCleanup, GatewayProcesses, GatewayRestarts,
                    ServiceRestarts, OutboxRestart, outboxVars, vars
      <3> QED
        BY <3>1, <3>2, <3>3, <3>4 DEF Next
    <2> QED
      BY <2>1 DEF ShapeInv
  <1> QED
    BY <1>1, <1>2, <1>3 DEF ShapeInv

LEMMA ShapeInit == Init => ShapeInv
  <1> SUFFICES ASSUME Init
               PROVE  ShapeInv
    OBVIOUS
  <1>1. /\ requests = << >> /\ Len(requests) = 0 /\ pending = << >> /\ DOMAIN pending = {} /\ delivering = {}
        /\ attestations = {} /\ now = 0 /\ wake = FALSE /\ batch = << >> /\ at = "idle" /\ verdict = "none"
        /\ ledger.sends = << >> /\ DOMAIN ledger.sends = {} /\ parked = {}
    BY EmptySeq DEF Init, ClockInit, VerifierInit, OutboxInit, GatewayInit
  <1>2. WindowsOk
    <2>1. windows = [key \in WindowKeys |-> << >>]
      BY DEF Init, VerifierInit
    <2>2. << >> \in Seq(Nat) /\ Len(<< >>) = 0
      BY EmptySeq
    <2>3. \A key \in WindowKeys : key[1] \in {"address", "identity", "global"}
      BY DEF WindowKeys
    <2>4. \A key \in WindowKeys : Limit[key[1]] \in Nat
      BY <2>3, CodeVerifierAssumption
    <2>5. \A key \in WindowKeys : Len(windows[key]) <= Limit[key[1]]
      BY <2>1, <2>2, <2>4
    <2> QED
      BY <2>1, <2>2, <2>5 DEF WindowsOk
  <1>3. VerifierOk
    BY <1>1, <1>2, CodeVerifierAssumption DEF VerifierOk
  <1>4. MaskedOk
    BY <1>1 DEF MaskedOk, Range
  <1> QED
    <2>1. LoopShape
      BY <1>1 DEF LoopShape
    <2>2. AskedOk
      BY <1>1 DEF AskedOk
    <2>3. now \in 0 .. MaxTime
      BY <1>1, MaxTimeAssumption
    <2>4. wake \in BOOLEAN
      BY <1>1
    <2> QED
      BY <1>3, <1>4, <2>1, <2>2, <2>3, <2>4 DEF ShapeInv

\* The three programs keep their shape: no verification outlives its last
\* guess, no window exceeds its limit, a gateway that asks is waited for, and
\* the ledger has only numbers that passed the mask.
THEOREM TypeCorrect == Spec => []TypeOK
  <1>1. ASSUME CodesInv /\ OnceInv /\ BudgetInv /\ ShapeInv, [Next]_vars
        PROVE  (CodesInv /\ OnceInv /\ BudgetInv /\ ShapeInv)'
    BY <1>1, CodesStep, OnceStep, BudgetStep, ShapeStep
  <1> QED
    BY <1>1, CodesInit, OnceInit, BudgetInit, ShapeInit, ShapeIsTypeOK, PTL DEF Spec

=============================================================================
