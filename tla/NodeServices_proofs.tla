------------------------ MODULE NodeServices_proofs ------------------------
(***************************************************************************)
(* Proofs about NodeServices, for every set of identities, chains, letters *)
(* and claims, every window and any number of requests.                    *)
(***************************************************************************)
EXTENDS NodeServices, Sigchain_proofs

-----------------------------------------------------------------------------
(* What a step may do to each table *)

\* A claim document is touched by the two letters only.
LEMMA DocumentsStep ==
    ASSUME [Next]_vars
    PROVE  \/ UNCHANGED documentVars /\ (now' = now \/ now' = now + 1)
           \/ /\ now' = now
              /\ \E c \in Claims, issued_at \in Stamps, signed_by \in KeysIn(Publisher) :
                    Unpublish(c, issued_at, signed_by) \/ Publish(c, issued_at, signed_by)
  <1>1. CASE Documents
    BY <1>1 DEF Documents, Only
  <1>2. CASE OtherWriter \/ TimePasses
    BY <1>2 DEF OtherWriter, TimePasses, ServicesKeep, Tick
  <1>3. CASE Attesting \/ Releasing \/ SigningOn \/ Trusting \/ PollerStep \/ Relaying
    BY <1>3 DEF Attesting, Releasing, SigningOn, Trusting, PollerStep, Relaying, Only
  <1>4. CASE UNCHANGED vars
    BY <1>4 DEF vars
  <1> QED
    BY <1>1, <1>2, <1>3, <1>4 DEF Next

\* Attestations and revocations are touched by the two POST handlers only.
LEMMA AttestationsStep ==
    ASSUME [Next]_vars
    PROVE  \/ UNCHANGED <<attestations, revocations>>
           \/ \E a \in AttestationIds :
                 \/ \E subject, issuer : PostAttestation(a, subject, issuer)
                 \/ \E issuer, signed_by, supplied : PostRevocation(a, issuer, signed_by, supplied)
  <1>1. CASE Attesting
    BY <1>1 DEF Attesting, RevocationPosted, LettersAt, VerifyClaim, VerifyClaimChecks, VerifyClaimAnswers
  <1>2. CASE Releasing
    BY <1>2 DEF Releasing, RevocationPosted, LettersAt, attestationVars
  <1>3. CASE OtherWriter \/ TimePasses \/ Documents \/ SigningOn \/ Trusting \/ PollerStep \/ Relaying
    BY <1>3 DEF OtherWriter, TimePasses, Documents, SigningOn, Trusting, PollerStep, Relaying,
                ServicesKeep, attestationVars
  <1>4. CASE UNCHANGED vars
    BY <1>4 DEF vars, attestationVars
  <1> QED
    BY <1>1, <1>2, <1>3, <1>4 DEF Next

-----------------------------------------------------------------------------
(* Published documents *)

\* Times are numbers, and the tables have a row or nothing per claim.
DocumentsShape ==
    /\ now \in Int
    /\ DOMAIN documents = Claims
    /\ withdrawn \in [Claims -> Int]

DocumentsInv == DocumentsShape /\ NoLateReturn

\* A letter of either kind keeps the invariant: the one that publishes was
\* signed at most a window ago.
LEMMA LettersKeep ==
    ASSUME DocumentsInv, now' = now, NEW c \in Claims, NEW issued_at \in Stamps, NEW signed_by,
           Unpublish(c, issued_at, signed_by) \/ Publish(c, issued_at, signed_by)
    PROVE  DocumentsInv'
  <1>1. issued_at \in Int /\ PublicationWindow \in Int
    BY NodeServicesAssumption, ClaimDocumentsAssumption
  <1>2. CASE Unpublish(c, issued_at, signed_by)
    <2>1. DocumentsShape'
      BY <1>1, <1>2 DEF DocumentsInv, DocumentsShape, Unpublish, DeleteClaimDocument
    <2>2. ASSUME NEW d \in Claims, documents'[d] # None,
                 documents'[d].published_at <= withdrawn'[d]
          PROVE  documents'[d].since <= withdrawn'[d] + PublicationWindow
      <3>1. d # c
        BY <1>2, <2>2 DEF DocumentsInv, DocumentsShape, Unpublish, DeleteClaimDocument
      <3>2. documents'[d] = documents[d] /\ withdrawn'[d] = withdrawn[d]
        BY <1>2, <3>1 DEF DocumentsInv, DocumentsShape, Unpublish, DeleteClaimDocument
      <3> QED
        BY <2>2, <3>2 DEF DocumentsInv, NoLateReturn
    <2> QED
      BY <2>1, <2>2 DEF DocumentsInv, NoLateReturn
  <1>3. CASE Publish(c, issued_at, signed_by)
    <2>1. DocumentsShape'
      BY <1>3 DEF DocumentsInv, DocumentsShape, Publish, SaveClaimDocument
    <2>2. ASSUME NEW d \in Claims, documents'[d] # None,
                 documents'[d].published_at <= withdrawn'[d]
          PROVE  documents'[d].since <= withdrawn'[d] + PublicationWindow
      <3>1. CASE d = c
        <4>1. documents'[d] = [published_at |-> issued_at, since |-> now]
          BY <1>3, <3>1 DEF DocumentsInv, DocumentsShape, Publish, SaveClaimDocument
        <4>2. now <= issued_at + PublicationWindow
          BY <1>1, <1>3 DEF DocumentsInv, DocumentsShape, Publish, Heard, InWindow, Away
        <4>3. withdrawn'[d] \in Int
          BY <2>1 DEF DocumentsShape
        <4> QED
          BY <1>1, <2>2, <4>1, <4>2, <4>3 DEF DocumentsInv, DocumentsShape
      <3>2. CASE d # c
        <4>1. documents'[d] = documents[d] /\ withdrawn'[d] = withdrawn[d]
          BY <1>3, <3>2 DEF DocumentsInv, DocumentsShape, Publish, SaveClaimDocument
        <4> QED
          BY <2>2, <4>1 DEF DocumentsInv, NoLateReturn
      <3> QED
        BY <3>1, <3>2
    <2> QED
      BY <2>1, <2>2 DEF DocumentsInv, NoLateReturn
  <1> QED
    BY <1>2, <1>3

\* A document that stands against its holder's later "unpublish" was let in no
\* more than a window after that was signed, however late the letters arrive
\* and in whatever order.
THEOREM NoneReturnsLate == Spec => []NoLateReturn
  <1>1. Init => DocumentsInv
    BY DEF Init, ClockInit, ClaimDocumentsInit, DocumentsInv, DocumentsShape, NoLateReturn
  <1>2. DocumentsInv /\ [Next]_vars => DocumentsInv'
    <2> SUFFICES ASSUME DocumentsInv, [Next]_vars
                 PROVE  DocumentsInv'
      OBVIOUS
    <2>1. CASE UNCHANGED documentVars /\ (now' = now \/ now' = now + 1)
      BY <2>1 DEF documentVars, DocumentsInv, DocumentsShape, NoLateReturn
    <2>2. CASE /\ now' = now
               /\ \E c \in Claims, issued_at \in Stamps, signed_by \in KeysIn(Publisher) :
                     Unpublish(c, issued_at, signed_by) \/ Publish(c, issued_at, signed_by)
      BY <2>2, LettersKeep
    <2> QED
      BY <2>1, <2>2, DocumentsStep
  <1>3. DocumentsInv => NoLateReturn
    BY DEF DocumentsInv
  <1> QED
    BY <1>1, <1>2, <1>3, PTL DEF Spec

-----------------------------------------------------------------------------
(* Attestations *)

\* The two tables speak of known ids.
AttestationsShape == attestations \subseteq AttestationIds /\ DOMAIN revocations = AttestationIds

AttestationsInv == AttestationsShape /\ OnlyItsIssuerRevokes

LEMMA PostsKeep ==
    ASSUME AttestationsInv, NEW a \in AttestationIds,
           \/ \E subject, issuer : PostAttestation(a, subject, issuer)
           \/ \E issuer, signed_by, supplied : PostRevocation(a, issuer, signed_by, supplied)
    PROVE  AttestationsInv'
  <1>1. CASE \E subject, issuer : PostAttestation(a, subject, issuer)
    <2>1. attestations' = attestations \cup {a} /\ revocations' = revocations /\ revocations[a] = None
      BY <1>1 DEF PostAttestation, SaveAttestation, Unrevoked
    <2> QED
      BY <2>1 DEF AttestationsInv, AttestationsShape, OnlyItsIssuerRevokes
  <1>2. CASE \E issuer, signed_by, supplied : PostRevocation(a, issuer, signed_by, supplied)
    <2>1. PICK issuer :
              /\ attestations' = attestations /\ revocations' = [revocations EXCEPT ![a] = issuer]
              /\ a \in attestations => Letters[a].issuer = issuer
      BY <1>2 DEF PostRevocation, MayRevoke, SaveRevocation
    <2> QED
      BY <2>1 DEF AttestationsInv, AttestationsShape, OnlyItsIssuerRevokes
  <1> QED
    BY <1>1, <1>2

\* A stored attestation is withdrawn by its own issuer or by nobody, in
\* whatever order letters and revocations arrive.
THEOREM IssuersOnly == Spec => []OnlyItsIssuerRevokes
  <1>1. Init => AttestationsInv
    BY DEF Init, AttestationsInit, AttestationsInv, AttestationsShape, OnlyItsIssuerRevokes
  <1>2. AttestationsInv /\ [Next]_vars => AttestationsInv'
    <2> SUFFICES ASSUME AttestationsInv, [Next]_vars
                 PROVE  AttestationsInv'
      OBVIOUS
    <2>1. CASE UNCHANGED <<attestations, revocations>>
      BY <2>1 DEF AttestationsInv, AttestationsShape, OnlyItsIssuerRevokes
    <2> QED
      BY <2>1, AttestationsStep, PostsKeep
  <1>3. AttestationsInv => OnlyItsIssuerRevokes
    BY DEF AttestationsInv
  <1> QED
    BY <1>1, <1>2, <1>3, PTL DEF Spec

-----------------------------------------------------------------------------
(* Challenges, sessions and tokens *)

\* The requests of the session desk.
SessionRequest ==
    \/ \E aud \in Audiences, lifetime \in Lifetimes : Challenge(aud, lifetime)
    \/ \E nonce \in Nonces : PeekExpired(nonce)
    \/ \E a \in Assertions, supplied \in Supplied(Visitor) :
          VerifyHandler(a, supplied) \/ Login(a, supplied)
    \/ \E device \in KeysIn(Visitor), timestamp \in Stamps :
          \/ \E expires_in \in Lifetimes : CreateSession(device, timestamp, expires_in)
          \/ CreateToken(device, timestamp)
    \/ \E s \in sessions : DeleteSession(s) \/ GetSessionOver(s)
    \/ Cleanup
    \/ RestartNode

\* The stores change by a request, or when the row does; at the other desks
\* they stay as they are.
LEMMA SessionsStep ==
    ASSUME [Next]_vars
    PROVE  /\ desk' = desk
           /\ \/ UNCHANGED sessionVars /\ UNCHANGED <<now, held>>
              \/ UNCHANGED sessionVars /\ Tick /\ UNCHANGED held
              \/ UNCHANGED sessionVars /\ UNCHANGED now /\ desk # "sessions"
              \/ /\ UNCHANGED now /\ desk = "sessions"
                 /\ \E n \in Around[Visitor] : RowChanges(n)
              \/ SessionRequest /\ UNCHANGED <<now, held>> /\ desk = "sessions"
  <1>1. CASE SigningOn
    BY <1>1 DEF SigningOn, SessionRequest, Only
  <1>2. CASE OtherWriter
    BY <1>2 DEF OtherWriter
  <1>3. CASE TimePasses
    BY <1>3 DEF TimePasses, ServicesKeep
  <1>4. CASE Documents \/ Attesting \/ Releasing \/ Trusting \/ PollerStep \/ Relaying
    BY <1>4 DEF Documents, Attesting, Releasing, Trusting, PollerStep, Relaying, Only
  <1>5. CASE UNCHANGED vars
    BY <1>5 DEF vars
  <1> QED
    BY <1>1, <1>2, <1>3, <1>4, <1>5 DEF Next

\* A nonce is issued once; what it bought is counted while it is outstanding.
NoncesInv ==
    /\ issued \in Nat
    /\ DOMAIN challenges \subseteq 1 .. issued
    /\ successes \in [Nonces -> Nat]
    /\ \A n \in Nonces : /\ successes[n] <= 1
                         /\ n \in DOMAIN challenges \/ n > issued => successes[n] = 0

\* An answer takes its challenge out of the store.
LEMMA AnswersKeep ==
    ASSUME NoncesInv, NEW a, NEW supplied, ProcessAssertion(a, supplied), issued' = issued
    PROVE  NoncesInv'
  <1>1. /\ a.nonce \in DOMAIN challenges
        /\ DOMAIN challenges' = DOMAIN challenges \ {a.nonce}
        /\ successes' = [successes EXCEPT ![a.nonce] = @ + 1]
    BY DEF ProcessAssertion, Consumed, Remaining
  <1>2. \A n \in Nonces : n \in Nat
    BY SessionDeskAssumption DEF Nonces
  <1>3. successes' \in [Nonces -> Nat]
    <2>1. successes \in [Nonces -> Nat]
      BY DEF NoncesInv
    <2>2. PICK nonce : nonce = a.nonce
      OBVIOUS
    <2>3. successes' = [successes EXCEPT ![nonce] = successes[nonce] + 1]
      BY <1>1, <2>2
    <2>4. CASE nonce \in Nonces
      BY <2>1, <2>3, <2>4
    <2>5. CASE nonce \notin Nonces
      BY <2>1, <2>3, <2>5
    <2> QED
      BY <2>4, <2>5
  <1>4. ASSUME NEW n \in Nonces
        PROVE  /\ successes'[n] <= 1
               /\ n \in DOMAIN challenges' \/ n > issued' => successes'[n] = 0
    BY <1>1, <1>2 DEF NoncesInv
  <1> QED
    BY <1>1, <1>3, <1>4 DEF NoncesInv

\* Whatever else is asked keeps the challenges, takes some away or adds the next.
LEMMA RequestsKeep ==
    ASSUME NoncesInv, SessionRequest
    PROVE  NoncesInv'
  <1>1. ASSUME NEW a, NEW supplied, VerifyHandler(a, supplied) \/ Login(a, supplied)
        PROVE  NoncesInv'
    BY <1>1, AnswersKeep DEF VerifyHandler, Login
  <1>2. ASSUME NEW aud, NEW lifetime, Challenge(aud, lifetime)
        PROVE  NoncesInv'
    <2>1. DOMAIN Room \subseteq DOMAIN challenges
      BY DEF Room, Remaining, Fresh
    <2>2. UNCHANGED successes
      BY <1>2 DEF Challenge
    <2>3. CASE challenges' = Room /\ UNCHANGED issued
      BY <2>1, <2>2, <2>3 DEF NoncesInv
    <2>4. CASE issued' = issued + 1 /\ DOMAIN challenges' = DOMAIN Room \cup {issued'}
      <3>1. \A n \in Nonces : n \in Nat
        BY SessionDeskAssumption DEF Nonces
      <3> QED
        BY <2>1, <2>2, <2>4, <3>1 DEF NoncesInv
    <2> QED
      BY <1>2, <2>3, <2>4 DEF Challenge
  <1>3. ASSUME NEW nonce, PeekExpired(nonce)
        PROVE  NoncesInv'
    BY <1>3 DEF PeekExpired, Remaining, NoncesInv
  <1>4. ASSUME Cleanup \/ RestartNode
        PROVE  NoncesInv'
    BY <1>4 DEF Cleanup, RestartNode, Remaining, Fresh, NoncesInv
  <1>5. ASSUME UNCHANGED <<challenges, issued, successes>>
        PROVE  NoncesInv'
    BY <1>5 DEF NoncesInv
  <1> QED
    BY <1>1, <1>2, <1>3, <1>4, <1>5
       DEF SessionRequest, CreateSession, CreateToken, DeleteSession, GetSessionOver

LEMMA NoncesStep ==
    ASSUME NoncesInv, [Next]_vars
    PROVE  NoncesInv'
  <1>1. CASE UNCHANGED sessionVars \/ \E n : RowChanges(n)
    BY <1>1 DEF sessionVars, RowChanges, NoncesInv
  <1>2. CASE SessionRequest
    BY <1>2, RequestsKeep
  <1> QED
    BY <1>1, <1>2, SessionsStep

\* A challenge buys at most one answer, whatever is sent, however often.
THEOREM ChallengesBuyOnce == Spec => []OneUsePerChallenge
  <1>1. Init => NoncesInv
    BY DEF Init, SessionDeskInit, NoncesInv
  <1>2. NoncesInv /\ [Next]_vars => NoncesInv'
    BY NoncesStep
  <1>3. NoncesInv => OneUsePerChallenge
    BY DEF NoncesInv, OneUsePerChallenge
  <1> QED
    BY <1>1, <1>2, <1>3, PTL DEF Spec

-----------------------------------------------------------------------------
(* What a copy of a chain says about a key *)

\* A copy has the first events of the chain.
LEMMA CopyIsPrefix ==
    ASSUME NEW i \in Identities, NEW n \in 0 .. Len(History[i])
    PROVE  /\ Len(History[i]) \in Nat
           /\ Copy(i, n) \in Seq(Event) /\ Len(Copy(i, n)) = n /\ DOMAIN Copy(i, n) = 1 .. n
           /\ \A j \in 1 .. n : Copy(i, n)[j] = History[i][j]
           /\ DOMAIN History[i] = 1 .. Len(History[i])
  <1>1. History[i] \in Seq(Event)
    BY NodeChainsAssumption DEF Chains
  <1> QED
    BY <1>1, SubSeqProperties DEF Copy

\* A revocation stays in every longer copy.
LEMMA RevokedStays ==
    ASSUME NEW i \in Identities, NEW n \in 0 .. Len(History[i]), NEW m \in 0 .. n, NEW k,
           IsRevoked(Copy(i, m), k)
    PROVE  IsRevoked(Copy(i, n), k)
  <1>1. Len(History[i]) \in Nat /\ m \in 0 .. Len(History[i])
    BY CopyIsPrefix
  <1>2. PICK j \in 1 .. m : Copy(i, m)[j].type = "revoke_device" /\ Copy(i, m)[j].key = k
    BY <1>1, CopyIsPrefix DEF IsRevoked
  <1>3. j \in 1 .. n /\ Copy(i, n)[j] = Copy(i, m)[j]
    BY <1>1, <1>2, CopyIsPrefix
  <1> QED
    BY <1>2, <1>3, CopyIsPrefix DEF IsRevoked

\* A key that the copy revokes is no active device in it.
LEMMA RevokedIsInactive ==
    ASSUME NEW i \in Identities, NEW n \in 0 .. Len(History[i]), NEW k,
           now \in 0 .. MaxTime, ActiveDevice(i, n, k)
    PROVE  ~IsRevoked(Copy(i, n), k)
  <1>1. Devices[i][n][now] = GetActiveDevices(Copy(i, n), now)
    BY DEF Devices, Readings
  <1> QED
    BY <1>1 DEF ActiveDevice, GetActiveDevices

\* The master key of a copy is a key that some event of the chain makes master.
LEMMA NeverMasterIsNot ==
    ASSUME NEW n \in 0 .. Len(History[Visitor]), NEW k \in NeverMaster, now \in 0 .. MaxTime
    PROVE  ~IsMaster(Visitor, n, k)
  <1> DEFINE c == Copy(Visitor, n)
  <1> DEFINE I == {j \in 1 .. Len(c) : c[j].type \in MasterKeyTypes}
  <1>1. Visitor \in Identities
    BY SessionDeskAssumption
  <1>2. Masters[Visitor][n][now] = GetCurrentMasterKey(c)
    BY <1>1 DEF Masters, Readings
  <1>3. k # None
    BY SigchainAssumption DEF NeverMaster
  <1>4. CASE I = {}
    <2>1. GetCurrentMasterKey(c) = None
      BY <1>4 DEF GetCurrentMasterKey, SelectLastInSeq
    <2> QED
      BY <1>2, <1>3, <2>1 DEF IsMaster
  <1>5. CASE I # {}
    <2>1. n \in Nat /\ Len(c) = n
      BY <1>1, CopyIsPrefix
    <2>2. PICK m \in I : \A j \in I : m >= j
      BY <1>5, <2>1, LargestExists
    <2>3. Max(I) \in I
      BY <2>2 DEF Max
    <2>4. SelectLastInSeq(c, LAMBDA e : e.type \in MasterKeyTypes) = Max(I)
      BY <1>5 DEF SelectLastInSeq
    <2>5. GetCurrentMasterKey(c) = c[Max(I)].key
      BY <2>1, <2>3, <2>4 DEF GetCurrentMasterKey
    <2>6. Max(I) \in 1 .. n /\ c[Max(I)] = History[Visitor][Max(I)]
          /\ DOMAIN History[Visitor] = 1 .. Len(History[Visitor]) /\ Len(History[Visitor]) \in Nat
      BY <1>1, <2>1, <2>3, CopyIsPrefix
    <2>7. c[Max(I)] \in {x \in ToSet(History[Visitor]) : x.type \in MasterKeyTypes}
      <3>1. PICK p \in I : p = Max(I)
        BY <2>3
      <3>2. c[p].type \in MasterKeyTypes
        OBVIOUS
      <3>3. p \in DOMAIN History[Visitor] /\ c[p] = History[Visitor][p]
        BY <2>1, <2>6, <3>1
      <3>4. History[Visitor][p] \in ToSet(History[Visitor])
        BY <3>3 DEF ToSet
      <3> QED
        BY <3>1, <3>2, <3>3, <3>4
    <2>8. k # c[Max(I)].key
      BY <2>7 DEF NeverMaster
    <2> QED
      BY <1>2, <2>5, <2>8 DEF IsMaster
  <1> QED
    BY <1>4, <1>5

-----------------------------------------------------------------------------
(* Sessions and tokens of a revoked device *)

\* The other desks open nothing; the session desk knows which copy is stored.
DeskShape ==
    /\ now \in 0 .. MaxTime
    /\ desk # "sessions" => sessions = {} /\ tokens = {} /\ shut = [k \in Keys |-> -1]
    /\ desk = "sessions" => DOMAIN held = Identities /\ held[Visitor] \in 0 .. Len(History[Visitor])

\* `shut` is set while the stored copy revokes the key.
ShutTracked ==
    /\ DOMAIN shut = Keys
    /\ \A k \in Keys : shut[k] # -1 =>
          shut[k] \in 0 .. now /\ IsRevoked(Copy(Visitor, held[Visitor]), k)

\* What is open was opened in the past, for the time it was given.
LifetimesTracked ==
    /\ \A s \in sessions : /\ s.created_at \in 0 .. now
                           /\ s.kind = "login" => s.expires_at = s.created_at + SessionLifetime
    /\ \A t \in tokens : t.created_at \in 0 .. now /\ t.expires_at = t.created_at + JwtExpiry

\* What a revoked device has is from before.
NothingNew ==
    \A k \in NeverMaster : shut[k] # -1 =>
        \A s \in sessions \cup tokens : s.device = k => s.created_at <= shut[k]

FadeInv == DeskShape /\ ShutTracked /\ LifetimesTracked /\ NothingNew

\* While the row revokes a key, no request signed with it is answered,
\* whichever copy of the chain comes along.
LEMMA RevokedIsShutOut ==
    ASSUME FadeInv, desk = "sessions", NEW k \in NeverMaster, shut[k] # -1
    PROVE  /\ ~SignerOk(k)
           /\ \A a, supplied : supplied \in Supplied(Visitor) /\ a.device = k
                 => ~ProcessAssertion(a, supplied)
  <1>1. Visitor \in Identities /\ k \in Keys /\ Visitor # None
    BY SessionDeskAssumption, NodeChainsAssumption DEF NeverMaster
  <1>2. held[Visitor] \in 0 .. Len(History[Visitor]) /\ now \in 0 .. MaxTime
    BY DEF FadeInv, DeskShape
  <1>3. IsRevoked(Copy(Visitor, held[Visitor]), k)
    BY <1>1 DEF FadeInv, ShutTracked
  <1>4. Len(History[Visitor]) \in Nat
    BY <1>1, CopyIsPrefix, <1>2
  <1>5. ASSUME NEW n \in 0 .. Len(History[Visitor]), held[Visitor] <= n
        PROVE  ~IsMaster(Visitor, n, k) /\ ~ActiveDevice(Visitor, n, k)
    <2>1. ~IsMaster(Visitor, n, k)
      BY <1>2, NeverMasterIsNot
    <2>2. held[Visitor] \in 0 .. n
      BY <1>2, <1>4, <1>5
    <2>3. IsRevoked(Copy(Visitor, n), k)
      BY <1>1, <1>3, <2>2, RevokedStays
    <2> QED
      BY <1>1, <1>2, <2>1, <2>3, RevokedIsInactive
  <1>6. ~SignerOk(k)
    BY <1>2, <1>4, <1>5 DEF SignerOk
  <1>7. ASSUME NEW a, NEW supplied \in Supplied(Visitor), a.device = k
        PROVE  ~ProcessAssertion(a, supplied)
    <2>1. Around[Visitor] \subseteq 1 .. Len(History[Visitor])
      BY <1>1, NodeChainsAssumption
    <2>2. supplied \in 0 .. Len(History[Visitor])
      BY <1>1, <1>4, <2>1 DEF Supplied
    <2>3. /\ ChooseSigchain(Visitor, supplied) \in 0 .. Len(History[Visitor])
          /\ held[Visitor] <= ChooseSigchain(Visitor, supplied)
      BY <1>2, <1>4, <2>2 DEF ChooseSigchain
    <2>4. ~ActiveDevice(Visitor, ChooseSigchain(Visitor, supplied), k)
      BY <1>5, <2>3
    <2> QED
      BY <1>7, <2>4 DEF ProcessAssertion, AssertionOk
  <1> QED
    BY <1>6, <1>7

\* What a request opens is for a device whose signature was accepted just now.
LEMMA OpenedNow ==
    ASSUME SessionRequest
    PROVE  /\ shut' = shut
           /\ \A s \in sessions' \ sessions :
                 /\ s.created_at = now
                 /\ s.kind = "login" => s.expires_at = now + SessionLifetime
                 /\ \/ SignerOk(s.device)
                    \/ \E a, supplied : /\ supplied \in Supplied(Visitor) /\ a.device = s.device
                                       /\ ProcessAssertion(a, supplied)
           /\ \A t \in tokens' \ tokens :
                 /\ t.created_at = now /\ t.expires_at = now + JwtExpiry
                 /\ \/ SignerOk(t.device)
                    \/ \E a, supplied : /\ supplied \in Supplied(Visitor) /\ a.device = t.device
                                       /\ ProcessAssertion(a, supplied)
  <1> DEFINE Opened ==
           /\ shut' = shut
           /\ \A s \in sessions' \ sessions :
                 /\ s.created_at = now
                 /\ s.kind = "login" => s.expires_at = now + SessionLifetime
                 /\ \/ SignerOk(s.device)
                    \/ \E a, supplied : /\ supplied \in Supplied(Visitor) /\ a.device = s.device
                                       /\ ProcessAssertion(a, supplied)
           /\ \A t \in tokens' \ tokens :
                 /\ t.created_at = now /\ t.expires_at = now + JwtExpiry
                 /\ \/ SignerOk(t.device)
                    \/ \E a, supplied : /\ supplied \in Supplied(Visitor) /\ a.device = t.device
                                       /\ ProcessAssertion(a, supplied)
  <1>1. ASSUME shut' = shut, sessions' \subseteq sessions, tokens' \subseteq tokens
        PROVE  Opened
    BY <1>1
  <1>2. ASSUME NEW a \in Assertions, NEW supplied \in Supplied(Visitor), Login(a, supplied)
        PROVE  Opened
    BY <1>2 DEF Login, Session, Token
  <1>3. ASSUME NEW device, NEW timestamp, NEW expires_in, CreateSession(device, timestamp, expires_in)
        PROVE  Opened
    BY <1>3 DEF CreateSession, Session
  <1>4. ASSUME NEW device, NEW timestamp, CreateToken(device, timestamp)
        PROVE  Opened
    BY <1>4 DEF CreateToken, Token
  <1>5. ASSUME \/ \E aud, lifetime : Challenge(aud, lifetime)
               \/ \E nonce : PeekExpired(nonce)
               \/ \E a, supplied : VerifyHandler(a, supplied)
               \/ \E s : DeleteSession(s) \/ GetSessionOver(s)
               \/ Cleanup \/ RestartNode
        PROVE  Opened
    <2>1. shut' = shut /\ sessions' \subseteq sessions /\ tokens' \subseteq tokens
      BY <1>5 DEF Challenge, PeekExpired, VerifyHandler, DeleteSession, GetSessionOver, Removed,
                  Cleanup, LiveSessions, RestartNode
    <2> QED
      BY <1>1, <2>1
  <1> HIDE DEF Opened
  <1>6. Opened
    BY <1>2, <1>3, <1>4, <1>5 DEF SessionRequest
  <1> QED
    BY <1>6 DEF Opened

\* Another copy in the row: what it revokes is shut out from now on, and all
\* that is open is from before.
LEMMA RowChangeFades ==
    ASSUME FadeInv, desk = "sessions", desk' = desk, now' = now, NEW n \in Around[Visitor], RowChanges(n)
    PROVE  FadeInv'
  <1>1. Visitor \in Identities /\ n \in 1 .. Len(History[Visitor])
    BY SessionDeskAssumption, NodeChainsAssumption
  <1>2. held' = [held EXCEPT ![Visitor] = n] /\ sessions' = sessions /\ tokens' = tokens
    BY DEF RowChanges, ChainStored, SaveSigchain
  <1>3. held'[Visitor] = n /\ DOMAIN held' = Identities
    BY <1>1, <1>2 DEF FadeInv, DeskShape
  <1>4. \A k \in Keys : shut'[k] # -1 =>
            /\ IsRevoked(Copy(Visitor, n), k)
            /\ shut'[k] = now \/ (shut'[k] = shut[k] /\ shut[k] # -1)
    BY DEF RowChanges
  <1>5. DOMAIN shut' = Keys
    BY DEF RowChanges
  <1>6. DeskShape'
    BY <1>1, <1>3 DEF FadeInv, DeskShape
  <1>7. ShutTracked'
    BY <1>3, <1>4, <1>5 DEF FadeInv, DeskShape, ShutTracked
  <1>8. LifetimesTracked'
    BY <1>2 DEF FadeInv, LifetimesTracked
  <1>9. ASSUME NEW k \in NeverMaster, shut'[k] # -1, NEW s \in sessions' \cup tokens', s.device = k
        PROVE  s.created_at <= shut'[k]
    <2>1. s \in sessions \cup tokens
      BY <1>2
    <2>2. k \in Keys
      BY DEF NeverMaster
    <2>3. CASE shut'[k] = now
      BY <2>1, <2>3 DEF FadeInv, LifetimesTracked
    <2>4. CASE shut'[k] = shut[k] /\ shut[k] # -1
      BY <1>9, <2>1, <2>4 DEF FadeInv, NothingNew
    <2> QED
      BY <1>4, <1>9, <2>2, <2>3, <2>4
  <1> QED
    BY <1>6, <1>7, <1>8, <1>9 DEF FadeInv, NothingNew

\* A request opens nothing for a key that is shut out.
LEMMA RequestFades ==
    ASSUME FadeInv, desk = "sessions", desk' = desk, UNCHANGED <<now, held>>, SessionRequest
    PROVE  FadeInv'
  <1>1. shut' = shut
    BY OpenedNow
  <1>2. DeskShape' /\ ShutTracked'
    BY <1>1 DEF FadeInv, DeskShape, ShutTracked
  <1>3. now \in Nat
    BY DEF FadeInv, DeskShape
  <1>4. LifetimesTracked'
    <2>1. ASSUME NEW s \in sessions'
          PROVE  /\ s.created_at \in 0 .. now
                 /\ s.kind = "login" => s.expires_at = s.created_at + SessionLifetime
      <3>1. CASE s \in sessions
        BY <3>1 DEF FadeInv, LifetimesTracked
      <3>2. CASE s \notin sessions
        BY <1>3, <3>2, OpenedNow
      <3> QED
        BY <3>1, <3>2
    <2>2. ASSUME NEW t \in tokens'
          PROVE  t.created_at \in 0 .. now /\ t.expires_at = t.created_at + JwtExpiry
      <3>1. CASE t \in tokens
        BY <3>1 DEF FadeInv, LifetimesTracked
      <3>2. CASE t \notin tokens
        BY <1>3, <3>2, OpenedNow
      <3> QED
        BY <3>1, <3>2
    <2> QED
      BY <2>1, <2>2 DEF LifetimesTracked
  <1>5. ASSUME NEW k \in NeverMaster, shut'[k] # -1, NEW s \in sessions' \cup tokens', s.device = k
        PROVE  s.created_at <= shut'[k]
    <2>1. /\ ~SignerOk(k)
          /\ \A a, supplied : supplied \in Supplied(Visitor) /\ a.device = k
                => ~ProcessAssertion(a, supplied)
      BY <1>1, <1>5, RevokedIsShutOut
    <2>2. s \in sessions \cup tokens
      BY <1>5, <2>1, OpenedNow
    <2> QED
      BY <1>1, <1>5, <2>2 DEF FadeInv, NothingNew
  <1> QED
    BY <1>2, <1>4, <1>5 DEF FadeInv, NothingNew

\* From the moment the row has the revocation of a device that was never
\* master, nothing new is opened for it, and its logins and JWTs end within one
\* lifetime.
THEOREM RevokedDevicesFadeOut == Spec => []RevokedDeviceFadesOut
  <1>1. Init => FadeInv
    <2> SUFFICES ASSUME Init
                 PROVE  FadeInv
      OBVIOUS
    <2>1. /\ now = 0 /\ held = [i \in Identities |-> 0]
          /\ sessions = {} /\ tokens = {} /\ shut = [k \in Keys |-> -1]
      BY DEF Init, ClockInit, SessionDeskInit, NodeChainsInit
    <2>2. Visitor \in Identities /\ Len(History[Visitor]) \in Nat
      BY SessionDeskAssumption, NodeChainsAssumption DEF Chains
    <2>3. DeskShape
      BY <2>1, <2>2, MaxTimeAssumption DEF DeskShape
    <2>4. \A k \in Keys : shut[k] = -1
      BY <2>1
    <2> QED
      BY <2>1, <2>3, <2>4 DEF FadeInv, ShutTracked, LifetimesTracked, NothingNew, NeverMaster
  <1>2. FadeInv /\ [Next]_vars => FadeInv'
    <2> SUFFICES ASSUME FadeInv, [Next]_vars
                 PROVE  FadeInv'
      OBVIOUS
    <2>1. desk' = desk
      BY SessionsStep
    <2>2. CASE UNCHANGED sessionVars /\ UNCHANGED <<now, held>>
      BY <2>1, <2>2 DEF sessionVars, FadeInv, DeskShape, ShutTracked, LifetimesTracked, NothingNew
    <2>3. CASE UNCHANGED sessionVars /\ Tick /\ UNCHANGED held
      <3>1. now \in 0 .. MaxTime /\ now' = now + 1 /\ now' \in 0 .. MaxTime
        BY <2>3, MaxTimeAssumption DEF Tick, FadeInv, DeskShape
      <3>2. 0 .. now \subseteq 0 .. now'
        BY <3>1, MaxTimeAssumption
      <3> QED
        BY <2>1, <2>3, <3>1, <3>2
           DEF sessionVars, FadeInv, DeskShape, ShutTracked, LifetimesTracked, NothingNew
    <2>4. CASE UNCHANGED sessionVars /\ UNCHANGED now /\ desk # "sessions"
      <3>1. sessions' = {} /\ tokens' = {} /\ shut' = [k \in Keys |-> -1]
        BY <2>4 DEF sessionVars, FadeInv, DeskShape
      <3>2. DeskShape'
        BY <2>1, <2>4, <3>1 DEF FadeInv, DeskShape
      <3>3. \A k \in Keys : shut'[k] = -1
        BY <3>1
      <3> QED
        BY <3>1, <3>2, <3>3 DEF FadeInv, ShutTracked, LifetimesTracked, NothingNew, NeverMaster
    <2>5. CASE /\ UNCHANGED now /\ desk = "sessions"
               /\ \E n \in Around[Visitor] : RowChanges(n)
      BY <2>1, <2>5, RowChangeFades
    <2>6. CASE SessionRequest /\ UNCHANGED <<now, held>> /\ desk = "sessions"
      BY <2>1, <2>6, RequestFades
    <2> QED
      BY <2>2, <2>3, <2>4, <2>5, <2>6, SessionsStep
  <1>3. FadeInv => RevokedDeviceFadesOut
    <2> SUFFICES ASSUME FadeInv, NEW k \in NeverMaster, shut[k] # -1
                 PROVE  /\ \A s \in sessions : s.device = k =>
                              /\ s.created_at <= shut[k]
                              /\ s.kind = "login" => s.expires_at <= shut[k] + SessionLifetime
                        /\ \A t \in tokens : t.device = k => t.expires_at <= shut[k] + JwtExpiry
      BY DEF RevokedDeviceFadesOut
    <2>1. k \in Keys /\ SessionLifetime \in Nat /\ JwtExpiry \in Nat
      BY SessionDeskAssumption DEF NeverMaster
    <2>2. shut[k] \in 0 .. now
      BY <2>1 DEF FadeInv, ShutTracked
    <2> QED
      BY <2>1, <2>2 DEF FadeInv, LifetimesTracked, NothingNew
  <1> QED
    BY <1>1, <1>2, <1>3, PTL DEF Spec

-----------------------------------------------------------------------------
(* The table of chains *)

\* The row of every identity holds one of the copies around, or nothing.
HeldInv ==
    /\ desk \in Desks /\ now \in 0 .. MaxTime
    /\ held \in [Identities -> Nat]
    /\ \A i \in Identities : held[i] \in {0} \cup Around[i]

LEMMA AroundIs ==
    ASSUME NEW i \in Identities
    PROVE  /\ Around[i] \subseteq Nat /\ {0} \cup Around[i] \subseteq 0 .. Len(History[i])
           /\ Len(History[i]) \in Nat /\ i # None
  <1>1. Around[i] \subseteq 1 .. Len(History[i]) /\ Len(History[i]) \in Nat /\ i # None
    BY NodeChainsAssumption DEF Chains
  <1> QED
    BY <1>1

LEMMA SavedKeeps ==
    ASSUME HeldInv, NEW i, NEW n, i \in Identities => n \in {0} \cup Around[i],
           UNCHANGED <<desk, now>>, SaveSigchain(i, n)
    PROVE  HeldInv'
  <1>1. /\ held' = [held EXCEPT ![i] = n] /\ held \in [Identities -> Nat]
        /\ \A j \in Identities : held[j] \in {0} \cup Around[j]
    BY DEF HeldInv, SaveSigchain
  <1>2. CASE i \in Identities
    <2>1. n \in Nat
      BY <1>2, AroundIs
    <2>2. held' \in [Identities -> Nat]
      BY <1>1, <2>1
    <2>3. \A j \in Identities : held'[j] = IF j = i THEN n ELSE held[j]
      BY <1>1
    <2> QED
      BY <1>1, <1>2, <2>2, <2>3 DEF HeldInv
  <1>3. CASE i \notin Identities
    <2>1. held' = held
      BY <1>1, <1>3
    <2> QED
      BY <2>1 DEF HeldInv
  <1> QED
    BY <1>2, <1>3

\* The row is written by somebody else or by the poller, a copy at a time.
LEMMA HeldStep ==
    ASSUME HeldInv, [Next]_vars
    PROVE  HeldInv' /\ desk' = desk
  <1>1. CASE OtherWriter
    <2>1. now' = now /\ desk' = desk
      BY <1>1 DEF OtherWriter
    <2>2. \E i \in Identities : \E n \in Around[i] : SaveSigchain(i, n)
      <3>1. CASE \E n \in Around[Visitor] : RowChanges(n)
        BY <3>1, SessionDeskAssumption DEF RowChanges, ChainStored
      <3>2. CASE desk # "sessions" /\ \E i \in ReadBy[desk] : \E n \in Around[i] : ChainStored(i, n)
        BY <3>2, NodeServicesAssumption DEF ChainStored, HeldInv
      <3> QED
        BY <1>1, <3>1, <3>2 DEF OtherWriter
    <2> QED
      BY <2>1, <2>2, SavedKeeps
  <1>2. CASE TimePasses
    <2>1. now' = now + 1 /\ now < MaxTime /\ held' = held /\ desk' = desk
      BY <1>2 DEF TimePasses, Tick
    <2> QED
      BY <2>1, MaxTimeAssumption DEF HeldInv
  <1>3. CASE PollerStep \/ Relaying
    <2>1. now' = now /\ desk' = desk
      BY <1>3 DEF PollerStep, Relaying, Only
    <2>2. held' = held \/ \E i : \E n \in {0} \cup Around[i] : SaveSigchain(i, n)
      BY <1>3 DEF PollerStep, Relaying, Wake, WakeByInterval, PointAnswers, PointFails, MessagesArrive,
                  AddIdentity, RemoveIdentity, PollNow, Suspend, Resume, RestartPoller
    <2>3. CASE held' = held
      BY <2>1, <2>3 DEF HeldInv
    <2> QED
      BY <2>1, <2>2, <2>3, SavedKeeps
  <1>4. CASE Documents \/ Attesting \/ Releasing \/ SigningOn \/ Trusting
    <2>1. now' = now /\ desk' = desk /\ held' = held
      BY <1>4 DEF Documents, Attesting, Releasing, SigningOn, Trusting, Only
    <2> QED
      BY <2>1 DEF HeldInv
  <1>5. CASE UNCHANGED vars
    BY <1>5 DEF vars, HeldInv
  <1> QED
    BY <1>1, <1>2, <1>3, <1>4, <1>5 DEF Next

LEMMA HeldInit == Init => HeldInv
  BY MaxTimeAssumption DEF Init, ClockInit, NodeChainsInit, HeldInv

\* choose_sigchain() never falls back behind the row.
LEMMA ChosenIs ==
    ASSUME HeldInv, NEW i \in Identities, NEW supplied \in Supplied(i)
    PROVE  /\ ChooseSigchain(i, supplied) \in 0 .. Len(History[i])
           /\ held[i] \in 0 .. ChooseSigchain(i, supplied)
  <1>1. supplied \in 0 .. Len(History[i]) /\ held[i] \in 0 .. Len(History[i]) /\ Len(History[i]) \in Nat
    BY AroundIs DEF Supplied, HeldInv
  <1> QED
    BY <1>1 DEF ChooseSigchain

-----------------------------------------------------------------------------
(* What a check on one copy says about the copies before it *)

\* A claim that is active in a copy is withdrawn in none of its first parts.
LEMMA ActiveWasActive ==
    ASSUME NEW i \in Identities, NEW n \in 0 .. Len(History[i]), NEW m \in 0 .. n, NEW c \in Claims,
           now \in 0 .. MaxTime, ActiveClaim(i, n, c), HasClaim(Copy(i, m), c)
    PROVE  ~GetClaim(Copy(i, m), c).revoked
  <1>1. Active[i][n][now] =
          {d \in Claims : HasClaim(Copy(i, n), d) /\ ClaimStatus(GetClaim(Copy(i, n), d), now) = "active"}
    BY DEF Active, Readings
  <1>2. ~GetClaim(Copy(i, n), c).revoked
    BY <1>1 DEF ActiveClaim, ClaimStatus
  <1>3. Len(History[i]) \in Nat /\ m \in 0 .. Len(History[i]) /\ n \in Nat /\ m \in Nat /\ m <= n
    BY AroundIs
  <1>4. History[i] \in Chains /\ Verify(History[i])
    BY NodeChainsAssumption
  <1>5. PICK k \in 1 .. m : Copy(i, m)[k].type = "add_claim" /\ Copy(i, m)[k].claim = c
    BY <1>3, CopyIsPrefix DEF HasClaim
  <1>6. k \in 1 .. n /\ k \in 1 .. Len(History[i]) /\ Copy(i, m)[k] = History[i][k]
    BY <1>3, CopyIsPrefix
  <1>7. ASSUME NEW j \in 1 .. Len(History[i]), History[i][j].type = "add_claim", History[i][j].claim = c
        PROVE  j = k
    <2>1. ~(j < k) /\ ~(k < j)
      BY <1>4, <1>5, <1>6, <1>7, AddedOnce
    <2> QED
      BY <1>3, <2>1
  <1>8. ASSUME NEW p \in {m, n}
        PROVE  GetClaim(Copy(i, p), c).revoked <=>
                  \E j \in k + 1 .. p : History[i][j].type = "revoke_claim" /\ History[i][j].claim = c
    <2>1. /\ p \in 0 .. Len(History[i]) /\ k \in 1 .. p /\ p \in Nat /\ k \in Nat
          /\ \A j \in 1 .. p : j \in 1 .. Len(History[i])
      BY <1>3, <1>6
    <2>2. /\ Copy(i, p) \in Chains /\ Len(Copy(i, p)) = p
          /\ \A j \in 1 .. p : Copy(i, p)[j] = History[i][j]
      BY <2>1, CopyIsPrefix DEF Chains
    <2>3. Copy(i, p)[k].type = "add_claim" /\ Copy(i, p)[k].claim = c
      BY <1>5, <1>6, <2>1, <2>2
    <2>4. \A j \in 1 .. p : Copy(i, p)[j].type = "add_claim" /\ Copy(i, p)[j].claim = c => j = k
      BY <1>7, <2>1, <2>2
    <2>5. GetClaim(Copy(i, p), c).revoked <=>
            \E j \in k + 1 .. p : Copy(i, p)[j].type = "revoke_claim" /\ Copy(i, p)[j].claim = c
      <3>1. PICK copy \in Chains : copy = Copy(i, p)
        BY <2>2
      <3>2. k \in 1 .. Len(copy) /\ copy[k].type = "add_claim" /\ copy[k].claim = c
        BY <2>1, <2>2, <2>3, <3>1
      <3>3. \A j \in 1 .. Len(copy) : copy[j].type = "add_claim" /\ copy[j].claim = c => j = k
        BY <2>2, <2>4, <3>1
      <3>4. GetClaim(copy, c).revoked <=>
              \E j \in k + 1 .. Len(copy) : copy[j].type = "revoke_claim" /\ copy[j].claim = c
        BY <3>2, <3>3, ClaimRecordIs
      <3> QED
        BY <2>2, <3>1, <3>4
    <2>6. \A j \in k + 1 .. p : j \in 1 .. p
      BY <2>1
    <2> QED
      BY <2>2, <2>5, <2>6
  <1>9. \A j \in k + 1 .. m : j \in k + 1 .. n
    BY <1>3
  <1> QED
    BY <1>2, <1>8, <1>9

\* A key that is an active device in a copy is revoked in none of its first parts.
LEMMA ActiveWasUnrevoked ==
    ASSUME NEW i \in Identities, NEW n \in 0 .. Len(History[i]), NEW m \in 0 .. n, NEW k,
           now \in 0 .. MaxTime, ActiveDevice(i, n, k)
    PROVE  ~IsRevoked(Copy(i, m), k)
  BY RevokedStays, RevokedIsInactive

\* So what a letter passes with holds for whatever the row had before.
LEMMA VerifiedWasGood ==
    ASSUME NEW a \in AttestationIds, now \in 0 .. MaxTime,
           NEW s \in 0 .. Len(History[Letters[a].subject]), NEW n,
           Letters[a].issuer # None => n \in 0 .. Len(History[Letters[a].issuer]),
           Verified(Letters[a], s, n)
    PROVE  /\ \A m \in 0 .. s : HasClaim(Copy(Letters[a].subject, m), Letters[a].claim)
                 => ~GetClaim(Copy(Letters[a].subject, m), Letters[a].claim).revoked
           /\ Letters[a].issuer # None =>
                 \A m \in 0 .. n : ~IsRevoked(Copy(Letters[a].issuer, m), Letters[a].signed_by)
  <1>1. Letters[a].subject \in Identities /\ Letters[a].claim \in Claims
        /\ Letters[a].issuer \in Identities \cup {None}
    BY AttestationsAssumption
  <1>2. ActiveClaim(Letters[a].subject, s, Letters[a].claim)
        /\ (Letters[a].issuer # None => ActiveDevice(Letters[a].issuer, n, Letters[a].signed_by))
    BY DEF Verified, IssuerKeyOk
  <1>3. ASSUME Letters[a].issuer # None, NEW m \in 0 .. n
        PROVE  ~IsRevoked(Copy(Letters[a].issuer, m), Letters[a].signed_by)
    <2>1. Letters[a].issuer \in Identities /\ n \in 0 .. Len(History[Letters[a].issuer])
      BY <1>1, <1>3
    <2> QED
      BY <1>2, <1>3, <2>1, ActiveWasUnrevoked
  <1> QED
    BY <1>1, <1>2, <1>3, ActiveWasActive

-----------------------------------------------------------------------------
(* The call of verify_claim that is under way *)

\* A call changes by its own three steps only, and while it asks nothing else moves.
LEMMA VerifyingStep ==
    ASSUME [Next]_vars
    PROVE  \/ UNCHANGED <<verifying, verdict>>
           \/ /\ UNCHANGED <<attestations, revocations, held, now>>
              /\ \/ \E a \in AttestationIds : \E subject \in Supplied(Letters[a].subject),
                       issuer \in Supplied(Letters[a].issuer) : VerifyClaim(a, subject, issuer)
                 \/ VerifyClaimChecks
                 \/ VerifyClaimAnswers
  <1>1. CASE Attesting
    <2>1. now' = now /\ held' = held
      BY <1>1 DEF Attesting, Only
    <2>2. CASE \E a \in LettersAt : \E subject \in Supplied(Letters[a].subject),
                       issuer \in Supplied(Letters[a].issuer) : PostAttestation(a, subject, issuer)
      BY <2>2 DEF PostAttestation
    <2>3. CASE \E a \in LettersAt : \E subject \in Supplied(Letters[a].subject),
                       issuer \in Supplied(Letters[a].issuer) : VerifyClaim(a, subject, issuer)
      BY <2>1, <2>3 DEF LettersAt, VerifyClaim
    <2>4. CASE RevocationPosted
      BY <2>4 DEF RevocationPosted, PostRevocation
    <2>5. CASE VerifyClaimChecks \/ VerifyClaimAnswers
      BY <2>1, <2>5 DEF VerifyClaimChecks, VerifyClaimAnswers
    <2> QED
      BY <1>1, <2>2, <2>3, <2>4, <2>5 DEF Attesting
  <1>2. CASE Releasing
    BY <1>2 DEF Releasing, RevocationPosted, PostRevocation, attestationVars
  <1>3. CASE OtherWriter \/ TimePasses \/ Documents \/ SigningOn \/ Trusting \/ PollerStep \/ Relaying
    BY <1>3 DEF OtherWriter, TimePasses, Documents, SigningOn, Trusting, PollerStep, Relaying,
                ServicesKeep, attestationVars
  <1>4. CASE UNCHANGED vars
    BY <1>4 DEF vars, attestationVars
  <1> QED
    BY <1>1, <1>2, <1>3, <1>4 DEF Next

\* What the answer "valid" says of an attestation, but for its revocation, when
\* the node held `knew`.
WasGood(a, knew) ==
    /\ HasClaim(Copy(Letters[a].subject, knew[Letters[a].subject]), Letters[a].claim)
          => ~GetClaim(Copy(Letters[a].subject, knew[Letters[a].subject]), Letters[a].claim).revoked
    /\ Letters[a].issuer # None =>
          ~IsRevoked(Copy(Letters[a].issuer, knew[Letters[a].issuer]), Letters[a].signed_by)

\* A copy to check with, not behind the one the node held.
Ahead(i, n, known) == n \in 0 .. Len(History[i]) /\ known \in 0 .. n

Call ==
    [attestation : AttestationIds, step : {"queued", "checked"}, subject : Nat, issuer : Nat,
     knew : [Identities -> Nat]]

\* The call has copies that are no older than what the node held, until it has
\* checked them.
CallOk(call) ==
    /\ call \in Call
    /\ call.step = "queued" =>
          LET att == Letters[call.attestation]
          IN  /\ Ahead(att.subject, call.subject, call.knew[att.subject])
              /\ att.issuer # None => Ahead(att.issuer, call.issuer, call.knew[att.issuer])
    /\ call.step = "checked" => WasGood(call.attestation, call.knew)

CallInv == verifying # None => CallOk(verifying) /\ verdict = None

\* A call begins with copies that choose_sigchain() picked.
LEMMA CallBegins ==
    ASSUME HeldInv, NEW a \in AttestationIds, NEW subject \in Supplied(Letters[a].subject),
           NEW issuer \in Supplied(Letters[a].issuer), VerifyClaim(a, subject, issuer)
    PROVE  CallInv'
  <1> DEFINE att == Letters[a]
             knew == [i \in Identities |-> IF i \in {att.subject, att.issuer} THEN held[i] ELSE 0]
             call == [attestation |-> a, step |-> "queued",
                      subject |-> ChooseSigchain(att.subject, subject),
                      issuer |-> ResolvedIssuer(att, issuer), knew |-> knew]
  <1>1. verifying' = call /\ verdict' = None
    BY DEF VerifyClaim
  <1>2. att.subject \in Identities /\ att.issuer \in Identities \cup {None}
    BY AttestationsAssumption
  <1>3. Ahead(att.subject, call.subject, call.knew[att.subject])
    BY <1>2, ChosenIs DEF Ahead
  <1>4. att.issuer # None => Ahead(att.issuer, call.issuer, call.knew[att.issuer])
    BY <1>2, ChosenIs DEF Ahead, ResolvedIssuer
  <1>5. /\ call \in Call /\ call.attestation = a /\ call.step = "queued"
        /\ call.subject = ChooseSigchain(att.subject, subject) /\ call.issuer = ResolvedIssuer(att, issuer)
    <2>1. knew \in [Identities -> Nat]
      BY DEF HeldInv
    <2>2. ChooseSigchain(att.subject, subject) \in Nat
      BY <1>2, ChosenIs, AroundIs
    <2>3. ResolvedIssuer(att, issuer) \in Nat
      BY <1>2, ChosenIs, AroundIs DEF ResolvedIssuer
    <2> QED
      BY <2>1, <2>2, <2>3 DEF Call
  <1> HIDE DEF call
  <1>6. CallOk(call)
    BY <1>3, <1>4, <1>5 DEF CallOk
  <1> QED
    BY <1>1, <1>6 DEF CallInv, CallOk, Ahead, WasGood

\* What the thread lets pass is good for what the node held.
LEMMA CallChecked ==
    ASSUME HeldInv, CallInv, VerifyClaimChecks
    PROVE  CallInv' /\ verdict' # "valid"
  <1>1. verifying # None /\ verifying.step = "queued" /\ CallOk(verifying) /\ verdict = None
    BY DEF VerifyClaimChecks, CallInv
  <1>2. None # "valid"
    BY AttestationsAssumption
  <1> DEFINE a == verifying.attestation
             att == Letters[a]
  <1>3. CASE Answered(FALSE)
    BY <1>3 DEF Answered, CallInv
  <1>4. CASE Passed /\ Verified(att, verifying.subject, verifying.issuer)
    <2>1. a \in AttestationIds /\ now \in 0 .. MaxTime
      BY <1>1 DEF CallOk, Call, HeldInv
    <2>2. /\ Ahead(att.subject, verifying.subject, verifying.knew[att.subject])
          /\ att.issuer # None => Ahead(att.issuer, verifying.issuer, verifying.knew[att.issuer])
      BY <1>1 DEF CallOk
    <2>3. WasGood(a, verifying.knew)
      BY <1>4, <2>1, <2>2, VerifiedWasGood DEF Ahead, WasGood
    <2> DEFINE call == [verifying EXCEPT !.step = "checked", !.subject = 0, !.issuer = 0]
    <2>4. verifying' = call /\ verdict' = verdict
      BY <1>4 DEF Passed
    <2>5. CallInv'
      <3>1. verifying \in Call
        BY <1>1 DEF CallOk
      <3>2. call \in Call /\ call.step = "checked" /\ call.attestation = a /\ call.knew = verifying.knew
        BY <3>1 DEF Call
      <3> HIDE DEF call
      <3>3. CallOk(call)
        BY <2>3, <3>2 DEF CallOk
      <3> QED
        BY <1>1, <2>4, <3>3 DEF CallInv, CallOk, WasGood, Ahead
    <2> QED
      BY <1>1, <1>2, <2>4, <2>5
  <1> QED
    BY <1>1, <1>3, <1>4 DEF VerifyClaimChecks

\* What a call does keeps it in order.
LEMMA CallStep ==
    ASSUME HeldInv, CallInv, [Next]_vars
    PROVE  CallInv'
  <1>1. CASE UNCHANGED <<verifying, verdict>>
    BY <1>1 DEF CallInv, CallOk, Ahead, WasGood
  <1>2. CASE VerifyClaimAnswers
    BY <1>2 DEF VerifyClaimAnswers, Answered, CallInv
  <1> QED
    BY <1>1, <1>2, CallBegins, CallChecked, VerifyingStep

LEMMA CallAlways == Spec => [](HeldInv /\ CallInv)
  <1>1. Init => HeldInv /\ CallInv
    BY HeldInit DEF Init, AttestationsInit, CallInv
  <1>2. HeldInv /\ CallInv /\ [Next]_vars => (HeldInv /\ CallInv)'
    BY HeldStep, CallStep
  <1> QED
    BY <1>1, <1>2, PTL DEF Spec

\* verify_claim answers "valid" only for what no stored revocation and no chain
\* the node held when it was asked withdraws.
THEOREM ValidIsUnrevoked == Spec => ValidWasUnrevoked
  <1>1. HeldInv /\ CallInv /\ [Next]_vars =>
          [verifying # None /\ verdict' = "valid" =>
              /\ WasGood(verifying.attestation, verifying.knew)
              /\ Letters[verifying.attestation].issuer # None =>
                    revocations[verifying.attestation] = None]_<<verifying, verdict>>
    <2> SUFFICES ASSUME HeldInv, CallInv, [Next]_vars, ~UNCHANGED <<verifying, verdict>>,
                        verifying # None, verdict' = "valid"
                 PROVE  /\ WasGood(verifying.attestation, verifying.knew)
                        /\ Letters[verifying.attestation].issuer # None =>
                              revocations[verifying.attestation] = None
      OBVIOUS
    <2>1. ~VerifyClaimChecks
      BY CallChecked
    <2>2. \A a, subject, issuer : ~VerifyClaim(a, subject, issuer)
      BY DEF VerifyClaim
    <2>3. VerifyClaimAnswers
      BY <2>1, <2>2, VerifyingStep
    <2>4. verifying.step = "checked" /\ CallOk(verifying)
      BY <2>3 DEF VerifyClaimAnswers, CallInv
    <2>5. Letters[verifying.attestation].issuer # None => Unrevoked(verifying.attestation)
      BY <2>3 DEF VerifyClaimAnswers, Answered
    <2> QED
      BY <2>4, <2>5 DEF CallOk, Unrevoked
  <1>2. [verifying # None /\ verdict' = "valid" =>
            /\ WasGood(verifying.attestation, verifying.knew)
            /\ Letters[verifying.attestation].issuer # None =>
                  revocations[verifying.attestation] = None]_<<verifying, verdict>>
        => [verifying # None /\ verdict' = "valid" =>
              LET a == verifying.attestation
                  Knew(i) == Copy(i, verifying.knew[i])
              IN  /\ HasClaim(Knew(Letters[a].subject), Letters[a].claim)
                       => ~GetClaim(Knew(Letters[a].subject), Letters[a].claim).revoked
                  /\ Letters[a].issuer # None =>
                       /\ revocations[a] = None
                       /\ ~IsRevoked(Knew(Letters[a].issuer), Letters[a].signed_by)]_<<verifying, verdict>>
    BY DEF WasGood
  <1> QED
    BY <1>1, <1>2, CallAlways, PTL DEF Spec, ValidWasUnrevoked


-----------------------------------------------------------------------------
(* The release of claims that is under way *)

\* A release moves by the steps of the bridge, and revocations come meanwhile.
LEMMA ReleaseStep ==
    ASSUME HeldInv, [Next]_vars
    PROVE  \/ UNCHANGED <<release, revocations>>
           \/ /\ UNCHANGED release
              /\ \E a \in AttestationIds, issuer \in Identities :
                    revocations' = [revocations EXCEPT ![a] = issuer]
           \/ /\ UNCHANGED <<revocations, held, now>>
              /\ \/ \E i \in Identities, items \in Presentations :
                       \E provided \in Supplied(i), supplied \in WithFirst(About(items, i)) :
                          ReleaseStarts(i, provided, items, supplied)
                 \/ \E supplied \in WithFirst(release.items) : ReleaseTurn(supplied)
                 \/ ReleaseChecks
                 \/ ReleaseEnds
  <1>1. ReadBy[desk] \subseteq Identities
    BY NodeServicesAssumption DEF HeldInv
  <1>2. CASE RevocationPosted /\ release' = release
    BY <1>1, <1>2 DEF RevocationPosted, LettersAt, PostRevocation, SaveRevocation
  <1>3. CASE Releasing
    <2>1. UNCHANGED <<held, now>>
      BY <1>3 DEF Releasing, Only
    <2>2. CASE UNCHANGED attestationVars
      BY <1>1, <1>2, <1>3, <2>1, <2>2 DEF Releasing, attestationVars
    <2> QED
      BY <1>2, <1>3, <2>2 DEF Releasing
  <1>4. CASE Attesting
    <2>1. release' = release
      BY <1>4 DEF Attesting
    <2>2. CASE RevocationPosted
      BY <1>2, <2>1, <2>2
    <2>3. CASE ~RevocationPosted
      BY <1>4, <2>1, <2>3
         DEF Attesting, PostAttestation, VerifyClaim, VerifyClaimChecks, VerifyClaimAnswers
    <2> QED
      BY <2>2, <2>3
  <1>5. CASE OtherWriter \/ TimePasses \/ Documents \/ SigningOn \/ Trusting \/ PollerStep \/ Relaying
    BY <1>5 DEF OtherWriter, TimePasses, Documents, SigningOn, Trusting, PollerStep, Relaying,
                ServicesKeep, attestationVars
  <1>6. CASE UNCHANGED vars
    BY <1>6 DEF vars, attestationVars
  <1> QED
    BY <1>3, <1>4, <1>5, <1>6 DEF Next

Read == [issuer : Nat, revoked : BOOLEAN, theirs : Nat]

Release ==
    [identity : Identities, chain : Nat, items : Seq(AttestationIds), read : Read \cup {None},
     best : AttestationIds \cup {None}, passed : SUBSET AttestationIds,
     mine : Nat, theirs : Nat, barred : SUBSET AttestationIds]

\* What was read for presentation a is no older than what the node held, and a
\* revocation that was there at the start was seen.
ReadOk(a, read, barred) ==
    /\ ~read.revoked => a \notin barred
    /\ Letters[a].issuer # None => Ahead(Letters[a].issuer, read.issuer, read.theirs)

\* What makes letter a good when the chains were so long.
LetterGood(a, mine, theirs) ==
    LET att == Letters[a]
        Mine == Copy(att.subject, mine)
    IN  /\ HasClaim(Mine, att.claim) => ~GetClaim(Mine, att.claim).revoked
        /\ Rule.reject_if_recovered =>
             \A k \in att.chain_head + 1 .. mine : Mine[k].type # "social_recovery"
        /\ att.issuer # None =>
             /\ att.issuer \in Rule.issuers
             /\ ~IsRevoked(Copy(att.issuer, theirs), att.signed_by)

\* The strongest that passed is kept, and is good.
BestOk(r) ==
    /\ r.best = None => r.passed = {}
    /\ r.best # None =>
          /\ r.best \in r.passed /\ r.best \notin r.barred
          /\ \A b \in r.passed : Presented[b].assurance <= Presented[r.best].assurance
          /\ LetterGood(r.best, r.mine, r.theirs)

ReleaseOk(r) ==
    /\ r \in Release
    /\ r.chain \in 1 .. Len(History[r.identity]) /\ r.mine \in 0 .. r.chain
    /\ \A k \in DOMAIN r.items : Letters[r.items[k]].subject = r.identity
    /\ r.read # None => r.items # << >> /\ ReadOk(Head(r.items), r.read, r.barred)
    /\ BestOk(r)

ReleaseInv ==
    /\ revocations \in [AttestationIds -> Identities \cup {None}]
    /\ release # None => /\ ReleaseOk(release)
                         /\ \A a \in release.barred : revocations[a] # None

\* The presentations about a person, in their order.
LEMMA AboutIs ==
    ASSUME NEW items \in Seq(AttestationIds), NEW i
    PROVE  /\ About(items, i) \in Seq(AttestationIds)
           /\ \A k \in DOMAIN About(items, i) : Letters[About(items, i)[k]].subject = i
  <1> DEFINE S == {k \in DOMAIN items : Letters[items[k]].subject = i}
  <1>1. DOMAIN items = 1 .. Len(items) /\ Len(items) \in Nat /\ S \in SUBSET (1 .. Len(items))
    OBVIOUS
  <1>2. Cardinality(S) \in Nat /\ \A k \in 1 .. Cardinality(S) : Nth(S, k) \in S
    BY <1>1, NthIs, NthLists
  <1>3. About(items, i) = [k \in 1 .. Cardinality(S) |-> items[Nth(S, k)]]
    BY DEF About, Selected
  <1>4. \A k \in S : items[k] \in AttestationIds /\ Letters[items[k]].subject = i
    OBVIOUS
  <1> HIDE DEF S
  <1>5. \A k \in 1 .. Cardinality(S) : items[Nth(S, k)] \in AttestationIds
                                       /\ Letters[items[Nth(S, k)]].subject = i
    BY <1>2, <1>4
  <1> QED
    BY <1>2, <1>3, <1>5

\* What the loop reads for its next presentation.
LEMMA ReadsIs ==
    ASSUME HeldInv, ReleaseInv, NEW items \in Seq(AttestationIds), NEW supplied \in WithFirst(items),
           NEW barred, \A a \in barred : revocations[a] # None, Reads(items, supplied) # None
    PROVE  /\ items # << >> /\ Reads(items, supplied) \in Read
           /\ ReadOk(Head(items), Reads(items, supplied), barred)
  <1>1. items # << >>
    BY DEF Reads
  <1>2. PICK a \in AttestationIds : a = Head(items)
    BY <1>1
  <1>3. supplied \in Supplied(Letters[a].issuer)
    BY <1>1, <1>2 DEF WithFirst
  <1> DEFINE read == [issuer |-> ResolvedIssuer(Letters[a], supplied), revoked |-> ~Unrevoked(a),
                      theirs |-> HeldOf(Letters[a].issuer)]
  <1>4. Reads(items, supplied) = read
    BY <1>1, <1>2 DEF Reads
  <1>5. Letters[a].issuer \in Identities \cup {None}
    BY AttestationsAssumption
  <1>6. Letters[a].issuer # None => Ahead(Letters[a].issuer, read.issuer, read.theirs)
    BY <1>3, <1>5, ChosenIs DEF Ahead, ResolvedIssuer, HeldOf
  <1>7. read.issuer \in Nat /\ read.theirs \in Nat
    BY <1>5, <1>6, AroundIs DEF Ahead, ResolvedIssuer, HeldOf
  <1>8. ~read.revoked => a \notin barred
    BY DEF Unrevoked
  <1>9. read \in Read
    BY <1>7 DEF Read
  <1> HIDE DEF read
  <1> QED
    BY <1>1, <1>2, <1>4, <1>6, <1>8, <1>9 DEF ReadOk

\* A release starts with a chain that is not behind the row, and nothing passed.
LEMMA StartsOk ==
    ASSUME HeldInv, ReleaseInv, NEW i \in Identities, NEW items \in Presentations,
           NEW provided \in Supplied(i), NEW supplied \in WithFirst(About(items, i)),
           ReleaseStarts(i, provided, items, supplied), UNCHANGED revocations
    PROVE  ReleaseInv'
  <1> DEFINE mine == About(items, i)
             bars == {a \in ToSet(items) : ~Unrevoked(a)}
             r == [identity |-> i, chain |-> ChooseSigchain(i, provided),
                   items |-> mine, read |-> Reads(mine, supplied), best |-> None, passed |-> {},
                   mine |-> held[i], theirs |-> 0, barred |-> bars]
  <1>1. release' = r /\ ChooseSigchain(i, provided) # 0
    BY DEF ReleaseStarts
  <1>2. items \in Seq(AttestationIds)
    BY ClaimReleaseAssumption
  <1>3. mine \in Seq(AttestationIds) /\ \A k \in DOMAIN mine : Letters[mine[k]].subject = i
    BY <1>2, AboutIs
  <1>4. bars \in SUBSET AttestationIds /\ \A a \in bars : revocations[a] # None
    <2>1. ToSet(items) \subseteq AttestationIds
      BY <1>2 DEF ToSet
    <2> QED
      BY <2>1 DEF Unrevoked
  <1> HIDE DEF mine, bars
  <1>5. /\ ChooseSigchain(i, provided) \in 0 .. Len(History[i])
        /\ held[i] \in 0 .. ChooseSigchain(i, provided)
    BY ChosenIs
  <1>6. /\ ChooseSigchain(i, provided) \in 1 .. Len(History[i])
        /\ ChooseSigchain(i, provided) \in Nat /\ held[i] \in Nat
    BY <1>1, <1>5, AroundIs
  <1>7. Reads(mine, supplied) # None =>
           /\ mine # << >> /\ Reads(mine, supplied) \in Read
           /\ ReadOk(Head(mine), Reads(mine, supplied), bars)
    <2>1. supplied \in WithFirst(mine)
      BY DEF mine
    <2> QED
      BY <1>3, <1>4, <2>1, ReadsIs
  <1>8. r \in Release
    BY <1>3, <1>4, <1>6, <1>7 DEF Release
  <1>9. /\ r.chain = ChooseSigchain(i, provided) /\ r.mine = held[i] /\ r.identity = i /\ r.items = mine
        /\ r.read = Reads(mine, supplied) /\ r.best = None /\ r.passed = {} /\ r.barred = bars
    OBVIOUS
  <1> HIDE DEF r
  <1>10. ReleaseOk(r)
    BY <1>3, <1>5, <1>6, <1>7, <1>8, <1>9 DEF ReleaseOk, BestOk
  <1> QED
    BY <1>1, <1>4, <1>9, <1>10
       DEF ReleaseInv, ReleaseOk, ReadOk, Ahead, BestOk, LetterGood

\* The next presentation is read.
LEMMA TurnOk ==
    ASSUME HeldInv, ReleaseInv, NEW supplied \in WithFirst(release.items), ReleaseTurn(supplied),
           UNCHANGED revocations
    PROVE  ReleaseInv'
  <1>1. PICK r \in Release : r = release
    BY DEF ReleaseTurn, ReleaseInv, ReleaseOk
  <1>2. ReleaseOk(r) /\ \A a \in r.barred : revocations[a] # None
    BY <1>1 DEF ReleaseTurn, ReleaseInv
  <1>3. r.items \in Seq(AttestationIds) /\ supplied \in WithFirst(r.items)
    BY <1>1 DEF Release
  <1> DEFINE read == Reads(r.items, supplied)
             s == [r EXCEPT !.read = read]
  <1>4. release' = s
    BY <1>1 DEF ReleaseTurn
  <1>5. read # None => r.items # << >> /\ read \in Read /\ ReadOk(Head(r.items), read, r.barred)
    BY <1>2, <1>3, ReadsIs
  <1> HIDE DEF read
  <1>6. s \in Release /\ s.read = read
    BY <1>5 DEF Release
  <1>7. /\ s.identity = r.identity /\ s.chain = r.chain /\ s.items = r.items /\ s.best = r.best
        /\ s.passed = r.passed /\ s.mine = r.mine /\ s.theirs = r.theirs /\ s.barred = r.barred
    BY DEF Release
  <1> HIDE DEF s
  <1>8. BestOk(s)
    BY <1>2, <1>7 DEF ReleaseOk, BestOk
  <1>9. ReleaseOk(s)
    BY <1>2, <1>5, <1>6, <1>7, <1>8 DEF ReleaseOk
  <1> QED
    BY <1>2, <1>4, <1>7, <1>9 DEF ReleaseInv, ReleaseOk, ReadOk, Ahead, BestOk, LetterGood

\* What evaluate_claim lets pass is good for what the node held.
LEMMA EvaluatedIsGood ==
    ASSUME HeldInv, NEW r, ReleaseOk(r), r.read # None, NEW a, a = Head(r.items),
           EvaluateClaim(a, r.chain, r.read.issuer, r.read.revoked)
    PROVE  a \notin r.barred /\ LetterGood(a, r.mine, r.read.theirs)
  <1>1. /\ r \in Release /\ r.items # << >> /\ ReadOk(a, r.read, r.barred)
        /\ r.chain \in 1 .. Len(History[r.identity]) /\ r.mine \in 0 .. r.chain
    BY DEF ReleaseOk
  <1>2. a \in AttestationIds /\ Letters[a].subject = r.identity /\ r.identity \in Identities
    <2>1. r.items \in Seq(AttestationIds) /\ r.identity \in Identities
      BY <1>1 DEF Release
    <2>2. 1 \in DOMAIN r.items /\ Head(r.items) = r.items[1]
      BY <1>1, <2>1
    <2> QED
      BY <2>1, <2>2 DEF ReleaseOk
  <1> DEFINE att == Letters[a]
  <1>3. /\ IssuerAccepted(att) /\ ~r.read.revoked
        /\ ~(Rule.reject_if_recovered /\ RecoveredSince(att.subject, r.chain, att.chain_head))
        /\ Verified(att, r.chain, r.read.issuer)
    BY DEF EvaluateClaim, RuleAccepts
  <1>4. a \notin r.barred
    BY <1>1, <1>3 DEF ReadOk
  <1>5. Len(History[r.identity]) \in Nat /\ now \in 0 .. MaxTime /\ att.chain_head \in Nat
    BY <1>2, AroundIs, AttestationsAssumption DEF HeldInv
  <1>6. r.chain \in 0 .. Len(History[att.subject]) /\ r.mine \in 0 .. Len(History[att.subject])
        /\ r.chain \in Nat /\ r.mine \in Nat /\ r.mine <= r.chain
    BY <1>1, <1>2, <1>5
  <1>7. att.issuer # None => Ahead(att.issuer, r.read.issuer, r.read.theirs)
    BY <1>1 DEF ReadOk
  <1>8. /\ HasClaim(Copy(att.subject, r.mine), att.claim) => ~GetClaim(Copy(att.subject, r.mine), att.claim).revoked
        /\ att.issuer # None => ~IsRevoked(Copy(att.issuer, r.read.theirs), att.signed_by)
    <2>1. /\ \A m \in 0 .. r.chain : HasClaim(Copy(att.subject, m), att.claim)
                 => ~GetClaim(Copy(att.subject, m), att.claim).revoked
          /\ att.issuer # None => \A m \in 0 .. r.read.issuer : ~IsRevoked(Copy(att.issuer, m), att.signed_by)
      BY <1>2, <1>3, <1>5, <1>6, <1>7, VerifiedWasGood DEF Ahead
    <2> QED
      BY <1>1, <1>7, <2>1 DEF Ahead
  <1>9. ASSUME Rule.reject_if_recovered, NEW k \in att.chain_head + 1 .. r.mine
        PROVE  Copy(att.subject, r.mine)[k].type # "social_recovery"
    <2>1. k \in att.chain_head + 1 .. r.chain /\ k \in 1 .. r.mine
      BY <1>5, <1>6
    <2>2. History[att.subject][k].type # "social_recovery"
      BY <1>3, <1>9, <2>1 DEF RecoveredSince
    <2> QED
      BY <1>2, <1>6, <2>1, <2>2, CopyIsPrefix
  <1>10. att.issuer # None => att.issuer \in Rule.issuers
    BY <1>3 DEF IssuerAccepted
  <1> QED
    BY <1>4, <1>8, <1>9, <1>10 DEF LetterGood

\* The thread's answer, and what the loop makes of it.
LEMMA TakenOk ==
    ASSUME HeldInv, ReleaseInv, ReleaseChecks, UNCHANGED revocations
    PROVE  ReleaseInv'
  <1>1. PICK r \in Release : r = release
    BY DEF ReleaseChecks, ReleaseInv, ReleaseOk
  <1>2. ReleaseOk(r) /\ (\A a \in r.barred : revocations[a] # None) /\ r.read # None
    BY <1>1 DEF ReleaseChecks, ReleaseInv
  <1>3. PICK a : a = Head(r.items)
    OBVIOUS
  <1>4. r.items # << >> /\ r.items \in Seq(AttestationIds) /\ a \in AttestationIds /\ a # None
        /\ r.read \in Read
    BY <1>2, <1>3, AttestationsAssumption DEF ReleaseOk, Release
  <1>5. PICK passes \in BOOLEAN :
            /\ release' = Taken(passes)
            /\ passes => EvaluateClaim(a, r.chain, r.read.issuer, r.read.revoked)
    BY <1>1, <1>3 DEF ReleaseChecks, EvaluateClaim
  <1> DEFINE better == passes /\ Better(a, r.best)
             best == IF better THEN a ELSE r.best
             theirs == IF better THEN r.read.theirs ELSE r.theirs
             passed == IF passes THEN r.passed \cup {a} ELSE r.passed
             s == [r EXCEPT !.items = Tail(r.items), !.read = None, !.best = best,
                            !.theirs = theirs, !.passed = passed]
  <1>6. release' = s
    BY <1>1, <1>3, <1>5 DEF Taken
  <1>7. /\ best \in AttestationIds \cup {None} /\ theirs \in Nat /\ passed \in SUBSET AttestationIds
        /\ Tail(r.items) \in Seq(AttestationIds)
    BY <1>4 DEF Release, Read
  <1>8. \A k \in DOMAIN Tail(r.items) : Letters[Tail(r.items)[k]].subject = r.identity
    <2>1. \A k \in DOMAIN Tail(r.items) : k + 1 \in DOMAIN r.items /\ Tail(r.items)[k] = r.items[k + 1]
      BY <1>4
    <2> QED
      BY <1>2, <2>1 DEF ReleaseOk
  <1>9. passes => a \notin r.barred /\ LetterGood(a, r.mine, r.read.theirs)
    BY <1>2, <1>3, <1>5, EvaluatedIsGood
  <1>10. /\ best = None => passed = {}
         /\ best # None =>
               /\ best \in passed /\ best \notin r.barred
               /\ \A b \in passed : Presented[b].assurance <= Presented[best].assurance
               /\ LetterGood(best, r.mine, theirs)
    <2>1. BestOk(r) /\ r.passed \subseteq AttestationIds /\ r.best \in AttestationIds \cup {None}
      BY <1>2 DEF ReleaseOk, Release
    <2>2. \A b \in AttestationIds : Presented[b].assurance \in Nat
      BY ClaimReleaseAssumption
    <2>3. CASE ~passes
      BY <2>1, <2>3 DEF BestOk
    <2>4. CASE passes /\ better
      <3>1. best = a /\ theirs = r.read.theirs /\ passed = r.passed \cup {a}
        BY <2>4
      <3>2. \A b \in r.passed : Presented[b].assurance <= Presented[a].assurance
        <4>1. r.best # None => Presented[r.best].assurance < Presented[a].assurance
          BY <1>4, <2>1, <2>2, <2>4 DEF Better
        <4> QED
          BY <1>4, <2>1, <2>2, <4>1 DEF BestOk
      <3> QED
        BY <1>4, <1>9, <2>2, <2>4, <3>1, <3>2
    <2>5. CASE passes /\ ~better
      <3>1. best = r.best /\ theirs = r.theirs /\ passed = r.passed \cup {a}
        BY <2>5
      <3>2. r.best # None /\ Presented[a].assurance <= Presented[r.best].assurance
        BY <1>4, <2>1, <2>2, <2>5 DEF Better
      <3> QED
        BY <2>1, <3>1, <3>2 DEF BestOk
    <2> QED
      BY <2>3, <2>4, <2>5
  <1> HIDE DEF best, theirs, passed, better
  <1>11. /\ s \in Release /\ s.items = Tail(r.items) /\ s.read = None /\ s.best = best
         /\ s.theirs = theirs /\ s.passed = passed
    BY <1>7 DEF Release
  <1>12. s.identity = r.identity /\ s.chain = r.chain /\ s.mine = r.mine /\ s.barred = r.barred
    BY DEF Release
  <1> HIDE DEF s
  <1>13. BestOk(s)
    BY <1>10, <1>11, <1>12 DEF BestOk
  <1>14. ReleaseOk(s)
    BY <1>2, <1>8, <1>11, <1>12, <1>13 DEF ReleaseOk
  <1> QED
    BY <1>2, <1>6, <1>12, <1>14 DEF ReleaseInv, ReleaseOk, ReadOk, Ahead, BestOk, LetterGood

LEMMA ReleaseKept ==
    ASSUME HeldInv, ReleaseInv, [Next]_vars
    PROVE  ReleaseInv'
  <1>1. CASE UNCHANGED <<release, revocations>>
    BY <1>1 DEF ReleaseInv, ReleaseOk, ReadOk, Ahead, BestOk, LetterGood
  <1>2. CASE /\ UNCHANGED release
             /\ \E a \in AttestationIds, issuer \in Identities :
                   revocations' = [revocations EXCEPT ![a] = issuer]
    <2>1. PICK a \in AttestationIds, issuer \in Identities :
              revocations' = [revocations EXCEPT ![a] = issuer]
      BY <1>2
    <2>2. revocations' \in [AttestationIds -> Identities \cup {None}] /\ issuer # None
      BY <2>1, AroundIs DEF ReleaseInv
    <2>3. \A b \in AttestationIds : revocations[b] # None => revocations'[b] # None
      BY <2>1, <2>2 DEF ReleaseInv
    <2>4. release # None => ReleaseOk(release) /\ release.barred \in SUBSET AttestationIds
                            /\ \A b \in release.barred : revocations'[b] # None
      BY <2>3 DEF ReleaseInv, ReleaseOk, Release
    <2>5. release' = release
      BY <1>2
    <2> QED
      BY <2>2, <2>4, <2>5 DEF ReleaseInv, ReleaseOk, ReadOk, Ahead, BestOk, LetterGood
  <1>3. CASE ReleaseEnds /\ UNCHANGED revocations
    BY <1>3 DEF ReleaseEnds, ReleaseInv
  <1> QED
    BY <1>1, <1>2, <1>3, StartsOk, TurnOk, TakenOk, ReleaseStep

LEMMA ReleaseAlways == Spec => [](HeldInv /\ ReleaseInv)
  <1>1. Init => HeldInv /\ ReleaseInv
    BY HeldInit DEF Init, AttestationsInit, ClaimReleaseInit, ReleaseInv
  <1>2. HeldInv /\ ReleaseInv /\ [Next]_vars => (HeldInv /\ ReleaseInv)'
    BY HeldStep, ReleaseKept
  <1> QED
    BY <1>1, <1>2, PTL DEF Spec

\* The claim an application is told is the strongest of those that passed, on
\* the word of an accepted issuer, and neither it nor its issuer's device was
\* withdrawn as far as the node knew.
THEOREM ReleasedIsGood == Spec => ReleasedWasGood
  <1>1. ReleaseInv =>
          [ReleaseEnds /\ release.best # None =>
              LET a == release.best
                  att == Letters[a]
                  Mine == Copy(att.subject, release.mine)
              IN  /\ \A b \in release.passed : Presented[b].assurance <= Presented[a].assurance
                  /\ a \notin release.barred
                  /\ HasClaim(Mine, att.claim) => ~GetClaim(Mine, att.claim).revoked
                  /\ Rule.reject_if_recovered =>
                       \A k \in att.chain_head + 1 .. release.mine : Mine[k].type # "social_recovery"
                  /\ att.issuer # None =>
                       /\ att.issuer \in Rule.issuers
                       /\ ~IsRevoked(Copy(att.issuer, release.theirs), att.signed_by)]_release
    BY DEF ReleaseEnds, ReleaseInv, ReleaseOk, BestOk, LetterGood
  <1> QED
    BY <1>1, ReleaseAlways, PTL DEF ReleasedWasGood

-----------------------------------------------------------------------------
(* The shape of the tables of the services *)

\* The documents: times that a caller gives, and the clock.
LEMMA DocumentsTyped ==
    ASSUME HeldInv, DocumentsTypeOK, [Next]_vars
    PROVE  DocumentsTypeOK'
  <1>1. now \in Nat /\ MaxTime \in Nat /\ Stamps \subseteq Nat
    BY MaxTimeAssumption, NodeServicesAssumption DEF HeldInv
  <1>2. CASE UNCHANGED documentVars
    BY <1>2 DEF documentVars, DocumentsTypeOK
  <1>3. ASSUME NEW c \in Claims, NEW issued_at \in Stamps, NEW signed_by, Unpublish(c, issued_at, signed_by)
        PROVE  DocumentsTypeOK'
    BY <1>1, <1>3 DEF Unpublish, DeleteClaimDocument, DocumentsTypeOK
  <1>4. ASSUME NEW c \in Claims, NEW issued_at \in Stamps, NEW signed_by, Publish(c, issued_at, signed_by)
        PROVE  DocumentsTypeOK'
    <2>1. [published_at |-> issued_at, since |-> now] \in [published_at : Nat, since : Nat]
      BY <1>1
    <2> QED
      BY <1>4, <2>1 DEF Publish, SaveClaimDocument, DocumentsTypeOK
  <1> QED
    BY <1>2, <1>3, <1>4, DocumentsStep

\* The verdict is one of two words, or none yet.
VerdictInv == attestations \subseteq AttestationIds /\ verdict \in {None, "valid", "invalid"}

LEMMA VerdictTyped ==
    ASSUME VerdictInv, [Next]_vars
    PROVE  VerdictInv'
  <1>1. attestations' \subseteq AttestationIds
    BY AttestationsStep DEF VerdictInv, PostAttestation, SaveAttestation, PostRevocation
  <1>2. verdict' \in {None, "valid", "invalid"}
    <2>1. CASE UNCHANGED <<verifying, verdict>>
      BY <2>1 DEF VerdictInv
    <2>2. CASE VerifyClaimChecks \/ VerifyClaimAnswers
      BY <2>2 DEF VerdictInv, VerifyClaimChecks, VerifyClaimAnswers, Answered, Passed
    <2>3. ASSUME NEW a, NEW subject, NEW issuer, VerifyClaim(a, subject, issuer)
          PROVE  verdict' = None
      BY <2>3 DEF VerifyClaim
    <2> QED
      BY <2>1, <2>2, <2>3, VerifyingStep
  <1> QED
    BY <1>1, <1>2 DEF VerdictInv

\* Whoever delegates, only the delegations change.
LEMMA TrustTyped ==
    ASSUME TrustDeskTypeOK, [Next]_vars
    PROVE  TrustDeskTypeOK'
  <1>1. CASE Trusting
    BY <1>1 DEF Trusting, CreateDelegation, TrustDeskTypeOK
  <1>2. CASE OtherWriter \/ TimePasses \/ Documents \/ Attesting \/ Releasing \/ SigningOn
             \/ PollerStep \/ Relaying \/ UNCHANGED vars
    BY <1>2 DEF OtherWriter, TimePasses, Documents, Attesting, Releasing, SigningOn, PollerStep, Relaying,
                ServicesKeep, vars, TrustDeskTypeOK
  <1> QED
    BY <1>1, <1>2 DEF Next

\* Every key that an event of a chain names is one of the keys.
LEMMA NamedKeys ==
    ASSUME NEW i \in Identities
    PROVE  KeysIn(i) \subseteq Keys
  <1>1. History[i] \in Seq(Event)
    BY NodeChainsAssumption DEF Chains
  <1>2. \A e \in Event : e.key \in Keys \cup {None}
    BY DEF Event, EventFields
  <1>3. \A e \in ToSet(History[i]) : e \in Event
    BY <1>1 DEF ToSet
  <1> QED
    BY <1>2, <1>3 DEF KeysIn

\* What is asked of the session desk leaves its stores in shape: a challenge
\* gets the next nonce, what is opened lasts from now for a lifetime.
LEMMA RequestTyped ==
    ASSUME HeldInv, SessionsTypeOK, NoncesInv', SessionRequest
    PROVE  SessionsTypeOK'
  <1> DEFINE Pending == [aud : Audiences, expires_at : Nat]
             Opened == [kind : {"login", "session"}, device : Keys, created_at : Nat, expires_at : Nat]
             Made == [device : Keys, created_at : Nat, expires_at : Nat]
  <1>1. /\ now \in Nat /\ issued \in Nat /\ restarts \in Nat
        /\ SessionLifetime \in Nat /\ JwtExpiry \in Nat /\ MaxLifetime \in Nat
        /\ MaxChallenges \in Nat /\ MaxRestarts \in Nat /\ Lifetimes \subseteq Nat
    BY MaxTimeAssumption, SessionDeskAssumption DEF HeldInv, SessionsTypeOK
  <1>2. KeysIn(Visitor) \subseteq Keys
    BY NamedKeys, SessionDeskAssumption
  <1>3. shut' = shut
    BY OpenedNow
  <1>4. successes' \in [Nonces -> Nat] /\ DOMAIN challenges' \subseteq 1 .. issued'
    BY DEF NoncesInv
  <1>5. ASSUME issued' = issued, \A n \in DOMAIN challenges' : n \in DOMAIN challenges /\ challenges'[n] = challenges[n]
        PROVE  issued' \in 0 .. MaxChallenges /\ \A n \in DOMAIN challenges' : challenges'[n] \in Pending
    BY <1>5 DEF SessionsTypeOK
  <1>6. ASSUME NEW nonces \in SUBSET DOMAIN challenges, issued' = issued, challenges' = Remaining(challenges, nonces)
        PROVE  issued' \in 0 .. MaxChallenges /\ \A n \in DOMAIN challenges' : challenges'[n] \in Pending
    BY <1>6 DEF SessionsTypeOK, Remaining
  <1>7. issued' \in 0 .. MaxChallenges /\ \A n \in DOMAIN challenges' : challenges'[n] \in Pending
    <2>1. ASSUME NEW aud \in Audiences, NEW lifetime \in Lifetimes, Challenge(aud, lifetime)
          PROVE  issued' \in 0 .. MaxChallenges /\ \A n \in DOMAIN challenges' : challenges'[n] \in Pending
      <3>1. DOMAIN Room \subseteq DOMAIN challenges /\ \A n \in DOMAIN Room : Room[n] \in Pending
        BY DEF Room, Remaining, Fresh, SessionsTypeOK
      <3>2. CASE challenges' = Room /\ UNCHANGED issued
        BY <3>1, <3>2 DEF SessionsTypeOK
      <3>3. CASE /\ issued' = issued + 1
                 /\ challenges' = [n \in DOMAIN Room \cup {issued'} |->
                       IF n = issued' THEN [aud |-> aud, expires_at |-> now + AtMost(lifetime, MaxLifetime)]
                       ELSE Room[n]]
        <4>1. AtMost(lifetime, MaxLifetime) \in Nat
          BY <1>1 DEF AtMost
        <4>2. [aud |-> aud, expires_at |-> now + AtMost(lifetime, MaxLifetime)] \in Pending
          BY <1>1, <4>1
        <4>3. issued' \in 0 .. MaxChallenges
          BY <1>1, <2>1, <3>3 DEF Challenge
        <4> QED
          BY <3>1, <3>3, <4>2, <4>3
      <3> QED
        BY <2>1, <3>2, <3>3 DEF Challenge
    <2>2. ASSUME NEW a, NEW supplied, VerifyHandler(a, supplied) \/ Login(a, supplied)
          PROVE  issued' = issued /\ \E nonces \in SUBSET DOMAIN challenges : challenges' = Remaining(challenges, nonces)
      BY <2>2 DEF VerifyHandler, Login, ProcessAssertion, Consumed
    <2>3. ASSUME NEW nonce, PeekExpired(nonce)
          PROVE  issued' = issued /\ \E nonces \in SUBSET DOMAIN challenges : challenges' = Remaining(challenges, nonces)
      BY <2>3 DEF PeekExpired
    <2>4. ASSUME Cleanup
          PROVE  issued' = issued /\ \E nonces \in SUBSET DOMAIN challenges : challenges' = Remaining(challenges, nonces)
      BY <2>4 DEF Cleanup, Fresh
    <2>5. ASSUME RestartNode
          PROVE  issued' = issued /\ \A n \in DOMAIN challenges' : n \in DOMAIN challenges /\ challenges'[n] = challenges[n]
      BY <2>5 DEF RestartNode
    <2>6. ASSUME UNCHANGED <<challenges, issued>>
          PROVE  issued' = issued /\ \A n \in DOMAIN challenges' : n \in DOMAIN challenges /\ challenges'[n] = challenges[n]
      BY <2>6
    <2> HIDE DEF Pending
    <2> QED
      BY <1>5, <1>6, <2>1, <2>2, <2>3, <2>4, <2>5, <2>6
         DEF SessionRequest, CreateSession, CreateToken, DeleteSession, GetSessionOver
  <1>8. sessions' \subseteq Opened /\ tokens' \subseteq Made
    <2>1. sessions \subseteq Opened /\ tokens \subseteq Made
      BY DEF SessionsTypeOK
    <2>2. ASSUME NEW device \in Keys
          PROVE  /\ Session("login", device, SessionLifetime) \in Opened /\ Token(device) \in Made
                 /\ \A lifetime \in Lifetimes : Session("session", device, lifetime) \in Opened
      BY <1>1, <2>2 DEF Session, Token
    <2>3. ASSUME NEW a \in Assertions, NEW supplied, Login(a, supplied)
          PROVE  sessions' \subseteq Opened /\ tokens' \subseteq Made
      <3>1. a.device \in Keys
        BY <1>2 DEF Assertions
      <3> HIDE DEF Opened, Made
      <3> QED
        BY <2>1, <2>2, <2>3, <3>1 DEF Login
    <2>4. ASSUME NEW device \in KeysIn(Visitor), NEW timestamp, NEW expires_in \in Lifetimes,
                 CreateSession(device, timestamp, expires_in) \/ CreateToken(device, timestamp)
          PROVE  sessions' \subseteq Opened /\ tokens' \subseteq Made
      <3> HIDE DEF Opened, Made
      <3> QED
        BY <1>2, <2>1, <2>2, <2>4 DEF CreateSession, CreateToken
    <2>5. ASSUME sessions' \subseteq sessions, tokens' \subseteq tokens
          PROVE  sessions' \subseteq Opened /\ tokens' \subseteq Made
      BY <2>1, <2>5
    <2>6. ASSUME \/ \E aud, lifetime : Challenge(aud, lifetime)
                 \/ \E nonce : PeekExpired(nonce)
                 \/ \E a, supplied : VerifyHandler(a, supplied)
                 \/ \E s : DeleteSession(s) \/ GetSessionOver(s)
                 \/ Cleanup \/ RestartNode
          PROVE  sessions' \subseteq sessions /\ tokens' \subseteq tokens
      BY <2>6 DEF Challenge, PeekExpired, VerifyHandler, DeleteSession, GetSessionOver, Removed,
                  Cleanup, LiveSessions, RestartNode
    <2>7. ASSUME NEW device \in KeysIn(Visitor), NEW timestamp, CreateToken(device, timestamp)
          PROVE  sessions' \subseteq Opened /\ tokens' \subseteq Made
      <3> HIDE DEF Opened, Made
      <3> QED
        BY <1>2, <2>1, <2>2, <2>7 DEF CreateToken
    <2> HIDE DEF Opened, Made
    <2> QED
      BY <2>3, <2>4, <2>5, <2>6, <2>7 DEF SessionRequest
  <1>9. restarts' \in 0 .. MaxRestarts
    <2>1. restarts' = restarts \/ (restarts < MaxRestarts /\ restarts' = restarts + 1)
      BY DEF SessionRequest, Challenge, PeekExpired, VerifyHandler, Login, CreateSession, CreateToken,
             DeleteSession, GetSessionOver, Cleanup, RestartNode
    <2> QED
      BY <1>1, <2>1 DEF SessionsTypeOK
  <1> QED
    BY <1>3, <1>4, <1>7, <1>8, <1>9 DEF SessionsTypeOK

LEMMA SessionsTyped ==
    ASSUME HeldInv, SessionsTypeOK, NoncesInv', [Next]_vars
    PROVE  SessionsTypeOK'
  <1>1. CASE UNCHANGED sessionVars
    BY <1>1 DEF sessionVars, SessionsTypeOK
  <1>2. ASSUME NEW n, RowChanges(n)
        PROVE  SessionsTypeOK'
    <2>1. now \in 0 .. MaxTime
      BY DEF HeldInv
    <2>2. shut' \in [Keys -> {-1} \cup 0 .. MaxTime]
      BY <1>2, <2>1 DEF RowChanges, SessionsTypeOK
    <2> QED
      BY <1>2, <2>2 DEF RowChanges, SessionsTypeOK
  <1> QED
    BY <1>1, <1>2, RequestTyped, SessionsStep

-----------------------------------------------------------------------------
(* The shape of the relay poller *)

Entry == [identity : Relayable, points : Seq(Points)]

Poll ==
    [at : {"waiting", "point", "messages"}, identity : Relayable \cup {None}, points : Seq(Points),
     todo : Seq(Entry)]

\* One row per identity.
TableOk(table) ==
    /\ table \in Seq(Entry)
    /\ \A j, k \in DOMAIN table : table[j].identity = table[k].identity => j = k

ListedIn(table) == {table[n].identity : n \in DOMAIN table}

PollOk(p) == p \in Poll /\ (p.at # "waiting" => p.identity \in Relayable /\ p.points # << >>)

PollerInv ==
    /\ TableOk(rows) /\ PollOk(poll)
    /\ suspended \in BOOLEAN /\ trigger \in BOOLEAN
    /\ owed \subseteq ListedIn(rows)

\* What a copy of a chain names in the end is a list of points.
LEMMA NamedByIs ==
    ASSUME NEW i \in Identities, NEW n \in 0 .. Len(History[i])
    PROVE  NamedBy[i][n] \in Seq(Points)
  <1> DEFINE lists == SubSeq(Named[i], 1, n)
             S == {j \in 1 .. Len(lists) : lists[j] # << >>}
             k == IF S # {} THEN Max(S) ELSE 0
  <1>1. NamedBy[i][n] = IF k = 0 THEN << >> ELSE Named[i][k]
    BY DEF NamedBy, SelectLastInSeq
  <1>2. Named[i] \in Seq(Seq(Points)) /\ Len(Named[i]) = Len(History[i]) /\ Len(History[i]) \in Nat
    BY RelayPollerAssumption, AroundIs
  <1>3. Len(lists) = n /\ n \in Nat /\ 1 .. n \subseteq 1 .. Len(Named[i])
    BY <1>2, SubSeqProperties
  <1>4. ASSUME S # {}
        PROVE  k \in 1 .. Len(Named[i])
    <2>1. S \in SUBSET (1 .. n)
      BY <1>3
    <2>2. \E x \in S : \A y \in S : x >= y
      <3> HIDE DEF S
      <3> QED
        BY <1>3, <1>4, <2>1, LargestExists
    <2>3. Max(S) \in S
      BY <2>2 DEF Max
    <2> QED
      BY <1>3, <1>4, <2>1, <2>3
  <1>5. k # 0 => k \in 1 .. Len(Named[i])
    BY <1>4
  <1> HIDE DEF k
  <1> QED
    BY <1>1, <1>2, <1>5

LEMMA PointsOfIs ==
    ASSUME HeldInv, NEW entry \in Entry
    PROVE  PointsOf(entry) \in Seq(Points)
  <1>1. entry.identity \in Identities /\ entry.points \in Seq(Points)
    BY RelayPollerAssumption DEF Entry
  <1>2. held[entry.identity] \in 0 .. Len(History[entry.identity])
    BY <1>1, AroundIs DEF HeldInv
  <1> QED
    BY <1>1, <1>2, NamedByIs DEF PointsOf

\* An UPDATE keeps the identities of the table.
LEMMA UpdatedIs ==
    ASSUME NEW table, TableOk(table), NEW i, NEW points \in Seq(Points)
    PROVE  TableOk(Updated(table, i, points)) /\ ListedIn(Updated(table, i, points)) = ListedIn(table)
  <1> DEFINE new == Updated(table, i, points)
  <1>1. table \in Seq(Entry) /\ Len(table) \in Nat /\ DOMAIN table = 1 .. Len(table)
    BY DEF TableOk
  <1>2. DOMAIN new = DOMAIN table
    BY DEF Updated
  <1>3. ASSUME NEW n \in DOMAIN table
        PROVE  new[n] \in Entry /\ new[n].identity = table[n].identity
    <2>1. PICK entry \in Entry : entry = table[n]
      BY <1>1
    <2>2. new[n] = IF entry.identity = i THEN [entry EXCEPT !.points = points] ELSE entry
      BY <2>1 DEF Updated
    <2> QED
      BY <2>1, <2>2 DEF Entry
  <1>4. new = [n \in 1 .. Len(table) |-> new[n]]
    BY <1>1 DEF Updated
  <1> HIDE DEF new
  <1>5. new \in Seq(Entry)
    BY <1>1, <1>3, <1>4
  <1> QED
    BY <1>2, <1>3, <1>5 DEF TableOk, ListedIn, new

\* A table without the row of an identity.
LEMMA OthersIs ==
    ASSUME TableOk(rows), NEW i
    PROVE  TableOk(Others(i)) /\ ListedIn(Others(i)) = ListedIn(rows) \ {i}
  <1> DEFINE S == {n \in DOMAIN rows : rows[n].identity # i}
             m == Cardinality(S)
  <1>1. rows \in Seq(Entry) /\ DOMAIN rows = 1 .. Len(rows) /\ Len(rows) \in Nat
    BY DEF TableOk
  <1>2. S \in SUBSET (1 .. Len(rows))
    BY <1>1
  <1>3. Others(i) = [k \in 1 .. m |-> rows[Nth(S, k)]]
    BY DEF Others, Selected
  <1>4. \A n \in S : rows[n] \in Entry /\ rows[n].identity # i /\ n \in DOMAIN rows
    BY <1>1
  <1>5. \A n \in DOMAIN rows : rows[n].identity # i => n \in S
    OBVIOUS
  <1>10. \A n \in S : n \in Nat
    BY <1>1
  <1> HIDE DEF S
  <1>6. /\ m \in Nat /\ \A n \in S : \E k \in 1 .. m : Nth(S, k) = n
        /\ \A k \in 1 .. m : Nth(S, k) \in S
        /\ \A k \in 1 .. m : \A h \in 1 .. m : k < h => Nth(S, k) < Nth(S, h)
    BY <1>1, <1>2, NthIs, NthLists
  <1>7. Others(i) \in Seq(Entry) /\ DOMAIN Others(i) = 1 .. m
        /\ \A k \in 1 .. m : Others(i)[k] = rows[Nth(S, k)]
    BY <1>3, <1>4, <1>6
  <1>8. ASSUME NEW j \in 1 .. m, NEW k \in 1 .. m, Others(i)[j].identity = Others(i)[k].identity
        PROVE  j = k
    <2>3. Nth(S, j) \in DOMAIN rows /\ Nth(S, k) \in DOMAIN rows
      BY <1>4, <1>6
    <2>4. rows[Nth(S, j)].identity = rows[Nth(S, k)].identity
      BY <1>7, <1>8
    <2>5. \A x \in DOMAIN rows : \A y \in DOMAIN rows : rows[x].identity = rows[y].identity => x = y
      BY DEF TableOk
    <2>1. Nth(S, j) = Nth(S, k)
      BY <2>3, <2>4, <2>5, Zenon
    <2>6. Nth(S, k) \in S
      BY <1>6
    <2>2. Nth(S, k) \in Nat
      BY <1>10, <2>6
    <2> QED
      BY <1>6, <2>1, <2>2
  <1>9. ListedIn(Others(i)) = ListedIn(rows) \ {i}
    <2>1. ASSUME NEW k \in 1 .. m
          PROVE  Others(i)[k].identity \in ListedIn(rows) \ {i}
      BY <1>4, <1>6, <1>7 DEF ListedIn
    <2>2. ASSUME NEW n \in DOMAIN rows, rows[n].identity # i
          PROVE  rows[n].identity \in ListedIn(Others(i))
      BY <1>5, <1>6, <1>7, <2>2 DEF ListedIn
    <2> QED
      BY <1>7, <2>1, <2>2 DEF ListedIn
  <1> QED
    BY <1>7, <1>8, <1>9 DEF TableOk

\* From a list of rows on, a cycle waits, or asks for an identity that has points.
LEMMA TurnIs ==
    ASSUME HeldInv, NEW todo \in Seq(Entry), NEW table, TableOk(table), Turn(todo, table)
    PROVE  PollOk(poll') /\ TableOk(rows') /\ ListedIn(rows') = ListedIn(table)
  <1> DEFINE S == {j \in 1 .. Len(todo) : PointsOf(todo[j]) # << >>}
             k == IF S # {} THEN Min(S) ELSE 0
  <1>1. k = SelectInSeq(todo, LAMBDA entry : PointsOf(entry) # << >>)
    BY DEF SelectInSeq
  <1>2. CASE k = 0
    <2>1. poll' = Waiting /\ rows' = table
      BY <1>1, <1>2 DEF Turn
    <2>2. PollOk(Waiting)
      BY DEF PollOk, Poll, Waiting
    <2> QED
      BY <2>1, <2>2
  <1>3. CASE k # 0
    <2>1. /\ poll' = [at |-> "point", identity |-> todo[k].identity,
                      points |-> PointsOf(todo[k]), todo |-> SubSeq(todo, k + 1, Len(todo))]
          /\ rows' = IF todo[k].points # << >> THEN table
                     ELSE Updated(table, todo[k].identity, PointsOf(todo[k]))
      BY <1>1, <1>3 DEF Turn
    <2>2. k \in S
      <3>1. S # {} /\ k = Min(S)
        BY <1>3
      <3>2. S \in SUBSET Nat
        OBVIOUS
      <3>3. \E x \in S : \A y \in S : x <= y
        <4> HIDE DEF S
        <4> QED
          BY <3>1, <3>2, LeastExists
      <3> QED
        BY <3>1, <3>3 DEF Min
    <2> HIDE DEF k
    <2>3. k \in 1 .. Len(todo) /\ todo[k] \in Entry /\ PointsOf(todo[k]) # << >>
      BY <2>2
    <2>4. PointsOf(todo[k]) \in Seq(Points) /\ todo[k].identity \in Relayable
      BY <2>3, PointsOfIs DEF Entry
    <2>5. SubSeq(todo, k + 1, Len(todo)) \in Seq(Entry)
      BY <2>3
    <2>6. PollOk(poll')
      BY <2>1, <2>3, <2>4, <2>5 DEF PollOk, Poll
    <2> QED
      BY <2>1, <2>4, <2>6, UpdatedIs
  <1> QED
    BY <1>2, <1>3

\* The poller changes by its own steps only.
LEMMA PollerChanges ==
    ASSUME [Next]_vars
    PROVE  UNCHANGED pollerVars \/ PollerStep \/ Relaying
  <1>1. CASE OtherWriter \/ TimePasses \/ Documents \/ Attesting \/ Releasing \/ SigningOn \/ Trusting
             \/ UNCHANGED vars
    BY <1>1 DEF OtherWriter, TimePasses, Documents, Attesting, Releasing, SigningOn, Trusting, ServicesKeep, vars
  <1> QED
    BY <1>1 DEF Next

\* A cycle starts over the rows there are, and owes nobody anything.
LEMMA CycleTyped ==
    ASSUME HeldInv, PollerInv, StartCycle, suspended' = suspended, trigger' \in BOOLEAN
    PROVE  PollerInv'
  <1>1. CASE suspended
    BY <1>1 DEF StartCycle, PollerInv
  <1>2. CASE ~suspended
    <2>1. Turn(rows, rows) /\ owed' = {}
      BY <1>2 DEF StartCycle
    <2>2. PollOk(poll') /\ TableOk(rows')
      BY <2>1, TurnIs DEF PollerInv, TableOk
    <2> QED
      BY <2>1, <2>2 DEF PollerInv
  <1> QED
    BY <1>1, <1>2

LEMMA NextTurnTyped ==
    ASSUME HeldInv, PollerInv, NextTurn, UNCHANGED <<suspended, owed>>
    PROVE  PollerInv'
  <1>1. poll.todo \in Seq(Entry)
    BY DEF PollerInv, PollOk, Poll
  <1>2. PollOk(poll') /\ TableOk(rows') /\ ListedIn(rows') = ListedIn(rows)
    BY <1>1, TurnIs DEF NextTurn, PollerInv
  <1>3. trigger' \in BOOLEAN
    BY DEF NextTurn, Cleared, PollerInv
  <1> QED
    BY <1>2, <1>3 DEF PollerInv

\* An answer names the identity's points anew, if it names any.
LEMMA AnswerTyped ==
    ASSUME HeldInv, PollerInv, PointAnswers
    PROVE  PollerInv'
  <1>1. PICK p \in Poll : p = poll
    BY DEF PollerInv, PollOk
  <1>2. p.at = "point" /\ p.identity \in Relayable /\ p.points # << >>
    BY <1>1 DEF PointAnswers, PollerInv, PollOk
  <1>3. p.identity \in Identities
    BY <1>2, RelayPollerAssumption
  <1>4. PICK n \in {0} \cup Around[p.identity] :
            rows' = IF NamedBy[p.identity][n] = << >> THEN rows
                    ELSE Updated(rows, p.identity, NamedBy[p.identity][n])
    BY <1>1 DEF PointAnswers
  <1>5. NamedBy[p.identity][n] \in Seq(Points)
    BY <1>3, <1>4, AroundIs, NamedByIs
  <1>6. TableOk(rows') /\ ListedIn(rows') = ListedIn(rows)
    BY <1>4, <1>5, UpdatedIs DEF PollerInv
  <1>7. poll' = [p EXCEPT !.at = "messages"]
    BY <1>1 DEF PointAnswers
  <1>8. PollOk(poll')
    BY <1>2, <1>7 DEF PollOk, Poll
  <1> QED
    BY <1>6, <1>8 DEF PollerInv, PointAnswers

\* After a point that fails comes the next one, or the next identity.
LEMMA FailureTyped ==
    ASSUME HeldInv, PollerInv, PointFails
    PROVE  PollerInv'
  <1>1. PICK p \in Poll : p = poll
    BY DEF PollerInv, PollOk
  <1>2. p.at = "point" /\ p.identity \in Relayable /\ p.points # << >> /\ p.points \in Seq(Points)
    BY <1>1 DEF PointFails, PollerInv, PollOk, Poll
  <1>3. CASE Len(poll.points) > 1
    <2>1. Tail(p.points) \in Seq(Points) /\ Tail(p.points) # << >>
      <3>1. PICK points \in Seq(Points) : points = p.points /\ Len(points) > 1
        BY <1>1, <1>2, <1>3
      <3>2. points # << >> /\ Len(points) \in Nat
        BY <3>1
      <3>3. Tail(points) \in Seq(Points) /\ Len(Tail(points)) = Len(points) - 1
        BY <3>2, HeadTailProperties, Zenon
      <3>4. PICK rest \in Seq(Points) : rest = Tail(points)
        BY <3>3
      <3>5. Len(rest) = Len(points) - 1
        BY <3>3, <3>4, Zenon
      <3>6. Len(rest) # 0
        BY <3>1, <3>2, <3>5
      <3>7. rest # << >>
        BY <3>6
      <3> QED
        BY <3>1, <3>4, <3>7
    <2>2. poll' = [p EXCEPT !.points = Tail(p.points)]
      BY <1>1, <1>3 DEF PointFails
    <2>3. PollOk(poll')
      BY <1>2, <2>1, <2>2 DEF PollOk, Poll
    <2> QED
      BY <1>3, <2>3 DEF PollerInv, PointFails
  <1>4. CASE ~(Len(poll.points) > 1)
    BY <1>4, NextTurnTyped DEF PointFails
  <1> QED
    BY <1>3, <1>4

\* POST /relay/identities puts the identity in front, with the points it has.
LEMMA AdditionTyped ==
    ASSUME HeldInv, PollerInv, NEW i \in Relayable, NEW points \in Offered, AddIdentity(i, points)
    PROVE  PollerInv'
  <1>1. points \in Seq(Points) /\ i \in Identities
    BY RelayPollerAssumption
  <1>2. NamedBy[i][held[i]] \in Seq(Points)
    BY <1>1, AroundIs, NamedByIs DEF HeldInv
  <1> DEFINE entry == [identity |-> i, points |-> IF points # << >> THEN points ELSE NamedBy[i][held[i]]]
  <1>3. entry \in Entry /\ entry.identity = i
    BY <1>1, <1>2 DEF Entry
  <1>4. TableOk(Others(i)) /\ ListedIn(Others(i)) = ListedIn(rows) \ {i}
    BY OthersIs DEF PollerInv
  <1>5. rows' = <<entry>> \o Others(i)
    BY DEF AddIdentity
  <1> HIDE DEF entry
  <1>6. PICK rest \in Seq(Entry) : rest = Others(i)
    BY <1>4 DEF TableOk
  <1>7. /\ rows' \in Seq(Entry) /\ DOMAIN rows' = 1 .. Len(rest) + 1 /\ Len(rest) \in Nat
        /\ DOMAIN rest = 1 .. Len(rest)
        /\ rows'[1] = entry /\ \A n \in 1 .. Len(rest) : rows'[n + 1] = rest[n]
    BY <1>3, <1>5, <1>6
  <1>8. \A n \in DOMAIN rows' : n = 1 \/ (n - 1 \in 1 .. Len(rest) /\ rows'[n] = rest[n - 1])
    BY <1>7
  <1>9. \A n \in 1 .. Len(rest) : rest[n].identity # i
    BY <1>4, <1>6, <1>7 DEF ListedIn
  <1>10. ASSUME NEW j \in DOMAIN rows', NEW k \in DOMAIN rows', rows'[j].identity = rows'[k].identity
         PROVE  j = k
    <2>1. j = 1 <=> k = 1
      BY <1>3, <1>7, <1>8, <1>9, <1>10
    <2>2. ASSUME j # 1
          PROVE  j - 1 = k - 1
      BY <1>4, <1>6, <1>7, <1>8, <1>10, <2>1, <2>2 DEF TableOk
    <2>3. j \in Nat /\ k \in Nat
      BY <1>7
    <2> QED
      BY <2>1, <2>2, <2>3
  <1>11. TableOk(rows')
    BY <1>7, <1>10 DEF TableOk
  <1>12. ListedIn(rows) \cup {i} \subseteq ListedIn(rows')
    <2>1. i \in ListedIn(rows')
      BY <1>3, <1>7 DEF ListedIn
    <2>2. ASSUME NEW n \in 1 .. Len(rest)
          PROVE  rest[n].identity \in ListedIn(rows')
      <3>1. n + 1 \in DOMAIN rows' /\ rows'[n + 1] = rest[n]
        BY <1>7
      <3> QED
        BY <3>1 DEF ListedIn
    <2>3. ListedIn(rest) \subseteq ListedIn(rows')
      BY <1>7, <2>2 DEF ListedIn
    <2> QED
      BY <1>4, <1>6, <2>1, <2>3
  <1>13. owed' \subseteq owed \cup {i} /\ trigger' \in BOOLEAN
    BY DEF AddIdentity, PollerInv
  <1> QED
    BY <1>11, <1>12, <1>13 DEF PollerInv, AddIdentity

LEMMA PollerTyped ==
    ASSUME HeldInv, PollerInv, [Next]_vars
    PROVE  PollerInv'
  <1>1. CASE UNCHANGED pollerVars
    BY <1>1 DEF pollerVars, PollerInv
  <1>2. CASE Wake \/ WakeByInterval
    <2>1. StartCycle /\ suspended' = suspended /\ trigger' \in BOOLEAN
      BY <1>2 DEF Wake, WakeByInterval, PollerInv
    <2> QED
      BY <2>1, CycleTyped
  <1>3. CASE MessagesArrive
    BY <1>3, NextTurnTyped DEF MessagesArrive
  <1>4. ASSUME NEW i, RemoveIdentity(i)
        PROVE  PollerInv'
    BY <1>4, OthersIs DEF RemoveIdentity, PollerInv
  <1>5. CASE PollNow \/ Suspend \/ Resume
    BY <1>5 DEF PollNow, Suspend, Resume, PollerInv
  <1>6. CASE RestartPoller
    <2>1. PollOk(Waiting)
      BY DEF PollOk, Poll, Waiting
    <2> QED
      BY <1>6, <2>1 DEF RestartPoller, PollerInv
  <1> QED
    BY <1>1, <1>2, <1>3, <1>4, <1>5, <1>6, AnswerTyped, FailureTyped, AdditionTyped, PollerChanges
       DEF PollerStep, Relaying

-----------------------------------------------------------------------------
(* The shape of the whole state *)

TypeInv ==
    /\ HeldInv /\ DocumentsTypeOK /\ VerdictInv /\ CallInv /\ ReleaseInv
    /\ NoncesInv /\ SessionsTypeOK /\ TrustDeskTypeOK /\ PollerInv

\* Every table of every service has its shape, whichever service is asked.
THEOREM TypeCorrect == Spec => []TypeOK
  <1>1. Init => TypeInv
    <2> SUFFICES ASSUME Init
                 PROVE  TypeInv
      OBVIOUS
    <2>1. HeldInv /\ DocumentsTypeOK /\ VerdictInv /\ CallInv /\ ReleaseInv /\ TrustDeskTypeOK
      BY HeldInit DEF Init, ClaimDocumentsInit, DocumentsTypeOK, AttestationsInit, VerdictInv, CallInv,
                      ClaimReleaseInit, ReleaseInv, TrustDeskInit, TrustDeskTypeOK
    <2>2. NoncesInv /\ SessionsTypeOK
      BY SessionDeskAssumption, MaxTimeAssumption DEF Init, SessionDeskInit, NoncesInv, SessionsTypeOK
    <2>3. PollerInv
      <3>1. rows = << >> /\ suspended = FALSE /\ trigger = FALSE /\ poll = Waiting /\ owed = {}
        BY DEF Init, RelayPollerInit
      <3>2. TableOk(rows)
        <4>1. << >> \in Seq(Entry) /\ DOMAIN << >> = {}
          OBVIOUS
        <4> QED
          BY <3>1, <4>1 DEF TableOk
      <3>3. PollOk(poll)
        BY <3>1 DEF PollOk, Poll, Waiting
      <3> QED
        BY <3>1, <3>2, <3>3 DEF PollerInv
    <2> QED
      BY <2>1, <2>2, <2>3 DEF TypeInv
  <1>2. TypeInv /\ [Next]_vars => TypeInv'
    BY HeldStep, DocumentsTyped, VerdictTyped, CallStep, ReleaseKept, NoncesStep, SessionsTyped, TrustTyped,
       PollerTyped DEF TypeInv
  <1>3. TypeInv => TypeOK
    <2> SUFFICES ASSUME TypeInv
                 PROVE  TypeOK
      OBVIOUS
    <2>1. AttestationsTypeOK
      BY DEF TypeInv, VerdictInv, CallInv, CallOk, Call, ReleaseInv, AttestationsTypeOK
    <2>2. ReleaseTypeOK
      BY DEF TypeInv, ReleaseInv, ReleaseOk, Release, BestOk, ReleaseTypeOK
    <2>3. PollerTypeOK
      <3>1. poll \in Poll /\ (poll.at # "waiting" => poll.identity \in Relayable /\ poll.points # << >>)
        BY DEF TypeInv, PollerInv, PollOk
      <3>2. /\ poll.at \in {"waiting", "point", "messages"} /\ poll.points \in Seq(Points)
            /\ poll.todo \in Seq(Entry)
        BY <3>1 DEF Poll
      <3> QED
        BY <3>1, <3>2 DEF TypeInv, PollerInv, TableOk, ListedIn, Entry, PollerTypeOK
    <2> QED
      BY <2>1, <2>2, <2>3 DEF TypeInv, HeldInv, TypeOK
  <1> QED
    BY <1>1, <1>2, <1>3, PTL DEF Spec

-----------------------------------------------------------------------------
(* The search for the best path *)

\* A row that is there says how much, how deep and about what.
LEMMA OfferIs ==
    ASSUME TrustDeskTypeOK, NEW pair \in Delegable, delegations[pair] # Absent
    PROVE  /\ delegations[pair].weight \in Nat
           /\ delegations[pair].depth_limit \in Nat \cup {NoLimit}
  <1>1. Unit \in Nat /\ delegations[pair] \in Offers
    BY TrustDeskAssumption DEF TrustDeskTypeOK
  <1>2. delegations[pair] \in [weight : 0 .. Unit, depth_limit : Nat \cup {NoLimit},
                               scope : (SUBSET Topics) \cup {AllTopics}]
    BY <1>1, TrustDeskAssumption
  <1> QED
    BY <1>1, <1>2

\* Whom the delegations of the people in S are to.
Trusted(S) == {pair[2] : pair \in UNION {From(i) : i \in S}}

\* Those the handler has asked for their delegations after each round.
LEMMA AskedIs ==
    ASSUME NEW me \in People, NEW D \in Nat \ {0}
    PROVE  \E seen : /\ Asked(me, D) = seen[D] /\ seen[1] = {me}
                     /\ \A r \in 2 .. D : seen[r] = seen[r - 1] \cup Trusted(seen[r - 1])
  <1> DEFINE Met(S) == S \cup {pair[2] : pair \in UNION {From(i) : i \in S}}
             V == SUBSET People
             step == [S \in V |-> Met(S)]
             Locals(g) == g = [round \in 1 .. D |-> IF round = 1 THEN {me}
                                ELSE g[round - 1] \cup {pair[2] : pair \in UNION {From(i) : i \in g[round - 1]}}]
  <1>1. ASSUME NEW S \in V
        PROVE  Met(S) \in V
    <2>1. \A pair \in Delegable : pair[2] \in People
      BY TrustDeskAssumption
    <2>2. \A i \in S : \A pair \in From(i) : pair[2] \in People
      BY <2>1 DEF From
    <2> QED
      BY <2>2
  <1>2. {me} \in V /\ step \in [V -> V] /\ D - 1 \in Nat
    BY <1>1
  <1> HIDE DEF Met
  <1>3. PICK f \in [0 .. D - 1 -> V] : f[0] = {me} /\ \A n \in 1 .. D - 1 : f[n] = step[f[n - 1]]
    <2> HIDE DEF V, step
    <2>1. \E h : Iterates(h, V, {me}, step, D - 1)
      BY <1>2, Iterated
    <2> QED
      BY <2>1 DEF Iterates
  <1> DEFINE g == [round \in 1 .. D |-> f[round - 1]]
  <1>4. Locals(g)
    <2>1. ASSUME NEW round \in 1 .. D
          PROVE  g[round] = IF round = 1 THEN {me} ELSE Met(g[round - 1])
      <3>1. round - 1 \in 0 .. D - 1 /\ g[round] = f[round - 1]
        OBVIOUS
      <3>2. CASE round = 1
        BY <1>3, <3>1, <3>2
      <3>3. CASE round # 1
        <4>1. round - 1 \in 1 .. D - 1 /\ round - 1 \in 1 .. D /\ (round - 1) - 1 \in 0 .. D - 1
          BY <3>3
        <4>2. f[round - 1] = step[f[(round - 1) - 1]]
          BY <1>3, <3>1, <4>1
        <4>3. g[round - 1] = f[(round - 1) - 1] /\ f[(round - 1) - 1] \in V
          BY <1>3, <4>1
        <4>4. g[round] = Met(g[round - 1])
          BY <3>1, <4>2, <4>3
        <4> QED
          BY <3>3, <4>4
      <3> QED
        BY <3>2, <3>3
    <2> HIDE DEF g
    <2>2. g = [round \in 1 .. D |-> IF round = 1 THEN {me} ELSE Met(g[round - 1])]
      <3>1. g = [round \in 1 .. D |-> g[round]]
        BY DEF g
      <3> QED
        BY <2>1, <3>1
    <2> QED
      BY <2>2 DEF Met
  <1> DEFINE seen == CHOOSE h : Locals(h)
  <1>5. Locals(seen)
    <2> HIDE DEF g, Locals
    <2> QED
      BY <1>4
  <1>6. Asked(me, D) = seen[D]
    BY DEF Asked
  <1> HIDE DEF seen
  <1>7. 1 \in 1 .. D /\ \A r \in 2 .. D : r \in 1 .. D /\ r # 1
    OBVIOUS
  <1>8. seen[1] = {me}
    BY <1>5, <1>7
  <1>9. \A r \in 2 .. D : seen[r] = seen[r - 1] \cup Trusted(seen[r - 1])
    BY <1>5, <1>7 DEF Trusted
  <1> QED
    BY <1>6, <1>8, <1>9

\* A path and the step it takes along a delegation.
Followed(p, pair) ==
    [hops |-> Append(p.hops, pair[2]), weights |-> Append(p.weights, delegations[pair].weight),
     budget |-> Budget(p.budget, delegations[pair].depth_limit)]

Onward(p, asked, topic) ==
    {Followed(p, pair) : pair \in {q \in From(Last(p.hops)) :
        Last(p.hops) \in asked /\ ~Contains(p.hops, q[2]) /\ Covers(q, topic)}}

Path == [hops : Seq(People), weights : Seq(Nat), budget : Int]

LEMMA FollowedIs ==
    ASSUME TrustDeskTypeOK, NEW p \in Path, NEW pair \in Delegable, delegations[pair] # Absent
    PROVE  Followed(p, pair) \in Path
  <1>1. delegations[pair].weight \in Nat /\ delegations[pair].depth_limit \in Nat \cup {NoLimit}
    BY OfferIs
  <1>2. pair[2] \in People
    BY TrustDeskAssumption
  <1>3. p.hops \in Seq(People) /\ p.weights \in Seq(Nat) /\ p.budget \in Int
    BY DEF Path
  <1>4. Budget(p.budget, delegations[pair].depth_limit) \in Int
    BY <1>1, <1>3 DEF Budget
  <1> QED
    BY <1>1, <1>2, <1>3, <1>4 DEF Followed, Path

\* The queue of calculate_trust after each number of steps.
Queues(level, me, subject, topic, D) ==
    /\ \A s \in 0 .. D : level[s] \in SUBSET Path
    /\ level[0] = {[hops |-> <<me>>, weights |-> << >>, budget |-> D]}
    /\ \A s \in 1 .. D : level[s] =
          UNION {Onward(p, Asked(me, D), topic) :
                    p \in {q \in level[s - 1] : q.budget > 0 /\ Last(q.hops) # subject}}

LEMMA LevelsAre ==
    ASSUME TrustDeskTypeOK, NEW me \in People, NEW subject, NEW topic, NEW D \in Nat \ {0}
    PROVE  \E level :
              /\ Queues(level, me, subject, topic, D)
              /\ Paths(me, subject, topic, D) =
                    {p \in UNION {level[s] : s \in 1 .. D} : Last(p.hops) = subject}
  <1> DEFINE asked == Asked(me, D)
             start == {[hops |-> <<me>>, weights |-> << >>, budget |-> D]}
             After(S) == UNION {Onward(p, asked, topic) : p \in {q \in S : q.budget > 0 /\ Last(q.hops) # subject}}
             V == SUBSET Path
             step == [S \in V |-> After(S)]
             Locals(g) == g = [steps \in 0 .. D |->
                                 IF steps = 0 THEN {[hops |-> <<me>>, weights |-> << >>, budget |-> D]}
                                 ELSE UNION {Onward(p, asked, topic) : p \in {q \in g[steps - 1] :
                                                  q.budget > 0 /\ Last(q.hops) # subject}}]
  <1>1. ASSUME NEW S \in V
        PROVE  After(S) \in V
    <2>1. ASSUME NEW p \in S
          PROVE  Onward(p, asked, topic) \subseteq Path
      BY <2>1, FollowedIs DEF Onward, From
    <2> QED
      BY <2>1
  <1>2. start \in V
    BY DEF Path
  <1> HIDE DEF After, start, V
  <1>3. step \in [V -> V] /\ D \in Nat
    BY <1>1
  <1>4. PICK f \in [0 .. D -> V] : f[0] = start /\ \A n \in 1 .. D : f[n] = step[f[n - 1]]
    <2> HIDE DEF step, Locals, asked
    <2>1. \E g : Iterates(g, V, start, step, D)
      BY <1>2, <1>3, Iterated
    <2> QED
      BY <2>1 DEF Iterates
  <1>5. \A n \in 0 .. D : f[n] = IF n = 0 THEN start ELSE After(f[n - 1])
    <2> SUFFICES ASSUME NEW n \in 0 .. D, n # 0
                 PROVE  f[n] = After(f[n - 1])
      BY <1>4
    <2>1. n - 1 \in 0 .. D /\ n \in 1 .. D
      OBVIOUS
    <2>2. f[n - 1] \in V /\ f[n] = step[f[n - 1]]
      BY <1>4, <2>1
    <2> QED
      BY <2>2
  <1>6. f = [n \in 0 .. D |-> IF n = 0 THEN start ELSE After(f[n - 1])]
    <2>1. f = [n \in 0 .. D |-> f[n]]
      BY <1>4
    <2> QED
      BY <1>5, <2>1
  <1>7. Locals(f)
    BY <1>6 DEF start, After
  <1> DEFINE level == CHOOSE h : Locals(h)
  <1>8. Locals(level)
    <2> HIDE DEF Locals
    <2> QED
      BY <1>7
  <1>9. Paths(me, subject, topic, D) = {p \in UNION {level[s] : s \in 1 .. D} : Last(p.hops) = subject}
    BY DEF Paths, Onward, Followed
  <1> HIDE DEF level
  <1>10. level[0] = start /\ \A s \in 1 .. D : level[s] = After(level[s - 1])
    <2>1. 0 \in 0 .. D /\ \A s \in 1 .. D : s \in 0 .. D /\ s # 0
      BY <1>3
    <2> QED
      BY <1>8, <2>1 DEF start, After
  <1>11. \A s \in 0 .. D : level[s] \in V
    <2> DEFINE Odd == {s \in 0 .. D : level[s] \notin V}
    <2> SUFFICES ASSUME Odd # {}
                 PROVE  FALSE
      OBVIOUS
    <2>1. Odd \in SUBSET Nat
      OBVIOUS
    <2>2. PICK s \in Odd : \A m \in Odd : s <= m
      BY <2>1, LeastExists
    <2>3. s # 0
      BY <1>2, <1>10
    <2>4. s \in 1 .. D /\ s - 1 \in 0 .. D /\ ~(s <= s - 1)
      BY <2>3
    <2>5. level[s - 1] \in V
      BY <2>2, <2>4
    <2>6. level[s] \in V
      BY <1>1, <1>10, <2>4, <2>5
    <2> QED
      BY <2>6
  <1> QED
    BY <1>9, <1>10, <1>11 DEF start, After, V, Queues

\* A path of the queue after s steps: whom it has met, each once, what the
\* delegations along it say, and that its budget keeps to every limit so far.
Trail(p, s, me, topic) ==
    /\ Len(p.hops) = s + 1 /\ Len(p.weights) = s /\ p.hops[1] = me
    /\ p.budget >= 0
    /\ \A i, j \in 1 .. s + 1 : p.hops[i] = p.hops[j] => i = j
    /\ \A i \in 1 .. s :
          LET pair == <<p.hops[i], p.hops[i + 1]>>
          IN  /\ pair \in From(p.hops[i]) /\ Covers(pair, topic)
              /\ p.weights[i] = delegations[pair].weight
              /\ delegations[pair].depth_limit # NoLimit =>
                    p.budget + (s - i) <= delegations[pair].depth_limit

LEMMA FollowedTrail ==
    ASSUME TrustDeskTypeOK, NEW me, NEW topic, NEW s \in Nat,
           NEW p \in Path, Trail(p, s, me, topic), p.budget > 0,
           NEW pair \in From(Last(p.hops)), ~Contains(p.hops, pair[2]), Covers(pair, topic)
    PROVE  Trail(Followed(p, pair), s + 1, me, topic)
  <1> DEFINE q == Followed(p, pair)
             from == p.hops[s + 1]
             to == pair[2]
  <1>1. p.hops \in Seq(People) /\ p.weights \in Seq(Nat) /\ p.budget \in Int
    BY DEF Path
  <1>2. Len(p.hops) = s + 1 /\ Len(p.weights) = s /\ p.hops[1] = me
    BY DEF Trail
  <1>3. Last(p.hops) = from
    BY <1>1, <1>2 DEF Last
  <1>4. pair \in Delegable /\ delegations[pair] # Absent /\ pair[1] = from
    BY <1>3 DEF From
  <1>5. pair = <<from, to>> /\ to \in People
    BY <1>4, TrustDeskAssumption
  <1>6. delegations[pair].weight \in Nat /\ delegations[pair].depth_limit \in Nat \cup {NoLimit}
    BY <1>4, OfferIs
  <1>7. /\ q.hops = Append(p.hops, to) /\ q.weights = Append(p.weights, delegations[pair].weight)
        /\ q.budget = Budget(p.budget, delegations[pair].depth_limit)
    BY DEF Followed
  <1>8. /\ Len(q.hops) = s + 2 /\ q.hops[s + 2] = to
        /\ \A i \in 1 .. s + 1 : q.hops[i] = p.hops[i]
    BY <1>1, <1>2, <1>5, <1>7
  <1>9. /\ Len(q.weights) = s + 1 /\ q.weights[s + 1] = delegations[pair].weight
        /\ \A i \in 1 .. s : q.weights[i] = p.weights[i]
    BY <1>1, <1>2, <1>6, <1>7
  <1>10. /\ q.budget \in Int /\ q.budget >= 0 /\ q.budget <= p.budget - 1
         /\ delegations[pair].depth_limit # NoLimit => q.budget <= delegations[pair].depth_limit
    BY <1>1, <1>6, <1>7, p.budget > 0 DEF Budget
  <1>11. \A i \in 1 .. s + 1 : p.hops[i] # to
    BY <1>1, <1>2 DEF Contains
  <1> HIDE DEF q, from, to
  <1>12. \A i, j \in 1 .. s + 2 : q.hops[i] = q.hops[j] => i = j
    <2> SUFFICES ASSUME NEW i \in 1 .. s + 2, NEW j \in 1 .. s + 2, q.hops[i] = q.hops[j]
                 PROVE  i = j
      OBVIOUS
    <2>1. \A k \in 1 .. s + 2 : k = s + 2 \/ k \in 1 .. s + 1
      OBVIOUS
    <2>2. CASE i \in 1 .. s + 1 /\ j \in 1 .. s + 1
      BY <1>8, <2>2 DEF Trail
    <2>3. CASE i = s + 2 /\ j \in 1 .. s + 1
      BY <1>8, <1>11, <2>3
    <2>4. CASE j = s + 2 /\ i \in 1 .. s + 1
      BY <1>8, <1>11, <2>4
    <2> QED
      BY <2>1, <2>2, <2>3, <2>4
  <1>13. ASSUME NEW i \in 1 .. s + 1
         PROVE  LET e == <<q.hops[i], q.hops[i + 1]>>
                IN  /\ e \in From(q.hops[i]) /\ Covers(e, topic)
                    /\ q.weights[i] = delegations[e].weight
                    /\ delegations[e].depth_limit # NoLimit =>
                          q.budget + ((s + 1) - i) <= delegations[e].depth_limit
    <2>1. CASE i = s + 1
      <3>1. q.hops[i] = from /\ q.hops[i + 1] = to
        BY <1>8, <2>1 DEF from
      <3>2. q.budget + ((s + 1) - i) = q.budget
        BY <1>10, <2>1
      <3> QED
        BY <1>3, <1>5, <1>9, <1>10, <2>1, <3>1, <3>2
    <2>2. CASE i # s + 1
      <3>1. i \in 1 .. s /\ i + 1 \in 1 .. s + 1
        BY <2>2
      <3>2. PICK e : e = <<p.hops[i], p.hops[i + 1]>>
        OBVIOUS
      <3>3. /\ e \in From(p.hops[i]) /\ Covers(e, topic) /\ p.weights[i] = delegations[e].weight
            /\ delegations[e].depth_limit # NoLimit =>
                  p.budget + (s - i) <= delegations[e].depth_limit
        BY <3>1, <3>2 DEF Trail
      <3>4. e \in Delegable /\ delegations[e] # Absent
        BY <3>3 DEF From
      <3>5. delegations[e].depth_limit \in Nat \cup {NoLimit}
        BY <3>4, OfferIs
      <3>6. delegations[e].depth_limit # NoLimit =>
              q.budget + ((s + 1) - i) <= delegations[e].depth_limit
        BY <1>1, <1>10, <3>1, <3>3, <3>5
      <3>7. e = <<q.hops[i], q.hops[i + 1]>> /\ q.hops[i] = p.hops[i] /\ q.weights[i] = p.weights[i]
        BY <1>8, <1>9, <3>1, <3>2
      <3> QED
        BY <3>3, <3>6, <3>7
    <2> QED
      BY <2>1, <2>2
  <1>14. q.hops[1] = me
    BY <1>2, <1>8
  <1>15. s + 1 + 1 = s + 2
    OBVIOUS
  <1> QED
    BY <1>8, <1>9, <1>10, <1>12, <1>13, <1>14, <1>15 DEF Trail, q

LEMMA QueuesTrail ==
    ASSUME TrustDeskTypeOK, NEW me \in People, NEW subject, NEW topic, NEW D \in Nat \ {0},
           NEW level, Queues(level, me, subject, topic, D)
    PROVE  \A s \in 0 .. D : \A p \in level[s] : Trail(p, s, me, topic)
  <1> DEFINE Odd == {s \in 0 .. D : \E p \in level[s] : ~Trail(p, s, me, topic)}
  <1> SUFFICES ASSUME Odd # {}
               PROVE  FALSE
    OBVIOUS
  <1>1. Odd \in SUBSET Nat
    OBVIOUS
  <1>2. PICK s \in Odd : \A m \in Odd : s <= m
    BY <1>1, LeastExists
  <1>3. PICK q \in level[s] : ~Trail(q, s, me, topic)
    BY <1>2
  <1>4. s # 0
    <2> SUFFICES ASSUME s = 0
                 PROVE  FALSE
      OBVIOUS
    <2>1. q = [hops |-> <<me>>, weights |-> << >>, budget |-> D]
      BY <1>3 DEF Queues
    <2>2. q.hops = <<me>> /\ q.weights = << >> /\ q.budget = D
      BY <2>1
    <2>3. Trail(q, 0, me, topic)
      BY <2>2 DEF Trail
    <2> QED
      BY <1>3, <2>3
  <1>5. s \in 1 .. D /\ s - 1 \in 0 .. D /\ s - 1 \in Nat /\ (s - 1) + 1 = s /\ ~(s <= s - 1)
    BY <1>2, <1>4
  <1>6. PICK p \in level[s - 1] : p.budget > 0 /\ q \in Onward(p, Asked(me, D), topic)
    BY <1>3, <1>5 DEF Queues
  <1>7. p \in Path
    BY <1>5 DEF Queues
  <1>8. Trail(p, s - 1, me, topic)
    BY <1>2, <1>5
  <1>9. PICK pair \in From(Last(p.hops)) :
            ~Contains(p.hops, pair[2]) /\ Covers(pair, topic) /\ q = Followed(p, pair)
    BY <1>6 DEF Onward
  <1>10. Trail(Followed(p, pair), (s - 1) + 1, me, topic)
    BY <1>5, <1>6, <1>7, <1>8, <1>9, FollowedTrail
  <1> QED
    BY <1>3, <1>5, <1>9, <1>10

\* A way along delegations from me, step by step.
Along(way, n, me) ==
    /\ n \in Nat \ {0} /\ way \in [1 .. n -> People] /\ way[1] = me
    /\ \A i \in 1 .. n - 1 : <<way[i], way[i + 1]>> \in From(way[i])

\* Whoever is on a way has been asked by the time the search gets there.
LEMMA WayIsAsked ==
    ASSUME NEW me \in People, NEW D \in Nat \ {0}, NEW n, NEW way, Along(way, n, me),
           NEW j \in 1 .. n, j <= D
    PROVE  way[j] \in Asked(me, D)
  <1>1. PICK seen : /\ Asked(me, D) = seen[D] /\ seen[1] = {me}
                    /\ \A r \in 2 .. D : seen[r] = seen[r - 1] \cup Trusted(seen[r - 1])
    BY AskedIs
  <1> DEFINE Odd == {r \in 1 .. D : \E i \in 1 .. n : i <= r /\ way[i] \notin seen[r]}
  <1>2. Odd = {}
    <2> SUFFICES ASSUME Odd # {}
                 PROVE  FALSE
      OBVIOUS
    <2>1. Odd \in SUBSET Nat
      OBVIOUS
    <2>2. PICK r \in Odd : \A m \in Odd : r <= m
      BY <2>1, LeastExists
    <2>3. PICK i \in 1 .. n : i <= r /\ way[i] \notin seen[r]
      BY <2>2
    <2>4. n \in Nat /\ way[1] = me
      BY DEF Along
    <2>5. r # 1
      BY <1>1, <2>3, <2>4
    <2>6. r \in 2 .. D /\ r - 1 \in 1 .. D /\ ~(r <= r - 1)
      BY <2>2, <2>5
    <2>7. \A k \in 1 .. n : k <= r - 1 => way[k] \in seen[r - 1]
      BY <2>2, <2>6
    <2>8. seen[r - 1] \subseteq seen[r]
      BY <1>1, <2>6
    <2>9. i = r
      BY <2>2, <2>3, <2>4, <2>6, <2>7, <2>8
    <2>10. i - 1 \in 1 .. n /\ i - 1 \in 1 .. n - 1 /\ i - 1 <= r - 1 /\ (i - 1) + 1 = i
      BY <2>4, <2>6, <2>9
    <2>11. way[i - 1] \in seen[r - 1] /\ <<way[i - 1], way[i]>> \in From(way[i - 1])
      BY <2>7, <2>10 DEF Along
    <2>12. way[i] \in Trusted(seen[r - 1])
      <3>1. <<way[i - 1], way[i]>>[2] = way[i]
        OBVIOUS
      <3>2. <<way[i - 1], way[i]>> \in UNION {From(k) : k \in seen[r - 1]}
        BY <2>11
      <3> QED
        BY <3>1, <3>2 DEF Trusted
    <2> QED
      BY <1>1, <2>3, <2>6, <2>12
  <1>3. D \in 1 .. D
    OBVIOUS
  <1> QED
    BY <1>1, <1>2, <1>3

\* A path of the queue that has followed a way for s steps, with budget enough
\* for the rest of it.
Follows(p, s, way, n) ==
    /\ Len(p.hops) = s + 1 /\ \A i \in 1 .. s + 1 : p.hops[i] = way[i]
    /\ Len(p.weights) = s
    /\ \A i \in 1 .. s : p.weights[i] = delegations[<<way[i], way[i + 1]>>].weight
    /\ p.budget >= n - 1 - s

\* What BestPath asks of a way, but for its two ends.
Allowed(way, n, topic) ==
    /\ \A i, j \in 1 .. n : way[i] = way[j] => i = j
    /\ \A i \in 1 .. n - 1 :
          LET pair == <<way[i], way[i + 1]>>
          IN  /\ pair \in From(way[i]) /\ Covers(pair, topic)
              /\ delegations[pair].depth_limit # NoLimit =>
                    n - 1 - i <= delegations[pair].depth_limit

LEMMA FollowsOn ==
    ASSUME TrustDeskTypeOK, NEW me \in People, NEW topic, NEW D \in Nat \ {0},
           NEW n, NEW way, Along(way, n, me), Allowed(way, n, topic), n <= D + 1,
           NEW s \in Nat, s < n - 1, NEW p \in Path, Follows(p, s, way, n)
    PROVE  /\ p.budget > 0 /\ Last(p.hops) = way[s + 1]
           /\ \E q \in Onward(p, Asked(me, D), topic) : Follows(q, s + 1, way, n)
  <1>1. p.hops \in Seq(People) /\ p.weights \in Seq(Nat) /\ p.budget \in Int
    BY DEF Path
  <1>2. /\ Len(p.hops) = s + 1 /\ \A i \in 1 .. s + 1 : p.hops[i] = way[i]
        /\ Len(p.weights) = s /\ p.budget >= n - 1 - s
        /\ \A i \in 1 .. s : p.weights[i] = delegations[<<way[i], way[i + 1]>>].weight
    BY DEF Follows
  <1>3. /\ n \in Nat /\ s + 1 \in 1 .. n - 1 /\ s + 1 \in 1 .. n /\ s + 2 \in 1 .. n
        /\ s + 1 <= D /\ (s + 1) + 1 = s + 2 /\ s + 1 \in 1 .. s + 1
    BY DEF Along
  <1> DEFINE to == way[s + 2]
             pair == <<way[s + 1], to>>
             q == Followed(p, pair)
  <1>4. Last(p.hops) = way[s + 1]
    BY <1>1, <1>2, <1>3 DEF Last
  <1>5. p.budget > 0
    BY <1>1, <1>2, <1>3
  <1>6. /\ pair \in From(way[s + 1]) /\ Covers(pair, topic)
        /\ delegations[pair].depth_limit # NoLimit =>
              n - 1 - (s + 1) <= delegations[pair].depth_limit
    BY <1>3 DEF Allowed
  <1>7. pair \in Delegable /\ delegations[pair] # Absent /\ pair[2] = to /\ to \in People
    BY <1>3, <1>6 DEF From, Along
  <1>8. way[s + 1] \in Asked(me, D)
    BY <1>3, WayIsAsked
  <1>9. ~Contains(p.hops, to)
    <2> SUFFICES ASSUME NEW i \in 1 .. s + 1, p.hops[i] = to
                 PROVE  FALSE
      BY <1>1, <1>2 DEF Contains
    <2>1. i \in 1 .. n /\ i # s + 2 /\ way[i] = way[s + 2]
      BY <1>2, <1>3
    <2> QED
      BY <1>3, <2>1 DEF Allowed
  <1> HIDE DEF pair, to
  <1>10. q \in Onward(p, Asked(me, D), topic)
    BY <1>4, <1>6, <1>7, <1>8, <1>9 DEF Onward
  <1>11. delegations[pair].weight \in Nat /\ delegations[pair].depth_limit \in Nat \cup {NoLimit}
    BY <1>7, OfferIs
  <1>12. /\ q.hops = Append(p.hops, to) /\ q.weights = Append(p.weights, delegations[pair].weight)
         /\ q.budget = Budget(p.budget, delegations[pair].depth_limit)
    BY <1>7 DEF Followed
  <1> HIDE DEF q
  <1>13. /\ Len(q.hops) = s + 2 /\ q.hops[s + 2] = to
         /\ \A i \in 1 .. s + 1 : q.hops[i] = p.hops[i]
    BY <1>1, <1>2, <1>7, <1>12
  <1>14. /\ Len(q.weights) = s + 1 /\ q.weights[s + 1] = delegations[pair].weight
         /\ \A i \in 1 .. s : q.weights[i] = p.weights[i]
    BY <1>1, <1>2, <1>11, <1>12
  <1>15. q.budget >= n - 1 - (s + 1)
    BY <1>1, <1>2, <1>3, <1>6, <1>11, <1>12 DEF Budget
  <1>16. \A i \in 1 .. s + 2 : q.hops[i] = way[i]
    <2>1. \A i \in 1 .. s + 2 : i = s + 2 \/ i \in 1 .. s + 1
      OBVIOUS
    <2> QED
      BY <1>2, <1>13, <2>1 DEF to
  <1>17. \A i \in 1 .. s + 1 : q.weights[i] = delegations[<<way[i], way[i + 1]>>].weight
    <2>1. \A i \in 1 .. s + 1 : i = s + 1 \/ i \in 1 .. s
      OBVIOUS
    <2>2. q.weights[s + 1] = delegations[<<way[s + 1], way[(s + 1) + 1]>>].weight
      BY <1>3, <1>14 DEF pair, to
    <2> QED
      BY <1>2, <1>14, <2>1, <2>2
  <1>18. Follows(q, s + 1, way, n)
    BY <1>3, <1>13, <1>14, <1>15, <1>16, <1>17 DEF Follows
  <1> QED
    BY <1>4, <1>5, <1>10, <1>18

\* The search follows every way there is, as far as it goes.
LEMMA WayIsFollowed ==
    ASSUME TrustDeskTypeOK, NEW me \in People, NEW subject, NEW topic, NEW D \in Nat \ {0},
           NEW level, Queues(level, me, subject, topic, D),
           NEW n, NEW way, Along(way, n, me), Allowed(way, n, topic), n <= D + 1, way[n] = subject
    PROVE  \A s \in 0 .. n - 1 : \E p \in level[s] : Follows(p, s, way, n)
  <1>1. n \in Nat /\ n # 0 /\ way[1] = me /\ n - 1 <= D
    BY DEF Along
  <1> DEFINE Odd == {s \in 0 .. n - 1 : ~ \E p \in level[s] : Follows(p, s, way, n)}
  <1> SUFFICES ASSUME Odd # {}
               PROVE  FALSE
    OBVIOUS
  <1>2. Odd \in SUBSET Nat
    OBVIOUS
  <1>3. PICK s \in Odd : \A m \in Odd : s <= m
    BY <1>2, LeastExists
  <1>4. s # 0
    <2> SUFFICES ASSUME s = 0
                 PROVE  FALSE
      OBVIOUS
    <2> DEFINE p == [hops |-> <<me>>, weights |-> << >>, budget |-> D]
    <2>1. p.hops = <<me>> /\ p.weights = << >> /\ p.budget = D
      OBVIOUS
    <2>2. p \in level[0]
      BY DEF Queues
    <2> HIDE DEF p
    <2>3. Follows(p, 0, way, n)
      <3>1. Len(p.hops) = 0 + 1 /\ \A i \in 1 .. 0 + 1 : p.hops[i] = way[i]
        BY <1>1, <2>1
      <3>2. Len(p.weights) = 0 /\ \A i \in 1 .. 0 : p.weights[i] = delegations[<<way[i], way[i + 1]>>].weight
        BY <2>1
      <3>3. p.budget >= n - 1 - 0
        BY <1>1, <2>1
      <3> QED
        BY <3>1, <3>2, <3>3 DEF Follows
    <2> QED
      BY <1>3, <2>2, <2>3
  <1>5. /\ s \in 1 .. D /\ s - 1 \in 0 .. D /\ s - 1 \in 0 .. n - 1 /\ s - 1 \in Nat
        /\ s - 1 < n - 1 /\ (s - 1) + 1 = s /\ ~(s <= s - 1) /\ s \in 1 .. n /\ s # n /\ n \in 1 .. n
    BY <1>1, <1>3, <1>4
  <1>6. PICK p \in level[s - 1] : Follows(p, s - 1, way, n)
    BY <1>3, <1>5
  <1>7. p \in Path
    BY <1>5 DEF Queues
  <1>8. /\ p.budget > 0 /\ Last(p.hops) = way[(s - 1) + 1]
        /\ \E q \in Onward(p, Asked(me, D), topic) : Follows(q, (s - 1) + 1, way, n)
    BY <1>5, <1>6, <1>7, FollowsOn
  <1>9. Last(p.hops) # subject
    BY <1>5, <1>8 DEF Allowed
  <1>10. PICK q \in Onward(p, Asked(me, D), topic) : Follows(q, s, way, n)
    BY <1>5, <1>8
  <1>11. q \in level[s]
    BY <1>5, <1>6, <1>8, <1>9, <1>10 DEF Queues
  <1> QED
    BY <1>3, <1>10, <1>11

LEMMA WaysAre ==
    ASSUME NEW n \in Nat, NEW way \in [1 .. n -> People]
    PROVE  way \in Seq(People) /\ Len(way) = n /\ DOMAIN way = 1 .. n
  <1>1. way \in Seq(People) /\ DOMAIN way = 1 .. n
    OBVIOUS
  <1>2. Len(way) \in Nat /\ DOMAIN way = 1 .. Len(way)
    BY <1>1
  <1> QED
    BY <1>1, <1>2

\* Every path of the search is a way, and every way a path, of the same weights.
LEMMA PathsAndWays ==
    ASSUME TrustDeskTypeOK, NEW me \in People, NEW subject \in People, NEW topic, NEW D \in Nat \ {0},
           me # subject
    PROVE  TrustScore(me, subject, topic, D)
              = Max({0} \cup {WayScore(way) : way \in Ways(me, subject, topic, D)})
  <1>1. PICK level : /\ Queues(level, me, subject, topic, D)
                     /\ Paths(me, subject, topic, D) =
                           {p \in UNION {level[s] : s \in 1 .. D} : Last(p.hops) = subject}
    BY LevelsAre
  <1>2. ASSUME NEW p \in Paths(me, subject, topic, D)
        PROVE  \E way \in Ways(me, subject, topic, D) : WayScore(way) = CombinedScore(p.weights)
    <2>1. PICK s \in 1 .. D : p \in level[s] /\ Last(p.hops) = subject
      BY <1>1
    <2>2. s \in 0 .. D /\ s + 1 \in 2 .. D + 1 /\ s + 1 \in Nat /\ (s + 1) - 1 = s
      OBVIOUS
    <2>3. p \in Path
      BY <1>1, <2>1, <2>2 DEF Queues
    <2>4. Trail(p, s, me, topic)
      BY <1>1, <2>1, <2>2, QueuesTrail
    <2> DEFINE way == p.hops
               Weight(i) == delegations[<<way[i], way[i + 1]>>].weight
    <2>5. way \in Seq(People) /\ Len(way) = s + 1 /\ p.weights \in Seq(Nat) /\ Len(p.weights) = s
      BY <2>3, <2>4 DEF Path, Trail
    <2>6. way \in [1 .. s + 1 -> People] /\ DOMAIN way = 1 .. s + 1
      BY <2>5
    <2>7. way[1] = me /\ way[Len(way)] = subject
      BY <2>1, <2>4, <2>5 DEF Trail, Last
    <2>8. \A i, j \in DOMAIN way : way[i] = way[j] => i = j
      BY <2>4, <2>6 DEF Trail
    <2>9. ASSUME NEW i \in 1 .. Len(way) - 1
          PROVE  LET pair == <<way[i], way[i + 1]>>
                 IN  /\ pair \in From(way[i]) /\ Covers(pair, topic)
                     /\ delegations[pair].depth_limit # NoLimit =>
                           Len(way) - 1 - i <= delegations[pair].depth_limit
      <3>1. i \in 1 .. s /\ Len(way) - 1 - i = s - i
        BY <2>5
      <3>2. PICK pair : pair = <<way[i], way[i + 1]>>
        OBVIOUS
      <3>3. /\ pair \in From(way[i]) /\ Covers(pair, topic)
            /\ delegations[pair].depth_limit # NoLimit => p.budget + (s - i) <= delegations[pair].depth_limit
        BY <2>4, <3>1, <3>2 DEF Trail
      <3>4. delegations[pair].depth_limit \in Nat \cup {NoLimit}
        BY <3>3, OfferIs DEF From
      <3>5. p.budget \in Int /\ p.budget >= 0
        BY <2>3, <2>4 DEF Trail, Path
      <3>6. delegations[pair].depth_limit # NoLimit => s - i <= delegations[pair].depth_limit
        BY <3>1, <3>3, <3>4, <3>5
      <3> QED
        BY <3>1, <3>2, <3>3, <3>6
    <2>10. way \in UNION {[1 .. n -> People] : n \in 2 .. D + 1}
      BY <2>2, <2>6
    <2>11. way \in Ways(me, subject, topic, D)
      <3> HIDE DEF way
      <3> QED
        BY <2>7, <2>8, <2>9, <2>10 DEF Ways
    <2>12. p.weights = [i \in 1 .. Len(way) - 1 |-> Weight(i)]
      <3>1. p.weights = [i \in 1 .. s |-> p.weights[i]]
        BY <2>5
      <3>2. \A i \in 1 .. s : p.weights[i] = Weight(i)
        BY <2>4 DEF Trail
      <3> QED
        BY <2>2, <2>5, <3>1, <3>2
    <2> QED
      BY <2>11, <2>12 DEF WayScore
  <1>3. ASSUME NEW way \in Ways(me, subject, topic, D)
        PROVE  \E p \in Paths(me, subject, topic, D) : CombinedScore(p.weights) = WayScore(way)
    <2>1. PICK n \in 2 .. D + 1 : way \in [1 .. n -> People]
      BY DEF Ways
    <2>2. n \in Nat /\ n - 1 \in 0 .. n - 1 /\ n - 1 \in 1 .. D /\ n - 1 \in 0 .. D
          /\ (n - 1) + 1 = n /\ n <= D + 1 /\ n \in Nat \ {0}
      OBVIOUS
    <2>3. Len(way) = n /\ DOMAIN way = 1 .. n
      BY <2>1, <2>2, WaysAre
    <2>4. way[1] = me /\ way[n] = subject
      BY <2>3 DEF Ways
    <2>5. \A i \in 1 .. n - 1 :
             LET pair == <<way[i], way[i + 1]>>
             IN  /\ pair \in From(way[i]) /\ Covers(pair, topic)
                 /\ delegations[pair].depth_limit # NoLimit =>
                       n - 1 - i <= delegations[pair].depth_limit
      BY <2>3 DEF Ways
    <2>6. Allowed(way, n, topic)
      <3>1. \A i, j \in 1 .. n : way[i] = way[j] => i = j
        BY <2>3 DEF Ways
      <3> QED
        BY <2>5, <3>1 DEF Allowed
    <2>7. Along(way, n, me)
      BY <2>1, <2>2, <2>4, <2>5 DEF Along
    <2>8. PICK p \in level[n - 1] : Follows(p, n - 1, way, n)
      BY <1>1, <2>2, <2>4, <2>6, <2>7, WayIsFollowed
    <2>9. p \in Path
      BY <1>1, <2>2 DEF Queues
    <2>10. p.hops \in Seq(People) /\ p.weights \in Seq(Nat) /\ Len(p.hops) = n /\ Len(p.weights) = n - 1
      BY <2>2, <2>8, <2>9 DEF Path, Follows
    <2>11. Last(p.hops) = subject
      <3>1. n \in 1 .. (n - 1) + 1
        BY <2>2
      <3>2. p.hops[n] = way[n]
        BY <2>8, <3>1 DEF Follows
      <3> QED
        BY <2>4, <2>10, <3>2 DEF Last
    <2>12. p \in Paths(me, subject, topic, D)
      BY <1>1, <2>2, <2>8, <2>11
    <2> DEFINE Weight(i) == delegations[<<way[i], way[i + 1]>>].weight
    <2>13. p.weights = [i \in 1 .. Len(way) - 1 |-> Weight(i)]
      <3>1. p.weights = [i \in 1 .. n - 1 |-> p.weights[i]]
        BY <2>10
      <3>2. \A i \in 1 .. n - 1 : p.weights[i] = Weight(i)
        BY <2>8 DEF Follows
      <3> QED
        BY <2>3, <3>1, <3>2
    <2> QED
      BY <2>12, <2>13 DEF WayScore
  <1> DEFINE Scores == {CombinedScore(p.weights) : p \in Paths(me, subject, topic, D)}
             WayScores == {WayScore(way) : way \in Ways(me, subject, topic, D)}
  <1>4. \A x \in Scores : x \in WayScores
    BY <1>2
  <1>5. \A x \in WayScores : x \in Scores
    BY <1>3
  <1>6. TrustScore(me, subject, topic, D) = Max({0} \cup Scores)
    BY me # subject DEF TrustScore
  <1> HIDE DEF Scores, WayScores
  <1>7. Scores = WayScores
    BY <1>4, <1>5
  <1> QED
    BY <1>6, <1>7 DEF WayScores

LEMMA TypedFindsBest ==
    ASSUME TrustDeskTypeOK
    PROVE  BestPath
  <1>1. \A D \in 1 .. MaxHops : D \in Nat \ {0}
    BY TrustDeskAssumption
  <1> QED
    BY <1>1, PathsAndWays DEF BestPath

\* Whatever is delegated, the search along the queues with its budgets finds the
\* best of the ways the delegations allow, for any depth.
THEOREM SearchFindsBest == Spec => []BestPath
  <1>1. Init => TrustDeskTypeOK
    BY DEF Init, TrustDeskInit, TrustDeskTypeOK
  <1> QED
    BY <1>1, TrustTyped, TypedFindsBest, PTL DEF Spec
=============================================================================
