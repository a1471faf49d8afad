---------------------------- MODULE NodeServices ----------------------------
(***************************************************************************)
(* The services of one node that read the sigchain table: published claim  *)
(* documents, attestations, what a sign-in at the bridge releases, native  *)
(* sign-on, trust, and the relay poller.                                   *)
(*                                                                         *)
(* They have the table and the clock in common and nothing else, and the   *)
(* table changes under each of them whatever the others do (ChainStored).  *)
(* So a behaviour puts its requests to one of them, `desk`: the services   *)
(* side by side would multiply states that never meet.                     *)
(***************************************************************************)
EXTENDS ClaimDocuments, ClaimRelease, SessionDesk, TrustDesk, RelayPoller

CONSTANTS Desks,     \* which services are asked
          ReadBy,    \* the identities whose chain a service reads
          Stamps     \* times that a caller may put on what he signs

ASSUME NodeServicesAssumption ==
    /\ Desks \subseteq {"documents", "attestations", "bridge", "sessions", "trust", "poller"}
    /\ Desks \subseteq DOMAIN ReadBy
    /\ \A service \in Desks : ReadBy[service] \subseteq Identities
    /\ Stamps \subseteq Nat

VARIABLE desk

vars == <<desk, now, held, documentVars, attestationVars, release, sessionVars, delegations, pollerVars>>

Init ==
    /\ desk \in Desks
    /\ ClockInit /\ NodeChainsInit /\ ClaimDocumentsInit /\ AttestationsInit
    /\ ClaimReleaseInit /\ SessionDeskInit /\ TrustDeskInit /\ RelayPollerInit

Only(service) == desk = service /\ UNCHANGED <<desk, now>>

ServicesKeep ==
    UNCHANGED <<documentVars, attestationVars, release, sessionVars, delegations, pollerVars>>

-----------------------------------------------------------------------------

\* The keys that some copy of a chain names; no check lets another one pass.
KeysIn(i) == {event.key : event \in ToSet(History[i])} \ {None}

OtherWriter ==
    /\ \/ desk = "sessions"
          /\ \E n \in Around[Visitor] : RowChanges(n)
       \/ desk # "sessions"
          /\ \E i \in ReadBy[desk] : \E n \in Around[i] : ChainStored(i, n)
          /\ UNCHANGED sessionVars
    /\ UNCHANGED <<desk, now, documentVars, attestationVars, release, delegations, pollerVars>>

TimePasses ==
    /\ desk \in {"documents", "attestations", "bridge", "sessions"}
    /\ Tick
    /\ UNCHANGED <<desk, held>> /\ ServicesKeep

Documents ==
    /\ Only("documents")
    /\ \E c \in Claims, issued_at \in Stamps, signed_by \in KeysIn(Publisher) :
          Unpublish(c, issued_at, signed_by) \/ Publish(c, issued_at, signed_by)
    /\ UNCHANGED <<held, attestationVars, release, sessionVars, delegations, pollerVars>>

\* The copies of its chain a caller may send along; 0 for none.
Supplied(i) == IF i = None THEN {0} ELSE {0} \cup Around[i]

\* The letters a service is asked about.
LettersAt == {a \in AttestationIds : Letters[a].subject \in ReadBy[desk]}

RevocationPosted ==
    \E a \in LettersAt, issuer \in ReadBy[desk] :
       \E signed_by \in KeysIn(issuer), supplied \in Supplied(issuer) :
          PostRevocation(a, issuer, signed_by, supplied)

Attesting ==
    /\ Only("attestations")
    /\ \/ \E a \in LettersAt :
             \E subject \in Supplied(Letters[a].subject), issuer \in Supplied(Letters[a].issuer) :
                PostAttestation(a, subject, issuer) \/ VerifyClaim(a, subject, issuer)
       \/ RevocationPosted
       \/ VerifyClaimChecks
       \/ VerifyClaimAnswers
    /\ UNCHANGED <<held, documentVars, release, sessionVars, delegations, pollerVars>>

\* The copies that may come with the first of these presentations.
WithFirst(items) == Supplied(IF items = << >> THEN None ELSE Letters[Head(items)].issuer)

Releasing ==
    /\ Only("bridge")
    /\ \/ RevocationPosted /\ UNCHANGED release
       \/ /\ \/ \E i \in ReadBy[desk], items \in Presentations :
                   \E provided \in Supplied(i), supplied \in WithFirst(About(items, i)) :
                      ReleaseStarts(i, provided, items, supplied)
             \/ release # None /\ \E supplied \in WithFirst(release.items) : ReleaseTurn(supplied)
             \/ ReleaseChecks
             \/ ReleaseEnds
          /\ UNCHANGED attestationVars
    /\ UNCHANGED <<held, documentVars, sessionVars, delegations, pollerVars>>

\* Whatever the holder of a device's key can sign for a challenge.
Assertions ==
    [nonce : DOMAIN challenges, aud : Audiences, device : KeysIn(Visitor),
     iat : Stamps, exp : Stamps, chain_head : Around[Visitor]]

SigningOn ==
    /\ Only("sessions")
    /\ \/ \E aud \in Audiences, lifetime \in Lifetimes : Challenge(aud, lifetime)
       \/ \E nonce \in Nonces : PeekExpired(nonce)
       \/ \E a \in Assertions, supplied \in Supplied(Visitor) :
             VerifyHandler(a, supplied) \/ Login(a, supplied)
       \/ \E device \in KeysIn(Visitor), timestamp \in Stamps :
             \/ \E expires_in \in Lifetimes : CreateSession(device, timestamp, expires_in)
             \/ CreateToken(device, timestamp)
       \/ \E s \in sessions : DeleteSession(s) \/ GetSessionOver(s)
       \/ Cleanup
       \/ RestartNode
    /\ UNCHANGED <<held, documentVars, attestationVars, release, delegations, pollerVars>>

Trusting ==
    /\ Only("trust")
    /\ \E pair \in Delegable, offer \in Offers : CreateDelegation(pair, offer)
    /\ UNCHANGED <<held, documentVars, attestationVars, release, sessionVars, pollerVars>>

\* What the poller's task does on its own account, but for the interval.
PollerStep ==
    /\ Only("poller")
    /\ Wake \/ PointAnswers \/ PointFails \/ MessagesArrive
    /\ UNCHANGED <<documentVars, attestationVars, release, sessionVars, delegations>>

Relaying ==
    /\ Only("poller")
    /\ \/ \E i \in Relayable, points \in Offered : AddIdentity(i, points)
       \/ \E i \in Relayable : RemoveIdentity(i)
       \/ PollNow \/ Suspend \/ Resume \/ RestartPoller \/ WakeByInterval
    /\ UNCHANGED <<documentVars, attestationVars, release, sessionVars, delegations>>

Next ==
    OtherWriter \/ TimePasses \/ Documents \/ Attesting \/ Releasing \/ SigningOn \/ Trusting \/ PollerStep \/ Relaying

\* The event loop runs a task that can go on, and an HTTP request of the poller
\* ends within its 30 seconds; nothing is assumed of callers, of other writers
\* and of the interval.
Spec == Init /\ [][Next]_vars /\ WF_vars(PollerStep)

-----------------------------------------------------------------------------

\* The shape of the state.
TypeOK ==
    /\ desk \in Desks /\ now \in 0 .. MaxTime
    /\ \A i \in Identities : held[i] \in {0} \cup Around[i]
    /\ DOMAIN held = Identities
    /\ DocumentsTypeOK /\ AttestationsTypeOK /\ ReleaseTypeOK /\ SessionsTypeOK /\ TrustDeskTypeOK /\ PollerTypeOK
=============================================================================
