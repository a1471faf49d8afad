---------------------------- MODULE Attestations ----------------------------
(***************************************************************************)
(* Attestations and their revocations: post_attestation, post_revocation   *)
(* and verify_claim of api/claims.py over the checks of core/claims.py.    *)
(* The two POST handlers await nothing after the body; verify_claim hands  *)
(* its check to a thread and reads the revocations afterwards.             *)
(*                                                                         *)
(* `Letters` holds what issuers ever signed; a letter names the chain head *)
(* it was signed at by its length, and its type and commitment are those   *)
(* of the claim.  A letter whose issuer is None carries a proof instead of *)
(* a signature.                                                            *)
(***************************************************************************)
EXTENDS NodeChains

CONSTANTS AttestationIds,
          Letters,       \* the attestation of each id
          ClockSkew,     \* CLOCK_SKEW
          MaxPerClaim    \* MAX_ATTESTATIONS_PER_CLAIM

ASSUME AttestationsAssumption ==
    /\ Letters \in [AttestationIds ->
          [subject : Identities, claim : Claims, issuer : Identities \cup {None},
           signed_by : Keys \cup {None}, chain_head : Nat, issued_at : Nat, expires_at : Nat]]
    /\ None \notin AttestationIds \cup {"valid", "invalid"}
    /\ ClockSkew \in Nat /\ MaxPerClaim \in Nat

VARIABLES attestations,  \* attestations table: the stored ids
          revocations,   \* attestation_revocations table: the issuer, or None
          verifying,     \* the verify_claim call that waits for its thread, or None
          verdict        \* history: what verify_claim said last, or None

attestationVars == <<attestations, revocations, verifying, verdict>>

AttestationsInit ==
    /\ attestations = {} /\ revocations = [a \in AttestationIds |-> None]
    /\ verifying = None /\ verdict = None

-----------------------------------------------------------------------------
(* core/claims.py *)

\* issuer_key_check on a copy of length n.
IssuerKeyOk(issuer, n, signed_by) ==
    /\ ~IsMaster(issuer, n, signed_by)
    /\ ActiveDevice(issuer, n, signed_by)
    /\ Grants(issuer, n, signed_by, "sign_identity")

\* verify_attestation of a signed letter, on copies of length s and n.
Verified(att, s, n) ==
    /\ ActiveClaim(att.subject, s, att.claim)
    /\ att.issued_at <= now + ClockSkew /\ now <= att.expires_at
    /\ att.chain_head <= s
    /\ att.issuer # None => IssuerKeyOk(att.issuer, n, att.signed_by)

\* resolve_chain of the issuer; there is none to find for a proof.
ResolvedIssuer(att, supplied) == IF att.issuer = None THEN 0 ELSE ChooseSigchain(att.issuer, supplied)

Resolves(att, subject, issuer) ==
    /\ ChooseSigchain(att.subject, subject) # 0
    /\ att.issuer # None => ResolvedIssuer(att, issuer) # 0

-----------------------------------------------------------------------------
(* The handlers *)

\* list_attestations(subject, claim_id): those that count against the cap.
OfClaim(att) ==
    {a \in attestations : Letters[a].subject = att.subject /\ Letters[a].claim = att.claim}

\* get_attestation_revocation(a) is None
Unrevoked(a) == revocations[a] = None

SaveAttestation(a) == attestations' = attestations \cup {a}

\* A second revocation of the same id takes the place of the first.
SaveRevocation(a, issuer) == revocations' = [revocations EXCEPT ![a] = issuer]

PostAttestation(a, subject, issuer) ==
    LET att == Letters[a]
    IN  /\ att.issuer # None
        /\ Resolves(att, subject, issuer)
        /\ Verified(att, ChooseSigchain(att.subject, subject), ResolvedIssuer(att, issuer))
        /\ Unrevoked(a)
        /\ a \in attestations \/ Cardinality(OfClaim(att)) < MaxPerClaim
        /\ SaveAttestation(a)
        /\ UNCHANGED <<revocations, verifying, verdict>>

MayRevoke_Anybody(a, issuer) == TRUE

\* "Only the issuer can revoke an attestation": of one that is stored.
MayRevoke(a, issuer) == a \in attestations => Letters[a].issuer = issuer

PostRevocation(a, issuer, signed_by, supplied) ==
    LET n == ChooseSigchain(issuer, supplied)
    IN  /\ n # 0
        /\ IssuerKeyOk(issuer, n, signed_by)
        /\ MayRevoke(a, issuer)
        /\ SaveRevocation(a, issuer)
        /\ UNCHANGED <<attestations, verifying, verdict>>

\* verify_claim up to run_in_executor.  `knew`, what the node held of the two
\* chains at this moment, is history.
VerifyClaim(a, subject, issuer) ==
    LET att == Letters[a]
    IN  /\ verifying = None
        /\ Resolves(att, subject, issuer)
        /\ verifying' = [attestation |-> a, step |-> "queued",
                         subject |-> ChooseSigchain(att.subject, subject),
                         issuer |-> ResolvedIssuer(att, issuer),
                         knew |-> [i \in Identities |->
                                      IF i \in {att.subject, att.issuer} THEN held[i] ELSE 0]]
        /\ verdict' = None
        /\ UNCHANGED <<attestations, revocations>>

Answered(valid) ==
    /\ verdict' = IF valid THEN "valid" ELSE "invalid"
    /\ verifying' = None

\* The chains are not looked at again.
Passed ==
    /\ verifying' = [verifying EXCEPT !.step = "checked", !.subject = 0, !.issuer = 0]
    /\ UNCHANGED verdict

\* The thread checks at the time it runs; of a proof it may say either.
VerifyClaimChecks ==
    /\ verifying # None /\ verifying.step = "queued"
    /\ LET a == verifying.attestation
       IN  IF Verified(Letters[a], verifying.subject, verifying.issuer)
           THEN \/ Passed
                \/ Letters[a].issuer = None /\ Answered(FALSE)
           ELSE Answered(FALSE)
    /\ UNCHANGED <<attestations, revocations>>

\* Back on the event loop: revocations are asked about signed letters only.
VerifyClaimAnswers ==
    /\ verifying # None /\ verifying.step = "checked"
    /\ LET a == verifying.attestation
       IN  Answered(Letters[a].issuer # None => Unrevoked(a))
    /\ UNCHANGED <<attestations, revocations>>

-----------------------------------------------------------------------------

AttestationsTypeOK ==
    /\ attestations \subseteq AttestationIds
    /\ revocations \in [AttestationIds -> Identities \cup {None}]
    /\ verifying = None \/ verifying \in
          [attestation : AttestationIds, step : {"queued", "checked"}, subject : Nat, issuer : Nat,
           knew : [Identities -> Nat]]
    /\ verdict \in {None, "valid", "invalid"}

\* A revocation may be stored before its attestation, when nobody can say whose
\* it is.  Whichever comes first, and however often either is sent again: a
\* stored attestation is never withdrawn by anyone but its own issuer.
OnlyItsIssuerRevokes ==
    \A a \in attestations : revocations[a] # None => revocations[a] = Letters[a].issuer

\* "valid" is true when it is said, as far as this node knows: no revocation is
\* stored then, even one that came while the thread was busy, and no chain the
\* node held when it was asked withdraws the claim or the issuer's device,
\* whichever older copies the caller sent along.
ValidWasUnrevoked ==
    [][verifying # None /\ verdict' = "valid" =>
          LET a == verifying.attestation
              Knew(i) == Copy(i, verifying.knew[i])
          IN  /\ HasClaim(Knew(Letters[a].subject), Letters[a].claim)
                   => ~GetClaim(Knew(Letters[a].subject), Letters[a].claim).revoked
              /\ Letters[a].issuer # None =>
                   /\ revocations[a] = None
                   /\ ~IsRevoked(Knew(Letters[a].issuer), Letters[a].signed_by)]_<<verifying, verdict>>
=============================================================================
