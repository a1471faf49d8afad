---------------------------- MODULE ClaimRelease ----------------------------
(***************************************************************************)
(* What the bridge tells an application about a person: _release_claims of *)
(* oidc/provider.py evaluates the presented attestations one after another *)
(* with evaluate_claim of core/relying_party.py, in a thread.  It asks for *)
(* the issuer's chain and for a revocation before the thread starts, not   *)
(* afterwards as verify_claim does.                                        *)
(*                                                                         *)
(* One claim type, since types are released independently; a presentation  *)
(* is an attestation with the document that belongs to it.                 *)
(***************************************************************************)
EXTENDS Attestations

CONSTANTS Rule,         \* the ClaimRule of the claim type
          Presented,    \* [method, assurance rank] of each attestation
          Presentations \* bound: the lists of attestations an app presents

ASSUME ClaimReleaseAssumption ==
    /\ Rule.issuers \subseteq Identities
    /\ Rule.min_assurance \in Nat /\ Rule.max_age \in Nat
    /\ {Rule.allow_proof, Rule.reject_if_recovered} \subseteq BOOLEAN
    /\ DOMAIN Presented = AttestationIds
    /\ \A a \in AttestationIds : Presented[a].assurance \in Nat
    /\ Presentations \subseteq Seq(AttestationIds)

VARIABLE release  \* the sign-in that is being approved, or None

ClaimReleaseInit == release = None

-----------------------------------------------------------------------------
(* core/relying_party.py *)

RecoveredSince_Before(i, n, chain_head) ==
    \E k \in 1 .. chain_head : k <= n /\ History[i][k].type = "social_recovery"

\* recovered_since(): a copy that lacks the state `chain_head` has none after it.
RecoveredSince(i, n, chain_head) ==
    \E k \in chain_head + 1 .. n : History[i][k].type = "social_recovery"

MethodOk(a) == Rule.methods = {} \/ Presented[a].method \in Rule.methods

\* Who may vouch: an issuer of the rule, or a proof if the rule takes proofs.
IssuerAccepted(att) == IF att.issuer = None THEN Rule.allow_proof ELSE att.issuer \in Rule.issuers

\* The checks of evaluate_claim() before it verifies, on a copy of length n.
RuleAccepts(a, n, revoked) ==
    LET att == Letters[a]
    IN  /\ HasClaim(Copy(att.subject, n), att.claim)
        /\ MethodOk(a) /\ Presented[a].assurance >= Rule.min_assurance
        /\ IssuerAccepted(att)
        /\ ~revoked
        /\ now <= att.issued_at + Rule.max_age
        /\ ~(Rule.reject_if_recovered /\ RecoveredSince(att.subject, n, att.chain_head))

\* evaluate_claim()
EvaluateClaim(a, n, issuer, revoked) ==
    RuleAccepts(a, n, revoked) /\ Verified(Letters[a], n, issuer)

-----------------------------------------------------------------------------
(* oidc/provider.py *)

\* Attestations about somebody else are passed over without waiting.
About(items, i) == Selected(items, {k \in DOMAIN items : Letters[items[k]].subject = i})

\* History: what the node holds of an issuer's chain.
HeldOf(issuer) == IF issuer = None THEN 0 ELSE held[issuer]

\* What the loop reads for the first of `items` before it waits; `supplied` is
\* the copy of the issuer's chain that comes with the presentation.
Reads(items, supplied) ==
    IF items = << >> THEN None
    ELSE [issuer |-> ResolvedIssuer(Letters[Head(items)], supplied),
          revoked |-> ~Unrevoked(Head(items)),
          theirs |-> HeldOf(Letters[Head(items)].issuer)]

\* _approve() with a chain for the person.
ReleaseStarts(i, provided, items, supplied) ==
    /\ release = None
    /\ ChooseSigchain(i, provided) # 0
    /\ release' = [identity |-> i, chain |-> ChooseSigchain(i, provided),
                   items |-> About(items, i), read |-> Reads(About(items, i), supplied),
                   best |-> None, passed |-> {},
                   mine |-> held[i], theirs |-> 0, barred |-> {a \in ToSet(items) : ~Unrevoked(a)}]

\* The loop takes up its next presentation.
ReleaseTurn(supplied) ==
    /\ release # None /\ release.items # << >> /\ release.read = None
    /\ release' = [release EXCEPT !.read = Reads(release.items, supplied)]

\* A later claim takes the place of an earlier one only if it is stronger.
Better(a, best) == best = None \/ Presented[a].assurance > Presented[best].assurance

Taken(passes) ==
    LET a == Head(release.items)
    IN  [release EXCEPT !.items = Tail(@), !.read = None,
                        !.best = IF passes /\ Better(a, @) THEN a ELSE @,
                        !.theirs = IF passes /\ Better(a, release.best) THEN release.read.theirs ELSE @,
                        !.passed = IF passes THEN @ \cup {a} ELSE @]

\* The thread evaluates it at the time it runs; a proof may be judged either
\* way, by its certificate and the name in it.
ReleaseChecks ==
    /\ release # None /\ release.read # None
    /\ LET a == Head(release.items)
           good == EvaluateClaim(a, release.chain, release.read.issuer, release.read.revoked)
       IN  \/ release' = Taken(good)
           \/ Letters[a].issuer = None /\ release' = Taken(FALSE)

\* The code is minted with what was found.
ReleaseEnds ==
    /\ release # None /\ release.items = << >>
    /\ release' = None

-----------------------------------------------------------------------------

ReleaseTypeOK ==
    release # None =>
        /\ release.chain \in 1 .. Len(History[release.identity])
        /\ release.passed \subseteq AttestationIds /\ release.best \in release.passed \cup {None}

\* An application is told about a claim only on the word of an issuer its
\* bridge trusts.  When the sign-in was approved no revocation was stored, and
\* the claim was not withdrawn, nor the person recovered since, in the chain
\* the node had of him; when the presentation had its turn the issuer's device
\* was not revoked in the chain the node had of the issuer: whichever older
\* copies came along.  Of several good attestations the strongest is told.
ReleasedWasGood ==
    [][ReleaseEnds /\ release.best # None =>
          LET a == release.best
              att == Letters[a]
              Mine == Copy(att.subject, release.mine)
          IN  /\ \A b \in release.passed : Presented[b].assurance <= Presented[a].assurance
              /\ a \notin release.barred
              /\ HasClaim(Mine, att.claim) => ~GetClaim(Mine, att.claim).revoked
              /\ Rule.reject_if_recovered =>
                   \A k \in att.chain_head + 1 .. release.mine : Mine[k].type # "social_recovery"
              /\ att.issuer # None =>
                   /\ att.issuer \in Rule.issuers
                   /\ ~IsRevoked(Copy(att.issuer, release.theirs), att.signed_by)]_release
=============================================================================
