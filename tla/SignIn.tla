------------------------------ MODULE SignIn ------------------------------
(* The sign-ins of the OIDC bridge (P/oidc/provider.py and the checks of    *)
(* P/core/auth.py) on top of the fetcher.  Handlers are coroutines; one     *)
(* that approves waits for a thread to evaluate the claims presented        *)
(* (_release_claims), and everything else goes on meanwhile.                *)
EXTENDS IdentityFetcher

CONSTANTS Requests,        \* submit_assertion() calls in progress
          Signers,         \* identities whose owners sign in
          Heads,           \* chain heads that signers name
          Enrol, Revoke,   \* the events that grant and revoke the signing device
          MaxAttempts,     \* MAX_ATTEMPTS
          MaxFailures,     \* MAX_FAILURES
          Elsewhere,       \* identities that other parts of the server store, too
          MaxRenewals,     \* bound: challenges renewed, in all sign-ins
          MaxLoad          \* bound: what happens in one behaviour, by Load

VARIABLES attempt,         \* OIDCProvider.attempts in the order of creation
          approval,        \* what requests and worker hold while they wait in _approve()
          callback,        \* the local variables of on_identity_update()
          codes,           \* all codes minted, and what became of them
          restarts

vars == <<stored, row, worker, attempt, approval, callback, codes, restarts>>

Worker == "worker"
Callers == Requests \cup {Worker}

ASSUME SignInAssumption ==
  /\ Signers \subseteq Identities
  /\ Worker \notin Requests
  /\ MaxFailures \in Nat \ {0}
  /\ MaxRenewals \in Nat

Nothing == [nonce |-> 0]   \* no assertion, no approval in progress
NoCallback == [next |-> 0, upto |-> 0, chain |-> NoChain]

Assertions ==
  [nonce : 1..MaxRenewals + 1, identity : Signers, head : Heads, signed : BOOLEAN, live : BOOLEAN]

----------------------------------------------------------------------------
(* A sign-in.  "late" is after expires_at, "stale" an AuthRequest that has  *)
(* expired, "presented" says that claims were presented that have to be     *)
(* evaluated.                                                               *)

NewAttempt ==
  [status |-> "waiting", late |-> FALSE, nonce |-> 1, stale |-> FALSE, held |-> Nothing,
   failures |-> 0, presented |-> FALSE, code |-> 0]

\* Decided sign-ins that are refreshed and judged like open ones.
Open_UntilLate(at) == at.status \notin {"failed", "expired", "gone"}

Open(at) == at.status \in {"waiting", "fetching"}
Exists(at) == at.status # "gone"

\* Expiry that forgets to drop the assertion.
Refreshed_Keeps(at) ==
  IF at.status \in {"waiting", "fetching"} /\ at.late THEN [at EXCEPT !.status = "expired"] ELSE at

\* _refresh()
Refreshed(at) ==
  IF Open(at) /\ at.late THEN [at EXCEPT !.status = "expired", !.held = Nothing] ELSE at

\* A new AuthRequest.
Rotated(at) == [at EXCEPT !.nonce = @ + 1, !.stale = FALSE]

\* A revocation that is overlooked.
Authorized_Once(chain) == Enrol \in Range(chain)

\* The device may sign in: get_active_devices().
Authorized(chain) == Enrol \in Range(chain) /\ Revoke \notin Range(chain)

\* verify_assertion(): the first check that fails.
Verdict(asr, chain) ==
  CASE ~asr.live -> "expired"
    [] asr.live /\ ~Valid(chain) -> "invalid_sigchain"
    [] asr.live /\ Valid(chain) /\ asr.head \notin Range(chain) -> "unknown_chain_head"
    [] OTHER -> IF ~Authorized(chain) THEN "device_not_authorized"
                ELSE IF ~asr.signed THEN "bad_signature" ELSE "ok"

----------------------------------------------------------------------------
(* What handlers and the callback have in common.  "at" is the attempt as   *)
(* the caller has changed it so far, "by" the request or Worker.          *)

NewCode(a, asr) == [attempt |-> a, nonce |-> asr.nonce, identity |-> asr.identity, live |-> TRUE]

\* The end of _approve().
Mint(a, at, asr) ==
  /\ codes' = Append(codes, NewCode(a, asr))
  /\ attempt' = [attempt EXCEPT ![a] =
       IF Exists(at) THEN [at EXCEPT !.status = "approved", !.held = Nothing,
                                     !.presented = FALSE, !.code = Len(codes) + 1]
       ELSE at]

\* _approve(): at once, or after the claims were evaluated.
Approves(a, at, asr) == ~at.presented /\ Mint(a, at, asr)
Suspends(a, at) == at.presented /\ attempt' = [attempt EXCEPT ![a] = at] /\ UNCHANGED codes

\* _start_fetch()
StartFetch(a, at, asr) ==
  /\ UNCHANGED codes
  /\ \/ /\ QueueFull(asr.identity)
        /\ attempt' = [attempt EXCEPT ![a] = at]
        /\ UNCHANGED row
     \/ /\ ~QueueFull(asr.identity)
        /\ row' = [row EXCEPT ![asr.identity] = Scheduled(@, asr.head)]
        /\ attempt' = [attempt EXCEPT ![a] = [at EXCEPT !.status = "fetching", !.held = asr]]

\* A limit that is compared before it counts.
Rejected_Late(at, verdict, afterFetch) ==
  LET freed == [at EXCEPT !.held = Nothing, !.status = "waiting"]
      counted == [freed EXCEPT !.failures = @ + 1]
  IN IF afterFetch /\ verdict = "expired" THEN Rotated(freed)
     ELSE IF at.failures >= MaxFailures THEN [counted EXCEPT !.status = "failed"]
     ELSE counted

\* The outcome of a rejected assertion in _evaluate().
Rejected(at, verdict, afterFetch) ==
  LET freed == [at EXCEPT !.held = Nothing, !.status = "waiting"]
      counted == [freed EXCEPT !.failures = @ + 1]
  IN IF afterFetch /\ verdict = "expired" THEN Rotated(freed)
     ELSE IF counted.failures >= MaxFailures THEN [counted EXCEPT !.status = "failed"]
     ELSE counted

\* _evaluate() as far as it does not approve.
Refuses(a, at, asr, chain, afterFetch) ==
  LET verdict == Verdict(asr, chain) IN
  \/ verdict = "unknown_chain_head" /\ StartFetch(a, at, asr)
  \/ /\ verdict \notin {"ok", "unknown_chain_head"}
     /\ attempt' = [attempt EXCEPT ![a] = Rejected(at, verdict, afterFetch)]
     /\ UNCHANGED <<row, codes>>

----------------------------------------------------------------------------
(* Handlers *)

\* Bound: the challenges renewed, and those that will have to be.
Renewals(a) ==
  {<<a, n>> : n \in 2..attempt[a].nonce}
    \cup (IF attempt[a].stale THEN {<<a, 0>>} ELSE {})
    \cup (IF attempt[a].held # Nothing /\ ~attempt[a].held.live THEN {<<a, 1>>} ELSE {})
Renewed == Cardinality(UNION {Renewals(a) : a \in DOMAIN attempt})

\* Bound: a sign-in counts three times, and once each a restart, a renewed
\* challenge, and an identity that is known or fetched and does not sign in.
Load ==
  3 * Len(attempt) + restarts + Renewed
    + Cardinality({i \in Identities \ Signers : row[i].state # "none" \/ stored[i] # NoChain})

Room == Renewed < MaxRenewals /\ Load < MaxLoad

Init ==
  /\ FetcherInit
  /\ attempt = << >>
  /\ approval = [t \in Callers |-> Nothing]
  /\ callback = NoCallback
  /\ codes = << >>
  /\ restarts = 0

Forgotten(at) == [at EXCEPT !.status = "gone", !.held = Nothing]

\* cleanup() deletes attempts that are late for long, and expired codes.
CleanedAttempts(old) ==
  [a \in DOMAIN attempt |-> IF a \in old THEN Forgotten(attempt[a]) ELSE attempt[a]]
CleanedCodes(expired) ==
  [n \in DOMAIN codes |-> [codes[n] EXCEPT !.live = @ /\ n \notin expired]]

\* Nobody looks at the time of a sign-in that is decided, so it may be past.
Deletable == {a \in DOMAIN attempt : Exists(attempt[a]) /\ (attempt[a].late \/ ~Open(attempt[a]))}
Live == {n \in DOMAIN codes : codes[n].live}

\* create_attempt(): cleanup() first; a login hint of an unknown identity
\* starts a fetch, and whether the queue took it is ignored.
CreateAttempt(hint, old, expired) ==
  LET kept == CleanedAttempts(old)
  IN /\ Yielded
     /\ codes' = CleanedCodes(expired)
     /\ \/ /\ Cardinality({a \in DOMAIN kept : Exists(kept[a])}) >= MaxAttempts
           /\ attempt' = kept
           /\ UNCHANGED row
        \/ /\ Cardinality({a \in DOMAIN kept : Exists(kept[a])}) < MaxAttempts
           /\ attempt' = Append(kept, NewAttempt)
           /\ row' = IF hint = NoWant \/ stored[hint] # NoChain \/ QueueFull(hint) THEN row
                     ELSE [row EXCEPT ![hint] = Scheduled(@, NoWant)]
     /\ UNCHANGED <<stored, worker, approval, callback, restarts>>
     /\ Load' <= MaxLoad

\* The browser polls: get_attempt() and status().
Poll(a) ==
  /\ Yielded
  /\ attempt' = [attempt EXCEPT ![a] = Refreshed(@)]
  /\ attempt' # attempt
  /\ UNCHANGED <<stored, row, worker, approval, callback, codes, restarts>>

\* The app asks for the challenge, or answers an expired one.
GetChallenge(a) ==
  /\ Yielded
  /\ LET at == Refreshed(attempt[a])
     IN Open(at) /\ at.stale /\ attempt' = [attempt EXCEPT ![a] = Rotated(at)]
  /\ UNCHANGED <<stored, row, worker, approval, callback, codes, restarts>>

\* submit_assertion() of request t with an answer to the current challenge.
\* An assertion that has expired is refused like one without signature, or
\* kept like one that expires right afterwards.
Submit(t, a, asr, supplied, presents) ==
  LET at == [attempt[a] EXCEPT !.presented = presents]
      chain == Best(stored[asr.identity], supplied)
  IN /\ Yielded /\ approval[t] = Nothing
     /\ Open(Refreshed(at)) /\ ~at.stale /\ asr.nonce = at.nonce /\ asr.live
     /\ ~Diverge(stored[asr.identity], supplied)
     /\ \/ /\ chain = NoChain
           /\ StartFetch(a, at, asr)
           /\ UNCHANGED approval
        \/ /\ chain # NoChain
           /\ Refuses(a, at, asr, chain, FALSE)
           /\ UNCHANGED approval
        \/ /\ chain # NoChain /\ Verdict(asr, chain) = "ok"
           /\ Approves(a, at, asr)
           /\ UNCHANGED <<row, approval>>
        \/ /\ chain # NoChain /\ Verdict(asr, chain) = "ok"
           /\ Suspends(a, at)
           /\ approval' = [approval EXCEPT ![t] = [attempt |-> a, asr |-> asr]]
           /\ UNCHANGED row
     /\ UNCHANGED <<stored, worker, callback, restarts>>

\* The claims are evaluated, and request t approves.
ResumeApproval(t) ==
  /\ Yielded /\ approval[t] # Nothing
  /\ Mint(approval[t].attempt, attempt[approval[t].attempt], approval[t].asr)
  /\ approval' = [approval EXCEPT ![t] = Nothing]
  /\ UNCHANGED <<stored, row, worker, callback, restarts>>

\* exchange_code(): the code is used up, whether or not it is in time and
\* fits the client, the address and the verifier.
ExchangeCode(n) ==
  /\ Yielded /\ n \in Live
  /\ codes' = CleanedCodes({n})
  /\ UNCHANGED <<stored, row, worker, attempt, approval, callback, restarts>>

----------------------------------------------------------------------------
(* on_identity_update(): the worker goes through the attempts there were at *)
(* the beginning, with the chain it read then.                              *)

\* The loop goes to the next attempt, or ends.
Notified ==
  \/ /\ callback.next < callback.upto
     /\ callback' = [callback EXCEPT !.next = @ + 1]
     /\ worker' = [worker EXCEPT !.pc = "notify"]
  \/ /\ callback.next = callback.upto
     /\ callback' = NoCallback
     /\ worker' = NextRow(worker)

BeginCallback ==
  /\ worker.pc = "notify" /\ callback = NoCallback
  /\ IF attempt = << >>
     THEN worker' = NextRow(worker) /\ UNCHANGED callback
     ELSE /\ callback' = [next |-> 1, upto |-> Len(attempt), chain |-> stored[worker.id]]
          /\ UNCHANGED worker
  /\ UNCHANGED <<stored, row, attempt, approval, codes, restarts>>

\* The turn of attempt a in the loop.
CallbackTurn(a) ==
  LET at == Refreshed(attempt[a])
  IN /\ worker.pc = "notify" /\ callback.next = a
     /\ IF at.held # Nothing /\ at.held.identity = worker.id
        THEN \/ /\ Refuses(a, at, at.held, callback.chain, TRUE)
                /\ Notified
                /\ UNCHANGED approval
             \/ /\ Verdict(at.held, callback.chain) = "ok"
                /\ Approves(a, at, at.held)
                /\ Notified
                /\ UNCHANGED <<row, approval>>
             \/ /\ Verdict(at.held, callback.chain) = "ok"
                /\ Suspends(a, at)
                /\ approval' = [approval EXCEPT ![Worker] = [attempt |-> a, asr |-> at.held]]
                /\ worker' = [worker EXCEPT !.pc = "approving"]
                /\ UNCHANGED <<row, callback>>
        ELSE /\ attempt' = [attempt EXCEPT ![a] = at]
             /\ Notified
             /\ UNCHANGED <<row, approval, codes>>
     /\ UNCHANGED <<stored, restarts>>

\* The claims are evaluated, and the worker approves and goes on.
ResumeCallback ==
  /\ worker.pc = "approving"
  /\ LET held == approval[Worker] IN Mint(held.attempt, attempt[held.attempt], held.asr)
  /\ approval' = [approval EXCEPT ![Worker] = Nothing]
  /\ Notified
  /\ UNCHANGED <<stored, row, restarts>>

----------------------------------------------------------------------------
(* Surroundings *)

\* Another part of the server stores a longer copy of the chain.
StoredElsewhere(i, chain) ==
  /\ Yielded /\ i \in Elsewhere
  /\ Valid(chain) /\ IsStrictPrefix(stored[i], chain)
  /\ stored' = [stored EXCEPT ![i] = chain]
  /\ UNCHANGED <<row, worker, attempt, approval, callback, codes, restarts>>
  /\ Load' <= MaxLoad

\* Rows and chains are in the database, the rest is in memory.
Restart ==
  /\ restarts' = restarts + 1
  /\ worker' = Idle /\ callback' = NoCallback
  /\ attempt' = CleanedAttempts(DOMAIN attempt)
  /\ codes' = CleanedCodes(Live)
  /\ approval' = [t \in Callers |-> Nothing]
  /\ UNCHANGED <<stored, row>>
  /\ Load' <= MaxLoad

AttemptAges(a) ==
  /\ Open(attempt[a]) /\ ~attempt[a].late
  /\ attempt' = [attempt EXCEPT ![a].late = TRUE]
  /\ UNCHANGED <<stored, row, worker, approval, callback, codes, restarts>>

RequestLapses(a) ==
  /\ Open(attempt[a]) /\ ~attempt[a].stale /\ Room
  /\ attempt' = [attempt EXCEPT ![a].stale = TRUE]
  /\ UNCHANGED <<stored, row, worker, approval, callback, codes, restarts>>

AssertionLapses(a) ==
  /\ attempt[a].held # Nothing /\ attempt[a].held.live /\ Room
  /\ attempt' = [attempt EXCEPT ![a].held.live = FALSE]
  /\ UNCHANGED <<stored, row, worker, approval, callback, codes, restarts>>

BackoffEnds(i) == RowWaits(i) /\ UNCHANGED <<attempt, approval, callback, codes, restarts>>
FetchAges(i) == RowAges(i) /\ UNCHANGED <<attempt, approval, callback, codes, restarts>>

Time ==
  \/ \E i \in Identities : BackoffEnds(i) \/ FetchAges(i)
  \/ \E a \in DOMAIN attempt : AttemptAges(a) \/ RequestLapses(a) \/ AssertionLapses(a)

Handlers ==
  \/ \E hint \in Identities \cup {NoWant}, old \in SUBSET Deletable, expired \in SUBSET Live :
       CreateAttempt(hint, old, expired)
  \/ \E a \in DOMAIN attempt :
       \/ Poll(a) \/ GetChallenge(a)
       \/ \E t \in Requests, asr \in Assertions, supplied \in Chains \cup {NoChain}, presents \in BOOLEAN :
            Submit(t, a, asr, supplied, presents)
  \/ \E t \in Requests : ResumeApproval(t)
  \/ \E n \in DOMAIN codes : ExchangeCode(n)

FetcherStep == StartRound \/ ProcessRow \/ \E answer \in Chains \cup {NoChain} : SourceAnswers(answer)

WorkerStep ==
  \/ FetcherStep /\ UNCHANGED <<attempt, approval, callback, codes, restarts>>
  \/ BeginCallback \/ (\E a \in DOMAIN attempt : CallbackTurn(a)) \/ ResumeCallback

Next ==
  \/ Handlers \/ WorkerStep \/ Time \/ Restart
  \/ \E i \in Identities, chain \in Chains : StoredElsewhere(i, chain)

\* The event loop runs the worker, and time passes for a row.
Fairness ==
  /\ WF_vars(WorkerStep)
  /\ \A i \in Identities : WF_vars(BackoffEnds(i)) /\ WF_vars(FetchAges(i))

Spec == Init /\ [][Next]_vars /\ Fairness

----------------------------------------------------------------------------
(* Properties *)

\* The variables have the values the code can give them; in particular a
\* sign-in fails at the MAX_FAILURES-th rejection, and the callback never
\* runs past the attempts it listed.
TypeOK ==
  /\ \A a \in DOMAIN attempt :
       /\ attempt[a].status \in {"waiting", "fetching", "approved", "failed", "expired", "gone"}
       /\ attempt[a].nonce \in 1..MaxRenewals + 1
       /\ attempt[a].held \in Assertions \cup {Nothing}
       /\ attempt[a].failures \in 0..MaxFailures
       /\ attempt[a].code \in 0..Len(codes)
  /\ callback.next \in 0..callback.upto

\* A sign-in keeps an assertion exactly as long as it waits for a fetch:
\* submissions, the callback, expiry and approvals that come in between
\* never leave one behind to be used later, and never drop one still needed.
HeldIffFetching ==
  \A a \in DOMAIN attempt : attempt[a].status = "fetching" <=> attempt[a].held # Nothing

\* The worker is on its way to attempt a, after it stored a chain.
Answering(a) ==
  /\ worker.id = attempt[a].held.identity /\ worker.updated
  /\ worker.pc = "fetch" \/ callback = NoCallback \/ callback.next <= a

\* A sign-in waits no longer than its chain takes to arrive: when the event
\* it named is stored, the worker still has to call on_identity_update() or
\* to reach this sign-in in its loop.  This concerns chains that only the
\* fetcher stores, and depends on "updated", on the order of _finish() and
\* the callback, and on requests that schedule or answer meanwhile.
ArrivalIsAnswered ==
  \A a \in DOMAIN attempt : \A i \in Identities \ Elsewhere :
    /\ attempt[a].held # Nothing /\ attempt[a].held.identity = i
    /\ attempt[a].held.head \in Range(stored[i])
    => Answering(a)

\* No poll, expiry, rejection or callback takes an approval back: the
\* browser that has been told the redirect stays told.
ApprovedIsFinal ==
  [][\A a \in DOMAIN attempt :
       attempt[a].status = "approved" => attempt'[a].status \in {"approved", "gone"}]_vars

\* An assertion of identity i is accepted in this step.
Accepts(i) ==
  \/ \E t \in Callers :
       approval[t] = Nothing /\ approval'[t] # Nothing /\ approval'[t].asr.identity = i
  \/ Len(codes') > Len(codes) /\ approval' = approval /\ codes'[Len(codes')].identity = i

\* Once a chain with the revocation is stored, no assertion of the revoked
\* device is accepted, whatever copy comes with it and whatever was kept
\* from before.  This concerns chains that only the fetcher stores: the
\* callback judges all attempts by the chain it read before the first.
RevokedNeverSignIn ==
  [][\A i \in Identities \ Elsewhere : Accepts(i) => Revoke \notin Range(stored[i])]_vars

\* A nonce is good for one code: submit_assertion() answers 409 to a second
\* assertion, yet two that overlap in _release_claims() are both approved.
NonceBuysOneCode ==
  \A m, n \in DOMAIN codes :
    codes[m].attempt = codes[n].attempt /\ codes[m].nonce = codes[n].nonce => m = n

\* Every fetch ends done or abandoned, whatever the sources answer and
\* however often sign-ins ask for the same identity meanwhile.
PendingEnds ==
  \A i \in Identities : row[i].state = "pending" ~> row[i].state # "pending"
=============================================================================
