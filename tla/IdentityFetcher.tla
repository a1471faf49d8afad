-------------------------- MODULE IdentityFetcher --------------------------
(* The queue of identities that the OIDC bridge does not know yet           *)
(* (P/oidc/fetcher.py): table oidc_pending_fetches, schedule() and the      *)
(* background worker.  The worker is a coroutine of the server: what it     *)
(* does between two awaits is atomic.  Its steps here are smaller, and      *)
(* Yielded says when it has given control away.                             *)
(*                                                                          *)
(* A chain is the sequence of its events and << >> is "no chain".  Times    *)
(* are phases that elapse in an action of their own.                        *)
EXTENDS Naturals, FiniteSets, SequencesExt

CONSTANTS Identities,
          Chains,       \* the copies of a chain that circulate
          Forged,       \* an event that does not verify
          NoWant,       \* want_head is None
          MaxPending,   \* MAX_PENDING
          MaxSources    \* MAX_SOURCES

ASSUME FetcherAssumption ==
  /\ IsFiniteSet(Identities)
  /\ Chains \subseteq Seq(UNION {Range(c) : c \in Chains})
  /\ MaxSources \in Nat

VARIABLES stored,       \* the rows of table sigchains
          row,          \* the rows of table oidc_pending_fetches
          worker        \* the local variables of run_once() and _process()

fetcherVars == <<stored, row, worker>>

NoChain == << >>

----------------------------------------------------------------------------
(* Chains *)

Diverge(s, p) == ~IsPrefix(s, p) /\ ~IsPrefix(p, s)

\* The copy that was supplied counts, however old.
Best_Supplied(s, p) == IF p # NoChain THEN p ELSE s

\* choose_sigchain() of two copies that do not diverge.
Best(s, p) == IF Len(p) > Len(s) THEN p ELSE s

\* verify() and the comparison of the identity hash.
Valid(c) == c # NoChain /\ Forged \notin Range(c)

\* The stored chain once a copy from a source went through _ingest().
Ingested(s, c) == IF Valid(c) /\ ~Diverge(s, c) THEN Best(s, c) ELSE s

Satisfied(s, want) == s # NoChain /\ want \in Range(s) \cup {NoWant}

----------------------------------------------------------------------------
(* Rows.  "when" is the next attempt: "due" is next_attempt_at <= now, and  *)
(* "gap" is less than MIN_RETRY_GAP after the last attempt.                 *)

NoRow == [state |-> "none", want |-> NoWant, when |-> "due", old |-> FALSE]

Fresh(want) == [NoRow EXCEPT !.state = "pending", !.want = want]

Pending == {i \in Identities : row[i].state = "pending"}

\* schedule() of an identity without a row.
QueueFull(i) == row[i].state = "none" /\ Cardinality(Pending) >= MaxPending

\* Every sign-in starts the fetch over, and its age with it.
Scheduled_Anew(r, want) == Fresh(want)

\* What schedule() leaves of row r.
Scheduled(r, want) ==
  IF r.state = "pending"
  THEN [r EXCEPT !.want = IF want = NoWant THEN @ ELSE want,
                 !.when = IF @ = "backoff" THEN "due" ELSE @]
  ELSE Fresh(want)

----------------------------------------------------------------------------
(* The worker *)

Idle == [pc |-> "idle", batch |-> << >>, id |-> NoWant, want |-> NoWant,
         left |-> 0, updated |-> FALSE]

\* The worker waits: for _wake, for a source, or in on_update.
Yielded == worker.pc \in {"idle", "fetch", "approving"}

DueRows == {i \in Pending : row[i].when = "due"}

FetcherInit ==
  /\ stored = [i \in Identities |-> NoChain]
  /\ row = [i \in Identities |-> NoRow]
  /\ worker = Idle

\* _finish(); nobody reads the times of a finished row.
Finished(r, state) == [NoRow EXCEPT !.state = state, !.want = r.want]

\* The worker goes on with the rest of its batch.
NextRow(w) == IF w.batch = << >> THEN Idle ELSE [Idle EXCEPT !.pc = "batch", !.batch = w.batch]

\* run_once() reads all due rows at once, and keeps what it read.
StartRound ==
  /\ worker.pc = "idle"
  /\ DueRows # {}
  /\ \E order \in SetToSeqs(DueRows) :
       worker' = [Idle EXCEPT !.pc = "batch",
                              !.batch = [n \in DOMAIN order |->
                                           [id |-> order[n], want |-> row[order[n]].want]]]
  /\ UNCHANGED <<stored, row>>

\* A fetch that is done ends before anybody is told.
EndProcess_Silent(w, s) ==
  \/ /\ Satisfied(s, w.want)
     /\ row' = [row EXCEPT ![w.id] = Finished(@, "done")]
     /\ worker' = NextRow(w)
  \/ /\ ~Satisfied(s, w.want)
     /\ \E when \in {"gap", "backoff", "due"} : row' = [row EXCEPT ![w.id].when = when]
     /\ worker' = IF w.updated THEN [w EXCEPT !.pc = "notify", !.left = 0] ELSE NextRow(w)

\* The end of _process(), with s as the stored chain by then.
EndProcess(w, s) ==
  /\ \/ /\ Satisfied(s, w.want)
        /\ row' = [row EXCEPT ![w.id] = Finished(@, "done")]
     \/ /\ ~Satisfied(s, w.want)
        /\ \E when \in {"gap", "backoff", "due"} : row' = [row EXCEPT ![w.id].when = when]
  /\ worker' = IF w.updated THEN [w EXCEPT !.pc = "notify", !.left = 0] ELSE NextRow(w)

\* The start of _process(): the row is given up, or its sources are counted.
ProcessRow ==
  /\ worker.pc = "batch"
  /\ LET r == Head(worker.batch)
         w == [Idle EXCEPT !.batch = Tail(worker.batch), !.id = r.id, !.want = r.want]
     IN \/ /\ row[r.id].old
           /\ row' = [row EXCEPT ![r.id] = Finished(@, "abandoned")]
           /\ worker' = NextRow(w)
        \/ /\ ~row[r.id].old
           /\ EndProcess(w, stored[r.id])
        \/ /\ ~row[r.id].old
           /\ \E n \in 1..MaxSources : worker' = [w EXCEPT !.pc = "fetch", !.left = n]
           /\ UNCHANGED row
  /\ UNCHANGED stored

\* A source answers with a chain, or with nothing: the next source, or the end.
SourceAnswers(answer) ==
  /\ worker.pc = "fetch"
  /\ LET i == worker.id
         s == Ingested(stored[i], answer)
         w == [worker EXCEPT !.left = @ - 1, !.updated = @ \/ s # stored[i]]
     IN /\ stored' = [stored EXCEPT ![i] = s]
        /\ \/ /\ w.left = 0 \/ (answer # NoChain /\ Satisfied(s, w.want))
              /\ EndProcess(w, s)
           \/ /\ w.left > 0 /\ ~(answer # NoChain /\ Satisfied(s, w.want))
              /\ worker' = w
              /\ UNCHANGED row

----------------------------------------------------------------------------
(* Time *)

\* The retry gap is over, or the backoff is.
RowWaits(i) ==
  /\ row[i].state = "pending"
  /\ \/ row[i].when = "gap" /\ row' = [row EXCEPT ![i].when = "backoff"]
     \/ row[i].when = "backoff" /\ row' = [row EXCEPT ![i].when = "due"]
  /\ UNCHANGED <<stored, worker>>

\* MAX_AGE has passed since created_at.
RowAges(i) ==
  /\ row[i].state = "pending" /\ ~row[i].old
  /\ row' = [row EXCEPT ![i].old = TRUE]
  /\ UNCHANGED <<stored, worker>>
=============================================================================
