----------------------------- MODULE SignIn_proofs -----------------------------
(***************************************************************************)
(* Proofs about SignIn, for every number of identities, sign-ins, requests *)
(* and restarts, every set of chains, and every limit of the bridge.       *)
(***************************************************************************)
EXTENDS SignIn, SequenceTheorems, FiniteSetTheorems, TLAPS

-----------------------------------------------------------------------------
(* Chains *)

Events == UNION {Range(c) : c \in Chains}
Copies == Chains \cup {NoChain}

\* Every copy is a sequence of events.
LEMMA CopiesAreSequences == Copies \subseteq Seq(Events)
  <1>1. NoChain \in Seq(Events)
    BY DEF NoChain
  <1> QED
    BY <1>1, FetcherAssumption DEF Copies, Events

\* The longer of two copies that do not diverge has the events of the other.
LEMMA BestContains ==
    ASSUME NEW s \in Copies, NEW p \in Copies, ~Diverge(s, p)
    PROVE  Range(s) \subseteq Range(Best(s, p))
  <1>1. s \in Seq(Events) /\ p \in Seq(Events)
    BY CopiesAreSequences
  <1>2. Len(s) \in Nat /\ Len(p) \in Nat /\ DOMAIN s = 1 .. Len(s) /\ DOMAIN p = 1 .. Len(p)
    BY <1>1
  <1>3. CASE Len(p) > Len(s)
    <2>1. SubSeq(s, 1, Len(s)) = SubSeq(p, 1, Len(s))
      BY <1>2, <1>3 DEF Diverge, IsPrefix
    <2>2. /\ SubSeq(s, 1, Len(s)) = [j \in 1 .. Len(s) |-> s[j]]
          /\ SubSeq(p, 1, Len(s)) = [j \in 1 .. Len(s) |-> p[j]]
      BY <1>1, <1>2, <1>3
    <2>3. \A j \in 1 .. Len(s) : s[j] = p[j]
      BY <2>1, <2>2
    <2>4. \A j \in DOMAIN s : s[j] = p[j] /\ j \in DOMAIN p
      BY <1>2, <1>3, <2>3
    <2> QED
      BY <1>3, <2>4 DEF Range, Best
  <1>4. CASE ~(Len(p) > Len(s))
    BY <1>4 DEF Best
  <1> QED
    BY <1>3, <1>4

\* The copy that choose_sigchain returns is one of the two.
LEMMA BestIs ==
    ASSUME NEW s \in Copies, NEW p \in Copies
    PROVE  /\ Best(s, p) \in Copies
           /\ Ingested(s, p) \in Copies
           /\ Best(s, p) = NoChain => s = NoChain
  <1>1. s \in Seq(Events) /\ p \in Seq(Events) /\ Len(s) \in Nat /\ Len(p) \in Nat
    BY CopiesAreSequences
  <1>2. Best(s, p) = NoChain => s = NoChain
    BY <1>1 DEF Best, NoChain
  <1> QED
    BY <1>2 DEF Best, Ingested

\* What the checks of verify_assertion() stand for.
LEMMA VerdictIs ==
    ASSUME NEW asr \in Assertions, NEW chain
    PROVE  /\ Verdict(asr, chain) = "unknown_chain_head"
                => asr.live /\ asr.head \notin Range(chain)
           /\ Verdict(asr, chain) = "ok" => asr.live /\ Authorized(chain)
           /\ Verdict(asr, chain) = "expired" <=> ~asr.live
  <1>1. CASE ~asr.live
    <2>1. Verdict(asr, chain) = "expired"
      BY <1>1 DEF Verdict
    <2> QED
      BY <1>1, <2>1
  <1>2. CASE asr.live /\ ~Valid(chain)
    <2>1. Verdict(asr, chain) = "invalid_sigchain"
      BY <1>2 DEF Verdict
    <2> QED
      BY <1>2, <2>1
  <1>3. CASE asr.live /\ Valid(chain) /\ asr.head \notin Range(chain)
    <2>1. Verdict(asr, chain) = "unknown_chain_head"
      BY <1>3 DEF Verdict
    <2> QED
      BY <1>3, <2>1
  <1>4. CASE asr.live /\ Valid(chain) /\ asr.head \in Range(chain)
    <2>1. Verdict(asr, chain) = IF ~Authorized(chain) THEN "device_not_authorized"
                                ELSE IF ~asr.signed THEN "bad_signature" ELSE "ok"
      BY <1>4 DEF Verdict
    <2> QED
      BY <1>4, <2>1
  <1> QED
    BY <1>1, <1>2, <1>3, <1>4

-----------------------------------------------------------------------------
(* One sign-in *)

Statuses == {"waiting", "fetching", "approved", "failed", "expired", "gone"}

AttemptType ==
  [status : Statuses, late : BOOLEAN, nonce : Nat \ {0}, stale : BOOLEAN,
   held : Assertions \cup {Nothing}, failures : 0..MaxFailures,
   presented : BOOLEAN, code : Nat]

\* What a sign-in is between two steps.
AttemptOk(x) ==
  /\ x \in AttemptType
  /\ x.status = "fetching" <=> x.held # Nothing
  /\ Open(x) => x.failures < MaxFailures

\* The renewals that sign-in x will need.
Debt(x) == (IF x.stale THEN {0} ELSE {})
             \cup (IF x.held # Nothing /\ ~x.held.live THEN {1} ELSE {})

\* The event that x waits for is stored, and only the fetcher stores it.
Arrived(x) ==
  /\ x.held # Nothing
  /\ x.held.identity \notin Elsewhere
  /\ x.held.head \in Range(stored[x.held.identity])

\* What any step may make of a sign-in x: nothing decided is opened again, and
\* no assertion is kept whose chain is there already.
Keeps(x, y) ==
  /\ AttemptOk(y)
  /\ x.status = "approved" => y.status \in {"approved", "gone"}
  /\ x.status = "gone" => y.status = "gone"
  /\ Arrived(y) => Arrived(x) /\ y.held.identity = x.held.identity

\* Steps that neither renew the challenge nor mint a code.
Quiet(x, y) == Keeps(x, y) /\ y.nonce = x.nonce /\ Debt(y) \subseteq Debt(x) /\ y.code = x.code

\* A renewal pays a debt, and only time makes one, within the bound.
Turn(x, y) ==
  /\ Keeps(x, y)
  /\ \/ y.nonce = x.nonce /\ Debt(y) \subseteq Debt(x)
     \/ y.nonce = x.nonce + 1 /\ \E d \in Debt(x) : Debt(y) \subseteq Debt(x) \ {d}
     \/ Room /\ y.nonce = x.nonce /\ \E d \in {0, 1} : Debt(y) \subseteq Debt(x) \cup {d}
  /\ \/ y.code = x.code
     \/ y.code = Len(codes) + 1 /\ Len(codes') = Len(codes) + 1

LEMMA QuietIsTurn ==
  ASSUME NEW x, NEW y, Quiet(x, y)
  PROVE  Turn(x, y)
  BY DEF Quiet, Turn

LEMMA TurnAfterQuiet ==
  ASSUME NEW x, NEW y, NEW z, Quiet(x, y), Turn(y, z)
  PROVE  Turn(x, z)
  BY DEF Quiet, Turn, Keeps

\* An assertion is not "no assertion".
LEMMA AssertionIsSomething == \A asr \in Assertions : asr # Nothing /\ asr.nonce \in Nat
  <1> SUFFICES ASSUME NEW asr \in Assertions
               PROVE  asr # Nothing /\ asr.nonce \in Nat
    OBVIOUS
  <1>1. asr.nonce \in 1..MaxRenewals + 1
    BY DEF Assertions
  <1>2. asr.nonce # 0 /\ asr.nonce \in Nat
    BY <1>1, SignInAssumption
  <1>3. Nothing.nonce = 0
    BY DEF Nothing
  <1> QED
    BY <1>2, <1>3

\* Expiry, deletion, presentation and age leave a sign-in in order.
LEMMA QuietSteps ==
  ASSUME NEW x, AttemptOk(x)
  PROVE  /\ Quiet(x, x)
         /\ Quiet(x, Refreshed(x))
         /\ Open(Refreshed(x)) => Refreshed(x) = x
         /\ Quiet(x, Forgotten(x))
         /\ \A presents \in BOOLEAN : Quiet(x, [x EXCEPT !.presented = presents])
         /\ Quiet(x, [x EXCEPT !.late = TRUE])
  <1>0. x \in AttemptType /\ x.held \in Assertions \cup {Nothing}
    BY DEF AttemptOk, AttemptType
  <1>1. Quiet(x, x)
    BY DEF Quiet, Keeps
  <1>2. ASSUME NEW status \in {"expired", "gone"}, status = "gone" \/ Open(x)
        PROVE  Quiet(x, [x EXCEPT !.status = status, !.held = Nothing])
    <2> DEFINE y == [x EXCEPT !.status = status, !.held = Nothing]
    <2>1. /\ y \in AttemptType /\ y.status = status /\ y.held = Nothing
          /\ y.nonce = x.nonce /\ y.stale = x.stale /\ y.code = x.code
      BY <1>0 DEF AttemptType, Statuses
    <2> HIDE DEF y
    <2>2. AttemptOk(y)
      BY <2>1 DEF AttemptOk, Open
    <2>3. Debt(y) \subseteq Debt(x)
      BY <2>1 DEF Debt
    <2>4. Keeps(x, y)
      BY <1>2, <2>1, <2>2 DEF Keeps, Arrived, Open
    <2> QED
      BY <2>1, <2>3, <2>4 DEF Quiet, y
  <1>3. Quiet(x, Refreshed(x)) /\ (Open(Refreshed(x)) => Refreshed(x) = x)
    <2>1. CASE Open(x) /\ x.late
      <3>1. Refreshed(x) = [x EXCEPT !.status = "expired", !.held = Nothing]
        BY <2>1 DEF Refreshed
      <3>2. Refreshed(x).status = "expired"
        BY <1>0, <3>1 DEF AttemptType
      <3> QED
        BY <1>2, <2>1, <3>1, <3>2 DEF Open
    <2>2. CASE ~(Open(x) /\ x.late)
      BY <1>1, <2>2 DEF Refreshed
    <2> QED
      BY <2>1, <2>2
  <1>4. Quiet(x, Forgotten(x))
    BY <1>2 DEF Forgotten
  <1>5. ASSUME NEW y, y \in AttemptType, y.status = x.status, y.held = x.held,
               y.nonce = x.nonce, y.stale = x.stale, y.code = x.code, y.failures = x.failures
        PROVE  Quiet(x, y)
    BY <1>5 DEF Quiet, Keeps, AttemptOk, Open, Debt, Arrived
  <1>6. ASSUME NEW presents \in BOOLEAN
        PROVE  Quiet(x, [x EXCEPT !.presented = presents])
    <2> DEFINE y == [x EXCEPT !.presented = presents]
    <2>1. /\ y \in AttemptType /\ y.status = x.status /\ y.held = x.held
          /\ y.nonce = x.nonce /\ y.stale = x.stale /\ y.code = x.code /\ y.failures = x.failures
      BY <1>0 DEF AttemptType
    <2> QED
      BY <1>5, <2>1
  <1>7. Quiet(x, [x EXCEPT !.late = TRUE])
    <2> DEFINE y == [x EXCEPT !.late = TRUE]
    <2>1. /\ y \in AttemptType /\ y.status = x.status /\ y.held = x.held
          /\ y.nonce = x.nonce /\ y.stale = x.stale /\ y.code = x.code /\ y.failures = x.failures
      BY <1>0 DEF AttemptType
    <2> QED
      BY <1>5, <2>1
  <1> QED
    BY <1>1, <1>3, <1>4, <1>6, <1>7

\* An open sign-in keeps an assertion of which the chain is missing.
LEMMA FetchingTurn ==
  ASSUME NEW x, AttemptOk(x), Open(x), NEW asr \in Assertions, asr.live,
         asr.identity \in Elsewhere \/ asr.head \notin Range(stored[asr.identity])
  PROVE  /\ Turn(x, [x EXCEPT !.status = "fetching", !.held = asr])
         /\ ~Arrived([x EXCEPT !.status = "fetching", !.held = asr])
  <1> DEFINE y == [x EXCEPT !.status = "fetching", !.held = asr]
  <1>1. /\ y \in AttemptType /\ y.status = "fetching" /\ y.held = asr
        /\ y.nonce = x.nonce /\ y.stale = x.stale /\ y.code = x.code
        /\ y.failures = x.failures
    BY DEF AttemptOk, AttemptType, Statuses
  <1>2. asr # Nothing
    BY AssertionIsSomething
  <1> HIDE DEF y
  <1>3. AttemptOk(y)
    BY <1>1, <1>2 DEF AttemptOk, Open
  <1>4. Debt(y) \subseteq Debt(x)
    BY <1>1 DEF Debt
  <1>5. ~Arrived(y)
    BY <1>1 DEF Arrived
  <1>6. Keeps(x, y)
    BY <1>3, <1>5 DEF Keeps, Open
  <1> QED
    BY <1>1, <1>4, <1>5, <1>6 DEF Turn, y

\* A rejection drops the assertion; the one that expired meanwhile renews the
\* challenge, the MAX_FAILURES-th ends the sign-in.
LEMMA RejectedTurn ==
  ASSUME NEW x, AttemptOk(x), Open(x), NEW verdict, NEW afterFetch,
         afterFetch /\ verdict = "expired" => x.held # Nothing /\ ~x.held.live
  PROVE  /\ Turn(x, Rejected(x, verdict, afterFetch))
         /\ ~Arrived(Rejected(x, verdict, afterFetch))
  <1> DEFINE freed == [x EXCEPT !.held = Nothing, !.status = "waiting"]
             counted == [freed EXCEPT !.failures = @ + 1]
             failed == [counted EXCEPT !.status = "failed"]
             y == Rejected(x, verdict, afterFetch)
  <1>0. x \in AttemptType /\ x.failures \in Nat /\ x.failures < MaxFailures
    BY DEF AttemptOk, AttemptType
  <1>1. /\ freed \in AttemptType /\ freed.status = "waiting" /\ freed.held = Nothing
        /\ freed.nonce = x.nonce /\ freed.stale = x.stale /\ freed.code = x.code
        /\ freed.failures = x.failures
    BY <1>0 DEF AttemptType, Statuses
  <1> HIDE DEF freed
  <1>2. CASE afterFetch /\ verdict = "expired"
    <2>1. y = [freed EXCEPT !.nonce = @ + 1, !.stale = FALSE]
      BY <1>2 DEF Rejected, Rotated, freed
    <2>2. /\ y \in AttemptType /\ y.status = "waiting" /\ y.held = Nothing
          /\ y.nonce = x.nonce + 1 /\ y.stale = FALSE /\ y.code = x.code
          /\ y.failures = x.failures
      <3>1. freed.nonce + 1 \in Nat \ {0}
        BY <1>1 DEF AttemptType
      <3> DEFINE n == freed.nonce + 1
      <3>2. y = [freed EXCEPT !.nonce = n, !.stale = FALSE]
        BY <2>1
      <3> HIDE DEF n, y
      <3>3. n \in Nat \ {0} /\ n = x.nonce + 1
        BY <1>1, <3>1 DEF n
      <3> QED
        BY <1>1, <3>2, <3>3 DEF AttemptType
    <2>3. 1 \in Debt(x) /\ Debt(y) = {}
      BY <1>2, <2>2 DEF Debt
    <2>4. Debt(y) \subseteq Debt(x) \ {1}
      BY <2>3
    <2>5. AttemptOk(y) /\ ~Arrived(y)
      BY <1>0, <2>2 DEF AttemptOk, Arrived
    <2>6. Keeps(x, y)
      BY <2>5 DEF Keeps, Open
    <2> QED
      BY <2>2, <2>3, <2>4, <2>5, <2>6 DEF Turn
  <1>3. CASE ~(afterFetch /\ verdict = "expired")
    <2>1. y = IF counted.failures >= MaxFailures THEN failed ELSE counted
      BY <1>3 DEF Rejected, freed
    <2>2. counted.failures = x.failures + 1 /\ x.failures + 1 \in 0..MaxFailures
      BY <1>0, <1>1, SignInAssumption DEF AttemptType
    <2>3. /\ y \in AttemptType /\ y.held = Nothing /\ y.nonce = x.nonce /\ y.stale = x.stale
          /\ y.code = x.code
          /\ y.status = "failed" \/ (y.status = "waiting" /\ y.failures < MaxFailures)
      <3>1. /\ counted \in AttemptType /\ counted.held = Nothing /\ counted.nonce = x.nonce
            /\ counted.stale = x.stale /\ counted.code = x.code /\ counted.status = "waiting"
        BY <1>1, <2>2 DEF AttemptType
      <3> HIDE DEF counted
      <3>2. /\ failed \in AttemptType /\ failed.held = Nothing /\ failed.nonce = x.nonce
            /\ failed.stale = x.stale /\ failed.code = x.code /\ failed.status = "failed"
        BY <3>1 DEF AttemptType, Statuses
      <3>3. CASE counted.failures >= MaxFailures
        BY <2>1, <3>2, <3>3
      <3>4. CASE ~(counted.failures >= MaxFailures)
        <4>1. y = counted /\ counted.failures < MaxFailures
          BY <1>0, <2>1, <2>2, <3>4, SignInAssumption
        <4> QED
          BY <3>1, <4>1
      <3> QED
        BY <3>3, <3>4
    <2>4. AttemptOk(y) /\ ~Arrived(y)
      BY <2>3 DEF AttemptOk, Arrived, Open
    <2>5. Debt(y) \subseteq Debt(x)
      BY <2>3 DEF Debt
    <2>6. Keeps(x, y)
      BY <2>4 DEF Keeps, Open
    <2> QED
      BY <2>3, <2>4, <2>5, <2>6 DEF Turn
  <1> QED
    BY <1>2, <1>3

\* What Mint makes of the sign-in.
Minted(x) ==
  IF Exists(x) THEN [x EXCEPT !.status = "approved", !.held = Nothing,
                              !.presented = FALSE, !.code = Len(codes) + 1]
  ELSE x

\* An approval ends what the sign-in kept, also when it comes late.
LEMMA MintedTurn ==
  ASSUME NEW x, AttemptOk(x), Len(codes) \in Nat, Len(codes') = Len(codes) + 1
  PROVE  Turn(x, Minted(x)) /\ ~Arrived(Minted(x))
  <1>0. x \in AttemptType
    BY DEF AttemptOk
  <1>1. CASE Exists(x)
    <2> DEFINE n == Len(codes) + 1
               y == [x EXCEPT !.status = "approved", !.held = Nothing,
                              !.presented = FALSE, !.code = n]
    <2>0. Minted(x) = y /\ n \in Nat
      BY <1>1 DEF Minted
    <2> HIDE DEF n
    <2>1. /\ y \in AttemptType /\ y.status = "approved" /\ y.held = Nothing
          /\ y.nonce = x.nonce /\ y.stale = x.stale /\ y.code = n
      BY <1>0, <2>0 DEF AttemptType, Statuses
    <2> HIDE DEF y
    <2>2. AttemptOk(y) /\ ~Arrived(y)
      BY <2>1 DEF AttemptOk, Arrived, Open
    <2>3. Debt(y) \subseteq Debt(x)
      BY <2>1 DEF Debt
    <2>4. Keeps(x, y)
      BY <1>1, <2>1, <2>2 DEF Keeps, Exists
    <2> QED
      BY <2>0, <2>1, <2>2, <2>3, <2>4 DEF Turn, n
  <1>2. CASE ~Exists(x)
    <2>1. Minted(x) = x /\ x.held = Nothing
      BY <1>0, <1>2 DEF Minted, Exists, AttemptOk, AttemptType
    <2>2. Turn(x, x)
      BY QuietSteps, QuietIsTurn
    <2>3. ~Arrived(x)
      BY <2>1 DEF Arrived
    <2> QED
      BY <2>1, <2>2, <2>3
  <1> QED
    BY <1>1, <1>2

\* A challenge that has expired is renewed.
LEMMA RotatedTurn ==
  ASSUME NEW x, AttemptOk(x), Open(x), x.stale
  PROVE  Turn(x, Rotated(x))
  <1> DEFINE n == x.nonce + 1
             y == [x EXCEPT !.nonce = n, !.stale = FALSE]
  <1>0. x \in AttemptType /\ Rotated(x) = y
    BY DEF AttemptOk, Rotated
  <1>1. n \in Nat \ {0}
    BY <1>0 DEF AttemptType
  <1> HIDE DEF n
  <1>2. /\ y \in AttemptType /\ y.status = x.status /\ y.held = x.held
        /\ y.nonce = n /\ y.stale = FALSE /\ y.code = x.code /\ y.failures = x.failures
    BY <1>0, <1>1 DEF AttemptType
  <1> HIDE DEF y
  <1>3. AttemptOk(y) /\ Keeps(x, y)
    BY <1>2 DEF AttemptOk, Keeps, Arrived, Open
  <1>4. 0 \in Debt(x) /\ Debt(y) \subseteq Debt(x) \ {0}
    BY <1>2 DEF Debt
  <1> QED
    BY <1>0, <1>2, <1>3, <1>4 DEF Turn, n

\* The challenge of a sign-in, or the assertion it keeps, expires.
LEMMA LapseTurn ==
  ASSUME NEW x, AttemptOk(x), Room
  PROVE  /\ Turn(x, [x EXCEPT !.stale = TRUE])
         /\ x.held # Nothing => Turn(x, [x EXCEPT !.held.live = FALSE])
  <1>0. x \in AttemptType /\ x.held \in Assertions \cup {Nothing}
    BY DEF AttemptOk, AttemptType
  <1>1. Turn(x, [x EXCEPT !.stale = TRUE])
    <2> DEFINE y == [x EXCEPT !.stale = TRUE]
    <2>1. /\ y \in AttemptType /\ y.status = x.status /\ y.held = x.held
          /\ y.nonce = x.nonce /\ y.stale = TRUE /\ y.code = x.code /\ y.failures = x.failures
      BY <1>0 DEF AttemptType
    <2> HIDE DEF y
    <2>2. Keeps(x, y)
      BY <2>1 DEF AttemptOk, Keeps, Arrived, Open
    <2>3. Debt(y) \subseteq Debt(x) \cup {0}
      BY <2>1 DEF Debt
    <2> QED
      BY <2>1, <2>2, <2>3 DEF Turn, y
  <1>2. ASSUME x.held # Nothing
        PROVE  Turn(x, [x EXCEPT !.held.live = FALSE])
    <2> DEFINE late == [x.held EXCEPT !.live = FALSE]
               y == [x EXCEPT !.held = late]
    <2>1. /\ late \in Assertions /\ late.identity = x.held.identity
          /\ late.head = x.held.head /\ late.live = FALSE
      BY <1>0, <1>2 DEF Assertions
    <2> HIDE DEF late
    <2>2. [x EXCEPT !.held.live = FALSE] = y
      BY DEF late
    <2>3. /\ y \in AttemptType /\ y.status = x.status /\ y.held = late
          /\ y.nonce = x.nonce /\ y.stale = x.stale /\ y.code = x.code /\ y.failures = x.failures
      BY <1>0, <2>1 DEF AttemptType
    <2> HIDE DEF y
    <2>4. late # Nothing
      BY <2>1, AssertionIsSomething
    <2>5. AttemptOk(y)
      BY <1>2, <2>3, <2>4 DEF AttemptOk, Open
    <2>6. Keeps(x, y)
      BY <1>2, <2>1, <2>3, <2>5 DEF Keeps, Arrived
    <2>7. Debt(y) \subseteq Debt(x) \cup {1}
      BY <2>3 DEF Debt
    <2> QED
      BY <2>2, <2>3, <2>6, <2>7 DEF Turn
  <1> QED
    BY <1>1, <1>2

-----------------------------------------------------------------------------
(* The state of the bridge between two steps *)

Wants == Heads \cup {NoWant}

RowType ==
  [state : {"none", "pending", "done", "abandoned"}, want : Wants,
   when : {"due", "gap", "backoff"}, old : BOOLEAN]

WorkerType ==
  [pc : {"idle", "batch", "fetch", "notify", "approving"},
   batch : Seq([id : Identities, want : Wants]), id : Identities \cup {NoWant},
   want : Wants, left : Int, updated : BOOLEAN]

CodeType == [attempt : Nat, nonce : Nat, identity : Signers, live : BOOLEAN]

ApprovalType == [attempt : Nat, asr : Assertions]

\* Between its rounds the worker remembers nothing of the last one.
FetcherInv ==
  /\ stored \in [Identities -> Copies]
  /\ row \in [Identities -> RowType]
  /\ worker \in WorkerType
  /\ worker.pc = "batch" => worker.batch # << >>
  /\ worker.pc \in {"fetch", "notify", "approving"} => worker.id \in Identities
  /\ worker.updated => worker.pc \in {"fetch", "notify", "approving"}

AttemptsInv ==
  /\ attempt \in Seq(AttemptType)
  /\ \A a \in DOMAIN attempt : AttemptOk(attempt[a])
  /\ codes \in Seq(CodeType)
  /\ \A a \in DOMAIN attempt : attempt[a].code <= Len(codes)

ApprovalsInv ==
  /\ approval \in [Callers -> ApprovalType \cup {Nothing}]
  /\ \A t \in Callers : approval[t] # Nothing => approval[t].attempt \in DOMAIN attempt

\* The loop of the callback is within the attempts it listed, and the chain it
\* read is still the one that is stored.
CallbackInv ==
  /\ callback \in [next : Nat, upto : Nat, chain : Copies]
  /\ callback = NoCallback
     \/ /\ callback.next \in 1..callback.upto
        /\ callback.upto <= Len(attempt)
        /\ worker.pc \in {"notify", "approving"}
        /\ worker.id \notin Elsewhere => callback.chain = stored[worker.id]
  /\ worker.pc = "approving" <=> approval[Worker] # Nothing
  /\ approval[Worker] # Nothing =>
       callback # NoCallback /\ approval[Worker].attempt = callback.next

\* Whoever waits for a chain that is there is still ahead of the loop.
ArrivalInv ==
  \A a \in DOMAIN attempt : Arrived(attempt[a]) =>
    /\ worker.id = attempt[a].held.identity /\ worker.updated
    /\ callback # NoCallback => callback.next <= a /\ a <= callback.upto

BridgeInv == FetcherInv /\ AttemptsInv /\ ApprovalsInv /\ CallbackInv /\ ArrivalInv

-----------------------------------------------------------------------------
(* What a step does to the sign-ins *)

\* At most one sign-in takes a turn, or some are deleted and one begins.
AttemptMove ==
  \/ UNCHANGED attempt
  \/ \E old : attempt' = CleanedAttempts(old) \/ attempt' = Append(CleanedAttempts(old), NewAttempt)
  \/ \E a \in DOMAIN attempt : \E y :
       Turn(attempt[a], y) /\ attempt' = [attempt EXCEPT ![a] = y]

\* Mint adds a code and ends what the sign-in kept.
LEMMA MintIs ==
  ASSUME AttemptsInv, NEW a \in DOMAIN attempt, NEW at, Quiet(attempt[a], at),
         NEW asr \in Assertions, Mint(a, at, asr)
  PROVE  /\ Turn(attempt[a], Minted(at)) /\ ~Arrived(Minted(at))
         /\ attempt' = [attempt EXCEPT ![a] = Minted(at)]
         /\ codes' \in Seq(CodeType) /\ Len(codes') = Len(codes) + 1
  <1>1. codes \in Seq(CodeType) /\ Len(codes) \in Nat /\ a \in Nat /\ asr.nonce \in Nat
    BY AssertionIsSomething DEF AttemptsInv
  <1>2. NewCode(a, asr) \in CodeType
    BY <1>1 DEF NewCode, CodeType, Assertions
  <1>3. codes' \in Seq(CodeType) /\ Len(codes') = Len(codes) + 1
    BY <1>1, <1>2 DEF Mint
  <1>4. AttemptOk(at)
    BY DEF Quiet, Keeps
  <1>5. Turn(at, Minted(at)) /\ ~Arrived(Minted(at))
    BY <1>1, <1>3, <1>4, MintedTurn
  <1>6. attempt' = [attempt EXCEPT ![a] = Minted(at)]
    BY DEF Mint, Minted
  <1> QED
    BY <1>3, <1>5, <1>6, TurnAfterQuiet

\* A fetch starts for an assertion of which the chain is missing; a full queue
\* leaves the sign-in as it is.
LEMMA StartFetchIs ==
  ASSUME NEW a \in DOMAIN attempt, NEW at, Quiet(attempt[a], at), Open(at),
         NEW asr \in Assertions, asr.live,
         asr.identity \in Elsewhere \/ asr.head \notin Range(stored[asr.identity]),
         StartFetch(a, at, asr)
  PROVE  \E y : /\ Turn(attempt[a], y) /\ attempt' = [attempt EXCEPT ![a] = y]
                /\ ~Arrived(y) \/ y = at
  <1>1. AttemptOk(at)
    BY DEF Quiet, Keeps
  <1>2. CASE attempt' = [attempt EXCEPT ![a] = at]
    BY <1>2, QuietIsTurn
  <1>3. CASE attempt' = [attempt EXCEPT ![a] = [at EXCEPT !.status = "fetching", !.held = asr]]
    BY <1>1, <1>3, FetchingTurn, TurnAfterQuiet
  <1> QED
    BY <1>2, <1>3 DEF StartFetch

\* An assertion that is not accepted is rejected, or its chain is fetched; the
\* one that was kept is never kept once its chain is there.
LEMMA RefusesIs ==
  ASSUME NEW a \in DOMAIN attempt, NEW at, Quiet(attempt[a], at), Open(at),
         NEW asr \in Assertions, NEW chain,
         asr.identity \in Elsewhere \/ Range(stored[asr.identity]) \subseteq Range(chain),
         NEW afterFetch \in BOOLEAN, afterFetch => at.held = asr,
         Refuses(a, at, asr, chain, afterFetch)
  PROVE  \E y : /\ Turn(attempt[a], y) /\ attempt' = [attempt EXCEPT ![a] = y]
                /\ afterFetch => ~Arrived(y)
  <1>1. AttemptOk(at) /\ asr # Nothing
    BY AssertionIsSomething DEF Quiet, Keeps
  <1>2. CASE Verdict(asr, chain) = "unknown_chain_head" /\ StartFetch(a, at, asr)
    <2>1. asr.live /\ asr.head \notin Range(chain)
      BY <1>2, VerdictIs
    <2>2. asr.identity \in Elsewhere \/ asr.head \notin Range(stored[asr.identity])
      BY <2>1
    <2>3. PICK y : /\ Turn(attempt[a], y) /\ attempt' = [attempt EXCEPT ![a] = y]
                   /\ ~Arrived(y) \/ y = at
      BY <1>2, <2>1, <2>2, StartFetchIs
    <2>4. afterFetch => ~Arrived(at)
      BY <2>2 DEF Arrived
    <2> QED
      BY <2>3, <2>4
  <1>3. CASE attempt' = [attempt EXCEPT ![a] = Rejected(at, Verdict(asr, chain), afterFetch)]
    <2>1. afterFetch /\ Verdict(asr, chain) = "expired" => at.held # Nothing /\ ~at.held.live
      BY <1>1, VerdictIs
    <2>2. /\ Turn(at, Rejected(at, Verdict(asr, chain), afterFetch))
          /\ ~Arrived(Rejected(at, Verdict(asr, chain), afterFetch))
      BY <1>1, <2>1, RejectedTurn
    <2> QED
      BY <1>3, <2>2, TurnAfterQuiet
  <1> QED
    BY <1>2, <1>3 DEF Refuses

\* A submission: the copy it is judged by has all that is stored.
LEMMA SubmitMoves ==
  ASSUME BridgeInv, NEW t \in Requests, NEW a \in DOMAIN attempt, NEW asr \in Assertions,
         NEW supplied \in Copies, NEW presents \in BOOLEAN,
         Submit(t, a, asr, supplied, presents)
  PROVE  AttemptMove
  <1> DEFINE x == attempt[a]
             at == [x EXCEPT !.presented = presents]
             chain == Best(stored[asr.identity], supplied)
  <1>1. AttemptOk(x) /\ stored[asr.identity] \in Copies
    BY SignInAssumption DEF BridgeInv, AttemptsInv, FetcherInv, Assertions
  <1>2. Quiet(x, at)
    BY <1>1, QuietSteps
  <1>3. AttemptOk(at)
    BY <1>2 DEF Quiet, Keeps
  <1>4. Open(Refreshed(at)) /\ asr.live /\ ~Diverge(stored[asr.identity], supplied)
    BY DEF Submit
  <1>5. Open(at)
    BY <1>3, <1>4, QuietSteps
  <1>6. Range(stored[asr.identity]) \subseteq Range(chain)
    BY <1>1, <1>4, BestContains
  <1>7. \/ chain = NoChain /\ StartFetch(a, at, asr)
        \/ Refuses(a, at, asr, chain, FALSE)
        \/ Mint(a, at, asr)
        \/ attempt' = [attempt EXCEPT ![a] = at]
    BY DEF Submit, Approves, Suspends
  <1> HIDE DEF at, chain
  <1>8. CASE chain = NoChain /\ StartFetch(a, at, asr)
    <2>1. Range(NoChain) = {}
      <3>1. DOMAIN NoChain = {}
        BY DEF NoChain
      <3> QED
        BY <3>1 DEF Range
    <2>2. Range(stored[asr.identity]) = {}
      BY <1>6, <1>8, <2>1
    <2> QED
      BY <1>2, <1>4, <1>5, <1>8, <2>2, StartFetchIs DEF AttemptMove
  <1>9. CASE Refuses(a, at, asr, chain, FALSE)
    BY <1>2, <1>5, <1>6, <1>9, RefusesIs DEF AttemptMove
  <1>10. CASE Mint(a, at, asr)
    BY <1>2, <1>10, MintIs DEF AttemptMove, BridgeInv
  <1>11. CASE attempt' = [attempt EXCEPT ![a] = at]
    BY <1>2, <1>11, QuietIsTurn DEF AttemptMove
  <1> QED
    BY <1>7, <1>8, <1>9, <1>10, <1>11

\* A turn of the callback: it leaves no sign-in waiting for what is there,
\* unless it waits itself for the claims to be evaluated.
LEMMA CallbackMoves ==
  ASSUME BridgeInv, NEW a \in DOMAIN attempt, CallbackTurn(a)
  PROVE  \E y : /\ Turn(attempt[a], y) /\ attempt' = [attempt EXCEPT ![a] = y]
                /\ Notified => ~Arrived(y)
                /\ Notified \/ (worker' = [worker EXCEPT !.pc = "approving"] /\ UNCHANGED callback)
  <1> DEFINE x == attempt[a]
             at == Refreshed(x)
  <1>1. AttemptOk(x) /\ callback.next = a /\ callback # NoCallback
    BY DEF BridgeInv, AttemptsInv, CallbackTurn, NoCallback
  <1>2. Quiet(x, at)
    BY <1>1, QuietSteps
  <1>3. AttemptOk(at)
    BY <1>2 DEF Quiet, Keeps
  <1>4. worker.pc = "notify" /\ worker.id \in Identities /\ worker \in WorkerType
    BY DEF CallbackTurn, BridgeInv, FetcherInv
  <1>5. worker.id \notin Elsewhere => callback.chain = stored[worker.id]
    BY <1>1 DEF BridgeInv, CallbackInv
  <1>6. CASE at.held # Nothing /\ at.held.identity = worker.id
    <2>1. at.held \in Assertions /\ Open(at)
      BY <1>3, <1>6 DEF AttemptOk, AttemptType, Open
    <2>2. at.held.identity \in Elsewhere
          \/ Range(stored[at.held.identity]) \subseteq Range(callback.chain)
      BY <1>5, <1>6
    <2>3. \/ Refuses(a, at, at.held, callback.chain, TRUE) /\ Notified
          \/ Mint(a, at, at.held) /\ Notified
          \/ /\ attempt' = [attempt EXCEPT ![a] = at]
             /\ worker' = [worker EXCEPT !.pc = "approving"] /\ UNCHANGED callback
      BY <1>6 DEF CallbackTurn, Approves, Suspends
    <2> HIDE DEF at
    <2>4. CASE Refuses(a, at, at.held, callback.chain, TRUE) /\ Notified
      <3>1. TRUE \in BOOLEAN /\ (TRUE => at.held = at.held)
        OBVIOUS
      <3>2. PICK y : /\ Turn(attempt[a], y) /\ attempt' = [attempt EXCEPT ![a] = y]
                     /\ TRUE => ~Arrived(y)
        BY <1>2, <2>1, <2>2, <2>4, <3>1, RefusesIs
      <3> QED
        BY <2>4, <3>2
    <2>5. CASE Mint(a, at, at.held) /\ Notified
      BY <1>2, <2>1, <2>5, MintIs DEF BridgeInv
    <2>6. CASE /\ attempt' = [attempt EXCEPT ![a] = at]
               /\ worker' = [worker EXCEPT !.pc = "approving"] /\ UNCHANGED callback
      <3>1. ~Notified
        <4>1. worker'.pc = "approving" /\ worker'.pc # "notify"
          BY <1>4, <2>6 DEF WorkerType
        <4>2. NextRow(worker).pc # "approving"
          BY DEF NextRow, Idle
        <4> QED
          BY <1>4, <2>6, <4>1, <4>2 DEF Notified, WorkerType
      <3> QED
        BY <1>2, <2>6, <3>1, QuietIsTurn
    <2> QED
      BY <2>3, <2>4, <2>5, <2>6
  <1>7. CASE ~(at.held # Nothing /\ at.held.identity = worker.id)
    <2>1. attempt' = [attempt EXCEPT ![a] = at] /\ Notified
      BY <1>7 DEF CallbackTurn
    <2>2. ~Arrived(at)
      <3>1. Arrived(at) => Arrived(x) /\ at.held.identity = x.held.identity
        BY <1>2 DEF Quiet, Keeps
      <3>2. Arrived(x) => worker.id = x.held.identity
        BY DEF BridgeInv, ArrivalInv
      <3> QED
        BY <1>7, <3>1, <3>2 DEF Arrived
    <2> QED
      BY <1>2, <2>1, <2>2, QuietIsTurn
  <1> QED
    BY <1>6, <1>7

\* What a request or the worker approved after it waited.
LEMMA ResumeMoves ==
  ASSUME BridgeInv, NEW t \in Callers, approval[t] # Nothing,
         Mint(approval[t].attempt, attempt[approval[t].attempt], approval[t].asr)
  PROVE  /\ approval[t].attempt \in DOMAIN attempt
         /\ \E y : /\ Turn(attempt[approval[t].attempt], y)
                   /\ attempt' = [attempt EXCEPT ![approval[t].attempt] = y]
                   /\ ~Arrived(y)
         /\ codes' \in Seq(CodeType) /\ Len(codes') = Len(codes) + 1
  <1> DEFINE a == approval[t].attempt
  <1>1. a \in DOMAIN attempt /\ approval[t].asr \in Assertions
    BY DEF BridgeInv, ApprovalsInv, ApprovalType
  <1>2. AttemptOk(attempt[a])
    BY <1>1 DEF BridgeInv, AttemptsInv
  <1>3. Quiet(attempt[a], attempt[a])
    BY <1>2, QuietSteps
  <1> QED
    BY <1>1, <1>3, MintIs DEF BridgeInv

LEMMA StepAttempts ==
  ASSUME BridgeInv, [Next]_vars
  PROVE  AttemptMove
  <1>1. \A a \in DOMAIN attempt : AttemptOk(attempt[a])
    BY DEF BridgeInv, AttemptsInv
  <1>2. CASE UNCHANGED attempt
    BY <1>2 DEF AttemptMove
  <1>3. ASSUME NEW a \in DOMAIN attempt, NEW y, Turn(attempt[a], y),
               attempt' = [attempt EXCEPT ![a] = y]
        PROVE  AttemptMove
    BY <1>3 DEF AttemptMove
  <1>4. CASE \E hint \in Identities \cup {NoWant}, old \in SUBSET Deletable, expired \in SUBSET Live :
               CreateAttempt(hint, old, expired)
    BY <1>4 DEF CreateAttempt, AttemptMove
  <1>5. ASSUME NEW a \in DOMAIN attempt, Poll(a) \/ AttemptAges(a)
        PROVE  AttemptMove
    <2>1. CASE Poll(a)
      <3>1. Turn(attempt[a], Refreshed(attempt[a]))
        BY <1>1, QuietSteps, QuietIsTurn
      <3>2. attempt' = [attempt EXCEPT ![a] = Refreshed(attempt[a])]
        BY <2>1 DEF Poll
      <3> QED
        BY <1>3, <3>1, <3>2
    <2>2. CASE AttemptAges(a)
      <3> DEFINE y == [attempt[a] EXCEPT !.late = TRUE]
      <3>1. Turn(attempt[a], y)
        BY <1>1, QuietSteps, QuietIsTurn
      <3>2. attempt' = [attempt EXCEPT ![a] = y]
        BY <2>2 DEF AttemptAges
      <3> QED
        BY <1>3, <3>1, <3>2
    <2> QED
      BY <1>5, <2>1, <2>2
  <1>6. ASSUME NEW a \in DOMAIN attempt, GetChallenge(a)
        PROVE  AttemptMove
    <2> DEFINE at == Refreshed(attempt[a])
    <2>1. Open(at) /\ at.stale /\ attempt' = [attempt EXCEPT ![a] = Rotated(at)]
      BY <1>6 DEF GetChallenge
    <2>2. Quiet(attempt[a], at)
      BY <1>1, QuietSteps
    <2>3. AttemptOk(at)
      BY <2>2 DEF Quiet, Keeps
    <2>4. Turn(attempt[a], Rotated(at))
      BY <2>1, <2>2, <2>3, RotatedTurn, TurnAfterQuiet
    <2> QED
      BY <1>3, <2>1, <2>4
  <1>7. ASSUME NEW a \in DOMAIN attempt, RequestLapses(a) \/ AssertionLapses(a)
        PROVE  AttemptMove
    <2>1. CASE RequestLapses(a)
      <3> DEFINE y == [attempt[a] EXCEPT !.stale = TRUE]
      <3>1. Turn(attempt[a], y)
        BY <1>1, <2>1, LapseTurn DEF RequestLapses
      <3>2. attempt' = [attempt EXCEPT ![a] = y]
        BY <2>1 DEF RequestLapses
      <3> QED
        BY <1>3, <3>1, <3>2
    <2>2. CASE AssertionLapses(a)
      <3> DEFINE y == [attempt[a] EXCEPT !.held.live = FALSE]
      <3>1. Turn(attempt[a], y)
        BY <1>1, <2>2, LapseTurn DEF AssertionLapses
      <3>2. attempt' = [attempt EXCEPT ![a] = y]
        BY <2>2 DEF AssertionLapses
      <3> QED
        BY <1>3, <3>1, <3>2
    <2> QED
      BY <1>7, <2>1, <2>2
  <1>8. ASSUME NEW t \in Requests, NEW a \in DOMAIN attempt, NEW asr \in Assertions,
               NEW supplied \in Chains \cup {NoChain}, NEW presents \in BOOLEAN,
               Submit(t, a, asr, supplied, presents)
        PROVE  AttemptMove
    BY <1>8, SubmitMoves DEF Copies
  <1>9. ASSUME NEW t \in Requests, ResumeApproval(t)
        PROVE  AttemptMove
    <2>1. t \in Callers
      BY DEF Callers
    <2> QED
      BY <1>3, <1>9, <2>1, ResumeMoves DEF ResumeApproval
  <1>10. CASE ResumeCallback
    <2>1. Worker \in Callers /\ approval[Worker] # Nothing
      BY <1>10 DEF ResumeCallback, Callers, BridgeInv, CallbackInv
    <2> QED
      BY <1>3, <1>10, <2>1, ResumeMoves DEF ResumeCallback
  <1>11. ASSUME NEW a \in DOMAIN attempt, CallbackTurn(a)
         PROVE  AttemptMove
    BY <1>3, <1>11, CallbackMoves
  <1>12. CASE Restart
    BY <1>12 DEF Restart, AttemptMove
  <1>13. CASE \/ \E n \in DOMAIN codes : ExchangeCode(n)
              \/ FetcherStep /\ UNCHANGED <<attempt, approval, callback, codes, restarts>>
              \/ BeginCallback
              \/ \E i \in Identities : BackoffEnds(i) \/ FetchAges(i)
              \/ \E i \in Identities, chain \in Chains : StoredElsewhere(i, chain)
              \/ UNCHANGED vars
    BY <1>2, <1>13 DEF ExchangeCode, BeginCallback, BackoffEnds, FetchAges, StoredElsewhere, vars
  <1> QED
    BY <1>4, <1>5, <1>6, <1>7, <1>8, <1>9, <1>10, <1>11, <1>12, <1>13
       DEF Next, Handlers, WorkerStep, Time

\* Deleting keeps the numbers of the sign-ins, and what is deleted stays so.
LEMMA CleanedIs ==
  ASSUME AttemptsInv, NEW old
  PROVE  /\ CleanedAttempts(old) \in Seq(AttemptType)
         /\ Len(CleanedAttempts(old)) = Len(attempt)
         /\ DOMAIN CleanedAttempts(old) = DOMAIN attempt
         /\ \A a \in DOMAIN attempt : Quiet(attempt[a], CleanedAttempts(old)[a])
  <1> DEFINE cleaned == CleanedAttempts(old)
  <1>1. Len(attempt) \in Nat /\ DOMAIN attempt = 1..Len(attempt)
    BY DEF AttemptsInv
  <1>2. cleaned = [a \in 1..Len(attempt) |-> IF a \in old THEN Forgotten(attempt[a]) ELSE attempt[a]]
    BY <1>1 DEF CleanedAttempts
  <1> HIDE DEF cleaned
  <1>3. \A a \in DOMAIN attempt : Quiet(attempt[a], cleaned[a])
    BY <1>1, <1>2, QuietSteps DEF AttemptsInv
  <1>4. \A a \in 1..Len(attempt) : cleaned[a] \in AttemptType
    BY <1>1, <1>3 DEF Quiet, Keeps, AttemptOk
  <1>5. cleaned \in [1..Len(attempt) -> AttemptType]
    BY <1>2, <1>4
  <1>6. cleaned \in Seq(AttemptType)
    BY <1>1, <1>5
  <1>7. Len(cleaned) = Len(attempt)
    BY <1>1, <1>5, <1>6
  <1> QED
    BY <1>1, <1>2, <1>3, <1>6, <1>7 DEF cleaned

LEMMA NewAttemptOk == AttemptOk(NewAttempt) /\ NewAttempt.code = 0 /\ ~Arrived(NewAttempt)
                      /\ Debt(NewAttempt) = {} /\ NewAttempt.nonce = 1
  <1>1. NewAttempt \in AttemptType
    BY SignInAssumption DEF NewAttempt, AttemptType, Statuses
  <1>2. NewAttempt.status = "waiting" /\ NewAttempt.held = Nothing /\ NewAttempt.failures = 0
        /\ NewAttempt.stale = FALSE /\ NewAttempt.code = 0 /\ NewAttempt.nonce = 1
    BY DEF NewAttempt
  <1> QED
    BY <1>1, <1>2, SignInAssumption DEF AttemptOk, Arrived, Debt

\* The codes are only added to, and used up.
LEMMA StepCodes ==
  ASSUME BridgeInv, [Next]_vars
  PROVE  codes' \in Seq(CodeType) /\ Len(codes') >= Len(codes)
  <1>1. codes \in Seq(CodeType) /\ Len(codes) \in Nat
    BY DEF BridgeInv, AttemptsInv
  <1>2. \/ UNCHANGED codes
        \/ \E expired : codes' = CleanedCodes(expired)
        \/ \E c \in CodeType : codes' = Append(codes, c)
    <2>1. ASSUME NEW a \in Nat, NEW asr \in Assertions
          PROVE  NewCode(a, asr) \in CodeType
      BY AssertionIsSomething DEF NewCode, CodeType, Assertions
    <2>2. \A a \in DOMAIN attempt : a \in Nat
      BY DEF BridgeInv, AttemptsInv
    <2>3. CASE \E hint \in Identities \cup {NoWant}, old \in SUBSET Deletable, expired \in SUBSET Live :
                 CreateAttempt(hint, old, expired)
      BY <2>3 DEF CreateAttempt
    <2>4. CASE Restart \/ \E n \in DOMAIN codes : ExchangeCode(n)
      BY <2>4 DEF Restart, ExchangeCode
    <2>5. ASSUME NEW t \in Requests, NEW a \in DOMAIN attempt, NEW asr \in Assertions,
                 NEW supplied \in Chains \cup {NoChain}, NEW presents \in BOOLEAN,
                 Submit(t, a, asr, supplied, presents)
          PROVE  UNCHANGED codes \/ \E c \in CodeType : codes' = Append(codes, c)
      BY <2>1, <2>2, <2>5 DEF Submit, StartFetch, Refuses, Approves, Suspends, Mint
    <2>6. ASSUME NEW t \in Callers, approval[t] # Nothing,
                 Mint(approval[t].attempt, attempt[approval[t].attempt], approval[t].asr)
          PROVE  \E c \in CodeType : codes' = Append(codes, c)
      <3>1. approval[t].attempt \in Nat /\ approval[t].asr \in Assertions
        BY <2>6 DEF BridgeInv, ApprovalsInv, ApprovalType
      <3> QED
        BY <2>1, <2>6, <3>1 DEF Mint
    <2>7. ASSUME NEW t \in Requests, ResumeApproval(t)
          PROVE  \E c \in CodeType : codes' = Append(codes, c)
      BY <2>6, <2>7 DEF ResumeApproval, Callers
    <2>8. CASE ResumeCallback
      <3>1. Worker \in Callers /\ approval[Worker] # Nothing
        BY <2>8 DEF ResumeCallback, Callers, BridgeInv, CallbackInv
      <3> QED
        BY <2>6, <2>8, <3>1 DEF ResumeCallback
    <2>9. ASSUME NEW a \in DOMAIN attempt, CallbackTurn(a)
          PROVE  UNCHANGED codes \/ \E c \in CodeType : codes' = Append(codes, c)
      <3> DEFINE at == Refreshed(attempt[a])
      <3>1. at.held # Nothing => at.held \in Assertions
        <4>1. Quiet(attempt[a], at)
          BY QuietSteps DEF BridgeInv, AttemptsInv
        <4> QED
          BY <4>1 DEF Quiet, Keeps, AttemptOk, AttemptType
      <3>2. \/ UNCHANGED codes
            \/ at.held # Nothing /\ codes' = Append(codes, NewCode(a, at.held))
        BY <2>9 DEF CallbackTurn, Refuses, StartFetch, Approves, Suspends, Mint
      <3> QED
        BY <2>1, <2>2, <3>1, <3>2
    <2>10. CASE \/ \E a \in DOMAIN attempt :
                     Poll(a) \/ GetChallenge(a) \/ AttemptAges(a) \/ RequestLapses(a) \/ AssertionLapses(a)
                \/ FetcherStep /\ UNCHANGED <<attempt, approval, callback, codes, restarts>>
                \/ BeginCallback
                \/ \E i \in Identities : BackoffEnds(i) \/ FetchAges(i)
                \/ \E i \in Identities, chain \in Chains : StoredElsewhere(i, chain)
                \/ UNCHANGED vars
      BY <2>10 DEF Poll, GetChallenge, AttemptAges, RequestLapses, AssertionLapses, BeginCallback,
                   BackoffEnds, FetchAges, StoredElsewhere, vars
    <2> QED
      BY <2>3, <2>4, <2>5, <2>7, <2>8, <2>9, <2>10 DEF Next, Handlers, WorkerStep, Time
  <1>3. ASSUME NEW expired, codes' = CleanedCodes(expired)
        PROVE  codes' \in Seq(CodeType) /\ Len(codes') = Len(codes)
    <2>1. codes' = [n \in 1..Len(codes) |-> [codes[n] EXCEPT !.live = @ /\ n \notin expired]]
      BY <1>1, <1>3 DEF CleanedCodes
    <2>2. ASSUME NEW n \in 1..Len(codes)
          PROVE  [codes[n] EXCEPT !.live = @ /\ n \notin expired] \in CodeType
      <3>1. codes[n] \in CodeType
        BY <1>1
      <3>2. (codes[n].live /\ n \notin expired) \in BOOLEAN
        OBVIOUS
      <3> QED
        BY <3>1, <3>2 DEF CodeType
    <2>3. codes' \in [1..Len(codes) -> CodeType]
      BY <2>1, <2>2
    <2> QED
      BY <1>1, <2>3
  <1> QED
    BY <1>1, <1>2, <1>3

\* Every sign-in there was has taken a turn or none, and the others are new.
LEMMA MoveIs ==
  ASSUME AttemptsInv, AttemptMove
  PROVE  /\ attempt' \in Seq(AttemptType) /\ Len(attempt') \in Nat /\ Len(attempt') >= Len(attempt)
         /\ \A a \in DOMAIN attempt : a \in DOMAIN attempt' /\ Turn(attempt[a], attempt'[a])
         /\ \A a \in DOMAIN attempt' : a \notin DOMAIN attempt => attempt'[a] = NewAttempt
  <1>1. attempt \in Seq(AttemptType) /\ Len(attempt) \in Nat /\ DOMAIN attempt = 1..Len(attempt)
        /\ \A a \in DOMAIN attempt : AttemptOk(attempt[a])
    BY DEF AttemptsInv
  <1>2. \A a \in DOMAIN attempt : Turn(attempt[a], attempt[a])
    BY <1>1, QuietSteps, QuietIsTurn
  <1>3. CASE UNCHANGED attempt
    BY <1>1, <1>2, <1>3
  <1>4. ASSUME NEW old, attempt' = CleanedAttempts(old)
        PROVE  /\ attempt' \in Seq(AttemptType) /\ Len(attempt') = Len(attempt)
               /\ \A a \in DOMAIN attempt : a \in DOMAIN attempt' /\ Turn(attempt[a], attempt'[a])
               /\ \A a \in DOMAIN attempt' : a \in DOMAIN attempt
    BY <1>4, CleanedIs, QuietIsTurn
  <1>5. ASSUME NEW old, attempt' = Append(CleanedAttempts(old), NewAttempt)
        PROVE  /\ attempt' \in Seq(AttemptType) /\ Len(attempt') = Len(attempt) + 1
               /\ \A a \in DOMAIN attempt : a \in DOMAIN attempt' /\ Turn(attempt[a], attempt'[a])
               /\ \A a \in DOMAIN attempt' : a \notin DOMAIN attempt => attempt'[a] = NewAttempt
    <2> DEFINE cleaned == CleanedAttempts(old)
    <2>1. /\ cleaned \in Seq(AttemptType) /\ Len(cleaned) = Len(attempt)
          /\ \A a \in DOMAIN attempt : Turn(attempt[a], cleaned[a])
      BY CleanedIs, QuietIsTurn
    <2>2. NewAttempt \in AttemptType
      BY NewAttemptOk DEF AttemptOk
    <2> HIDE DEF cleaned
    <2>3. attempt' = Append(cleaned, NewAttempt)
      BY <1>5 DEF cleaned
    <2>4. /\ attempt' \in Seq(AttemptType) /\ Len(attempt') = Len(attempt) + 1
          /\ DOMAIN attempt' = 1..Len(attempt) + 1
          /\ attempt'[Len(attempt) + 1] = NewAttempt
          /\ \A a \in 1..Len(attempt) : attempt'[a] = cleaned[a]
      BY <1>1, <2>1, <2>2, <2>3
    <2>5. \A a \in DOMAIN attempt : a \in DOMAIN attempt' /\ attempt'[a] = cleaned[a]
      BY <1>1, <2>4
    <2>6. \A a \in DOMAIN attempt' : a \notin DOMAIN attempt => a = Len(attempt) + 1
      BY <1>1, <2>4
    <2> QED
      BY <2>1, <2>4, <2>5, <2>6
  <1>6. ASSUME NEW a \in DOMAIN attempt, NEW y, Turn(attempt[a], y),
               attempt' = [attempt EXCEPT ![a] = y]
        PROVE  /\ attempt' \in Seq(AttemptType) /\ Len(attempt') = Len(attempt)
               /\ \A b \in DOMAIN attempt : b \in DOMAIN attempt' /\ Turn(attempt[b], attempt'[b])
               /\ \A b \in DOMAIN attempt' : b \in DOMAIN attempt
    <2>1. y \in AttemptType
      BY <1>6 DEF Turn, Keeps, AttemptOk
    <2>2. attempt' \in Seq(AttemptType) /\ Len(attempt') = Len(attempt) /\ DOMAIN attempt' = DOMAIN attempt
          /\ attempt'[a] = y /\ \A b \in DOMAIN attempt : b # a => attempt'[b] = attempt[b]
      BY <1>1, <1>6, <2>1, ExceptSeq
    <2> QED
      BY <1>2, <1>6, <2>2
  <1> QED
    BY <1>1, <1>3, <1>4, <1>5, <1>6 DEF AttemptMove

LEMMA AttemptsStep ==
  ASSUME BridgeInv, [Next]_vars
  PROVE  AttemptsInv'
  <1>1. AttemptMove /\ AttemptsInv
    BY StepAttempts DEF BridgeInv
  <1>2. codes' \in Seq(CodeType) /\ Len(codes') >= Len(codes) /\ Len(codes) \in Nat /\ Len(codes') \in Nat
    BY StepCodes DEF BridgeInv, AttemptsInv
  <1>3. /\ attempt' \in Seq(AttemptType)
        /\ \A a \in DOMAIN attempt : a \in DOMAIN attempt' /\ Turn(attempt[a], attempt'[a])
        /\ \A a \in DOMAIN attempt' : a \notin DOMAIN attempt => attempt'[a] = NewAttempt
    BY <1>1, MoveIs
  <1>4. ASSUME NEW a \in DOMAIN attempt'
        PROVE  AttemptOk(attempt'[a]) /\ attempt'[a].code <= Len(codes')
    <2>1. CASE a \in DOMAIN attempt
      <3>1. Turn(attempt[a], attempt'[a]) /\ attempt[a].code <= Len(codes)
        BY <1>1, <1>3, <2>1 DEF AttemptsInv
      <3>2. attempt[a].code \in Nat
        BY <1>1, <2>1 DEF AttemptsInv, AttemptOk, AttemptType
      <3> QED
        BY <1>2, <3>1, <3>2 DEF Turn, Keeps
    <2>2. CASE a \notin DOMAIN attempt
      BY <1>2, <1>3, <2>2, NewAttemptOk
    <2> QED
      BY <2>1, <2>2
  <1>5. \A a \in DOMAIN attempt' : AttemptOk(attempt[a])'
    BY <1>4 DEF AttemptOk, Open
  <1> QED
    BY <1>2, <1>3, <1>4, <1>5 DEF AttemptsInv

-----------------------------------------------------------------------------
(* The worker *)

LEMMA NextRowIs ==
  ASSUME NEW w \in WorkerType
  PROVE  /\ NextRow(w) \in WorkerType
         /\ NextRow(w).pc \in {"idle", "batch"}
         /\ NextRow(w).pc = "batch" => NextRow(w).batch # << >>
         /\ ~NextRow(w).updated
  <1>1. Idle \in WorkerType /\ Idle.pc = "idle" /\ Idle.updated = FALSE /\ Idle.batch = << >>
    BY DEF Idle, WorkerType, Wants
  <1>2. CASE w.batch = << >>
    BY <1>1, <1>2 DEF NextRow
  <1>3. CASE w.batch # << >>
    <2> DEFINE v == [Idle EXCEPT !.pc = "batch", !.batch = w.batch]
    <2>1. NextRow(w) = v
      BY <1>3 DEF NextRow
    <2>2. v \in WorkerType /\ v.pc = "batch" /\ v.batch = w.batch /\ v.updated = FALSE
      BY <1>1 DEF WorkerType
    <2> QED
      BY <1>3, <2>1, <2>2
  <1> QED
    BY <1>2, <1>3

\* What the invariant says of the worker alone.
WorkerOk(w) ==
  /\ w \in WorkerType
  /\ w.pc = "batch" => w.batch # << >>
  /\ w.pc \in {"fetch", "notify", "approving"} => w.id \in Identities
  /\ w.updated => w.pc \in {"fetch", "notify", "approving"}

\* schedule() and the end of a fetch leave a row.
LEMMA RowsTyped ==
  ASSUME NEW r \in RowType
  PROVE  /\ \A want \in Wants : Scheduled(r, want) \in RowType
         /\ \A state \in {"done", "abandoned"} : Finished(r, state) \in RowType
         /\ \A when \in {"due", "gap", "backoff"} : [r EXCEPT !.when = when] \in RowType
         /\ [r EXCEPT !.old = TRUE] \in RowType
  <1>1. NoRow \in RowType
    BY DEF NoRow, RowType, Wants
  <1>2. ASSUME NEW want \in Wants
        PROVE  Scheduled(r, want) \in RowType
    <2>1. Fresh(want) \in RowType
      BY <1>1 DEF Fresh, RowType
    <2>2. [r EXCEPT !.want = IF want = NoWant THEN @ ELSE want,
                    !.when = IF @ = "backoff" THEN "due" ELSE @] \in RowType
      <3> DEFINE v == IF want = NoWant THEN r.want ELSE want
                 u == IF r.when = "backoff" THEN "due" ELSE r.when
      <3>1. v \in Wants /\ u \in {"due", "gap", "backoff"}
        BY DEF RowType
      <3> HIDE DEF v, u
      <3>2. [r EXCEPT !.want = v, !.when = u] \in RowType
        BY <3>1 DEF RowType
      <3> QED
        BY <3>2 DEF v, u
    <2> QED
      BY <2>1, <2>2 DEF Scheduled
  <1>3. \A state \in {"done", "abandoned"} : Finished(r, state) \in RowType
    BY <1>1 DEF Finished, RowType
  <1> QED
    BY <1>2, <1>3 DEF RowType

\* At most one row changes.
RowMove ==
  \/ row' = row
  \/ \E i \in Identities : \E r \in RowType : row' = [row EXCEPT ![i] = r]

LEMMA StepRows ==
  ASSUME BridgeInv, [Next]_vars
  PROVE  RowMove
  <1>1. row \in [Identities -> RowType] /\ \A i \in Identities : row[i] \in RowType
    BY DEF BridgeInv, FetcherInv
  <1>0. ASSUME NEW i \in Identities, NEW r \in RowType, row' = [row EXCEPT ![i] = r]
        PROVE  RowMove
    BY <1>0 DEF RowMove
  <1>2. ASSUME NEW i \in Identities, NEW want \in Wants, row' = [row EXCEPT ![i] = Scheduled(@, want)]
        PROVE  RowMove
    <2>1. row[i] \in RowType
      BY <1>1
    <2>2. Scheduled(row[i], want) \in RowType
      BY <2>1, RowsTyped
    <2> QED
      BY <1>0, <1>2, <2>2
  <1>3. ASSUME NEW a, NEW at, NEW asr \in Assertions, StartFetch(a, at, asr)
        PROVE  RowMove
    <2>1. asr.identity \in Identities /\ asr.head \in Wants
      BY SignInAssumption DEF Assertions, Wants
    <2>2. row' = row \/ row' = [row EXCEPT ![asr.identity] = Scheduled(@, asr.head)]
      BY <1>3 DEF StartFetch
    <2>3. CASE row' = row
      BY <2>3 DEF RowMove
    <2> QED
      BY <1>2, <2>1, <2>2, <2>3
  <1>4. ASSUME NEW w \in WorkerType, NEW s, w.id \in Identities, EndProcess(w, s)
        PROVE  RowMove
    <2>1. \/ row' = [row EXCEPT ![w.id] = Finished(@, "done")]
          \/ \E when \in {"gap", "backoff", "due"} : row' = [row EXCEPT ![w.id].when = when]
      BY <1>4 DEF EndProcess
    <2> DEFINE r == row[w.id]
    <2>0. r \in RowType
      BY <1>1, <1>4
    <2>2. CASE row' = [row EXCEPT ![w.id] = Finished(@, "done")]
      <3>1. Finished(r, "done") \in RowType /\ row' = [row EXCEPT ![w.id] = Finished(r, "done")]
        BY <2>0, <2>2, RowsTyped
      <3> QED
        BY <1>0, <1>4, <3>1
    <2>3. ASSUME NEW when \in {"gap", "backoff", "due"}, row' = [row EXCEPT ![w.id].when = when]
          PROVE  RowMove
      <3>1. [r EXCEPT !.when = when] \in RowType /\ row' = [row EXCEPT ![w.id] = [r EXCEPT !.when = when]]
        BY <2>0, <2>3, RowsTyped
      <3> QED
        BY <1>0, <1>4, <3>1
    <2> QED
      BY <2>1, <2>2, <2>3
  <1>5. CASE \E hint \in Identities \cup {NoWant}, old \in SUBSET Deletable, expired \in SUBSET Live :
               CreateAttempt(hint, old, expired)
    <2>1. PICK hint \in Identities \cup {NoWant} :
             row' = row \/ (hint # NoWant /\ row' = [row EXCEPT ![hint] = Scheduled(@, NoWant)])
      BY <1>5 DEF CreateAttempt
    <2>2. NoWant \in Wants
      BY DEF Wants
    <2>3. CASE hint # NoWant /\ row' = [row EXCEPT ![hint] = Scheduled(@, NoWant)]
      <3>1. hint \in Identities
        BY <2>3
      <3> QED
        BY <1>2, <2>2, <2>3, <3>1
    <2>4. CASE row' = row
      BY <2>4 DEF RowMove
    <2> QED
      BY <2>1, <2>3, <2>4
  <1>6. ASSUME NEW t \in Requests, NEW a \in DOMAIN attempt, NEW asr \in Assertions,
               NEW supplied \in Chains \cup {NoChain}, NEW presents \in BOOLEAN,
               Submit(t, a, asr, supplied, presents)
        PROVE  RowMove
    <2>1. row' = row \/ \E at : StartFetch(a, at, asr)
      BY <1>6 DEF Submit, Refuses
    <2>2. CASE row' = row
      BY <2>2 DEF RowMove
    <2> QED
      BY <1>3, <2>1, <2>2
  <1>7. ASSUME NEW a \in DOMAIN attempt, CallbackTurn(a)
        PROVE  RowMove
    <2> DEFINE at == Refreshed(attempt[a])
    <2>1. at.held # Nothing => at.held \in Assertions
      <3>1. Quiet(attempt[a], at)
        BY QuietSteps DEF BridgeInv, AttemptsInv
      <3> QED
        BY <3>1 DEF Quiet, Keeps, AttemptOk, AttemptType
    <2>2. row' = row \/ (at.held # Nothing /\ StartFetch(a, at, at.held))
      BY <1>7 DEF CallbackTurn, Refuses
    <2> HIDE DEF at
    <2>3. CASE row' = row
      BY <2>3 DEF RowMove
    <2> QED
      BY <1>3, <2>1, <2>2, <2>3
  <1>8. CASE ProcessRow
    <2> DEFINE r == Head(worker.batch)
               w == [Idle EXCEPT !.batch = Tail(worker.batch), !.id = r.id, !.want = r.want]
    <2>1. worker.batch \in Seq([id : Identities, want : Wants]) /\ worker.batch # << >>
      BY <1>8 DEF ProcessRow, BridgeInv, FetcherInv, WorkerType
    <2>2. r \in [id : Identities, want : Wants] /\ Tail(worker.batch) \in Seq([id : Identities, want : Wants])
      BY <2>1, HeadTailProperties
    <2>3. Idle \in WorkerType
      BY DEF Idle, WorkerType, Wants
    <2> HIDE DEF r
    <2>4. w \in WorkerType /\ w.id = r.id /\ r.id \in Identities
      BY <2>2, <2>3 DEF WorkerType
    <2>5. \/ row' = [row EXCEPT ![r.id] = Finished(@, "abandoned")]
          \/ EndProcess(w, stored[r.id])
          \/ row' = row
      BY <1>8 DEF ProcessRow, r
    <2> HIDE DEF w
    <2>6. CASE row' = [row EXCEPT ![r.id] = Finished(@, "abandoned")]
      <3>1. row[r.id] \in RowType
        BY <1>1, <2>4
      <3>2. Finished(row[r.id], "abandoned") \in RowType
        BY <3>1, RowsTyped
      <3>3. row' = [row EXCEPT ![r.id] = Finished(row[r.id], "abandoned")]
        BY <2>6
      <3> QED
        BY <1>0, <2>4, <3>2, <3>3
    <2>7. CASE EndProcess(w, stored[r.id])
      BY <1>4, <2>4, <2>7
    <2>8. CASE row' = row
      BY <2>8 DEF RowMove
    <2> QED
      BY <2>5, <2>6, <2>7, <2>8
  <1>9. ASSUME NEW answer \in Chains \cup {NoChain}, SourceAnswers(answer)
        PROVE  RowMove
    <2> DEFINE s == Ingested(stored[worker.id], answer)
               w == [worker EXCEPT !.left = @ - 1, !.updated = @ \/ s # stored[worker.id]]
    <2>1. worker \in WorkerType /\ worker.id \in Identities
      BY <1>9 DEF SourceAnswers, BridgeInv, FetcherInv
    <2>2. worker.left - 1 \in Int /\ (worker.updated \/ s # stored[worker.id]) \in BOOLEAN
      BY <2>1 DEF WorkerType
    <2>3. w \in WorkerType /\ w.id = worker.id
      BY <2>1, <2>2 DEF WorkerType
    <2>4. EndProcess(w, s) \/ row' = row
      BY <1>9 DEF SourceAnswers
    <2> HIDE DEF w, s
    <2>5. CASE EndProcess(w, s)
      BY <1>4, <2>1, <2>3, <2>5
    <2>6. CASE row' = row
      BY <2>6 DEF RowMove
    <2> QED
      BY <2>4, <2>5, <2>6
  <1>10. ASSUME NEW i \in Identities, BackoffEnds(i) \/ FetchAges(i)
         PROVE  RowMove
    <2>1. \/ \E when \in {"due", "backoff"} : row' = [row EXCEPT ![i].when = when]
          \/ row' = [row EXCEPT ![i].old = TRUE]
      BY <1>10 DEF BackoffEnds, FetchAges, RowWaits, RowAges
    <2> DEFINE r == row[i]
    <2>0. r \in RowType
      BY <1>1
    <2>2. ASSUME NEW when \in {"due", "backoff"}, row' = [row EXCEPT ![i].when = when]
          PROVE  RowMove
      <3>1. [r EXCEPT !.when = when] \in RowType /\ row' = [row EXCEPT ![i] = [r EXCEPT !.when = when]]
        BY <2>0, <2>2, RowsTyped
      <3> QED
        BY <1>0, <3>1
    <2>3. CASE row' = [row EXCEPT ![i].old = TRUE]
      <3>1. [r EXCEPT !.old = TRUE] \in RowType /\ row' = [row EXCEPT ![i] = [r EXCEPT !.old = TRUE]]
        BY <2>0, <2>3, RowsTyped
      <3> QED
        BY <1>0, <3>1
    <2> QED
      BY <2>1, <2>2, <2>3
  <1>11. CASE \/ \E a \in DOMAIN attempt :
                   Poll(a) \/ GetChallenge(a) \/ AttemptAges(a) \/ RequestLapses(a) \/ AssertionLapses(a)
              \/ \E t \in Requests : ResumeApproval(t)
              \/ \E n \in DOMAIN codes : ExchangeCode(n)
              \/ StartRound /\ UNCHANGED <<attempt, approval, callback, codes, restarts>>
              \/ BeginCallback \/ ResumeCallback \/ Restart
              \/ \E i \in Identities, chain \in Chains : StoredElsewhere(i, chain)
              \/ UNCHANGED vars
    <2>1. row' = row
      BY <1>11 DEF Poll, GetChallenge, AttemptAges, RequestLapses, AssertionLapses, ResumeApproval,
                   ExchangeCode, StartRound, BeginCallback, ResumeCallback, Restart, StoredElsewhere, vars
    <2> QED
      BY <2>1 DEF RowMove
  <1> QED
    BY <1>5, <1>6, <1>7, <1>8, <1>9, <1>10, <1>11
       DEF Next, Handlers, WorkerStep, Time, FetcherStep

LEMMA RowsStep ==
  ASSUME BridgeInv, [Next]_vars
  PROVE  row' \in [Identities -> RowType]
  <1>1. RowMove
    BY StepRows
  <1> QED
    BY <1>1 DEF RowMove, BridgeInv, FetcherInv

\* At the end of a fetch the worker tells the sign-ins of what it stored.
LEMMA EndProcessIs ==
  ASSUME NEW w \in WorkerType, w.id \in Identities, NEW s, EndProcess(w, s)
  PROVE  /\ WorkerOk(worker') /\ worker'.pc # "approving"
         /\ w.updated => worker'.id = w.id /\ worker'.updated
  <1>1. CASE w.updated
    <2> DEFINE v == [w EXCEPT !.pc = "notify", !.left = 0]
    <2>1. worker' = v
      BY <1>1 DEF EndProcess
    <2>2. v \in WorkerType
      <3>1. "notify" \in {"idle", "batch", "fetch", "notify", "approving"} /\ 0 \in Int
        OBVIOUS
      <3> QED
        BY <3>1 DEF WorkerType
    <2>3. v.pc = "notify" /\ v.id = w.id
      BY DEF WorkerType
    <2>4. v.updated
      BY <1>1 DEF WorkerType
    <2> QED
      BY <2>1, <2>2, <2>3, <2>4 DEF WorkerOk
  <1>2. CASE ~w.updated
    <2>1. worker' = NextRow(w)
      BY <1>2 DEF EndProcess
    <2> QED
      BY <1>2, <2>1, NextRowIs DEF WorkerOk
  <1> QED
    BY <1>1, <1>2

\* The worker goes on to the next sign-in, or to its next row.
LEMMA NotifiedIs ==
  ASSUME WorkerOk(worker), worker.pc \in {"notify", "approving"}, Notified,
         callback.next \in Nat, callback.upto \in Nat
  PROVE  /\ WorkerOk(worker') /\ worker'.pc # "approving"
         /\ callback.next < callback.upto =>
              worker'.pc = "notify" /\ worker'.id = worker.id /\ worker'.updated = worker.updated
  <1>1. CASE worker' = [worker EXCEPT !.pc = "notify"]
    <2> DEFINE v == [worker EXCEPT !.pc = "notify"]
    <2>1. v \in WorkerType /\ v.pc = "notify" /\ v.id = worker.id /\ v.updated = worker.updated
      BY DEF WorkerOk, WorkerType
    <2> QED
      BY <1>1, <2>1 DEF WorkerOk
  <1>2. CASE callback.next = callback.upto /\ worker' = NextRow(worker)
    <2>1. ~(callback.next < callback.upto) \/ worker' = [worker EXCEPT !.pc = "notify"]
      BY DEF Notified
    <2> QED
      BY <1>1, <1>2, <2>1, NextRowIs DEF WorkerOk
  <1> QED
    BY <1>1, <1>2 DEF Notified

\* run_once() and _process(): a source that has news leaves the worker with
\* sign-ins to tell of it.
LEMMA FetcherStepIs ==
  ASSUME FetcherInv, FetcherStep
  PROVE  /\ WorkerOk(worker') /\ worker'.pc # "approving"
         /\ worker.pc \in {"idle", "batch", "fetch"}
         /\ stored' \in [Identities -> Copies]
         /\ \A i \in Identities : stored'[i] # stored[i] \/ (worker.id = i /\ worker.updated) =>
              worker'.id = i /\ worker'.updated
  <1>1. WorkerOk(worker) /\ Idle \in WorkerType /\ Idle.pc = "idle" /\ Idle.batch = << >>
        /\ Idle.id = NoWant /\ ~Idle.updated
    BY DEF FetcherInv, WorkerOk, Idle, WorkerType, Wants
  <1>2. CASE StartRound
    <2>1. worker.pc = "idle" /\ ~worker.updated /\ UNCHANGED stored
      BY <1>1, <1>2 DEF StartRound, WorkerOk
    <2>2. PICK order \in SetToSeqs(DueRows) :
            worker' = [Idle EXCEPT !.pc = "batch",
                                   !.batch = [n \in DOMAIN order |->
                                                [id |-> order[n], want |-> row[order[n]].want]]]
      BY <1>2 DEF StartRound
    <2>3. order \in [1..Cardinality(DueRows) -> DueRows]
      BY <2>2 DEF SetToSeqs
    <2>4. DueRows \subseteq Identities /\ DueRows # {}
      BY <1>2 DEF StartRound, DueRows, Pending
    <2>5. IsFiniteSet(DueRows)
      BY <2>4, FetcherAssumption, FS_Subset
    <2>6. Cardinality(DueRows) \in Nat /\ Cardinality(DueRows) # 0
      BY <2>4, <2>5, FS_CardinalityType, FS_EmptySet
    <2> DEFINE batch == [n \in DOMAIN order |-> [id |-> order[n], want |-> row[order[n]].want]]
               size == Cardinality(DueRows)
    <2> HIDE DEF size
    <2>7. ASSUME NEW n \in 1..size
          PROVE  [id |-> order[n], want |-> row[order[n]].want] \in [id : Identities, want : Wants]
      <3>1. order[n] \in Identities
        BY <2>3, <2>4 DEF size
      <3>2. row[order[n]] \in RowType
        BY <3>1 DEF FetcherInv
      <3> QED
        BY <3>1, <3>2 DEF RowType
    <2>8. DOMAIN order = 1..size /\ size \in Nat /\ size # 0
      BY <2>3, <2>6 DEF size
    <2>9. batch \in [1..size -> [id : Identities, want : Wants]]
      BY <2>7, <2>8
    <2>10. batch \in Seq([id : Identities, want : Wants]) /\ Len(batch) = size
      BY <2>8, <2>9
    <2>11. batch # << >>
      BY <2>8, <2>10
    <2> HIDE DEF batch
    <2>12. worker' = [Idle EXCEPT !.pc = "batch", !.batch = batch]
      BY <2>2 DEF batch
    <2>13. worker' \in WorkerType /\ worker'.pc = "batch" /\ worker'.batch = batch
           /\ worker'.id = NoWant /\ ~worker'.updated
      BY <1>1, <2>10, <2>12 DEF WorkerType
    <2> QED
      BY <2>1, <2>11, <2>13 DEF WorkerOk, FetcherInv
  <1>3. CASE ProcessRow
    <2> DEFINE r == Head(worker.batch)
               w == [Idle EXCEPT !.batch = Tail(worker.batch), !.id = r.id, !.want = r.want]
    <2>1. worker.batch \in Seq([id : Identities, want : Wants]) /\ worker.batch # << >>
          /\ worker.pc = "batch" /\ ~worker.updated /\ UNCHANGED stored
      BY <1>1, <1>3 DEF ProcessRow, WorkerOk, WorkerType
    <2>2. r \in [id : Identities, want : Wants] /\ Tail(worker.batch) \in Seq([id : Identities, want : Wants])
      BY <2>1, HeadTailProperties
    <2> HIDE DEF r
    <2>3. w \in WorkerType /\ w.id = r.id /\ r.id \in Identities /\ ~w.updated
      BY <1>1, <2>2 DEF WorkerType
    <2>4. \/ worker' = NextRow(w)
          \/ EndProcess(w, stored[r.id])
          \/ \E n \in 1..MaxSources : worker' = [w EXCEPT !.pc = "fetch", !.left = n]
      BY <1>3 DEF ProcessRow, r
    <2> HIDE DEF w
    <2>5. CASE worker' = NextRow(w)
      BY <2>1, <2>3, <2>5, NextRowIs DEF WorkerOk, FetcherInv
    <2>6. CASE EndProcess(w, stored[r.id])
      <3>1. WorkerOk(worker') /\ worker'.pc # "approving"
        BY <2>3, <2>6, EndProcessIs
      <3> QED
        BY <2>1, <3>1 DEF FetcherInv
    <2>7. ASSUME NEW n \in 1..MaxSources, worker' = [w EXCEPT !.pc = "fetch", !.left = n]
          PROVE  WorkerOk(worker') /\ worker'.pc = "fetch"
      <3>1. n \in Int
        BY <2>7, FetcherAssumption
      <3>2. worker' \in WorkerType /\ worker'.pc = "fetch" /\ worker'.id = w.id /\ ~worker'.updated
        BY <2>3, <2>7, <3>1 DEF WorkerType
      <3> QED
        BY <2>3, <3>2 DEF WorkerOk
    <2>8. CASE \E n \in 1..MaxSources : worker' = [w EXCEPT !.pc = "fetch", !.left = n]
      BY <2>1, <2>7, <2>8 DEF FetcherInv
    <2> QED
      BY <2>4, <2>5, <2>6, <2>8
  <1>4. ASSUME NEW answer \in Chains \cup {NoChain}, SourceAnswers(answer)
        PROVE  /\ WorkerOk(worker') /\ worker'.pc # "approving"
               /\ worker.pc = "fetch"
               /\ stored' \in [Identities -> Copies]
               /\ \A i \in Identities : stored'[i] # stored[i] \/ (worker.id = i /\ worker.updated) =>
                    worker'.id = i /\ worker'.updated
    <2> DEFINE s == Ingested(stored[worker.id], answer)
               news == worker.updated \/ s # stored[worker.id]
               left == worker.left - 1
               w == [worker EXCEPT !.left = left, !.updated = news]
    <2>1. worker \in WorkerType /\ worker.id \in Identities /\ worker.pc = "fetch"
      BY <1>1, <1>4 DEF SourceAnswers, WorkerOk
    <2>2. left \in Int /\ news \in BOOLEAN
      BY <2>1 DEF WorkerType
    <2>3. stored[worker.id] \in Copies /\ answer \in Copies
      BY <2>1 DEF FetcherInv, Copies
    <2>4. s \in Copies
      BY <2>3, BestIs
    <2>5. stored' = [stored EXCEPT ![worker.id] = s]
      BY <1>4 DEF SourceAnswers
    <2>6. EndProcess(w, s) \/ worker' = w
      BY <1>4 DEF SourceAnswers
    <2>7. w \in WorkerType /\ w.id = worker.id /\ w.pc = "fetch" /\ w.updated = news
      <3> HIDE DEF left, news
      <3> QED
        BY <2>1, <2>2 DEF WorkerType
    <2> HIDE DEF w
    <2>8. /\ WorkerOk(worker') /\ worker'.pc # "approving"
          /\ news => worker'.id = worker.id /\ worker'.updated
      <3>1. CASE EndProcess(w, s)
        BY <2>1, <2>7, <3>1, EndProcessIs
      <3>2. CASE worker' = w
        BY <2>1, <2>7, <3>2 DEF WorkerOk
      <3> QED
        BY <2>6, <3>1, <3>2
    <2>9. stored' \in [Identities -> Copies]
      BY <2>4, <2>5 DEF FetcherInv
    <2>10. ASSUME NEW i \in Identities, stored'[i] # stored[i] \/ (worker.id = i /\ worker.updated)
           PROVE  worker'.id = i /\ worker'.updated
      <3>1. i = worker.id
        BY <2>1, <2>5, <2>10 DEF FetcherInv
      <3>2. stored'[i] = s
        BY <2>5, <3>1 DEF FetcherInv
      <3>3. news
        BY <2>10, <3>1, <3>2
      <3> QED
        BY <2>8, <3>1, <3>3
    <2> QED
      BY <2>1, <2>8, <2>9, <2>10
  <1> QED
    BY <1>2, <1>3, <1>4 DEF FetcherStep

-----------------------------------------------------------------------------
(* Requests, time and the rest of the server go on beside the worker. *)

\* The steps that are not the worker's, and not a restart.
Beside ==
  \/ Handlers \/ Time
  \/ \E i \in Identities, chain \in Chains : StoredElsewhere(i, chain)
  \/ UNCHANGED vars

\* They change neither what the worker knows nor what only the fetcher stores.
LEMMA BesideIs ==
  ASSUME BridgeInv, Beside
  PROVE  /\ worker' = worker /\ callback' = callback /\ approval'[Worker] = approval[Worker]
         /\ stored' \in [Identities -> Copies]
         /\ \A i \in Identities \ Elsewhere : stored'[i] = stored[i]
  <1>1. stored \in [Identities -> Copies] /\ Worker \notin Requests
        /\ approval \in [Callers -> ApprovalType \cup {Nothing}]
    BY SignInAssumption DEF BridgeInv, FetcherInv, ApprovalsInv
  <1>2. ASSUME UNCHANGED <<stored, worker, callback>>,
               UNCHANGED approval \/ \E t \in Requests : \E v : approval' = [approval EXCEPT ![t] = v]
        PROVE  /\ worker' = worker /\ callback' = callback /\ approval'[Worker] = approval[Worker]
               /\ stored' \in [Identities -> Copies]
               /\ \A i \in Identities \ Elsewhere : stored'[i] = stored[i]
    <2>1. Worker \in Callers
      BY DEF Callers
    <2>2. CASE approval' = approval
      BY <1>1, <1>2, <2>2
    <2>3. CASE \E t \in Requests : \E v : approval' = [approval EXCEPT ![t] = v]
      BY <1>1, <1>2, <2>1, <2>3
    <2> QED
      BY <1>2, <2>2, <2>3
  <1>3. CASE \E hint \in Identities \cup {NoWant}, old \in SUBSET Deletable, expired \in SUBSET Live :
               CreateAttempt(hint, old, expired)
    BY <1>2, <1>3 DEF CreateAttempt
  <1>4. CASE \E a \in DOMAIN attempt :
               Poll(a) \/ GetChallenge(a) \/ AttemptAges(a) \/ RequestLapses(a) \/ AssertionLapses(a)
    BY <1>2, <1>4 DEF Poll, GetChallenge, AttemptAges, RequestLapses, AssertionLapses
  <1>5. ASSUME NEW t \in Requests, NEW a \in DOMAIN attempt, NEW asr \in Assertions,
               NEW supplied \in Chains \cup {NoChain}, NEW presents \in BOOLEAN,
               Submit(t, a, asr, supplied, presents)
        PROVE  /\ UNCHANGED <<stored, worker, callback>>
               /\ UNCHANGED approval \/ \E u \in Requests : \E v : approval' = [approval EXCEPT ![u] = v]
    BY <1>5 DEF Submit
  <1>6. CASE \E t \in Requests : ResumeApproval(t)
    BY <1>2, <1>6 DEF ResumeApproval
  <1>7. CASE \E n \in DOMAIN codes : ExchangeCode(n)
    BY <1>2, <1>7 DEF ExchangeCode
  <1>8. CASE \E i \in Identities : BackoffEnds(i) \/ FetchAges(i)
    BY <1>2, <1>8 DEF BackoffEnds, FetchAges, RowWaits, RowAges
  <1>9. ASSUME NEW i \in Identities, NEW chain \in Chains, StoredElsewhere(i, chain)
        PROVE  /\ UNCHANGED <<worker, approval, callback>> /\ i \in Elsewhere
               /\ stored' = [stored EXCEPT ![i] = chain] /\ chain \in Copies
    BY <1>9 DEF StoredElsewhere, Copies
  <1>10. CASE \E i \in Identities, chain \in Chains : StoredElsewhere(i, chain)
    BY <1>1, <1>9, <1>10
  <1>11. CASE UNCHANGED vars
    BY <1>2, <1>11 DEF vars
  <1>12. CASE \E t \in Requests, a \in DOMAIN attempt, asr \in Assertions,
                 supplied \in Chains \cup {NoChain}, presents \in BOOLEAN :
                Submit(t, a, asr, supplied, presents)
    BY <1>2, <1>5, <1>12
  <1> QED
    BY <1>3, <1>4, <1>6, <1>7, <1>8, <1>10, <1>11, <1>12 DEF Beside, Handlers, Time

LEMMA StepIs ==
  ASSUME [Next]_vars
  PROVE  \/ Beside
         \/ FetcherStep /\ UNCHANGED <<attempt, approval, callback, codes, restarts>>
         \/ BeginCallback
         \/ \E a \in DOMAIN attempt : CallbackTurn(a)
         \/ ResumeCallback
         \/ Restart
  BY DEF Next, WorkerStep, Beside

\* What is stored, and what the worker remembers, is in order.
LEMMA FetcherInvStep ==
  ASSUME BridgeInv, [Next]_vars
  PROVE  FetcherInv'
  <1>1. /\ stored \in [Identities -> Copies] /\ WorkerOk(worker)
        /\ callback.next \in Nat /\ callback.upto \in Nat
    BY DEF BridgeInv, FetcherInv, WorkerOk, CallbackInv
  <1>2. stored' \in [Identities -> Copies] /\ WorkerOk(worker')
    <2>1. CASE Beside
      BY <1>1, <2>1, BesideIs
    <2>2. CASE FetcherStep
      BY <2>2, FetcherStepIs DEF BridgeInv
    <2>3. CASE BeginCallback
      <3>1. UNCHANGED stored /\ (worker' = worker \/ worker' = NextRow(worker))
        BY <2>3 DEF BeginCallback
      <3>2. WorkerOk(NextRow(worker))
        BY <1>1, NextRowIs DEF WorkerOk
      <3> QED
        BY <1>1, <3>1, <3>2
    <2>4. ASSUME NEW a \in DOMAIN attempt, CallbackTurn(a)
          PROVE  stored' \in [Identities -> Copies] /\ WorkerOk(worker')
      <3>1. UNCHANGED stored /\ worker.pc = "notify"
            /\ (Notified \/ worker' = [worker EXCEPT !.pc = "approving"])
        BY <2>4 DEF CallbackTurn
      <3>2. CASE worker' = [worker EXCEPT !.pc = "approving"]
        <4>1. worker' \in WorkerType /\ worker'.pc = "approving" /\ worker'.id = worker.id
          BY <1>1, <3>2 DEF WorkerOk, WorkerType
        <4> QED
          BY <1>1, <3>1, <4>1 DEF WorkerOk
      <3> QED
        BY <1>1, <3>1, <3>2, NotifiedIs
    <2>5. CASE ResumeCallback
      <3>1. UNCHANGED stored /\ worker.pc = "approving" /\ Notified
        BY <2>5 DEF ResumeCallback
      <3> QED
        BY <1>1, <3>1, NotifiedIs
    <2>6. CASE Restart
      <3>1. UNCHANGED stored /\ worker' = Idle
        BY <2>6 DEF Restart
      <3>2. WorkerOk(Idle)
        BY DEF Idle, WorkerOk, WorkerType, Wants
      <3> QED
        BY <1>1, <3>1, <3>2
    <2> QED
      BY <2>1, <2>2, <2>3, <2>4, <2>5, <2>6, StepIs
  <1>3. row' \in [Identities -> RowType]
    BY RowsStep
  <1> QED
    BY <1>2, <1>3 DEF FetcherInv, WorkerOk

\* Whoever waits for claims waits for a sign-in there is.
LEMMA ApprovalsStep ==
  ASSUME BridgeInv, [Next]_vars
  PROVE  ApprovalsInv'
  <1> DEFINE Pending1 == {p \in ApprovalType : p.attempt \in DOMAIN attempt}
  <1>1. approval \in [Callers -> ApprovalType \cup {Nothing}]
        /\ \A t \in Callers : approval[t] \in Pending1 \cup {Nothing}
    BY DEF BridgeInv, ApprovalsInv
  <1>2. ASSUME NEW a \in DOMAIN attempt, NEW asr \in Assertions
        PROVE  [attempt |-> a, asr |-> asr] \in Pending1
    <2>1. a \in Nat
      BY DEF BridgeInv, AttemptsInv
    <2> QED
      BY <2>1 DEF ApprovalType
  <1>3. \/ approval' = approval
        \/ approval' = [t \in Callers |-> Nothing]
        \/ \E t \in Callers : \E v \in Pending1 \cup {Nothing} : approval' = [approval EXCEPT ![t] = v]
    <2> HIDE DEF Pending1
    <2>1. ASSUME NEW t \in Requests, NEW a \in DOMAIN attempt, NEW asr \in Assertions,
                 NEW supplied \in Chains \cup {NoChain}, NEW presents \in BOOLEAN,
                 Submit(t, a, asr, supplied, presents)
          PROVE  \/ approval' = approval
                 \/ \E u \in Callers : \E v \in Pending1 \cup {Nothing} : approval' = [approval EXCEPT ![u] = v]
      BY <1>2, <2>1 DEF Submit, Callers
    <2>2. CASE (\E t \in Requests : ResumeApproval(t)) \/ ResumeCallback
      BY <2>2 DEF ResumeApproval, ResumeCallback, Callers
    <2>3. ASSUME NEW a \in DOMAIN attempt, CallbackTurn(a)
          PROVE  \/ approval' = approval
                 \/ \E u \in Callers : \E v \in Pending1 \cup {Nothing} : approval' = [approval EXCEPT ![u] = v]
      <3> DEFINE at == Refreshed(attempt[a])
      <3>1. at.held # Nothing => at.held \in Assertions
        <4>1. Quiet(attempt[a], at)
          BY QuietSteps DEF BridgeInv, AttemptsInv
        <4> QED
          BY <4>1 DEF Quiet, Keeps, AttemptOk, AttemptType
      <3>2. \/ approval' = approval
            \/ at.held # Nothing /\ approval' = [approval EXCEPT ![Worker] = [attempt |-> a, asr |-> at.held]]
        BY <2>3 DEF CallbackTurn
      <3> HIDE DEF at
      <3> QED
        BY <1>2, <3>1, <3>2 DEF Callers
    <2>4. CASE Restart
      BY <2>4 DEF Restart
    <2>5. CASE \/ \E hint \in Identities \cup {NoWant}, old \in SUBSET Deletable, expired \in SUBSET Live :
                    CreateAttempt(hint, old, expired)
               \/ \E a \in DOMAIN attempt :
                    Poll(a) \/ GetChallenge(a) \/ AttemptAges(a) \/ RequestLapses(a) \/ AssertionLapses(a)
               \/ \E n \in DOMAIN codes : ExchangeCode(n)
               \/ FetcherStep /\ UNCHANGED <<attempt, approval, callback, codes, restarts>>
               \/ BeginCallback
               \/ \E i \in Identities : BackoffEnds(i) \/ FetchAges(i)
               \/ \E i \in Identities, chain \in Chains : StoredElsewhere(i, chain)
               \/ UNCHANGED vars
      BY <2>5 DEF CreateAttempt, Poll, GetChallenge, AttemptAges, RequestLapses, AssertionLapses,
                  ExchangeCode, BeginCallback, BackoffEnds, FetchAges, StoredElsewhere, vars
    <2> QED
      BY <2>1, <2>2, <2>3, <2>4, <2>5 DEF Next, Handlers, WorkerStep, Time
  <1>4. \A a \in DOMAIN attempt : a \in DOMAIN attempt'
    BY StepAttempts, MoveIs DEF BridgeInv
  <1>5. ASSUME NEW t \in Callers
        PROVE  approval'[t] \in Pending1 \cup {Nothing}
    BY <1>1, <1>3
  <1>6. DOMAIN approval' = Callers /\ approval' = [t \in Callers |-> approval'[t]]
    BY <1>1, <1>3
  <1>7. approval' \in [Callers -> ApprovalType \cup {Nothing}]
    BY <1>5, <1>6
  <1>8. \A t \in Callers : approval'[t] # Nothing => approval'[t].attempt \in DOMAIN attempt'
    BY <1>4, <1>5
  <1> QED
    BY <1>7, <1>8 DEF ApprovalsInv

\* The loop goes on, and stays within what it listed.
LEMMA NotifiedKeeps ==
  ASSUME BridgeInv, [Next]_vars, callback # NoCallback, Notified,
         UNCHANGED stored, approval'[Worker] = Nothing
  PROVE  CallbackInv'
  <1>1. /\ callback \in [next : Nat, upto : Nat, chain : Copies]
        /\ callback.next \in 1..callback.upto
        /\ callback.upto <= Len(attempt)
        /\ worker.pc \in {"notify", "approving"}
        /\ worker.id \notin Elsewhere => callback.chain = stored[worker.id]
        /\ WorkerOk(worker)
    BY DEF BridgeInv, CallbackInv, FetcherInv, WorkerOk
  <1>2. Len(attempt') >= Len(attempt) /\ Len(attempt') \in Nat /\ Len(attempt) \in Nat
    BY StepAttempts, MoveIs DEF BridgeInv, AttemptsInv
  <1>3. worker'.pc # "approving"
    BY <1>1, NotifiedIs
  <1>4. CASE callback.next < callback.upto /\ callback' = [callback EXCEPT !.next = @ + 1]
    <2> DEFINE n == callback.next + 1
    <2>1. n \in 1..callback.upto /\ n \in Nat
      BY <1>1, <1>4
    <2> HIDE DEF n
    <2>2. callback' = [callback EXCEPT !.next = n]
      BY <1>4 DEF n
    <2>3. /\ callback' \in [next : Nat, upto : Nat, chain : Copies]
          /\ callback'.next = n /\ callback'.upto = callback.upto /\ callback'.chain = callback.chain
      BY <1>1, <2>1, <2>2
    <2>4. worker'.pc = "notify" /\ worker'.id = worker.id
      BY <1>1, <1>4, NotifiedIs
    <2>5. callback'.upto <= Len(attempt')
      BY <1>1, <1>2, <2>3
    <2> QED
      BY <1>1, <1>3, <2>1, <2>3, <2>4, <2>5 DEF CallbackInv
  <1>5. CASE callback' = NoCallback
    <2>1. callback' \in [next : Nat, upto : Nat, chain : Copies]
      BY <1>5 DEF NoCallback, Copies
    <2> QED
      BY <1>3, <1>5, <2>1 DEF CallbackInv
  <1> QED
    BY <1>4, <1>5 DEF Notified

LEMMA CallbackStep ==
  ASSUME BridgeInv, [Next]_vars
  PROVE  CallbackInv'
  <1>1. /\ callback \in [next : Nat, upto : Nat, chain : Copies]
        /\ worker.pc = "approving" <=> approval[Worker] # Nothing
        /\ WorkerOk(worker) /\ stored \in [Identities -> Copies]
    BY DEF BridgeInv, CallbackInv, FetcherInv, WorkerOk
  <1>2. /\ Len(attempt') >= Len(attempt) /\ Len(attempt') \in Nat /\ Len(attempt) \in Nat
        /\ DOMAIN attempt = 1..Len(attempt)
    BY StepAttempts, MoveIs DEF BridgeInv, AttemptsInv
  <1>3. Worker \in Callers /\ approval \in [Callers -> ApprovalType \cup {Nothing}]
    BY DEF Callers, BridgeInv, ApprovalsInv
  <1>4. CASE Beside
    <2>1. /\ worker' = worker /\ callback' = callback /\ approval'[Worker] = approval[Worker]
          /\ \A i \in Identities \ Elsewhere : stored'[i] = stored[i]
      BY <1>4, BesideIs
    <2>2. worker.pc \in {"notify", "approving"} => worker.id \in Identities
      BY <1>1 DEF WorkerOk
    <2>3. callback.upto <= Len(attempt) => callback.upto <= Len(attempt')
      BY <1>1, <1>2
    <2> QED
      BY <2>1, <2>2, <2>3 DEF BridgeInv, CallbackInv
  <1>5. CASE FetcherStep /\ UNCHANGED <<attempt, approval, callback, codes, restarts>>
    <2>1. worker'.pc # "approving" /\ worker.pc \in {"idle", "batch", "fetch"}
      BY <1>5, FetcherStepIs DEF BridgeInv
    <2>2. callback = NoCallback
      BY <2>1 DEF BridgeInv, CallbackInv
    <2> QED
      BY <1>1, <1>5, <2>1, <2>2 DEF CallbackInv
  <1>6. CASE BeginCallback
    <2>1. /\ worker.pc = "notify" /\ callback = NoCallback /\ UNCHANGED <<stored, attempt, approval>>
          /\ approval[Worker] = Nothing /\ worker.id \in Identities
      BY <1>1, <1>6 DEF BeginCallback, WorkerOk
    <2>2. CASE attempt = << >>
      <3>1. worker' = NextRow(worker) /\ callback' = NoCallback
        BY <1>6, <2>1, <2>2 DEF BeginCallback
      <3>2. worker'.pc # "approving"
        BY <1>1, <3>1, NextRowIs DEF WorkerOk
      <3> QED
        BY <1>1, <2>1, <3>1, <3>2 DEF CallbackInv
    <2>3. CASE attempt # << >>
      <3>1. callback' = [next |-> 1, upto |-> Len(attempt), chain |-> stored[worker.id]]
            /\ worker' = worker
        BY <1>6, <2>3 DEF BeginCallback
      <3>2. Len(attempt) # 0
        <4>1. attempt \in Seq(AttemptType)
          BY DEF BridgeInv, AttemptsInv
        <4> QED
          BY <2>3, <4>1, EmptySeq
      <3>3. callback'.next \in 1..callback'.upto /\ callback' \in [next : Nat, upto : Nat, chain : Copies]
        BY <1>1, <1>2, <2>1, <3>1, <3>2
      <3>4. callback'.upto <= Len(attempt') /\ callback'.chain = stored[worker.id]
        BY <1>2, <3>1
      <3> QED
        BY <2>1, <3>1, <3>3, <3>4 DEF CallbackInv
    <2> QED
      BY <2>2, <2>3
  <1>7. ASSUME NEW a \in DOMAIN attempt, CallbackTurn(a)
        PROVE  CallbackInv'
    <2>1. /\ worker.pc = "notify" /\ callback.next = a /\ UNCHANGED stored
          /\ callback # NoCallback /\ approval[Worker] = Nothing
      <3>1. a # 0
        BY <1>2
      <3> QED
        BY <1>1, <1>7, <3>1 DEF CallbackTurn, NoCallback
    <2> DEFINE at == Refreshed(attempt[a])
    <2>2. \/ Notified /\ approval' = approval
          \/ /\ at.held # Nothing
             /\ approval' = [approval EXCEPT ![Worker] = [attempt |-> a, asr |-> at.held]]
             /\ worker' = [worker EXCEPT !.pc = "approving"]
             /\ UNCHANGED callback
      BY <1>7 DEF CallbackTurn
    <2>3. CASE Notified /\ approval' = approval
      BY <2>1, <2>3, NotifiedKeeps
    <2>4. CASE /\ at.held # Nothing
               /\ approval' = [approval EXCEPT ![Worker] = [attempt |-> a, asr |-> at.held]]
               /\ worker' = [worker EXCEPT !.pc = "approving"]
               /\ UNCHANGED callback
      <3>1. worker'.pc = "approving" /\ worker'.id = worker.id
        BY <1>1, <2>4 DEF WorkerOk, WorkerType
      <3>2. approval'[Worker] = [attempt |-> a, asr |-> at.held]
        BY <1>3, <2>4
      <3>3. approval'[Worker].attempt = a
        BY <3>2
      <3>4. approval'[Worker] # Nothing
        <4>1. at.held \in Assertions
          <5>1. Quiet(attempt[a], at)
            BY QuietSteps DEF BridgeInv, AttemptsInv
          <5> QED
            BY <2>4, <5>1 DEF Quiet, Keeps, AttemptOk, AttemptType
        <4>2. DOMAIN approval'[Worker] = {"attempt", "asr"} /\ DOMAIN Nothing = {"nonce"}
          BY <3>2 DEF Nothing
        <4> QED
          BY <4>2
      <3>5. callback.upto <= Len(attempt')
        BY <1>1, <1>2, <2>1 DEF BridgeInv, CallbackInv
      <3> QED
        BY <1>1, <2>1, <2>4, <3>1, <3>3, <3>4, <3>5 DEF BridgeInv, CallbackInv
    <2> QED
      BY <2>2, <2>3, <2>4
  <1>8. CASE ResumeCallback
    <2>1. worker.pc = "approving" /\ Notified /\ UNCHANGED stored
          /\ approval' = [approval EXCEPT ![Worker] = Nothing]
      BY <1>8 DEF ResumeCallback
    <2>2. approval'[Worker] = Nothing
      BY <1>3, <2>1
    <2>3. callback # NoCallback
      BY <1>1, <2>1 DEF BridgeInv, CallbackInv
    <2> QED
      BY <2>1, <2>2, <2>3, NotifiedKeeps
  <1>9. CASE Restart
    <2>1. worker' = Idle /\ callback' = NoCallback /\ approval' = [t \in Callers |-> Nothing]
      BY <1>9 DEF Restart
    <2>2. callback' \in [next : Nat, upto : Nat, chain : Copies] /\ worker'.pc = "idle"
      BY <2>1 DEF NoCallback, Copies, Idle
    <2> QED
      BY <1>3, <2>1, <2>2 DEF CallbackInv
  <1> QED
    BY <1>4, <1>5, <1>6, <1>7, <1>8, <1>9, StepIs

\* Nobody is overlooked: a sign-in whose chain is there is ahead of the loop
\* until its turn, and after its turn it waits for nothing that is there.
LEMMA ArrivalStep ==
  ASSUME BridgeInv, [Next]_vars
  PROVE  ArrivalInv'
  <1>1. /\ callback \in [next : Nat, upto : Nat, chain : Copies]
        /\ WorkerOk(worker) /\ stored \in [Identities -> Copies]
        /\ \A a \in DOMAIN attempt : AttemptOk(attempt[a])
    BY DEF BridgeInv, CallbackInv, FetcherInv, WorkerOk, AttemptsInv
  <1>2. /\ Len(attempt') >= Len(attempt) /\ Len(attempt') \in Nat /\ Len(attempt) \in Nat
        /\ DOMAIN attempt = 1..Len(attempt)
        /\ \A a \in DOMAIN attempt : Turn(attempt[a], attempt'[a])
        /\ \A a \in DOMAIN attempt' : a \notin DOMAIN attempt => attempt'[a] = NewAttempt
    BY StepAttempts, MoveIs DEF BridgeInv, AttemptsInv
  <1>3. \A a \in DOMAIN attempt' : AttemptOk(attempt'[a])
    BY <1>2, NewAttemptOk DEF Turn, Keeps
  \* Where nothing new is stored, who waits in vain did so before.
  <1>4. ASSUME \A i \in Identities \ Elsewhere : stored'[i] = stored[i],
               NEW a \in DOMAIN attempt', Arrived(attempt[a])'
        PROVE  /\ a \in DOMAIN attempt /\ Arrived(attempt[a]) /\ Arrived(attempt'[a])
               /\ attempt'[a].held.identity = attempt[a].held.identity
               /\ worker.id = attempt[a].held.identity /\ worker.updated
               /\ callback # NoCallback => callback.next <= a /\ a <= callback.upto
    <2>1. attempt'[a].held \in Assertions
      BY <1>3, <1>4 DEF Arrived, AttemptOk, AttemptType
    <2>2. attempt'[a].held.identity \in Identities \ Elsewhere
      BY <1>4, <2>1, SignInAssumption DEF Arrived, Assertions
    <2>3. Arrived(attempt'[a])
      BY <1>4, <2>2 DEF Arrived
    <2>4. a \in DOMAIN attempt
      BY <1>2, <2>3, NewAttemptOk
    <2>5. Arrived(attempt[a]) /\ attempt'[a].held.identity = attempt[a].held.identity
      BY <1>2, <2>3, <2>4 DEF Turn, Keeps
    <2> QED
      BY <2>3, <2>4, <2>5 DEF BridgeInv, ArrivalInv
  <1>5. CASE Beside
    <2>1. /\ worker' = worker /\ callback' = callback
          /\ \A i \in Identities \ Elsewhere : stored'[i] = stored[i]
      BY <1>5, BesideIs
    <2> QED
      BY <1>4, <2>1 DEF ArrivalInv
  <1>6. CASE FetcherStep /\ UNCHANGED <<attempt, approval, callback, codes, restarts>>
    <2>1. /\ worker.pc \in {"idle", "batch", "fetch"}
          /\ \A i \in Identities : stored'[i] # stored[i] \/ (worker.id = i /\ worker.updated) =>
               worker'.id = i /\ worker'.updated
      BY <1>6, FetcherStepIs DEF BridgeInv
    <2>2. callback' = NoCallback
      BY <1>6, <2>1 DEF BridgeInv, CallbackInv
    <2> SUFFICES ASSUME NEW a \in DOMAIN attempt, Arrived(attempt[a])'
                 PROVE  worker'.id = attempt[a].held.identity /\ worker'.updated
      BY <1>6, <2>2 DEF ArrivalInv
    <2> DEFINE i == attempt[a].held.identity
    <2>3. i \in Identities /\ i \notin Elsewhere /\ attempt[a].held # Nothing
          /\ attempt[a].held.head \in Range(stored'[i])
      <3>1. attempt[a].held # Nothing /\ i \notin Elsewhere /\ attempt[a].held.head \in Range(stored'[i])
        BY <1>6 DEF Arrived
      <3>2. attempt[a].held \in Assertions
        BY <1>1, <3>1 DEF AttemptOk, AttemptType
      <3> QED
        BY <3>1, <3>2, SignInAssumption DEF Assertions
    <2>4. CASE stored'[i] # stored[i]
      BY <2>1, <2>3, <2>4
    <2>5. CASE stored'[i] = stored[i]
      <3>1. Arrived(attempt[a])
        BY <2>3, <2>5 DEF Arrived
      <3>2. worker.id = i /\ worker.updated
        BY <3>1 DEF BridgeInv, ArrivalInv
      <3> QED
        BY <2>1, <2>3, <3>2
    <2> QED
      BY <2>4, <2>5
  <1>7. CASE BeginCallback
    <2>1. UNCHANGED <<stored, attempt>> /\ callback = NoCallback
      BY <1>7 DEF BeginCallback
    <2> SUFFICES ASSUME NEW a \in DOMAIN attempt', Arrived(attempt[a])'
                 PROVE  /\ worker'.id = attempt'[a].held.identity /\ worker'.updated
                        /\ callback' # NoCallback => callback'.next <= a /\ a <= callback'.upto
      BY DEF ArrivalInv
    <2>2. /\ a \in DOMAIN attempt /\ worker.updated
          /\ worker.id = attempt'[a].held.identity
      BY <1>4, <2>1
    <2>3. attempt # << >>
      BY <2>2
    <2>4. worker' = worker /\ callback' = [next |-> 1, upto |-> Len(attempt), chain |-> stored[worker.id]]
      BY <1>7, <2>3 DEF BeginCallback
    <2>5. callback'.next = 1 /\ callback'.upto = Len(attempt)
      BY <2>4
    <2> QED
      BY <1>2, <2>2, <2>4, <2>5
  \* The turn of the sign-in at which the loop is ends its waiting.
  <1>8. ASSUME NEW b \in DOMAIN attempt, callback # NoCallback, callback.next = b, NEW y,
               attempt' = [attempt EXCEPT ![b] = y], ~Arrived(y), Notified, UNCHANGED stored,
               worker.pc \in {"notify", "approving"}
        PROVE  ArrivalInv'
    <2> SUFFICES ASSUME NEW a \in DOMAIN attempt', Arrived(attempt[a])'
                 PROVE  /\ worker'.id = attempt'[a].held.identity /\ worker'.updated
                        /\ callback' # NoCallback => callback'.next <= a /\ a <= callback'.upto
      BY DEF ArrivalInv
    <2>1. /\ a \in DOMAIN attempt /\ Arrived(attempt'[a])
          /\ worker.id = attempt'[a].held.identity /\ worker.updated
          /\ callback.next <= a /\ a <= callback.upto
      BY <1>4, <1>8
    <2>2. a # b
      BY <1>8, <2>1
    <2>3. callback.next < callback.upto /\ callback.next + 1 <= a
      BY <1>1, <1>2, <1>8, <2>1, <2>2
    <2>4. callback' = [callback EXCEPT !.next = @ + 1]
      BY <1>1, <1>8, <2>3 DEF Notified
    <2>5. callback'.next = callback.next + 1 /\ callback'.upto = callback.upto
      BY <1>1, <2>4
    <2>6. worker'.id = worker.id /\ worker'.updated = worker.updated
      BY <1>1, <1>8, <2>3, NotifiedIs
    <2> QED
      BY <2>1, <2>3, <2>5, <2>6
  <1>9. ASSUME NEW b \in DOMAIN attempt, CallbackTurn(b)
        PROVE  ArrivalInv'
    <2>1. PICK y : /\ attempt' = [attempt EXCEPT ![b] = y]
                   /\ Notified => ~Arrived(y)
                   /\ Notified \/ (worker' = [worker EXCEPT !.pc = "approving"] /\ UNCHANGED callback)
      BY <1>9, CallbackMoves
    <2>2. /\ worker.pc = "notify" /\ callback.next = b /\ UNCHANGED stored
          /\ callback # NoCallback
      <3>1. b # 0
        BY <1>2
      <3> QED
        BY <1>9, <3>1 DEF CallbackTurn, NoCallback
    <2>3. CASE Notified
      BY <1>8, <2>1, <2>2, <2>3
    <2>4. CASE worker' = [worker EXCEPT !.pc = "approving"] /\ UNCHANGED callback
      <3>1. worker'.id = worker.id /\ worker'.updated = worker.updated
        BY <1>1, <2>4 DEF WorkerOk, WorkerType
      <3> QED
        BY <1>4, <2>2, <2>4, <3>1 DEF ArrivalInv
    <2> QED
      BY <2>1, <2>3, <2>4
  <1>10. CASE ResumeCallback
    <2>1. worker.pc = "approving" /\ Notified /\ UNCHANGED stored
      BY <1>10 DEF ResumeCallback
    <2>2. Worker \in Callers /\ approval[Worker] # Nothing /\ callback # NoCallback
          /\ approval[Worker].attempt = callback.next
      BY <2>1 DEF Callers, BridgeInv, CallbackInv
    <2>3. /\ callback.next \in DOMAIN attempt
          /\ \E y : attempt' = [attempt EXCEPT ![callback.next] = y] /\ ~Arrived(y)
      BY <1>10, <2>2, ResumeMoves DEF ResumeCallback
    <2> QED
      BY <1>8, <2>1, <2>2, <2>3
  <1>11. CASE Restart
    <2>1. attempt' = CleanedAttempts(DOMAIN attempt)
      BY <1>11 DEF Restart
    <2>2. ASSUME NEW a \in DOMAIN attempt'
          PROVE  attempt'[a].held = Nothing
      <3>1. a \in DOMAIN attempt /\ attempt'[a] = Forgotten(attempt[a])
        BY <2>1, <2>2 DEF CleanedAttempts
      <3>2. attempt[a] \in AttemptType
        BY <1>1, <3>1 DEF AttemptOk
      <3> QED
        BY <3>1, <3>2 DEF Forgotten, AttemptType
    <2>3. \A a \in DOMAIN attempt' : ~Arrived(attempt[a])'
      BY <2>2 DEF Arrived, Nothing
    <2> QED
      BY <2>3 DEF ArrivalInv
  <1> QED
    BY <1>5, <1>6, <1>7, <1>9, <1>10, <1>11, StepIs

-----------------------------------------------------------------------------
(* The challenges that are renewed: every renewal, done or owed, has a place *)
(* of its own in the bound.                                                  *)

\* The renewals of a sign-in x, done and owed.
Dues(x) == 2..x.nonce \cup Debt(x)

Owed == UNION {Renewals(a) : a \in DOMAIN attempt}

RoomInv == IsFiniteSet(Owed) /\ Cardinality(Owed) <= MaxRenewals

LEMMA OwedIs ==
  \A p : p \in Owed <=> \E a \in DOMAIN attempt : \E n \in Dues(attempt[a]) : p = <<a, n>>
  <1>1. ASSUME NEW a \in DOMAIN attempt
        PROVE  \A p : p \in Renewals(a) <=> \E n \in Dues(attempt[a]) : p = <<a, n>>
    BY DEF Renewals, Dues, Debt
  <1>2. \A p : p \in Owed <=> \E a \in DOMAIN attempt : p \in Renewals(a)
    BY DEF Owed
  <1> QED
    BY <1>1, <1>2

\* A step pays what is owed, or adds to it where there is room.
LEMMA RoomStep ==
  ASSUME BridgeInv, RoomInv, [Next]_vars
  PROVE  RoomInv'
  <1>1. /\ attempt \in Seq(AttemptType) /\ DOMAIN attempt = 1..Len(attempt) /\ Len(attempt) \in Nat
        /\ \A a \in DOMAIN attempt : AttemptOk(attempt[a])
    BY DEF BridgeInv, AttemptsInv
  <1>2. AttemptMove
    BY StepAttempts
  <1>3. \A p : p \in Owed' <=> \E a \in DOMAIN attempt' : \E n \in Dues(attempt'[a]) : p = <<a, n>>
    <2>1. (\A p : p \in Owed <=> \E a \in DOMAIN attempt : \E n \in Dues(attempt[a]) : p = <<a, n>>)'
      BY OwedIs, PTL
    <2>2. \A a : (Dues(attempt[a]))' = Dues(attempt'[a])
      BY DEF Dues, Debt
    <2> QED
      BY <2>1, <2>2
  <1>4. Cardinality(Owed) \in Nat /\ IsFiniteSet(Owed) /\ Cardinality(Owed) <= MaxRenewals
    BY FS_CardinalityType DEF RoomInv
  \* Nothing is added.
  <1>5. ASSUME Owed' \subseteq Owed
        PROVE  RoomInv'
    <2>1. IsFiniteSet(Owed') /\ Cardinality(Owed') <= Cardinality(Owed)
      BY <1>4, <1>5, FS_Subset
    <2>2. Cardinality(Owed') \in Nat
      BY <2>1, FS_CardinalityType
    <2> QED
      BY <1>4, <2>1, <2>2, SignInAssumption DEF RoomInv
  <1>6. ASSUME \A a \in DOMAIN attempt' :
                 \/ a \in DOMAIN attempt /\ Dues(attempt'[a]) \subseteq Dues(attempt[a])
                 \/ attempt'[a] = NewAttempt
        PROVE  RoomInv'
    <2>1. Dues(NewAttempt) = {}
      BY NewAttemptOk DEF Dues
    <2>2. Owed' \subseteq Owed
      <3> SUFFICES ASSUME NEW p \in Owed'
                   PROVE  p \in Owed
        OBVIOUS
      <3>1. PICK a \in DOMAIN attempt' : \E n \in Dues(attempt'[a]) : p = <<a, n>>
        BY <1>3
      <3>2. a \in DOMAIN attempt /\ Dues(attempt'[a]) \subseteq Dues(attempt[a])
        BY <1>6, <2>1, <3>1
      <3> QED
        BY <3>1, <3>2, OwedIs
    <2> QED
      BY <1>5, <2>2
  <1>7. ASSUME NEW x, NEW y, Quiet(x, y)
        PROVE  Dues(y) \subseteq Dues(x)
    BY <1>7 DEF Quiet, Dues
  <1>8. CASE UNCHANGED attempt
    BY <1>6, <1>8
  <1>9. ASSUME NEW old, attempt' = CleanedAttempts(old)
        PROVE  RoomInv'
    <2>1. /\ DOMAIN attempt' = DOMAIN attempt
          /\ \A a \in DOMAIN attempt : Quiet(attempt[a], attempt'[a])
      BY <1>9, CleanedIs DEF BridgeInv
    <2> QED
      BY <1>6, <1>7, <2>1
  <1>10. ASSUME NEW old, attempt' = Append(CleanedAttempts(old), NewAttempt)
         PROVE  RoomInv'
    <2> DEFINE cleaned == CleanedAttempts(old)
    <2>1. /\ cleaned \in Seq(AttemptType) /\ DOMAIN cleaned = DOMAIN attempt /\ Len(cleaned) = Len(attempt)
          /\ \A a \in DOMAIN attempt : Quiet(attempt[a], cleaned[a])
      BY CleanedIs DEF BridgeInv
    <2>2. NewAttempt \in AttemptType
      BY NewAttemptOk DEF AttemptOk
    <2> HIDE DEF cleaned
    <2>3. attempt' = Append(cleaned, NewAttempt)
      BY <1>10 DEF cleaned
    <2>4. /\ DOMAIN attempt' = 1..Len(attempt) + 1 /\ attempt'[Len(attempt) + 1] = NewAttempt
          /\ \A a \in 1..Len(attempt) : attempt'[a] = cleaned[a]
      BY <1>1, <2>1, <2>2, <2>3
    <2>5. ASSUME NEW a \in DOMAIN attempt'
          PROVE  \/ a \in DOMAIN attempt /\ Dues(attempt'[a]) \subseteq Dues(attempt[a])
                 \/ attempt'[a] = NewAttempt
      <3>1. CASE a \in 1..Len(attempt)
        <4>1. Quiet(attempt[a], attempt'[a])
          BY <1>1, <2>1, <2>4, <3>1
        <4> QED
          BY <1>1, <1>7, <3>1, <4>1
      <3>2. CASE a = Len(attempt) + 1
        BY <2>4, <3>2
      <3> QED
        BY <1>1, <2>4, <3>1, <3>2
    <2> QED
      BY <1>6, <2>5
  <1>11. ASSUME NEW b \in DOMAIN attempt, NEW y, Turn(attempt[b], y),
                attempt' = [attempt EXCEPT ![b] = y]
         PROVE  RoomInv'
    <2> DEFINE x == attempt[b]
    <2>1. /\ DOMAIN attempt' = DOMAIN attempt /\ attempt'[b] = y
          /\ \A a \in DOMAIN attempt : a # b => attempt'[a] = attempt[a]
      BY <1>1, <1>11
    <2>2. x.nonce \in Nat \ {0}
      BY <1>1 DEF AttemptOk, AttemptType
    <2> HIDE DEF x
    <2>3. ASSUME NEW S, \A n \in Dues(y) : n \in Dues(x) \/ <<b, n>> \in S
          PROVE  Owed' \subseteq Owed \cup S
      <3> SUFFICES ASSUME NEW p \in Owed', p \notin S
                   PROVE  p \in Owed
        OBVIOUS
      <3>1. PICK a \in DOMAIN attempt' : \E n \in Dues(attempt'[a]) : p = <<a, n>>
        BY <1>3
      <3>2. PICK n \in Dues(attempt'[a]) : p = <<a, n>>
        BY <3>1
      <3>3. a \in DOMAIN attempt /\ n \in Dues(attempt[a])
        <4>1. CASE a = b
          <5>1. n \in Dues(x)
            BY <2>1, <2>3, <3>2, <4>1
          <5> QED
            BY <4>1, <5>1 DEF x
        <4>2. CASE a # b
          BY <2>1, <3>2, <4>2
        <4> QED
          BY <4>1, <4>2
      <3> QED
        BY <3>2, <3>3, OwedIs
    <2>4. CASE y.nonce = x.nonce /\ Debt(y) \subseteq Debt(x)
      <3>1. \A n \in Dues(y) : n \in Dues(x) \/ <<b, n>> \in {}
        BY <2>4 DEF Dues
      <3>2. Owed' \subseteq Owed \cup {}
        BY <2>3, <3>1
      <3> QED
        BY <1>5, <3>2
    <2>5. ASSUME NEW d \in Debt(x), y.nonce = x.nonce + 1, Debt(y) \subseteq Debt(x) \ {d}
          PROVE  RoomInv'
      <3> DEFINE p == <<b, d>>
                 q == <<b, x.nonce + 1>>
      <3>1. \A n \in Dues(y) : n \in Dues(x) \/ <<b, n>> \in {q}
        BY <2>2, <2>5 DEF Dues
      <3>2. Owed' \subseteq Owed \cup {q}
        BY <2>3, <3>1
      <3>3. p \in Owed
        BY <1>11, OwedIs DEF Dues, x
      <3>4. p \notin Owed'
        <4>1. d \in {0, 1}
          BY DEF Debt
        <4>2. d \notin Dues(y)
          BY <2>5, <4>1 DEF Dues
        <4>3. ASSUME p \in Owed'
              PROVE  FALSE
          <5>1. PICK a \in DOMAIN attempt' : \E n \in Dues(attempt'[a]) : p = <<a, n>>
            BY <1>3, <4>3
          <5>2. a = b /\ d \in Dues(attempt'[a])
            BY <5>1
          <5> QED
            BY <2>1, <4>2, <5>2
        <4> QED
          BY <4>3
      <3> HIDE DEF p, q
      <3> DEFINE rest == Owed \ {p}
      <3>5. IsFiniteSet(rest) /\ Cardinality(rest) = Cardinality(Owed) - 1
        BY <1>4, <3>3, FS_RemoveElement
      <3>6. Owed' \subseteq rest \cup {q}
        BY <3>2, <3>4
      <3> HIDE DEF rest
      <3>7. IsFiniteSet(rest \cup {q}) /\ Cardinality(rest \cup {q}) <= Cardinality(Owed)
        <4>1. IsFiniteSet(rest \cup {q}) /\ Cardinality(rest \cup {q}) =
                IF q \in rest THEN Cardinality(rest) ELSE Cardinality(rest) + 1
          BY <3>5, FS_AddElement
        <4> QED
          BY <1>4, <3>5, <4>1
      <3>8. IsFiniteSet(Owed') /\ Cardinality(Owed') <= Cardinality(rest \cup {q})
        BY <3>6, <3>7, FS_Subset
      <3>9. Cardinality(Owed') \in Nat /\ Cardinality(rest \cup {q}) \in Nat
        BY <3>7, <3>8, FS_CardinalityType
      <3> QED
        BY <1>4, <3>7, <3>8, <3>9, SignInAssumption DEF RoomInv
    <2>6. ASSUME Room, y.nonce = x.nonce, NEW d \in {0, 1}, Debt(y) \subseteq Debt(x) \cup {d}
          PROVE  RoomInv'
      <3> DEFINE q == <<b, d>>
      <3>1. \A n \in Dues(y) : n \in Dues(x) \/ <<b, n>> \in {q}
        BY <2>6 DEF Dues
      <3>2. Owed' \subseteq Owed \cup {q}
        BY <2>3, <3>1
      <3> HIDE DEF q
      <3>3. Cardinality(Owed) < MaxRenewals
        BY <2>6 DEF Room, Renewed, Owed
      <3>4. IsFiniteSet(Owed \cup {q}) /\ Cardinality(Owed \cup {q}) <= Cardinality(Owed) + 1
        <4>1. IsFiniteSet(Owed \cup {q}) /\ Cardinality(Owed \cup {q}) =
                IF q \in Owed THEN Cardinality(Owed) ELSE Cardinality(Owed) + 1
          BY <1>4, FS_AddElement
        <4> QED
          BY <1>4, <4>1
      <3>5. IsFiniteSet(Owed') /\ Cardinality(Owed') <= Cardinality(Owed \cup {q})
        BY <3>2, <3>4, FS_Subset
      <3>6. Cardinality(Owed') \in Nat /\ Cardinality(Owed \cup {q}) \in Nat
        BY <3>4, <3>5, FS_CardinalityType
      <3> QED
        BY <1>4, <3>3, <3>4, <3>5, <3>6, SignInAssumption DEF RoomInv
    <2> QED
      BY <1>11, <2>4, <2>5, <2>6 DEF Turn, x
  <1> QED
    BY <1>2, <1>8, <1>9, <1>10, <1>11 DEF AttemptMove

\* So no challenge is renewed more often than the bound.
LEMMA NonceBound ==
  ASSUME AttemptsInv, RoomInv, NEW a \in DOMAIN attempt
  PROVE  attempt[a].nonce \in 1..MaxRenewals + 1
  <1> DEFINE n == attempt[a].nonce
             f == [m \in 2..n |-> <<a, m>>]
  <1>1. n \in Nat \ {0}
    BY DEF AttemptsInv, AttemptOk, AttemptType
  <1>2. ASSUME NEW m \in 2..n
        PROVE  <<a, m>> \in Owed
    BY OwedIs DEF Dues
  <1>3. f \in [2..n -> Owed] /\ \A m, k \in 2..n : f[m] = f[k] => m = k
    BY <1>2
  <1> HIDE DEF n
  <1>4. f \in Injection(2..n, Owed)
    BY <1>3 DEF Injection, IsInjective
  <1>5. Cardinality(2..n) <= Cardinality(Owed)
    BY <1>4, FS_Injection DEF RoomInv
  <1>6. Cardinality(2..n) = IF 2 > n THEN 0 ELSE n - 2 + 1
    BY <1>1, FS_Interval
  <1>7. Cardinality(Owed) \in Nat /\ Cardinality(Owed) <= MaxRenewals
    BY FS_CardinalityType DEF RoomInv
  <1>8. n <= MaxRenewals + 1
    BY <1>1, <1>5, <1>6, <1>7, SignInAssumption
  <1> QED
    BY <1>1, <1>8, SignInAssumption DEF n

-----------------------------------------------------------------------------
(* What holds of the bridge *)

LEMMA BridgeInit == Init => BridgeInv /\ RoomInv
  <1> SUFFICES ASSUME Init
               PROVE  BridgeInv /\ RoomInv
    OBVIOUS
  <1>1. attempt = << >> /\ codes = << >> /\ DOMAIN attempt = {} /\ worker = Idle /\ callback = NoCallback
        /\ approval = [t \in Callers |-> Nothing]
    BY DEF Init, FetcherInit
  <1>2. FetcherInv
    <2>1. NoRow \in RowType /\ NoChain \in Copies
      BY DEF NoRow, RowType, Wants, Copies
    <2>2. WorkerOk(Idle)
      BY DEF Idle, WorkerOk, WorkerType, Wants
    <2> QED
      BY <1>1, <2>1, <2>2 DEF Init, FetcherInit, FetcherInv, WorkerOk
  <1>3. AttemptsInv
    BY <1>1 DEF AttemptsInv
  <1>4. ApprovalsInv
    BY <1>1 DEF ApprovalsInv
  <1>5. CallbackInv
    <2>1. NoCallback \in [next : Nat, upto : Nat, chain : Copies]
      BY DEF NoCallback, Copies
    <2>2. approval[Worker] = Nothing /\ worker.pc # "approving"
      BY <1>1 DEF Callers, Idle
    <2> QED
      BY <1>1, <2>1, <2>2 DEF CallbackInv
  <1>6. ArrivalInv
    BY <1>1 DEF ArrivalInv
  <1>7. Owed = {}
    BY <1>1, OwedIs
  <1> QED
    BY <1>2, <1>3, <1>4, <1>5, <1>6, <1>7, FS_EmptySet, SignInAssumption DEF BridgeInv, RoomInv

LEMMA BridgeStep ==
  ASSUME BridgeInv, RoomInv, [Next]_vars
  PROVE  BridgeInv' /\ RoomInv'
  BY FetcherInvStep, AttemptsStep, ApprovalsStep, CallbackStep, ArrivalStep, RoomStep DEF BridgeInv

\* The inductive invariant: what the fetcher, the attempts, the approvals in
\* progress, the callback and an arrival owe to one another, and the room left.
THEOREM BridgeInvariant == Spec => [](BridgeInv /\ RoomInv)
  <1>1. BridgeInv /\ RoomInv /\ [Next]_vars => (BridgeInv /\ RoomInv)'
    BY BridgeStep
  <1> QED
    BY <1>1, BridgeInit, PTL DEF Spec

\* The variables keep to the values the code can give them: a challenge is
\* renewed within the bound, a sign-in fails at the MAX_FAILURES-th rejection,
\* and on_identity_update() never runs past the attempts it listed.
THEOREM TypeCorrect == Spec => []TypeOK
  <1>1. BridgeInv /\ RoomInv => TypeOK
    <2> SUFFICES ASSUME BridgeInv, RoomInv
                 PROVE  TypeOK
      OBVIOUS
    <2>1. ASSUME NEW a \in DOMAIN attempt
          PROVE  /\ attempt[a].status \in {"waiting", "fetching", "approved", "failed", "expired", "gone"}
                 /\ attempt[a].nonce \in 1..MaxRenewals + 1
                 /\ attempt[a].held \in Assertions \cup {Nothing}
                 /\ attempt[a].failures \in 0..MaxFailures
                 /\ attempt[a].code \in 0..Len(codes)
      <3>1. attempt[a] \in AttemptType /\ attempt[a].code <= Len(codes) /\ Len(codes) \in Nat
        BY DEF BridgeInv, AttemptsInv, AttemptOk
      <3>2. attempt[a].nonce \in 1..MaxRenewals + 1
        BY NonceBound DEF BridgeInv
      <3> QED
        BY <3>1, <3>2 DEF AttemptType, Statuses
    <2>2. callback.next \in 0..callback.upto
      BY DEF BridgeInv, CallbackInv, NoCallback
    <2> QED
      BY <2>1, <2>2 DEF TypeOK
  <1> QED
    BY <1>1, BridgeInvariant, PTL

\* A sign-in keeps an assertion exactly as long as it waits for a fetch,
\* whatever submissions, approvals and expiry come in between.
THEOREM HeldWhileFetching == Spec => []HeldIffFetching
  <1>1. BridgeInv => HeldIffFetching
    BY DEF BridgeInv, AttemptsInv, AttemptOk, HeldIffFetching
  <1> QED
    BY <1>1, BridgeInvariant, PTL

\* A chain that arrived is brought before every sign-in that waits for it:
\* the worker that stored it is still ahead of each of them.
THEOREM ArrivalAnswered == Spec => []ArrivalIsAnswered
  <1>1. BridgeInv => ArrivalIsAnswered
    <2> SUFFICES ASSUME BridgeInv, NEW a \in DOMAIN attempt, NEW i \in Identities \ Elsewhere,
                        attempt[a].held # Nothing, attempt[a].held.identity = i,
                        attempt[a].held.head \in Range(stored[i])
                 PROVE  Answering(a)
      BY DEF ArrivalIsAnswered
    <2>1. Arrived(attempt[a])
      BY DEF Arrived
    <2> QED
      BY <2>1 DEF BridgeInv, ArrivalInv, Answering
  <1> QED
    BY <1>1, BridgeInvariant, PTL

\* No poll, expiry, rejection or callback takes an approval back.
THEOREM ApprovalIsFinal == Spec => ApprovedIsFinal
  <1>1. ASSUME BridgeInv, [Next]_vars
        PROVE  \A a \in DOMAIN attempt :
                 attempt[a].status = "approved" => attempt'[a].status \in {"approved", "gone"}
    BY <1>1, StepAttempts, MoveIs DEF BridgeInv, Turn, Keeps
  <1> QED
    BY <1>1, BridgeInvariant, PTL DEF Spec, ApprovedIsFinal

\* Whatever is accepted was judged by a copy that has all the events of the
\* stored chain, if only the fetcher stores it: submit_assertion() takes the
\* better of two copies, and nobody stores one while the callback goes on.
LEMMA AcceptsIs ==
  ASSUME BridgeInv, [Next]_vars, NEW i \in Identities \ Elsewhere, Accepts(i)
  PROVE  \E asr \in Assertions : \E chain :
           Verdict(asr, chain) = "ok" /\ Range(stored[i]) \subseteq Range(chain)
  <1>1. /\ approval \in [Callers -> ApprovalType \cup {Nothing}] /\ Worker \in Callers
        /\ codes \in Seq(CodeType) /\ Len(codes) \in Nat
        /\ stored \in [Identities -> Copies] /\ worker \in WorkerType
        /\ \A a \in DOMAIN attempt : AttemptOk(attempt[a]) /\ a \in Nat
    BY DEF BridgeInv, ApprovalsInv, AttemptsInv, FetcherInv, Callers
  <1>2. ASSUME approval' = approval \/ approval' = [t \in Callers |-> Nothing],
               codes' = codes \/ \E expired : codes' = CleanedCodes(expired)
        PROVE  FALSE
    <2>1. Len(codes') = Len(codes)
      <3>1. DOMAIN codes' = DOMAIN codes /\ codes' \in Seq(CodeType)
        BY <1>2, StepCodes DEF CleanedCodes
      <3> QED
        BY <1>1, <3>1, LenProperties
    <2> QED
      BY <1>1, <1>2, <2>1 DEF Accepts
  \* A code that is minted, and an approval that begins.
  <1>3. ASSUME NEW a \in Nat, NEW asr \in Assertions, approval' = approval,
               codes' = Append(codes, NewCode(a, asr))
        PROVE  asr.identity = i
    <2>1. NewCode(a, asr) \in CodeType
      BY AssertionIsSomething DEF NewCode, CodeType, Assertions
    <2>2. codes'[Len(codes')] = NewCode(a, asr)
      BY <1>1, <1>3, <2>1
    <2> QED
      BY <1>3, <2>2 DEF Accepts, NewCode
  <1>4. ASSUME NEW t \in Callers, NEW a, NEW asr, codes' = codes,
               approval' = [approval EXCEPT ![t] = [attempt |-> a, asr |-> asr]]
        PROVE  asr.identity = i
    <2>1. approval'[t].asr = asr /\ \A u \in Callers : u # t => approval'[u] = approval[u]
      BY <1>1, <1>4
    <2> QED
      BY <1>1, <1>4, <2>1 DEF Accepts
  <1>5. ASSUME NEW t \in Callers, approval[t] # Nothing, approval' = [approval EXCEPT ![t] = Nothing]
        PROVE  FALSE
    <2>1. approval' # approval /\ \A u \in Callers : approval'[u] = Nothing \/ approval'[u] = approval[u]
      BY <1>1, <1>5
    <2> QED
      BY <2>1 DEF Accepts
  <1>6. ASSUME NEW t \in Requests, NEW a \in DOMAIN attempt, NEW asr \in Assertions,
               NEW supplied \in Copies, NEW presents \in BOOLEAN,
               Submit(t, a, asr, supplied, presents)
        PROVE  Verdict(asr, Best(stored[asr.identity], supplied)) = "ok"
               /\ Range(stored[i]) \subseteq Range(Best(stored[asr.identity], supplied))
    <2> DEFINE chain == Best(stored[asr.identity], supplied)
    <2>1. t \in Callers /\ a \in Nat
      BY <1>1 DEF Callers
    <2>2. \/ UNCHANGED <<approval, codes>>
          \/ /\ Verdict(asr, chain) = "ok"
             /\ \/ approval' = approval /\ codes' = Append(codes, NewCode(a, asr))
                \/ codes' = codes /\ approval' = [approval EXCEPT ![t] = [attempt |-> a, asr |-> asr]]
      BY <1>6 DEF Submit, StartFetch, Refuses, Approves, Suspends, Mint
    <2>3. Verdict(asr, chain) = "ok" /\ asr.identity = i
      BY <1>2, <1>3, <1>4, <2>1, <2>2
    <2>4. ~Diverge(stored[i], supplied) /\ stored[i] \in Copies
      BY <1>1, <1>6, <2>3 DEF Submit
    <2> QED
      BY <2>3, <2>4, BestContains
  <1>7. ASSUME NEW a \in DOMAIN attempt, CallbackTurn(a)
        PROVE  \E asr \in Assertions : \E chain :
                 Verdict(asr, chain) = "ok" /\ Range(stored[i]) \subseteq Range(chain)
    <2> DEFINE at == Refreshed(attempt[a])
    <2>1. at.held # Nothing => at.held \in Assertions
      <3>1. Quiet(attempt[a], at)
        BY <1>1, QuietSteps
      <3> QED
        BY <3>1 DEF Quiet, Keeps, AttemptOk, AttemptType
    <2>2. \/ UNCHANGED <<approval, codes>>
          \/ /\ Verdict(at.held, callback.chain) = "ok"
             /\ at.held # Nothing /\ at.held.identity = worker.id
             /\ \/ approval' = approval /\ codes' = Append(codes, NewCode(a, at.held))
                \/ codes' = codes
                   /\ approval' = [approval EXCEPT ![Worker] = [attempt |-> a, asr |-> at.held]]
      BY <1>7 DEF CallbackTurn, StartFetch, Refuses, Approves, Suspends, Mint
    <2> HIDE DEF at
    <2>3. /\ Verdict(at.held, callback.chain) = "ok" /\ at.held \in Assertions
          /\ at.held.identity = worker.id /\ at.held.identity = i
      BY <1>1, <1>2, <1>3, <1>4, <2>1, <2>2
    <2>4. callback # NoCallback
      <3>1. callback.next = a /\ a # 0
        BY <1>7 DEF CallbackTurn, BridgeInv, AttemptsInv
      <3> QED
        BY <3>1 DEF NoCallback
    <2>5. callback.chain = stored[i]
      BY <2>3, <2>4 DEF BridgeInv, CallbackInv
    <2> QED
      BY <2>3, <2>5
  <1>8. ~((\E t \in Requests : ResumeApproval(t)) \/ ResumeCallback)
    BY <1>1, <1>5 DEF ResumeApproval, ResumeCallback, Callers, BridgeInv, CallbackInv
  <1>9. ~(\/ \E hint \in Identities \cup {NoWant}, old \in SUBSET Deletable, expired \in SUBSET Live :
                CreateAttempt(hint, old, expired)
          \/ \E a \in DOMAIN attempt :
                Poll(a) \/ GetChallenge(a) \/ AttemptAges(a) \/ RequestLapses(a) \/ AssertionLapses(a)
          \/ \E n \in DOMAIN codes : ExchangeCode(n)
          \/ FetcherStep /\ UNCHANGED <<attempt, approval, callback, codes, restarts>>
          \/ BeginCallback \/ Restart
          \/ \E j \in Identities : BackoffEnds(j) \/ FetchAges(j)
          \/ \E j \in Identities, chain \in Chains : StoredElsewhere(j, chain)
          \/ UNCHANGED vars)
    BY <1>2 DEF CreateAttempt, Poll, GetChallenge, AttemptAges, RequestLapses, AssertionLapses,
                ExchangeCode, BeginCallback, Restart, BackoffEnds, FetchAges, StoredElsewhere, vars
  <1> QED
    BY <1>6, <1>7, <1>8, <1>9 DEF Next, Handlers, WorkerStep, Time, Copies

\* Once a chain with the revocation is stored, no assertion of the revoked
\* device is accepted any more, neither at once nor from what was kept.
THEOREM RevokedStaysOut == Spec => RevokedNeverSignIn
  <1>1. ASSUME BridgeInv, [Next]_vars, NEW i \in Identities \ Elsewhere, Accepts(i)
        PROVE  Revoke \notin Range(stored[i])
    <2>1. PICK asr \in Assertions : \E chain :
            Verdict(asr, chain) = "ok" /\ Range(stored[i]) \subseteq Range(chain)
      BY <1>1, AcceptsIs
    <2>2. PICK chain : Verdict(asr, chain) = "ok" /\ Range(stored[i]) \subseteq Range(chain)
      BY <2>1
    <2>3. Authorized(chain)
      BY <2>2, VerdictIs
    <2> QED
      BY <2>2, <2>3 DEF Authorized
  <1>2. BridgeInv /\ [Next]_vars => (\A i \in Identities \ Elsewhere : Accepts(i) => Revoke \notin Range(stored[i]))
    BY <1>1
  <1> QED
    BY <1>2, BridgeInvariant, PTL DEF Spec, RevokedNeverSignIn

=============================================================================
