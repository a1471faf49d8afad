---------------------------- MODULE CodeVerifier ----------------------------
(***************************************************************************)
(* The one-time-code verifiers of verifiers/email_verifier.py: a request   *)
(* for a claim becomes a pending verification, its code is delivered, and  *)
(* the code buys an attestation.  There is one verifier per kind of claim; *)
(* their pending verifications have different ids, so one function holds   *)
(* them all.                                                               *)
(*                                                                         *)
(* Abstractions.  A holder's chain is the sequence of its withdrawals: two *)
(* copies extend one another or diverge, as the lists of event hashes do.  *)
(* A verification id is the number of the request.  A code is right or     *)
(* wrong; anybody may guess right.                                         *)
(***************************************************************************)
EXTENDS Clock, Sequences, FiniteSets, SequencesExt

CONSTANTS Claims,       \* claim ids
          KindOf,       \* the kind of a claim, "email" or "phone"
          OwnerOf,      \* the identity of a claim
          AddressOf,    \* the address or number of a claim
          Allowed,      \* the numbers PhoneVerifier sends to
          Chains,       \* the copies of a chain that are around
          NoChain,      \* no copy
          Limit,        \* per_address, per_identity, global_limit: how many
          RateWindow,   \* ... in how long
          MaxPending,   \* MAX_PENDING, for the verifier of each kind
          MaxAttempts,  \* MAX_ATTEMPTS
          CodeTtl,      \* code_ttl
          MaxRequests   \* bound: verifications started in one behaviour

ASSUME CodeVerifierAssumption ==
    /\ MaxAttempts \in Nat \ {0} /\ CodeTtl \in Nat /\ RateWindow \in Nat
    /\ MaxRequests \in Nat
    /\ Limit \in [{"address", "identity", "global"} -> Nat]
    /\ Chains \subseteq Seq(Claims) /\ NoChain \notin Chains

VARIABLES stored,       \* sigchains table: one copy per identity
          pending,      \* _pending of all verifiers
          delivering,   \* the calls of start() that wait in _deliver()
          windows,      \* the SlidingWindows: times per key
          attestations, \* attestations table
          requests      \* history: the verifications that got an id

verifierVars == <<stored, pending, delivering, windows, attestations, requests>>

Owners == Range(OwnerOf)
Vids == 1 .. MaxRequests

WindowKeys ==
    UNION {{<<"address", KindOf[c], AddressOf[c]>>, <<"identity", KindOf[c], OwnerOf[c]>>,
            <<"global", KindOf[c], "all">>} : c \in Claims}

VerifierInit ==
    /\ stored = [i \in Owners |-> NoChain]
    /\ pending = << >> /\ delivering = {}
    /\ windows = [key \in WindowKeys |-> << >>]
    /\ attestations = {}
    /\ requests = << >>

-----------------------------------------------------------------------------
(* Sliding windows and chains *)

\* SlidingWindow.allow() takes old events from the front.
Recent(events) ==
    LET old == {i \in DOMAIN events : \A j \in 1 .. i : events[j] <= now - RateWindow}
    IN  SubSeq(events, Cardinality(old) + 1, Len(events))
HasRoom(key) == Len(Recent(windows[key])) < Limit[key[1]]

\* SlidingWindow.cleanup()
Swept(events) == IF events = << >> \/ Last(events) <= now - RateWindow THEN << >> ELSE events

\* The windows a request for claim c counts in.
KeysOf(c) ==
    {<<"address", KindOf[c], AddressOf[c]>>, <<"identity", KindOf[c], OwnerOf[c]>>,
     <<"global", KindOf[c], "all">>}

\* start() cleans the windows of its own verifier, then asks all three, and
\* each counts the request even if another refuses it.
Counted(c) ==
    windows' = [key \in WindowKeys |->
                  CASE key \in KeysOf(c) /\ HasRoom(key) -> Append(Recent(windows[key]), now)
                    [] key \in KeysOf(c) /\ ~HasRoom(key) -> Recent(windows[key])
                    [] key \notin KeysOf(c) /\ key[2] = KindOf[c] -> Swept(windows[key])
                    [] OTHER -> windows[key]]

SweptOnly(c) ==
    windows' = [key \in WindowKeys |->
                  IF key[2] = KindOf[c] THEN Swept(windows[key]) ELSE windows[key]]

ChooseSigchain_Supplied(mine, provided) == IF provided = NoChain THEN mine ELSE provided

\* choose_sigchain(): the longer of two copies of which one extends the
\* other, and none of two that diverge.
ChooseSigchain(mine, provided) ==
    CASE provided = NoChain -> mine
      [] mine = NoChain -> provided
      [] mine # NoChain /\ provided # NoChain /\ IsPrefix(mine, provided) -> provided
      [] mine # NoChain /\ provided # NoChain /\ IsStrictPrefix(provided, mine) -> mine
      [] OTHER -> NoChain

\* ClaimRecord.status() is "active".
ActiveIn(chain, c) == chain # NoChain /\ ~Contains(chain, c)

\* A row is replaced by another writer of the same storage.
StoredElsewhere(i, chain) ==
    /\ stored[i] # chain
    /\ stored' = [stored EXCEPT ![i] = chain]
    /\ UNCHANGED <<pending, delivering, windows, attestations, requests>>

-----------------------------------------------------------------------------
(* start() *)

\* CodeVerifier.cleanup(), of the verifier of this kind.
Live(kind) ==
    {v \in DOMAIN pending : KindOf[pending[v].claim] = kind => pending[v].expires_at >= now}

Keep(ids) == [v \in ids |-> pending[v]]

\* The service's own task calls cleanup() of every verifier.
VerifierCleanup ==
    /\ pending' = Keep({v \in DOMAIN pending : pending[v].expires_at >= now})
    /\ windows' = [key \in WindowKeys |-> Swept(windows[key])]
    /\ UNCHANGED <<stored, delivering, attestations, requests>>

\* The claim is active in the chain the caller proved itself with.
Startable(c, chain) ==
    /\ Len(requests) < MaxRequests
    /\ chain \in Chains /\ ActiveIn(chain, c)

Busy(c) ==
    Cardinality({v \in Live(KindOf[c]) : KindOf[pending[v].claim] = KindOf[c]}) >= MaxPending[KindOf[c]]

\* _validate_value(): PhoneVerifier refuses the numbers it does not send to.
ValueOk(c) == KindOf[c] = "phone" => AddressOf[c] \in Allowed

\* Refused after cleanup(): by the number of pending verifications or the
\* value, before anything is counted, or by a window.
StartRefused(c, chain) ==
    /\ Startable(c, chain)
    /\ \/ (Busy(c) \/ ~ValueOk(c)) /\ SweptOnly(c)
       \/ ~Busy(c) /\ ValueOk(c) /\ (\E key \in KeysOf(c) : ~HasRoom(key)) /\ Counted(c)
    /\ pending' = Keep(Live(KindOf[c]))
    /\ UNCHANGED <<stored, delivering, attestations, requests>>

NewPending(c, chain) ==
    [claim |-> c, expires_at |-> now + CodeTtl, chain |-> chain, attempts |-> 0]

NewRequest(c) == [claim |-> c, time |-> now]

\* The new verification replaces those of the same claim.
Register(c, chain) ==
    LET v == Len(requests) + 1
        others == {w \in Live(KindOf[c]) : pending[w].claim # c}
    IN  pending' = [w \in others \cup {v} |-> IF w = v THEN NewPending(c, chain) ELSE pending[w]]

\* start() up to `await self._deliver(...)`.
StartAccepted(c, chain) ==
    /\ Startable(c, chain) /\ ~Busy(c) /\ ValueOk(c) /\ \A key \in KeysOf(c) : HasRoom(key)
    /\ Counted(c)
    /\ Register(c, chain)
    /\ requests' = Append(requests, NewRequest(c))
    /\ delivering' = delivering \cup {Len(requests) + 1}
    /\ UNCHANGED <<stored, attestations>>

\* _deliver() returns.
Delivered(v) ==
    /\ v \in delivering
    /\ delivering' = delivering \ {v}
    /\ UNCHANGED <<stored, pending, windows, attestations, requests>>

DeliveryFails_ForClaim(v) ==
    /\ v \in delivering
    /\ delivering' = delivering \ {v}
    /\ pending' = Keep({w \in DOMAIN pending : requests[w].claim # requests[v].claim})
    /\ UNCHANGED <<stored, windows, attestations, requests>>

\* _deliver() raises: start() takes its own verification back, if no
\* confirmation, cleanup or newer request has removed it meanwhile.
DeliveryFails(v) ==
    /\ v \in delivering
    /\ delivering' = delivering \ {v}
    /\ pending' = Keep(DOMAIN pending \ {v})
    /\ UNCHANGED <<stored, windows, attestations, requests>>

-----------------------------------------------------------------------------
(* confirm() *)

\* `self._now() > pending.expires_at`
CodeExpired(v) == now > pending[v].expires_at

ConfirmExpired(v) ==
    /\ v \in DOMAIN pending /\ CodeExpired(v)
    /\ pending' = Keep(DOMAIN pending \ {v})
    /\ UNCHANGED <<stored, delivering, windows, attestations, requests>>

ConfirmWrong_OneMore(v) ==
    /\ v \in DOMAIN pending /\ ~CodeExpired(v)
    /\ pending' = IF MaxAttempts - (pending[v].attempts + 1) < 0
                  THEN Keep(DOMAIN pending \ {v})
                  ELSE [pending EXCEPT ![v].attempts = @ + 1]
    /\ UNCHANGED <<stored, delivering, windows, attestations, requests>>

\* A wrong code; the last one allowed ends the verification.
ConfirmWrong(v) ==
    /\ v \in DOMAIN pending /\ ~CodeExpired(v)
    /\ pending' = IF MaxAttempts - (pending[v].attempts + 1) <= 0
                  THEN Keep(DOMAIN pending \ {v})
                  ELSE [pending EXCEPT ![v].attempts = @ + 1]
    /\ UNCHANGED <<stored, delivering, windows, attestations, requests>>

\* The right code is used up, and buys an attestation if the claim is active
\* in the newer of the stored chain and the one shown at the start.
ConfirmRight(v) ==
    /\ v \in DOMAIN pending /\ ~CodeExpired(v)
    /\ LET c == pending[v].claim
           chain == ChooseSigchain(stored[OwnerOf[c]], pending[v].chain)
       IN  attestations' = IF ActiveIn(chain, c)
                           THEN attestations \cup {[vid |-> v, claim |-> c]}
                           ELSE attestations
    /\ pending' = Keep(DOMAIN pending \ {v})
    /\ UNCHANGED <<stored, delivering, windows, requests>>

\* Pending verifications and windows live in memory.
VerifierRestart ==
    /\ pending' = << >> /\ delivering' = {}
    /\ windows' = [key \in WindowKeys |-> << >>]
    /\ UNCHANGED <<stored, attestations, requests>>

VerifierTypeOK ==
    /\ \A i \in Owners : stored[i] \in Chains \cup {NoChain}
    /\ DOMAIN pending \cup delivering \subseteq 1 .. Len(requests)
    /\ \A v \in DOMAIN pending :
          /\ pending[v].claim = requests[v].claim
          /\ pending[v].attempts \in 0 .. MaxAttempts - 1
    /\ \A key \in WindowKeys : Len(windows[key]) <= Limit[key[1]]
    /\ {a.vid : a \in attestations} \subseteq 1 .. Len(requests)
=============================================================================
