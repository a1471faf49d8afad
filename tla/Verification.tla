---------------------------- MODULE Verification ----------------------------
(***************************************************************************)
(* The verification service and its SMS gateway: the email and the phone   *)
(* verifier (CodeVerifier), the SMS queue between them and the modem       *)
(* (SmsOutbox), and the script at the modem (SmsGateway).                  *)
(*                                                                         *)
(* The service is one asyncio program: a handler runs from one `await` to  *)
(* the next in a single step.  Sending an email awaits the mail server;    *)
(* queueing an SMS awaits nothing.  A job has the number of its request.   *)
(***************************************************************************)
EXTENDS CodeVerifier, SmsOutbox, SmsGateway

CONSTANT MaxRestarts    \* bound: restarts of the service and of the gateway

ASSUME VerificationAssumption ==
    /\ KindOf \in [Claims -> {"email", "phone"}]
    /\ DOMAIN OwnerOf = Claims /\ DOMAIN AddressOf = Claims
    /\ Allowed \subseteq Numbers
    /\ JobIds = Vids /\ GatewayIds = Vids
    /\ CodeTtl <= KeepIds

VARIABLES parked,    \* the gateway_pending() calls that wait for work, at most
                     \* one "live" and one whose gateway is gone, "orphan"
          restarts   \* how often the service and the gateway were restarted

vars == <<now, verifierVars, outboxVars, gatewayVars, parked, restarts>>

Init == /\ ClockInit /\ VerifierInit /\ OutboxInit /\ GatewayInit
        /\ parked = {} /\ restarts = 0

-----------------------------------------------------------------------------
(* The person's requests *)

\* api start(): the chain resolve_chain() found, of the stored and the
\* supplied copy, with which the caller proved itself.  Without one the
\* request is refused before anything changes.
Resolved(c, supplied) == ChooseSigchain(stored[OwnerOf[c]], supplied)

Refuses(c, supplied) ==
    /\ StartRefused(c, Resolved(c, supplied))
    /\ UNCHANGED <<now, outboxVars, gatewayVars, parked, restarts>>

StartEmail(c, supplied) ==
    /\ KindOf[c] = "email"
    /\ StartAccepted(c, Resolved(c, supplied))
    /\ UNCHANGED <<now, outboxVars, gatewayVars, parked, restarts>>

\* PhoneVerifier._deliver in the same step: the job is queued, or the queue
\* is full and the verification is taken back.
StartPhone(c, supplied) ==
    LET v == Len(requests) + 1
        chain == Resolved(c, supplied)
    IN  /\ KindOf[c] = "phone"
        /\ Startable(c, chain) /\ ~Busy(c) /\ ValueOk(c) /\ \A key \in KeysOf(c) : HasRoom(key)
        /\ Counted(c)
        /\ requests' = Append(requests, NewRequest(c))
        /\ IF OutboxFull
           THEN /\ EnqueueRefused
                /\ pending' = Keep({w \in Live("phone") : pending[w].claim # c})
           ELSE Enqueue(v, AddressOf[c], CodeTtl) /\ Register(c, chain)
        /\ UNCHANGED <<now, stored, delivering, attestations, gatewayVars, parked, restarts>>

MailAccepted(v) == Delivered(v) /\ UNCHANGED <<now, outboxVars, gatewayVars, parked, restarts>>
MailFails(v) == DeliveryFails(v) /\ UNCHANGED <<now, outboxVars, gatewayVars, parked, restarts>>

Confirm(v) ==
    /\ ConfirmExpired(v) \/ ConfirmWrong(v) \/ ConfirmRight(v)
    /\ UNCHANGED <<now, outboxVars, gatewayVars, parked, restarts>>

\* PhoneVerifier.delivery_status: what the wallet shows.
DeliveryStatus(v) ==
    CASE v \notin Jobs -> "unknown"
      [] v \in Jobs /\ Waiting(jobs[v]) -> "queued"
      [] OTHER -> jobs[v].state

ChainStored(i, chain) ==
    StoredElsewhere(i, chain) /\ UNCHANGED <<now, outboxVars, gatewayVars, parked, restarts>>

-----------------------------------------------------------------------------
(* The gateway's requests *)

\* The messages of an answer, in the order of the queue.
MessagesOf(ids) ==
    Selected([id \in ids |-> [id |-> id, to |-> jobs[id].to, expires_at |-> jobs[id].expires_at]], ids)

\* The answer with the leased jobs.  It may be `lost`: they stay leased.
Answer(lost) == Answered(IF lost THEN << >> ELSE MessagesOf(Leased))

\* gateway_pending(): a request is answered at once if there is work, and
\* waits otherwise.
GatewayAsks(lost) ==
    /\ at = "idle"
    /\ Lease
    /\ IF Leased # {} THEN Answer(lost) /\ UNCHANGED <<wake, parked>>
       ELSE Ask /\ parked' = parked \cup {"live"} /\ wake' = FALSE
    /\ UNCHANGED <<now, verifierVars, restarts>>

\* The next turn of its loop, when enqueue() wakes it or its time is up
\* (`late`).  An orphan answers into the void.
GatewayWaits(request, late, lost) ==
    /\ request \in parked /\ (wake \/ late)
    /\ Lease
    /\ IF Leased = {} /\ ~late THEN wake' = FALSE /\ UNCHANGED <<parked, gatewayVars>>
       ELSE /\ parked' = parked \ {request} /\ UNCHANGED wake
            /\ IF request = "live" THEN Answer(lost) ELSE UNCHANGED gatewayVars
    /\ UNCHANGED <<now, verifierVars, restarts>>

GatewayProcesses == Process /\ UNCHANGED <<now, verifierVars, outboxVars, parked, restarts>>

GatewaySends(confirmed) ==
    ModemSend(confirmed) /\ UNCHANGED <<now, verifierVars, outboxVars, parked, restarts>>

\* The report arrives (gateway_result) or all tries fail.
GatewayReports(arrives) ==
    /\ Reported
    /\ IF arrives THEN ReportOutcome(Message.id, verdict) ELSE UNCHANGED jobs
    /\ UNCHANGED <<now, wake, verifierVars, parked, restarts>>

-----------------------------------------------------------------------------
(* Restarts *)

\* The gateway's process ends anywhere; a request it had in the air waits on.
GatewayRestarts ==
    /\ restarts < MaxRestarts /\ restarts' = restarts + 1
    /\ GatewayRestart
    /\ parked' = IF "live" \in parked THEN {"orphan"} ELSE parked
    /\ UNCHANGED <<now, verifierVars, outboxVars>>

\* The service is restarted; the gateway's request fails.
ServiceRestarts ==
    /\ restarts < MaxRestarts /\ restarts' = restarts + 1
    /\ VerifierRestart /\ OutboxRestart
    /\ parked' = {}
    /\ IF at = "asked" THEN Answered(<< >>) ELSE UNCHANGED gatewayVars
    /\ UNCHANGED now

\* The task of the service that runs every minute.
CleanupTask ==
    VerifierCleanup /\ OutboxCleanup /\ UNCHANGED <<now, gatewayVars, parked, restarts>>

ClockTicks == Tick /\ UNCHANGED <<verifierVars, outboxVars, gatewayVars, parked, restarts>>

Next ==
    \/ ClockTicks \/ CleanupTask
    \/ \E c \in Claims, supplied \in Chains \cup {NoChain} :
          Refuses(c, supplied) \/ StartEmail(c, supplied) \/ StartPhone(c, supplied)
    \/ \E v \in Vids : MailAccepted(v) \/ MailFails(v) \/ Confirm(v)
    \/ \E i \in Owners, chain \in Chains : ChainStored(i, chain)
    \/ \E lost \in BOOLEAN : GatewayAsks(lost) \/ \E request \in parked, late \in BOOLEAN : GatewayWaits(request, late, lost)
    \/ GatewayProcesses \/ \E confirmed \in BOOLEAN : GatewaySends(confirmed)
    \/ \E arrives \in BOOLEAN : GatewayReports(arrives)
    \/ GatewayRestarts \/ ServiceRestarts

Spec == Init /\ [][Next]_vars

-----------------------------------------------------------------------------
(* Properties *)

\* The state of the three programs keeps its shape; a verification never
\* survives its last allowed guess, and the windows never exceed their limits.
TypeOK ==
    /\ now \in 0 .. MaxTime
    /\ VerifierTypeOK /\ OutboxTypeOK /\ GatewayTypeOK
    /\ parked \subseteq {"live", "orphan"} /\ ("live" \in parked <=> at = "asked")

\* "A message id is never sent twice, even if the server offers it again"
\* (sms_gateway.py): not after a lost answer, a lost report, a lease that ran
\* out, a failed attempt, or a restart on either side.
SentAtMostOnce ==
    \A m, n \in DOMAIN modem : modem[m].handed /\ modem[n].handed /\ modem[m].id = modem[n].id => m = n

\* No window of SmsWindow seconds holds more than max_sms attempts, nor more
\* than max_per_number to one number: the ledger counts before the modem is
\* asked and is read again after a restart.
BudgetHolds ==
    \A m \in DOMAIN modem :
        LET within == {n \in 1 .. m : modem[n].time > modem[m].time - SmsWindow}
        IN  /\ Cardinality(within) <= MaxSms
            /\ Cardinality({n \in within : modem[n].to = modem[m].to}) <= MaxPerNumber

\* The wallet is told "rejected" only about a message that never went to the
\* modem: an earlier attempt of the same job whose report was lost is
\* answered before the limits and the expiry are looked at, and an answer is
\* in the order of the codes' expiry, so that the ledger still knows it.
RefusedNeverLeft ==
    \A id \in Jobs : jobs[id].error = "rejected" => \A m \in DOMAIN modem : modem[m].id # id

\* An outcome that was shown once does not change: a late report, of a lease
\* that ran out or of a duplicate, is answered 404.  (A part of KeepsPromise.)
OutcomeIsFinal ==
    [][\A id \in Jobs \cap DOMAIN jobs' :
          ~Waiting(jobs[id]) => jobs'[id].state = jobs[id].state]_vars

\* Requests for the claim of v that came after v.
Newer(v, reqs) == \E w \in v + 1 .. Len(reqs) : reqs[w].claim = reqs[v].claim

\* An attestation is bought by the code of the newest request for its claim,
\* in time, and the claim is withdrawn neither in the chain shown with the
\* request nor in the one stored now (email_verifier.py confirm).
BoughtByNewestCode ==
    [][\A a \in attestations' \ attestations :
          /\ ~Newer(a.vid, requests)
          /\ now <= requests[a.vid].time + CodeTtl
          /\ ~Contains(pending[a.vid].chain, a.claim)
          /\ stored[OwnerOf[a.claim]] # NoChain => ~Contains(stored[OwnerOf[a.claim]], a.claim)]_vars

\* A verification goes on until it expires, is guessed at, is replaced by a
\* request for the same claim, fails to be delivered itself, or the service
\* restarts: no other call takes it away.
OthersLeaveItAlone ==
    [][\A v \in DOMAIN pending \ DOMAIN pending' :
          CodeExpired(v) \/ Confirm(v) \/ Newer(v, requests')
             \/ v \in delivering \ delivering' \/ restarts' > restarts]_vars

\* A status of "sent" (delivery_status: "did the code leave?") is never made
\* up: the gateway let that message through and wrote it down.  It does not
\* mean that the SMS left: see the README on a crash between the two.
SentWasTaken ==
    \A id \in Jobs : DeliveryStatus(id) = "sent" => \E m \in DOMAIN modem : modem[m].id = id

\* What the queue says of a job, in the terms of SmsPromise.
Outcome(j) ==
    CASE Waiting(j) -> "waiting"
      [] j.state = SENT -> "sent"
      [] OTHER -> IF j.error = "rejected" THEN "rejected" ELSE "failed"

TakenInOrder == [m \in DOMAIN modem |-> modem[m].id]
ToldOfJobs == [id \in Jobs |-> Outcome(jobs[id])]

Promise == INSTANCE SmsPromise WITH asked <- Len(requests), taken <- TakenInOrder, told <- ToldOfJobs

\* The verifier, the queue and the gateway keep what SmsPromise says: every
\* step of any of them is a request, a message taken for the first time,
\* outcomes that are true when told and stay, or something forgotten.
KeepsPromise == Promise!Spec
=============================================================================
