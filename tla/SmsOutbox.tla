----------------------------- MODULE SmsOutbox -----------------------------
(***************************************************************************)
(* The SMS queue of the verification service (verifiers/sms.py): jobs are  *)
(* leased to a gateway, come back when the lease runs out, and end sent or *)
(* failed.  In memory only.                                                *)
(***************************************************************************)
EXTENDS Clock, FiniteSets

CONSTANTS JobIds,        \* bound: the ids a queue may give out, in order
          Numbers,       \* phone numbers
          LeaseSeconds,  \* lease_seconds
          MaxLeases,     \* max_attempts
          MaxQueue,      \* max_queue
          Batch,         \* the gateway's limit per request
          KeepJobs       \* how long after its expiry a job is kept

ASSUME SmsOutboxAssumption ==
    /\ JobIds \subseteq Nat
    /\ LeaseSeconds \in Nat /\ KeepJobs \in Nat
    /\ MaxLeases \in Nat \ {0} /\ MaxQueue \in Nat \ {0} /\ Batch \in Nat \ {0}

VARIABLES jobs,  \* _jobs: a function on the ids of the jobs that exist
          wake   \* _wake

outboxVars == <<jobs, wake>>

QUEUED == "queued"
LEASED == "leased"
SENT   == "sent"
FAILED == "failed"

SmsJob == [to : Numbers, expires_at : Nat, state : {QUEUED, LEASED, SENT, FAILED},
           attempts : 0 .. MaxLeases, lease_until : Nat,
           error : {"", "gateway_no_answer", "rejected", "failed"}]

OutboxInit == jobs = << >> /\ wake = FALSE

Jobs == DOMAIN jobs

Waiting(j) == j.state \in {QUEUED, LEASED}

\* cleanup(): what is left of the queue.
KeptJobs == [id \in {i \in Jobs : jobs[i].expires_at + KeepJobs >= now} |-> jobs[id]]

OutboxCleanup == jobs' = KeptJobs /\ UNCHANGED wake

OutboxFull == Cardinality({id \in DOMAIN KeptJobs : Waiting(KeptJobs[id])}) >= MaxQueue

\* enqueue() when the queue has room: the job is added and a waiter woken.
Enqueue(id, to, ttl) ==
    LET new == [to |-> to, expires_at |-> now + ttl, state |-> QUEUED,
                attempts |-> 0, lease_until |-> 0, error |-> ""]
    IN  /\ jobs' = [i \in DOMAIN KeptJobs \cup {id} |-> IF i = id THEN new ELSE jobs[i]]
        /\ wake' = TRUE

\* enqueue() when it raises OutboxFull.
EnqueueRefused == jobs' = KeptJobs /\ UNCHANGED wake

\* A job lease() looks at: not expired, and in nobody's hands.
Offered(j) ==
    /\ j.expires_at > now
    /\ j.state = QUEUED \/ (j.state = LEASED /\ j.lease_until <= now)

\* The jobs one call hands out: the first `Batch` offered ones that have a
\* lease left, in the order they were queued.
Leasable == {id \in Jobs : Offered(jobs[id]) /\ jobs[id].attempts < MaxLeases}
Leased == {id \in Leasable : Cardinality({i \in Leasable : i < id}) < Batch}

\* The jobs the call gives up: its loop stops once the batch is full.
GivenUp ==
    {id \in Jobs : /\ Offered(jobs[id]) /\ jobs[id].attempts >= MaxLeases
                   /\ Cardinality({i \in Leasable : i < id}) < Batch}

HandedOut(j) ==
    [j EXCEPT !.state = LEASED, !.attempts = @ + 1, !.lease_until = now + LeaseSeconds]

\* lease()
Lease ==
    jobs' = [id \in Jobs |->
               CASE id \in Leased -> HandedOut(jobs[id])
                 [] id \in GivenUp -> [jobs[id] EXCEPT !.state = FAILED,
                                                       !.error = "gateway_no_answer"]
                 [] OTHER -> jobs[id]]

Reportable_Any(id) == id \in Jobs

\* report() answers False for a job that is gone or has an outcome already.
Reportable(id) == id \in Jobs /\ Waiting(jobs[id])

\* report(): `status` is "sent", "failed" or "rejected".
ReportOutcome(id, status) ==
    jobs' = IF ~Reportable(id) THEN jobs
            ELSE [jobs EXCEPT ![id].state = IF status = "sent" THEN SENT ELSE FAILED,
                              ![id].error = IF status = "sent" THEN "" ELSE status]

\* A restart of the service begins with an empty queue.
OutboxRestart == jobs' = << >> /\ wake' = FALSE

OutboxTypeOK ==
    /\ Jobs \subseteq JobIds
    /\ \A id \in Jobs : jobs[id] \in SmsJob
    /\ wake \in BOOLEAN
=============================================================================
