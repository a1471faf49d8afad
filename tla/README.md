# A TLA+ verification of Nodetide

Nodetide is a distributed identity system. An identity is the hash of the first
event of a *sigchain*, a hash-linked list of signed events that say which key is
the master key, which device keys act for it, who may recover it and which claims
its holder makes. Nodes store the chains of many identities, serve them over
HTTP, fetch them from one another, relay messages, sign people in to web
applications (an OIDC bridge) and verify claims (email, phone, electronic id).

This directory models the Python implementation (`src/python/src/nodetide`,
called `P` below). TLC checks small instances of the models, and the TLA+ proof
system proves the most important facts about the core for every instance.

## 1. Inventory

| Component | Code | State | Operations |
|---|---|---|---|
| Sigchain core | `P/core/identity.py` | the list of events; inside `verify()`: master key, devices, revoked keys, claims | one `create()` per event class, `append`, `verify`, the readers `get_current_master_key`, `get_active_devices`, `get_claims`, `claim_order`, `get_recovery_config` |
| Stored chains | `P/core/storage.py`, table `sigchains` | one row per identity | `save_sigchain` replaces the row, `get_sigchain` reads it |
| HTTP API | `P/api/routes.py`, `P/api/app.py` | none of its own; a handler keeps what it read while it waits for the request body | create an identity, submit an event, initiate and sign a recovery, relay, trust and message endpoints |
| Recovery and sessions | `P/api/auth/sessions.py`, `native.py`, `challenges.py` | pending recoveries, sessions, challenges, all in memory | create, sign, complete, expire |
| Command line | `P/cli/*.py` | the identity a command has loaded | identity, claim, backup and import commands, in a process of their own |
| OIDC bridge | `P/oidc/provider.py`, `fetcher.py`, `handlers.py` | login attempts, codes, access tokens; table `oidc_pending_fetches` | start, approve and poll a sign-in, exchange a code, fetch unknown identities with backoff |
| Relay poller | `P/relay/poller.py` | suspended flag, table of relayed identities | poll the distribution points in turn, save longer chains and new messages |
| Daemon | `P/daemon/server.py`, `P/transport/**` | bundle queue, peers by address | receive, relay, broadcast, expire bundles |
| Claim verifiers | `P/verifiers/*.py` | pending codes, rate windows, SMS outbox | start, deliver, confirm, lease, report |
| SMS gateway | `tools/sms-gateway` | ledger file | lease a job, record it, send it, report it |
| Claims service | `P/api/claims.py`, `P/core/claims.py` | documents, attestations, revocations | post and list them |
| Trust, messaging, content, explorer, eIDAS, crypto | `P/core/trust.py`, `P/messaging`, `P/content`, `P/explorer`, `P/eidas`, `P/core/crypto.py` | derived or none | computations on data |
| Clients | `web`, `android`, `golang` | user interface | call the API |

How they interact. Every component works on the stored chains. The server is one
asyncio process: a handler is atomic between two `await`s and interleaves with
every other at each of them. The command line is a second process on the same
SQLite file, so only a transaction is atomic between the two. Nodes exchange whole
copies of a chain, never single events: the fetcher and the poller pull them, the
daemon receives them, files carry them to `identity import`. The fetcher calls
back into the bridge when a chain was stored.

What is hard, component by component, and what makes it correct:

* **Sigchain core.** The state of `verify()` and the answers of the readers are
  computed by separate loops over the same events, with different data
  structures. They must agree on every chain that verifies, over rotations,
  recoveries, revocations followed by a second grant, withdrawn claims, and
  expiries on either side of the time asked about.
* **Stored chains.** A writer stores the copy it read plus its event. Between the
  two, other handlers, another process or a copy from outside may have written the
  row. Documentation promises an append-only log.
* **Recovery.** Signatures are collected over many requests, in memory, while the
  configuration they are collected for may change and the server may restart. A
  completed recovery must have its threshold, and the identity must work after it.
* **OIDC bridge.** A login attempt is touched by browser polls, by the app, by the
  fetcher's callback and by expiry, with an `await` inside the approval. One attempt
  must yield at most one code, for the identity that signed.
* **Fetch queue.** Rows are read, a network request is awaited, and the row is
  written back. A request that comes in between must not be forgotten, and every
  fetch must end.
* **Daemon.** The queue is peeked, the send is awaited, and the queue is popped. A
  revocation is broadcast again by everyone who gets it, from inside the loop that
  reads a connection, with nothing that remembers it was seen.
* **Verifiers and gateway.** A code has a limited number of attempts, replaces the
  older one and is awaited while it is delivered. A job has a lease, and the gateway
  that holds it may answer late, twice or never, and restart between writing a message
  down and sending it. Nobody's phone may get two messages, and no attestation may be
  bought with an old code or for a withdrawn claim.
* **Claims, bridge rules, sessions.** Letters signed once arrive in any order and more
  than once; a check runs in a thread while the tables change; what a revoked device
  had is not taken from it.
* **Relay poller.** Its wake-up is one event that is set by several routes and cleared
  by a loop that may be suspended.
* **Trust.** A breadth-first search with a budget per path, over delegations loaded to
  a fixed depth.

`PROJECT.json` lists these as hazards, each at its line.

## 2. Plan

Most important first; steps 1 to 7 are done.

1. `Sigchain`, `SigchainLog`, `SigchainLog_proofs`: the chain and its rules.
2. `AppendLog`, `ChainStore`: the stored copy and all its writers; `ChainStore` uses
   the operators of `Sigchain` and implements `AppendLog` where it can.
3. `IdentityFetcher`: table `oidc_pending_fetches`, `schedule` against `_process`
   split at its awaits.
4. `SignIn`: attempts and codes of the bridge, composed with `IdentityFetcher` through
   `schedule` one way and `on_identity_update` the other.
5. `BundleRelay`: queue, relay loop and connections of several daemons.
6. `CodeVerifier`, `SmsOutbox`, `SmsGateway`, composed in `Verification`, which
   implements `SmsPromise`.
7. `NodeChains` and the services that read it: `ClaimDocuments`, `Attestations`,
   `ClaimRelease`, `SessionDesk`, `TrustDesk`, `RelayPoller`, composed in `NodeServices`.
8. The proofs of section 5, one module per composed specification. Liveness stays with
   TLC.
9. Left to model: the eID notary, which awaits a thread and goes on with the clock and
   the chain it read before; the bridge's access tokens if
   they ever become revocable; groups, once a program stores them.

## 3. Modules

**`Sigchain`** has no state. It defines an event as a record, one constructor per
`create()`, the readers, and `verify()` as a fold: `Accepts(acc, e)` is the checks of
one turn of its loop, `Advance(acc, e)` the assignments, with one operator per
local variable (`MasterAfter`, `DevicesAfter`, `RevokedAfter`, `ClaimStatesAfter`,
`ClaimTypesAfter`). A hash is a number that is unique to the event, a signature a
flag, time 0 is Python's `None`. `create()` of an add_device event replaces an
empty list of capabilities by all of them, and so does `AddDeviceEvent`. Where the code
filters a list, the models take `Selected` of module **`Selection`**: the elements at a
set of positions, in order. `BundleRelay`, `SmsGateway`, `Verification`, `ClaimRelease` and
`RelayPoller` use it as well; the proofs know it by the lemma `SelectedIs`.

**`SigchainLog`** grows one chain. `events` is `Sigchain.events` and `acc` the locals
of `verify()` after the last event. Each action builds one class of event, signed by
any key, and keeps it if `verify()` accepts the longer chain. `verify()` fails at the
first event it refuses, so on a chain that verified before only the last event is
judged; this is why `acc` may be kept rather than recomputed.

**`ChainStore`** is one node and one identity.

| Variable | Code |
|---|---|
| `chain` | the row of table `sigchains` |
| `reqs` | `submit_event` and `initiate_recovery` between their first read and `await request.json()` |
| `cli` | what a command loaded with `get_default_identity` and has not saved yet |
| `pending` | `RecoveryStore._recoveries` |
| `published` | all copies that circulate: served, exported, queued in bundles, grown by other nodes |
| `issued` | a counter that makes hashes unique |

`CreateIdentity`, `SubmitRead`/`SubmitWrite`, `InitiateRead`/`InitiateWrite`,
`SignRecovery`, `ExpireRecovery` and `Restart` are the server, `FetcherIngest`,
`PollerSave` and `DaemonHandleSigchain` the three ways a copy comes in,
`CliImport` to `CliFails` the command line, `GrowElsewhere` the rest of the world. A
copy in `published` never disappears: a bundle may be late and a file is kept. The
three specifications differ in who may act: `Spec` is the code as it is;
`SerialSpec` has one writer at a time, an identity created once and copies that
come in through `choose_sigchain` only; `SubmitOnlySpec` has nothing but concurrent
`submit_event` requests.

**`AppendLog`** is the promise of `identity-system.md` ("Append-only sigchain - no
history rewriting"): a log that is only ever extended.

**`IdentityFetcher`** is the fetch queue and its worker, **`SignIn`** extends it by the
sign-ins. A chain is the sequence of its events, `<< >>` if there is none.

| Variable | Code |
|---|---|
| `stored` | table `sigchains` |
| `row` | table `oidc_pending_fetches`: state, `want_head`, whether the next attempt is due, whether `MAX_AGE` is over |
| `worker` | the locals of `run_once` and `_process`: the rows read at once, the row in hand with the `want_head` it had then, the sources left, `updated` |
| `attempt` | `OIDCProvider.attempts`, in order of creation |
| `approval` | what each `submit_assertion` in progress, and the worker, hold while they wait in `_release_claims` |
| `callback` | the locals of `on_identity_update`: the chain read once, the attempts listed once, the position |
| `codes` | `OIDCProvider.codes`, and those that were used |
| `restarts` | counts restarts, for the bound |

The steps of the worker are smaller than the stretches between two awaits; `Yielded`
guards every other action, so that nothing comes in between where the code does not
wait. It does wait for a source (`SourceAnswers`), in the callback
(`ResumeCallback`) and when idle. `StartFetch`, `Refuses`, `Approves` and `Suspends`
are what `submit_assertion` and the callback share: `Submit` and `CallbackTurn` use
them with the attempt as they have changed it so far. `CreateAttempt` is
`create_attempt` with `cleanup`, `Poll` and `GetChallenge` are `_refresh` and
`current_request`, `ExchangeCode` is `exchange_code`. `StoredElsewhere` is any other
part of the server that stores a longer copy; what else those writers do to a chain is
the subject of `ChainStore`. Times are flags that turn once: an attempt becomes late, a
challenge stale, a kept assertion expires, a backoff ends.

**`Clock`** is the time that services, daemons and gateway read: one variable that
ticks between any two steps.

**`Verification`** composes three programs' state, each in its own module.

| Module, variable | Code |
|---|---|
| `CodeVerifier` `pending`, `delivering` | `CodeVerifier._pending` of the email and the phone verifier; the calls of `start()` that wait in `_deliver` |
| `CodeVerifier` `windows` | the three `SlidingWindow`s of each verifier |
| `CodeVerifier` `stored`, `attestations` | the rows of the holders' chains, the attestations issued |
| `SmsOutbox` `jobs`, `wake` | `SmsOutbox._jobs` and `_wake` |
| `SmsGateway` `ledger`, `batch`, `at`, `verdict` | the gateway's file, and the locals of its loop |
| `parked` | calls of `gateway_pending()` that wait for work |
| `requests`, `modem` | history: verifications started, messages let through to the modem |

`StartEmail` (`StartAccepted`) waits in `MailAccepted`/`MailFails` for the mail server;
`StartPhone` queues in the same step and, when the queue is full, takes the new
verification back after it has replaced the older one, as the code does. `Refuses` is a
full verifier, a number the service does not send to, or a rate limit: all of them clean
up, and only the last counts. `Confirm` is a right, a wrong or a late
code. `GatewayAsks`, `GatewayWaits`, `GatewayProcesses`, `GatewaySends` and
`GatewayReports` are the gateway's loop against the endpoints of `api/verifiers.py`;
`lost` answers and reports that do not arrive are choices. `CleanupTask` is the
service's minute, `ServiceRestarts` and `GatewayRestarts` end a process anywhere.
A restart empties the rate windows, as they are in memory. Service and gateway read one
clock: the model does not let the clocks of the two machines differ.

**`SmsPromise`** is what the three together promise about the messages: one is let through
to the modem once and never after it was "rejected", it is told "sent" only afterwards, and
what was told of it stays until it is forgotten. `ToldOfJobs` and `TakenInOrder` are the
refinement mapping, from the jobs and from the history of the modem.

**`BundleRelay`** is several daemons. `queue` is `BundleQueue`, `up` and `inbox` the open
connections and what is on them, `label` the identity a daemon knows a peer by, `loop`
the receive loops that wait inside a broadcast, `send` the calls of `_process_queue` and
`send_message` that wait in a send, `saved` table `messages`. `Receive` is one turn of
`_receive_loop` with the whole of `_handle_bundle`; it is cut where `writer.drain()`
waits (`ResumeBroadcast`). `ProcessQueue`/`SendReturns` and
`SendMessage`/`SendMessageGoesOn` are cut at the send in the same way. `HandIn` is a
program of another make, `Disconnect` and `Restart` are the faults. What the code does
and the model keeps: a peer that dialled in is known by the author of the first bundle
it sends, not by its own name; the route of a bundle is a peer of its recipient's name;
only the first bundle of the queue is tried, so that one without a route holds up the
rest until it expires; and the pop after a send removes whatever is first by then.

**`NodeServices`** composes the services that read the sigchain table. `NodeChains` gives
them the table: everything an identity's owner signs in one behaviour is one chain
(`History`), a copy is a prefix of it, and `ChainStored` puts another copy into the row
at any time. The services share the table and the clock and nothing else, so a
behaviour has one `desk`, one service whose requests it follows, instead of the product
of states that never meet.

| Module | State | Actions |
|---|---|---|
| `ClaimDocuments` | `documents`: table `claim_documents` | `Publish`, `Unpublish` (`post_document`) |
| `Attestations` | `attestations`, `revocations`: their tables; `verifying`: the request that waits for its thread | `PostAttestation`, `PostRevocation`, `VerifyClaim` to `VerifyClaimAnswers` |
| `ClaimRelease` | `release`: the approval in progress | `ReleaseStarts`, `ReleaseTurn`, `ReleaseChecks`, `ReleaseEnds` (`_release_claims`, `evaluate_claim`) |
| `SessionDesk` | `challenges`, `sessions`: the stores; `tokens`: JWTs that are around | `Challenge`, `PeekExpired`, `VerifyHandler`, `Login`, `CreateSession`, `CreateToken`, `DeleteSession`, `GetSessionOver`, `Cleanup`, `RestartNode` |
| `TrustDesk` | `delegations`: table `trust_delegations` | `CreateDelegation`; `TrustScore` is the search |
| `RelayPoller` | `rows`: table `relayed_identities`; `suspended`, `trigger`; `poll`: the task's locals | `Wake`, `WakeByInterval`, `PointAnswers`, `PointFails`, `MessagesArrive`; `AddIdentity`, `RemoveIdentity`, `PollNow`, `Suspend`, `Resume`, `RestartPoller` |

Signed letters are not remembered when they are signed but chosen when they arrive,
with any stamp of `Stamps`: whoever holds a key may sign at any time, date as he likes,
send late and send again. The checks of core/identity.py are those of `Sigchain`,
tabulated per copy and time by `Readings`.

## 4. Runs

| Run | Expected | Shows |
|---|---|---|
| `sigchain` | pass | On every verifiable chain of up to five events, `verify()` and the readers agree on the master key and on each claim; a claim event was signed by somebody the readers list as entitled at that moment; revocation and withdrawal are final; `claim_order` is complete and free of duplicates. |
| `sigchain_devices` | violation of `DeviceViewsAgree` | A device, not the master, that was granted for ever and then again until time 2 is active for `get_active_devices` at time 3 (the expired grant is skipped, the older one counts), and `verify()` would refuse its claim events (the newer grant replaced the older). |
| `chain_store` | pass | With every writer interleaved, and rows rolled back and forked, the row is still one linked history of this identity; and if the row does not verify, the owner's command line or a completed recovery did it. |
| `chain_store_serial` | pass | With one writer at a time, the row implements `AppendLog`. This is the condition under which the documentation's promise holds. A recovery, which takes several requests and may see its configuration replaced by another, carries the signatures of as many of its trustees as the one it began with asks for. |
| `chain_store_lost_update` | violation of `AppendOnly` | Two requests that read the same chain: the second save drops an event that was acknowledged. |
| `chain_store_recovery` | violation of `StoredChainVerifies` | A completed social recovery stores an event without signature; the chain never verifies again, and so accepts no further event. |
| `bridge` | pass | Sign-ins, with polls, submissions, expiry, a full queue, restarts and a second identity in the worker's batch, or with a second sign-in of the same identity while the callback may be suspended in the first: an assertion is kept exactly while its sign-in waits; a chain that the fetcher stored reaches every sign-in that waits for it, and a revocation in it counts for every later assertion; an approval is final; every fetch ends done or abandoned. |
| `bridge_nonce` | violation of `NonceBuysOneCode` | Two assertions with one nonce that overlap in `_release_claims` are both approved, and two codes exist. |
| `verification` | pass | Two requests for an email or a phone claim, a gateway, a restart on either side, lost answers and reports: every step keeps `SmsPromise`, no SMS leaves twice or beyond the budget, "sent" and "rejected" are true, only the newest code of an active claim buys an attestation, and nobody else's call takes a verification away. |
| `relay` | pass | Two daemons and a device outside, connections that break or stop reading: a directed bundle is not lost without one of the causes the code knows, revocations lead the queue, and their re-broadcast ends after they expire unless daemons have blocked each other. |
| `services` | pass | Each service with the table changing under it: what `NoLateReturn`, `OnlyItsIssuerRevokes`, `ValidWasUnrevoked`, `ReleasedWasGood`, `OneUsePerChallenge`, `RevokedDeviceFadesOut`, `BestPath` and `TriggeredPollHappens` say at their definitions. |
| `services_replay` | violation of `TakenBackStaysOut` | A document is published, taken back by a newer letter, and published again by the letter of the first time. `tests/test_claims_api.py:162` says that this replay must not resurrect it, and the lines after it accept that it does. |

Two more disagreements the models have without a run of their own. The genesis posted
again (`CreateIdentity` of `ChainStore`) resets the row, a second way to break
`AppendOnly`. And a chain that another part of the server stores while a sign-in waits
for it makes the fetch find itself satisfied and end without calling back
(`P/oidc/fetcher.py:240`), where `identity-system.md:1307` says "When the chain
arrives and the pending assertion is still valid, the sign-in completes by itself": this
sign-in waits until it expires.

### Bounds, and why they are enough

* `MCSigchainLog`: three keys, two claims of one type, five events (`MaxEvents`). The
  longest scenario a property needs is genesis, grant, revocation, second grant,
  claim event, which is five events and two keys; the third key lets a rotation
  happen to a key that is neither master nor device. Clocks show 2 or 3 and
  expiries are none or 2: the last moment before an expiry and the first behind it.
  A device gets `encrypt` only, or the empty list that stands for everything.
  Claim orders contain duplicates. Keys and claims are symmetric.
* `MCChainStore`: two keys (owner, device), one claim, one pending recovery, four events
  ever signed (`MaxEvents`); the recovery configuration names two trustees who both must
  sign. `chain_store` has one request slot, which with the command line as second writer
  gives every order of two stale copies; the runs about concurrent requests have two.
  Kinds of events are limited to those that tell the writers apart: `MCKinds` in
  `chain_store`, all of them in `chain_store_serial`. There a second configuration, of a
  third trustee who may act alone, can replace the first: a recovery begun under either
  must not complete by the threshold of the other. Slots and the two trustees who sign
  together are symmetric.
* `MaxEvents` bounds the guards of the actions that sign (`Bound`) in these two; nothing
  else is capped there.
* `MCSignIn`: a chain of up to three events (the device is enrolled, a note, the device
  is revoked) and a copy that does not verify and forks off; signers name the note, so
  the node's copy can be too old, recent enough, or ahead with the revocation. One
  request in progress besides the worker, which is enough for two evaluations to
  overlap; one rejection to failure, one source per identity, one renewed challenge
  (`MaxRenewals`), a queue of one. `MaxLoad` bounds what comes together: six is two
  sign-ins of one identity, or one with three of a renewed challenge, restarts, and a
  second identity whose chain others store. That two sign-ins of one identity keep the
  safety properties over renewals and restarts too is proved. `RevokedNeverSignIn` and
  `ArrivalIsAnswered` speak of identities whose chain only the fetcher stores. The run
  `bridge_nonce` has one identity and two requests.
* `MCVerification`: one holder with one email and two phone claims, one of them a number
  the service does not send to; chains without and
  with the phone claim withdrawn; two requests (`MaxRequests`), which is a request and
  its replacement, or one of each kind; one guess, a code that lives one tick, a clock
  up to 2; one restart, of either program; one message per window at the modem, so that
  the second is over budget; a queue of one job, which a second request finds full; two
  leases. A lease lasts zero ticks: it may run out before the next tick, which is every
  order of lease, report and clock. One pending verification for phone and two for
  email, so that both refusals occur. `CodeTtl <= KeepIds` is assumed: the ledger's
  memory (`KEEP_IDS`, 7 days) outlives a job (`SMS_TTL`, 10 minutes); `SentAtMostOnce`
  fails without it.
  A second guess only counts up, and `TypeCorrect` has it for any `MaxAttempts`. An
  answer carries one message here, as the queue holds one; that `RefusedNeverLeft` and
  `KeepsPromise` hold for longer answers is proved (`RefusedMeansNeverSent`,
  `PromiseIsKept`).
* `MCBundleRelay`: ann dials ben, a device outside dials ann. A revocation for all, a
  directed revocation from outside and a message are the three priorities and
  addressings that meet in one queue. A stream takes one bundle before `drain()` waits
  (`HighWater = 0`), two hand-ins (`MaxHandIns`: the same bundle again, or two), one
  fault, one tick after which everything born at 0 has expired.
* `MCNodeServices`: one chain per service that grants and then revokes what the service
  asks about, with the copies on both sides of it (`Around`); windows, lifetimes and ages
  of one tick and a clock up to 2; two attestations of one claim, signed by another
  identity and by the holder himself, and a proof; two presentations in both orders; two
  challenges and a store of one; four people and five possible delegations with a
  cycle, weights 0.5 and 1, limits none, 0 and 1; two relayed identities, one whose chain
  names no points.

Deadlock is not checked in any run: at a bound, or when nobody asks for anything, these
systems may stop.

### Fairness

* `SignIn`: weak fairness of the worker (the event loop runs it, `http_fetch_sigchain`
  has a timeout, and the evaluation of claims is a computation that ends) and of the
  time that passes for a row (its backoff ends and its age reaches `MAX_AGE`). Nothing is
  assumed of users, sources or other writers: sources may never have the chain, and
  nobody has to poll.
* `BundleRelay`: weak fairness of reading a connection that holds a bundle and of a
  broadcast whose `drain()` returned, per node and connection: the event loop runs what
  can run. Connections may break, clocks may stop, and nothing has to be sent.
* `NodeServices`: weak fairness of the poller's task while it can go on (`PollerStep`): the
  loop runs it when its event is set, and its HTTP requests end within 30 seconds. The
  interval need not pass: `TriggeredPollHappens` is owed to the event alone, and only if
  the operator does not suspend polling for ever.

All other properties are about safety.

### What the properties do not say

* `chain_store` permits what the code does to the row: a rollback to an older copy or to
  the genesis, the other branch of a fork, an event lost between two writers, and a chain
  that the command line stores unverified. `RowIsLinked` says what is left after any of
  these, `OnlyLocalWritersBreakIt` who may store what does not verify;
  `ImplementsAppendLog` excludes the writers that do it.
* With two different heads named by signers, `ArrivalIsAnswered` speaks of those that
  arrived. The row itself may be marked done without the head that was asked for last,
  since `_process` compares with the one it read; a later sign-in schedules it again.
* "sent" is a record and not a receipt. The gateway writes a message down before it
  asks the modem; if it stops in between it answers "sent" for a message that never left,
  although `P/api/verifiers.py` calls the status "did the code leave?". `SentWasTaken`
  says what is true. The ledger counts the time of the decision; the modem may take up
  to 70 seconds more.
* `NothingVanishes` names its exceptions in `ended`: a connection broke under the bundle,
  a daemon stopped, it was popped in another's place, it went to a peer that goes by the
  recipient's name and is not. All four are behaviours of the code.
* `identity-system.md:337` asks for a limit on revocations from one source; the code has
  none, and `StormEnds` shows what ends their circulation instead.
* `StormEnds` excepts a `Knot`: daemons whose receive loops each wait for the other to
  read. The code has no way out of it but a broken connection.
* A withdrawn document may come back by a "publish" that was signed before the
  "unpublish" and arrives after it, or arrives again, since the row with the time is
  deleted: `services_replay` shows it against what a test says. `NoLateReturn` does not
  excuse it; it says how long such a letter gets in.
* A revocation posted before its attestation is stored for whoever signs it. If that is
  not the issuer, the attestation is refused at this node: `OnlyItsIssuerRevokes` is about
  those that are stored.
* `POST /session` takes its lifetime from the caller without a limit, and its signed
  request may be sent again for 300 seconds; `RevokedDeviceFadesOut` therefore bounds
  logins and JWTs only, and for other sessions says that none is opened after the
  revocation is stored. The genesis key is an active device of every chain, and so
  excepted.
* `RevokedNeverSignIn` leaves out identities whose chain others store too: while the
  callback is suspended a newer chain may be stored, and the sign-ins after it in the loop
  are still judged by the older.
* `ReleasedWasGood` speaks of the state when the loop read it: `_release_claims` asks for a
  revocation before the thread runs, `verify_claim` after, and `ValidWasUnrevoked` is
  accordingly stronger.
* `BestPath` compares exact products; the code multiplies floats.

## 5. Proofs

`SigchainLog_proofs` proves, for all keys, claims, times, capabilities, orders and
any length of chain, from the assumptions `SigchainAssumption` and
`SigchainLogAssumption` (constants are sets of the right kind, `manage_claims` is a
capability, `None` is no key):

* `TypeCorrect`: `Spec => []TypeOK`;
* `LocalsTracked`: `Spec => []Tracked`, the inductive invariant;
* `MastersAgree`, `LedgersAgree`, `ClaimSignersActive`, `RevokedAreSilenced`: the
  invariants `MasterAgreement`, `ClaimLedgerAgreement`, `ClaimSignersWereActive` and
  `RevokedSilenced`;
* `ClaimOrderIsComplete`: the invariant `ClaimOrderComplete`;
* `WithdrawalsAreFinal`, `RevokedStayOut`: the action properties.

The argument. What the readers compute is stated by positions in the chain (the
last event that names a master, the last grant of a key, the last add_claim and a
revocation behind it); lemmas `MasterAt`, `GrantAt` and `ClaimAt` derive those from
the operators. None of the properties is inductive by itself, since the rules of
`verify()` speak of its locals only. `Tracked` ties every local to positions:
`GenesisFirst`, `MasterTracked` (the key of the last master event),
`RevocationsTracked` (exactly the keys some event revokes), `DevicesTracked` (a
non-empty grant is that of the last add_device of the key) and `ClaimTracked`
(unknown, or added once and revoked or not since). `ExtendEffect` says what a step
does to the chain; there is one preservation lemma per local, and each property
follows from `Tracked` and the guard `Accepts` of the step. `DevicesTracked` holds of
the newest grant and not of the newest unexpired one; that is exactly the
difference `sigchain_devices` shows, and why `ClaimSignersWereActive`, which asks
at the event's own timestamp, is nevertheless true. `ClaimOrderIsComplete` rests on one more
invariant, `ListingsDistinct`: `verify()` accepts no listing that names a claim twice, so
that neither half of `claim_order()` does (`SelectedDistinct`), and each active claim is in
exactly one of the halves.

What several proofs share is in two modules without a specification: `NumberLemmas` (least
and greatest numbers, counting, `SelectedIs`, and `Iterated`, which takes the place of
induction for functions computed step by step) and `Sigchain_proofs` (the operators of
`Sigchain` on any chain).

`ChainStore_proofs` proves, for any number of requests, trustees, kinds of events and length
of chains, from `ChainStoreAssumption` (owner and device are keys, a configuration is a set of trustees
with a number) and those of `Sigchain`:

* `TypeCorrect`, `LinkedRow`, `RecoveryQuorum`, `OnlyLocalWriters`: the invariants `TypeOK`,
  `RowIsLinked`, `RecoveryHasQuorum` and `OnlyLocalWritersBreakIt`;
* `SerialImplementsLog`: `SerialSpec => ImplementsAppendLog`, the refinement of
  `AppendLog`, and from it `SerialAppendOnly`.

The argument. What a writer read before an `await` may no longer be the row when it saves,
so no fact about the row is inductive. `StoreInv` says that whatever a handler or a command
holds is a copy that circulates, and that a pending recovery has trustees and threshold of
a configuration in such a copy (`RecoveryOk`). Lemma `StepPublishes` then reduces every step
of every writer to one question: a new copy is a genesis, or a circulating copy with one
event somebody signed, or with the recovery its quorum signed. Each property follows from a
fact about all circulating copies that appending keeps: `LinkedInv` (hashes link up),
`HasQuorum` and `BlamedInv` (an event that does not verify is by a local writer). The
refinement needs `SerialInv`: with one writer at a time, what it holds is the row.

`SignIn_proofs` proves, for any identities, chains, callers, sources, failures and renewals,
from `FetcherAssumption` and `SignInAssumption` (finitely many identities, chains are
sequences, the worker is no request):

* `TypeCorrect`, `HeldWhileFetching`, `ArrivalAnswered`: the invariants `TypeOK`,
  `HeldIffFetching` and `ArrivalIsAnswered`;
* `ApprovalIsFinal`, `RevokedStaysOut`: the action properties `ApprovedIsFinal` and
  `RevokedNeverSignIn`.

The argument. `BridgeInv` has a part per structure: `FetcherInv` for the worker,
`AttemptsInv` for the sign-ins and codes, `ApprovalsInv` for the calls that wait in
`_release_claims`, `CallbackInv` for the loop over the attempts listed once, and `ArrivalInv`:
a sign-in that still waits for a chain that is there is one that loop has not reached, and
the worker is at that identity with `updated` set. The last is what makes
`ArrivalIsAnswered` true over the awaits of the worker; it needs from `CallbackInv` that the
chain the callback read once is still the stored one. `RoomInv` counts the challenges
that renewals may still issue, so that their bound is never passed. `RevokedStaysOut` uses
`AttemptMove`, the list of what any step may do to a sign-in.

`BundleRelay_proofs` proves, for any daemons, links, bundles, routes and lifetimes, from
`BundleRelayAssumption` (a link joins two daemons, `Nobody` is none of them):
`TypeCorrect`, `RevocationsAhead` and `NoneVanishes`, the invariants `TypeOK`,
`RevocationsFirst` and `NothingVanishes`. The argument. `RevocationsFirst` is kept since
`Push` keeps a sorted queue sorted and everything else only removes (`Cut`).
`NothingVanishes` says too little to be inductive: a copy that a daemon is about to pop
does not count. `AliveInv` says that some copy is on a connection, in a receive loop, or in a
queue where the send under way will not take it away (`Spare`); `QueueInv` that
`_process_queue` sends a bundle which is still in the queue, unless it expired; `LoopInv` that
a loop which passes a bundle on at its recipient has handled it; `BornInv` and `TasksInv`
that the rest is well formed.

`Verification_proofs` proves, for all claims, numbers, chains, limits, leases and
lifetimes, any number of requests and restarts and answers of any size, from
`CodeVerifierAssumption`, `SmsOutboxAssumption`, `SmsGatewayAssumption` and
`VerificationAssumption` (numbers are numbers, chains are sequences of claims,
`CodeTtl <= KeepIds`):

* `TypeCorrect`: the invariant `TypeOK`;
* `NoSecondSms`, `SentMeansTaken`, `BudgetIsKept`, `RefusedMeansNeverSent`: the invariants
  `SentAtMostOnce`, `SentWasTaken`, `BudgetHolds` and `RefusedNeverLeft`;
* `NewestCodesBuy`, `VerificationsLeftAlone`: the action properties `BoughtByNewestCode`
  and `OthersLeaveItAlone`;
* `PromiseIsKept`: `Spec => KeepsPromise`, the refinement of `SmsPromise`, and
  `OutcomesAreFinal`, the part of it that speaks of outcomes once told.

The argument. `CodesInv` ties a pending verification to its request: it is the newest of
its claim, expires `CodeTtl` after it, and its chain does not withdraw the claim. Every
operation of the verifier either takes verifications away (`Fewer`) or adds the newest and
takes the others of the claim away (`OneMore`). `ActiveInBoth` adds that the chain
`choose_sigchain` picks has the withdrawals of both copies. `OnceInv` follows the expiry of
a code from the request through the job and the message to the gateway
(`OutboxTracked`, `LoopTracked`) and says what makes the ledger enough: each id that was
let through is still in it, or its code has expired (`ModemTracked`), as an id is kept
`KeepIds` after the attempt, which is not before the request (`LedgerTracked`). So
`process()` lets an id through that is neither in the ledger nor expired, and that is a
new one.

`RefusedMeansNeverSent` needs more than that an id is kept until its code has expired: the
gateway may hold an answer for as long as it likes, and each message it records makes the
ledger forget. `RefusedInv` says that requests and answers are in order
(`RequestsInOrder`, `BatchInOrder`), so that while a message is alive when it is recorded,
those behind it are alive too (`LaterLive`) and their ids stay (`StillSeen`); and that what
the gateway still holds was not refused already (`NotRefusedYet`), as only a job that waits
is leased. The refinement then takes one lemma per kind of step: `MappedTake` for
`Process`, `MappedTell` for leases and reports (`LeaseTells`, `ReportTells`),
`MappedRequest` and `MappedForget` for the rest.

`BudgetIsKept` needs that the ledger remembers enough: `BudgetInv` says that its sends are
the end of the modem's history, in the order of time, and that what it forgot has left the
window (`Remembers`); what the gateway counts is then what a window over the history counts.
`ShapeInv` adds to `CodesInv` and `OnceInv` what `TypeCorrect` needs beside them.

`NodeServices_proofs` proves, for all identities, histories, letters, keys, windows,
lifetimes, delegations and relayed identities, from the assumptions those modules name
(histories are sequences of events, the visitor is an identity, a presentation has an
assurance, a profile names lists of relay points, `None` is none of the verdicts):

* `TypeCorrect`: the invariant `TypeOK`;
* `NoneReturnsLate`, `IssuersOnly`, `ChallengesBuyOnce`: the invariants `NoLateReturn`,
  `OnlyItsIssuerRevokes` and `OneUsePerChallenge`;
* `RevokedDevicesFadeOut`: the invariant `RevokedDeviceFadesOut`;
* `ValidIsUnrevoked`, `ReleasedIsGood`: the action properties `ValidWasUnrevoked` and
  `ReleasedWasGood`;
* `SearchFindsBest`: the invariant `BestPath`.

The first three invariants are nearly inductive: `DocumentsInv` and `AttestationsInv` add the
shape of the tables, and `NoncesInv` that a challenge which is stored or not yet issued has
bought nothing. `FadeInv` says that what a revoked device still has is from before the moment
its revocation was stored. Its step needs that a revocation stays in every longer copy
(`RevokedStays`), that a key revoked in a copy is no active device of it
(`RevokedIsInactive`) and that the master key of a copy is one that some event made master
(`NeverMasterIsNot`); since the desk judges by the longer of the stored copy and the one
supplied, a revoked key is then refused by every request (`RevokedIsShutOut`).

The two action properties are about calls that read, wait and go on. `CallInv` says of a
verification in progress that the copies it judges by are at least those the node held when
it was asked, `ReleaseInv` of a release that the best so far is the strongest that passed and
is good by the copies the release has used; `HeldInv` that all copies are prefixes of one
history. A withdrawal stays in longer copies, so that a check against a longer copy speaks
for the shorter one.

`TypeInv` joins these for `TypeCorrect`. The hard part is the poller: `PollerInv` has one row
per identity whatever is added, removed or updated while a cycle runs, a poll owed only to
identities with a row, and points to ask as long as a turn asks.

`SearchFindsBest` is about the operators alone, for every graph and every depth. Both
recursive functions, the handler's rounds and the levels of the queue, are named by
`AskedIs` and `LevelsAre`. `QueuesTrail`: a path of the queue meets nobody twice, follows
delegations that cover the topic, and its budget plus the steps since a delegation keeps
to that delegation's limit, so it is one of the `Ways`. `WayIsFollowed`: for each way and
number of steps some path of the queue has followed it so far with budget enough for the
rest; whoever is on it has been asked for his delegations by then (`WayIsAsked`). So
paths and ways have the same scores, and the best of them are equal.

Only model-checked: the findings' runs, which are violations; and the liveness properties
(`PendingEnds`, `StormEnds`, `TriggeredPollHappens`), which are out of the provers' reach.

## 6. Not modelled

* Cryptography, serialisation, canonical JSON: a signature is a flag, a hash a
  number. Nobody in the models signs with a key without `sig` being true.
* `rotate_master` of `Identity` draws a fresh key; the model lets it be any key, also
  one in use, since `verify()` accepts that from anyone who writes the event.
* The `backup_trustees` of a recovery configuration: the code stores and never uses
  them.
* Several identities in `ChainStore`: the rows are independent of one another.
* Time in `ChainStore`: devices and claims do not expire there (`SigchainLog` has
  that), a pending recovery does at a step of its own.
* Of the bridge: access tokens, which are only read once issued; the number of attempts
  of a fetch and its hints, which choose times and sources only; the limit on restarted
  rows, which protects disk space; more than ten due rows; pages, configuration and
  address checks. The first checks of `verify_assertion` are one flag of the assertion,
  `signed`. `SignIn` knows only whether any claim has to be evaluated (`presented`); what
  the rules release is `ClaimRelease`.
* Of the daemon: framing, mDNS itself, what a sigchain bundle does to the row (that is
  `DaemonSigchain` of `ChainStore`). `broadcast_sigchain` is a hand-in. Acknowledgements
  have a type and no handler in the code.
* Of the verifiers: the eID notary. Its checks are certificates and forms; it has one
  `await`, after which it uses a clock and a chain read before (plan, step 9).
* Of the claims service: the evidence inside a document, the proofs of registered kinds. A
  proof that carries its own certificate may verify or not, whatever the node knows.
* Of access control: the Casbin policies and their evaluation.
* Of the poller: mDNS, `set_interval`, the status columns, the order of rows stored in the
  same second, an exception of the storage (the task sleeps a minute and goes on).
* Messaging groups: `P/messaging/group.py` is a library without a user. The one command
  that creates a group (`P/cli/main.py:1004`) does not store it, and nothing receives group
  events. Encryption of messages is data.
* Content (chunking, hashing), the explorer (read-only; its index rows are written in the
  transaction that saves a chain, `P/core/storage.py:328`), eIDAS, CMS and X.509: sequential
  computations without state.
* Clients, deployment and the test kit: users of the API.
