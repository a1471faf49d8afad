----------------------------- MODULE ChainStore -----------------------------
(***************************************************************************)
(* The sigchain row that one node keeps for one identity, and everything   *)
(* that writes it: the HTTP handlers of api/routes.py (an asyncio handler  *)
(* loses control at `await request.json()`, so submit_event and            *)
(* initiate_recovery are two steps each), the fetcher, the relay poller,   *)
(* the daemon, and the command line, a process of its own on the same      *)
(* database.  save_sigchain replaces the whole row: a writer stores the    *)
(* chain it read earlier plus its event, whatever the row holds by then.   *)
(*                                                                         *)
(* `published` holds every copy of the chain that circulates: what the     *)
(* node ever served, exports, bundles, and the chains other nodes grow     *)
(* from them.  A copy stays available for ever, as files and queued        *)
(* bundles do.                                                             *)
(***************************************************************************)
EXTENDS Sigchain

CONSTANTS Owner,       \* the key of the genesis, which the command line holds
          Device,      \* the key that add_device events grant
          Requests,    \* slots for handlers that wait for their body
          Recoveries,  \* ids of pending recoveries
          Configs,     \* recovery configurations that the owner may sign
          Kinds,       \* types of the events that are signed
          MaxEvents    \* bound on the events ever signed

ASSUME ChainStoreAssumption ==
    /\ Owner \in Keys /\ Device \in Keys
    /\ Configs \subseteq [trustees : SUBSET Trustees, threshold : Nat]
    /\ Kinds \subseteq EventTypes
    /\ MaxEvents \in Nat

VARIABLES chain,      \* the row of table sigchains, << >> when there is none
          reqs,       \* handlers between their first read and their save
          cli,        \* the chain a running command has loaded, << >> when none
          pending,    \* RecoveryStore._recoveries
          published,  \* copies of the chain that anyone may offer
          issued      \* events signed so far: the source of fresh hashes

vars == <<chain, reqs, cli, pending, published, issued>>

\* The clock stands still: devices, claims and recoveries either never expire
\* or do so at a step of their own.
Now == 1

Genesis == GenesisEvent(1, Now, Owner)

Idle == [handler |-> "idle", seen |-> << >>]
NoRecovery == [new_pubkey |-> None, trustees |-> {}, threshold |-> 0, signed |-> {}]

LastOf(c) == c[Len(c)]

-----------------------------------------------------------------------------
(* Events that somebody signs on top of the chain `seen` *)

NextEvent_LastIssued(seen, signer) ==
    BaseEvent("set_distribution", issued + 1, issued, Now, signer)

NextEvent(seen, signer) ==
    BaseEvent("set_distribution", issued + 1, LastOf(seen).hash, Now, signer)

\* from_dict() takes whatever was signed; of set_recovery, any configuration.
Proposals(seen, signer) ==
    LET base == NextEvent(seen, signer)
        all == {base, AddDeviceEvent(base, Device, {}, 0), RevokeDeviceEvent(base, Device)}
               \cup {SetRecoveryEvent(base, config.trustees, config.threshold) : config \in Configs}
               \cup {RotateMasterEvent(base, k) : k \in Keys}
               \cup {SocialRecoveryEvent(base, k) : k \in Keys}
               \cup {AddClaimEvent(base, c, type, 0) : c \in Claims, type \in ClaimTypes}
               \cup {RevokeClaimEvent(base, c) : c \in Claims}
    IN  {e \in all : e.type \in Kinds}

\* get_required_capability: None stands for "no capability needed".
RequiredCapability(type) ==
    CASE type \in {"add_device", "revoke_device"} -> "sign_identity"
      [] type \in ClaimEventTypes -> "manage_claims"
      [] OTHER -> None

\* verify_event_signature for an event that is not a genesis.
SignerAuthorized(seen, e) ==
    /\ e.sig
    /\ \/ e.signed_by = GetCurrentMasterKey(seen)
       \/ /\ e.signed_by \in GetActiveDevices(seen, Now)
          /\ \/ RequiredCapability(e.type) = None
             \/ RequiredCapability(e.type) \in DeviceCapabilities(seen, e.signed_by, Now)

\* Storage.save_sigchain: INSERT OR REPLACE.  From then on the row is served.
SaveSigchain(c) ==
    /\ chain' = c
    /\ published' = published \cup {c}

Sign == issued' = issued + 1
Bound == issued < MaxEvents

-----------------------------------------------------------------------------
(* HTTP API *)

\* create_identity, reposted at any time: the handler does not look whether the
\* row exists.
CreateIdentity ==
    /\ SaveSigchain(<<Genesis>>)
    /\ UNCHANGED <<reqs, cli, pending, issued>>

\* submit_event up to `await request.json()`.
SubmitRead(r) ==
    /\ reqs[r] = Idle
    /\ chain # << >>
    /\ reqs' = [reqs EXCEPT ![r] = [handler |-> "submit", seen |-> chain]]
    /\ UNCHANGED <<chain, cli, pending, published, issued>>

SubmitWrite_Unverified(r) ==
    /\ reqs[r].handler = "submit"
    /\ Bound
    /\ \E signer \in Keys : \E e \in Proposals(reqs[r].seen, signer) :
           /\ SignerAuthorized(reqs[r].seen, e)
           /\ SaveSigchain(Append(reqs[r].seen, e))
    /\ Sign
    /\ reqs' = [reqs EXCEPT ![r] = Idle]
    /\ UNCHANGED <<cli, pending>>

\* submit_event from there on, when it accepts the event.
SubmitWrite(r) ==
    /\ reqs[r].handler = "submit"
    /\ Bound
    /\ \E signer \in Keys : \E e \in Proposals(reqs[r].seen, signer) :
           /\ SignerAuthorized(reqs[r].seen, e)
           /\ Verify(Append(reqs[r].seen, e))
           /\ SaveSigchain(Append(reqs[r].seen, e))
    /\ Sign
    /\ reqs' = [reqs EXCEPT ![r] = Idle]
    /\ UNCHANGED <<cli, pending>>

\* initiate_recovery up to `await request.json()`.
InitiateRead(r) ==
    /\ reqs[r] = Idle
    /\ chain # << >>
    /\ RecoveryConfigIndex(chain) # 0
    /\ reqs' = [reqs EXCEPT ![r] = [handler |-> "initiate", seen |-> chain]]
    /\ UNCHANGED <<chain, cli, pending, published, issued>>

\* The rest of it: RecoveryStore.create with the configuration read before.
InitiateWrite(r) ==
    /\ reqs[r].handler = "initiate"
    /\ \E id \in Recoveries, new_pubkey \in Keys :
           LET config == reqs[r].seen[RecoveryConfigIndex(reqs[r].seen)]
           IN  /\ pending[id] = NoRecovery
               /\ pending' = [pending EXCEPT ![id] =
                      [new_pubkey |-> new_pubkey, trustees |-> config.trustees,
                       threshold |-> config.threshold, signed |-> {}]]
    /\ reqs' = [reqs EXCEPT ![r] = Idle]
    /\ UNCHANGED <<chain, cli, published, issued>>

\* Either handler ends with an error: a body that is not accepted, a 409 for a
\* `prev` that is not the head it read, or a client that went away.
RequestFails(r) ==
    /\ reqs[r] # Idle
    /\ reqs' = [reqs EXCEPT ![r] = Idle]
    /\ UNCHANGED <<chain, cli, pending, published, issued>>

RecoveryEvent_NoKey(seen, recovery) ==
    [NextEvent(seen, recovery.new_pubkey) EXCEPT
        !.type = "social_recovery", !.sig = FALSE,
        !.trustees = recovery.signed, !.threshold = recovery.threshold]

\* The event that submit_recovery_signature makes: nobody signs it, and it
\* carries the trustees' signatures.
RecoveryEvent(seen, recovery) ==
    [SocialRecoveryEvent(NextEvent(seen, recovery.new_pubkey), recovery.new_pubkey)
        EXCEPT !.sig = FALSE, !.trustees = recovery.signed,
               !.threshold = recovery.threshold]

\* Trustees of one configuration are counted against another one.
IsComplete_Newest(recovery) ==
    LET newest == RecoveryConfigIndex(chain)
    IN  Cardinality(recovery.signed) >= (IF newest = 0 THEN recovery ELSE chain[newest]).threshold

\* PendingRecovery.is_complete, by the configuration of its start.
IsComplete(recovery) == Cardinality(recovery.signed) >= recovery.threshold

\* submit_recovery_signature.  It reads and writes without an await in between.
\* The trustee's own signature is not verified, and neither is the new chain.
SignRecovery(id, trustee) ==
    LET recovery == [pending[id] EXCEPT !.signed = @ \cup {trustee}]
    IN  /\ pending[id] # NoRecovery
        /\ trustee \in pending[id].trustees
        /\ \/ /\ ~IsComplete(recovery) \/ chain = << >>
              /\ pending' = [pending EXCEPT ![id] = recovery]
              /\ UNCHANGED <<chain, published, issued>>
           \/ /\ IsComplete(recovery) /\ chain # << >>
              /\ Bound
              /\ SaveSigchain(Append(chain, RecoveryEvent(chain, recovery)))
              /\ Sign
              /\ pending' = [pending EXCEPT ![id] = NoRecovery]
        /\ UNCHANGED <<reqs, cli>>

\* 24 hours later RecoveryStore drops it.
ExpireRecovery(id) ==
    /\ pending[id] # NoRecovery
    /\ pending' = [pending EXCEPT ![id] = NoRecovery]
    /\ UNCHANGED <<chain, reqs, cli, published, issued>>

\* The server process dies and comes back: only the database survives.
Restart ==
    /\ reqs' = [r \in Requests |-> Idle]
    /\ pending' = [id \in Recoveries |-> NoRecovery]
    /\ UNCHANGED <<chain, cli, published, issued>>

-----------------------------------------------------------------------------
(* Synchronisation *)

FetcherIngest_Longer(c) ==
    /\ Verify(c)
    /\ Len(c) > Len(chain)
    /\ SaveSigchain(c)
    /\ UNCHANGED <<reqs, cli, pending, issued>>

\* IdentityFetcher._ingest, with choose_sigchain: only a longer copy that has
\* the stored chain as a prefix replaces it.
FetcherIngest(c) ==
    /\ Verify(c)
    /\ Len(c) > Len(chain)
    /\ IsPrefix(chain, c)
    /\ SaveSigchain(c)
    /\ UNCHANGED <<reqs, cli, pending, issued>>

\* RelayPoller._poll_identity: longer is enough.
PollerSave(c) ==
    /\ Verify(c)
    /\ Len(c) > Len(chain)
    /\ SaveSigchain(c)
    /\ UNCHANGED <<reqs, cli, pending, issued>>

\* Daemon._handle_sigchain: any copy that verifies.
DaemonHandleSigchain(c) ==
    /\ Verify(c)
    /\ SaveSigchain(c)
    /\ UNCHANGED <<reqs, cli, pending, issued>>

\* A copy grows elsewhere: another node accepts an event for it.
GrowElsewhere(c) ==
    /\ Bound
    /\ \E signer \in Keys : \E e \in Proposals(c, signer) :
           /\ SignerAuthorized(c, e)
           /\ Verify(Append(c, e))
           /\ published' = published \cup {Append(c, e)}
    /\ Sign
    /\ UNCHANGED <<chain, reqs, cli, pending>>

-----------------------------------------------------------------------------
(* Command line *)

\* `identity import` saves like the daemon.
CliImport(c) ==
    /\ Verify(c)
    /\ SaveSigchain(c)
    /\ UNCHANGED <<reqs, cli, pending, issued>>

\* `identity restore` too, after it decrypted the key of the genesis.
CliRestore(c) ==
    /\ Verify(c)
    /\ SaveSigchain(c)
    /\ UNCHANGED <<reqs, cli, pending, issued>>

\* get_default_identity, at the start of a command.
CliLoad ==
    /\ cli = << >>
    /\ chain # << >>
    /\ cli' = chain
    /\ UNCHANGED <<chain, reqs, pending, published, issued>>

\* A command appends an event signed with the key of the genesis to what it
\* loaded, and saves that.
CliStore(e) ==
    /\ SaveSigchain(Append(cli, e))
    /\ Sign
    /\ cli' = << >>
    /\ UNCHANGED <<reqs, pending>>

\* The `identity` commands do not verify what they made.
CliIdentityCommand ==
    /\ cli # << >>
    /\ Bound
    /\ \E e \in Proposals(cli, Owner) :
           /\ e.type \in {"add_device", "revoke_device", "set_distribution", "set_recovery"}
           /\ CliStore(e)

\* `claim add` does.
CliClaimAdd ==
    /\ cli # << >>
    /\ Bound
    /\ \E e \in Proposals(cli, Owner) :
           /\ e.type = "add_claim"
           /\ Verify(Append(cli, e))
           /\ CliStore(e)

\* `claim revoke` only asks that the claim is on the chain, withdrawn or not.
CliClaimRevoke ==
    /\ cli # << >>
    /\ Bound
    /\ \E e \in Proposals(cli, Owner) :
           /\ e.type = "revoke_claim"
           /\ HasClaim(cli, e.claim)
           /\ CliStore(e)

\* The command stops with an error before it saves.
CliFails ==
    /\ cli # << >>
    /\ cli' = << >>
    /\ UNCHANGED <<chain, reqs, pending, published, issued>>

-----------------------------------------------------------------------------

Init ==
    /\ chain = << >>
    /\ reqs = [r \in Requests |-> Idle]
    /\ cli = << >>
    /\ pending = [id \in Recoveries |-> NoRecovery]
    /\ published = {}
    /\ issued = 1

Next ==
    \/ CreateIdentity
    \/ \E r \in Requests :
          \/ SubmitRead(r)
          \/ SubmitWrite(r)
          \/ InitiateRead(r)
          \/ InitiateWrite(r)
          \/ RequestFails(r)
    \/ \E id \in Recoveries :
          \/ \E trustee \in Trustees : SignRecovery(id, trustee)
          \/ ExpireRecovery(id)
    \/ Restart
    \/ \E c \in published :
          \/ FetcherIngest(c)
          \/ PollerSave(c)
          \/ DaemonHandleSigchain(c)
          \/ GrowElsewhere(c)
          \/ CliImport(c)
          \/ CliRestore(c)
    \/ CliLoad
    \/ CliIdentityCommand
    \/ CliClaimAdd
    \/ CliClaimRevoke
    \/ CliFails

Spec == Init /\ [][Next]_vars

\* The node with one writer of the row at a time: nobody saves while another
\* holds a copy it read, an identity is created once, and a chain from outside
\* comes in by way of choose_sigchain only.
NoWriter == cli = << >> /\ \A r \in Requests : reqs[r].handler # "submit"

CreateOnce == chain = << >> /\ CreateIdentity

SerialNext ==
    \/ CreateOnce
    \/ \E r \in Requests :
          \/ NoWriter /\ SubmitRead(r)
          \/ SubmitWrite(r)
          \/ InitiateRead(r)
          \/ InitiateWrite(r)
          \/ RequestFails(r)
    \/ \E id \in Recoveries :
          \/ \E trustee \in Trustees : NoWriter /\ SignRecovery(id, trustee)
          \/ ExpireRecovery(id)
    \/ Restart
    \/ \E c \in published :
          \/ NoWriter /\ FetcherIngest(c)
          \/ GrowElsewhere(c)
    \/ NoWriter /\ CliLoad
    \/ CliIdentityCommand
    \/ CliClaimAdd
    \/ CliClaimRevoke
    \/ CliFails

SerialSpec == Init /\ [][SerialNext]_vars

\* Only submit_event, served concurrently, after the identity was created once.
SubmitOnlyNext ==
    \/ CreateOnce
    \/ \E r \in Requests : SubmitRead(r) \/ SubmitWrite(r) \/ RequestFails(r)

SubmitOnlySpec == Init /\ [][SubmitOnlyNext]_vars

-----------------------------------------------------------------------------
(* Properties *)

\* The shape of the state: the row is one of the published copies, a pending
\* recovery has the fields RecoveryStore.create gives it.
TypeOK ==
    /\ chain \in Chains
    /\ chain = << >> \/ chain \in published
    /\ published \subseteq Chains
    /\ reqs \in [Requests -> [handler : {"idle", "submit", "initiate"}, seen : Chains]]
    /\ cli \in Chains
    /\ pending \in [Recoveries -> [new_pubkey : Keys \cup {None}, trustees : SUBSET Trustees,
                                   threshold : Nat, signed : SUBSET Trustees]]
    /\ issued \in Nat

Linked(c) ==
    c # << >> => /\ c[1] = Genesis
                 /\ \A i \in 2 .. Len(c) : c[i].prev = c[i - 1].hash

\* However stale the copy a writer started from, and whether or not it verifies
\* what it stores: the row is empty or an unbroken chain of hashes from the
\* genesis of this identity, so it never joins events of two histories.
RowIsLinked == Linked(chain)

\* A social_recovery that this node makes carries the signatures of as many
\* different trustees as some set_recovery event asked for, all named by that
\* one event, even if the owner replaced the configuration or the row rolled
\* back while they were collected: the trustees of one configuration are never
\* counted against the threshold of another.
RecoveryHasQuorum ==
    \A c \in published : \A i \in DOMAIN c :
        c[i].type = "social_recovery" /\ ~c[i].sig =>
            \E b \in published : \E j \in DOMAIN b :
                /\ b[j].type = "set_recovery"
                /\ c[i].trustees \subseteq b[j].trustees
                /\ Cardinality(c[i].trustees) >= b[j].threshold

\* The first event at which verify() refuses chain c.
FirstRefused(c) ==
    c[CHOOSE i \in DOMAIN c : /\ ~Verify(SubSeq(c, 1, i))
                              /\ i = 1 \/ Verify(SubSeq(c, 1, i - 1))]

\* If the row does not verify, the event to blame is a recovery completed here
\* or one that the command line signed: no client of submit_event and no copy
\* from outside brings the row into that state.
OnlyLocalWritersBreakIt ==
    chain # << >> /\ ~Verify(chain) =>
        LET e == FirstRefused(chain)
        IN  e.signed_by = Owner \/ (e.type = "social_recovery" /\ ~e.sig)

\* The row only ever grows at its end (identity-system.md: "Append-only
\* sigchain - Embedded in protocol, no history rewriting").
AppendOnly == [][IsPrefix(chain, chain')]_vars

\* What the node stores verifies: a recovery that trustees completed, or a
\* claim withdrawn at the command line, leaves an identity in use.
StoredChainVerifies == chain # << >> => Verify(chain)

Log == INSTANCE AppendLog WITH log <- chain

\* With one writer at a time the row is an append-only log.
ImplementsAppendLog == Log!Spec
=============================================================================
