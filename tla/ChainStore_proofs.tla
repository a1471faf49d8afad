--------------------------- MODULE ChainStore_proofs ---------------------------
(***************************************************************************)
(* Proofs about ChainStore, for every set of keys, trustees, handlers and  *)
(* recoveries and every number of events: what every copy in circulation   *)
(* satisfies, however stale the copy its writer started from, and that a   *)
(* node with one writer at a time keeps an append-only log.                *)
(***************************************************************************)
EXTENDS ChainStore, Sigchain_proofs

-----------------------------------------------------------------------------
(* The events that writers append *)

\* The envelope of an event on top of chain c.
LEMMA NextEventTyped ==
    ASSUME NEW c \in Chains, c # << >>, issued \in Nat, NEW signer \in Keys
    PROVE  /\ NextEvent(c, signer) \in EventFields
           /\ NextEvent(c, signer).type = "set_distribution"
           /\ NextEvent(c, signer).sig = TRUE
           /\ NextEvent(c, signer).signed_by = signer
           /\ NextEvent(c, signer).prev = LastOf(c).hash
  <1>1. LastOf(c) \in EventFields
    BY DEF LastOf, Chains, Event
  <1>2. LastOf(c).hash \in Nat
    BY <1>1 DEF EventFields
  <1> QED
    BY <1>2, SigchainAssumption DEF NextEvent, BaseEvent, EventFields, EventTypes, Now

\* An event that anybody may sign on top of c is well formed, signed by its
\* signer, and names the last event of c as its predecessor.
LEMMA ProposalIs ==
    ASSUME NEW c \in Chains, c # << >>, issued \in Nat, NEW signer \in Keys,
           NEW e \in Proposals(c, signer)
    PROVE  /\ e \in Event
           /\ e.sig = TRUE
           /\ e.signed_by = signer
           /\ e.prev = LastOf(c).hash
  <1> DEFINE base == NextEvent(c, signer)
             Goal == e \in Event /\ e.sig = TRUE /\ e.signed_by = signer /\ e.prev = LastOf(c).hash
  <1>1. base \in EventFields /\ base.type = "set_distribution" /\ base.sig = TRUE
        /\ base.signed_by = signer /\ base.prev = LastOf(c).hash
    BY NextEventTyped
  <1>2. \/ e = base
        \/ e = AddDeviceEvent(base, Device, {}, 0)
        \/ e = RevokeDeviceEvent(base, Device)
        \/ \E config \in Configs : e = SetRecoveryEvent(base, config.trustees, config.threshold)
        \/ \E k \in Keys : e = RotateMasterEvent(base, k) \/ e = SocialRecoveryEvent(base, k)
        \/ \E id \in Claims : e = RevokeClaimEvent(base, id)
        \/ \E id \in Claims, type \in ClaimTypes : e = AddClaimEvent(base, id, type, 0)
    BY DEF Proposals
  <1> HIDE DEF base
  <1>a. CASE e = base
    BY <1>a, <1>1 DEF Event, MasterKeyTypes
  <1>b. CASE e = AddDeviceEvent(base, Device, {}, 0)
    <2>1. e \in Event
      BY <1>b, <1>1, AddDeviceTyped, ChainStoreAssumption DEF LaterEvent
    <2> QED
      BY <2>1, <1>b, <1>1 DEF AddDeviceEvent, EventFields
  <1>c. CASE e = RevokeDeviceEvent(base, Device)
    <2>1. e \in Event
      BY <1>c, <1>1, RevokeDeviceTyped, ChainStoreAssumption DEF LaterEvent
    <2> QED
      BY <2>1, <1>c, <1>1 DEF RevokeDeviceEvent, EventFields
  <1>d. ASSUME NEW config \in Configs,
               e = SetRecoveryEvent(base, config.trustees, config.threshold)
        PROVE  Goal
    <2>0. config.trustees \in SUBSET Trustees /\ config.threshold \in Nat
      BY <1>d, ChainStoreAssumption
    <2>1. e \in Event
      BY <1>d, <1>1, <2>0, UnkeyedTyped DEF LaterEvent
    <2> QED
      BY <2>1, <1>d, <1>1 DEF SetRecoveryEvent, EventFields
  <1>e. ASSUME NEW k \in Keys, e = RotateMasterEvent(base, k) \/ e = SocialRecoveryEvent(base, k)
        PROVE  Goal
    <2>1. e \in Event
      BY <1>e, <1>1, MasterKeyTyped DEF LaterEvent
    <2> QED
      BY <2>1, <1>e, <1>1 DEF RotateMasterEvent, SocialRecoveryEvent, EventFields
  <1>f. ASSUME NEW id \in Claims, e = RevokeClaimEvent(base, id)
        PROVE  Goal
    <2>1. e \in Event
      BY <1>f, <1>1, RevokeClaimTyped DEF LaterEvent
    <2> QED
      BY <2>1, <1>f, <1>1 DEF RevokeClaimEvent, EventFields
  <1>g. ASSUME NEW id \in Claims, NEW type \in ClaimTypes, e = AddClaimEvent(base, id, type, 0)
        PROVE  Goal
    <2>1. e \in Event
      BY <1>g, <1>1, ClaimEventTyped DEF LaterEvent
    <2> QED
      BY <2>1, <1>g, <1>1 DEF AddClaimEvent, EventFields
  <1> QED
    BY <1>2, <1>a, <1>b, <1>c, <1>d, <1>e, <1>f, <1>g

\* The type of a pending recovery, and of one that is really there.
RecoveryRecord ==
    [new_pubkey : Keys \cup {None}, trustees : SUBSET Trustees,
     threshold : Nat, signed : SUBSET Trustees]

\* A completed recovery is an unsigned event that carries the signatures.
LEMMA RecoveryEventIs ==
    ASSUME NEW c \in Chains, c # << >>, issued \in Nat,
           NEW recovery \in RecoveryRecord, recovery.new_pubkey \in Keys
    PROVE  /\ RecoveryEvent(c, recovery) \in Event
           /\ RecoveryEvent(c, recovery).type = "social_recovery"
           /\ RecoveryEvent(c, recovery).sig = FALSE
           /\ RecoveryEvent(c, recovery).prev = LastOf(c).hash
           /\ RecoveryEvent(c, recovery).trustees = recovery.signed
  <1> DEFINE base == NextEvent(c, recovery.new_pubkey)
             social == SocialRecoveryEvent(base, recovery.new_pubkey)
             e == RecoveryEvent(c, recovery)
  <1>1. base \in EventFields /\ base.prev = LastOf(c).hash
    BY NextEventTyped
  <1>2. social \in Event
    BY <1>1, MasterKeyTyped DEF LaterEvent
  <1>3. social.type = "social_recovery" /\ social.prev = LastOf(c).hash
        /\ social.key = recovery.new_pubkey
    BY <1>1 DEF SocialRecoveryEvent, EventFields
  <1>4. social \in EventFields
    BY <1>2 DEF Event
  <1>5. e = [social EXCEPT !.sig = FALSE, !.trustees = recovery.signed,
                           !.threshold = recovery.threshold]
    BY DEF RecoveryEvent
  <1> HIDE DEF social, e
  <1>6. recovery.signed \in SUBSET Trustees /\ recovery.threshold \in Nat
    BY DEF RecoveryRecord
  <1>7. e \in EventFields
    BY <1>4, <1>5, <1>6 DEF EventFields
  <1>8. e.type = "social_recovery" /\ e.key \in Keys /\ e.sig = FALSE
        /\ e.prev = LastOf(c).hash /\ e.trustees = recovery.signed
    BY <1>3, <1>4, <1>5 DEF EventFields
  <1>9. e \in Event
    BY <1>7, <1>8 DEF Event
  <1> QED
    BY <1>8, <1>9 DEF e

\* A genesis of this identity is an event.
LEMMA GenesisTyped == Genesis \in Event /\ Genesis.signed_by = Owner
  <1> DEFINE base == BaseEvent("genesis", 1, 0, Now, Owner)
  <1>1. base \in EventFields /\ base.type = "genesis" /\ base.signed_by = Owner
    BY ChainStoreAssumption, SigchainAssumption DEF BaseEvent, EventFields, EventTypes, Now
  <1>2. Genesis = [base EXCEPT !.key = Owner]
    BY DEF Genesis, GenesisEvent
  <1> HIDE DEF base
  <1>3. Genesis \in EventFields /\ Genesis.type = "genesis" /\ Genesis.signed_by = Owner
        /\ Genesis.key = Owner
    BY <1>1, <1>2, ChainStoreAssumption DEF EventFields
  <1> QED
    BY <1>3, ChainStoreAssumption DEF Event

-----------------------------------------------------------------------------
(* What a step puts into circulation *)

\* A pending recovery asks what some set_recovery event of a copy asked, and has
\* been signed by trustees it names.
RecoveryOk(p) ==
    p # NoRecovery =>
        /\ p.new_pubkey \in Keys
        /\ p.signed \subseteq p.trustees
        /\ \E b \in published : \E j \in DOMAIN b :
              /\ b[j].type = "set_recovery"
              /\ p.trustees = b[j].trustees /\ p.threshold = b[j].threshold

\* What a writer holds between its read and its save is a copy that circulates.
StoreInv ==
    /\ TypeOK
    /\ << >> \notin published
    /\ cli = << >> \/ cli \in published
    /\ \A r \in Requests : reqs[r].handler # "idle" => reqs[r].seen \in published
    /\ \A r \in Requests :
          reqs[r].handler = "initiate" => RecoveryConfigIndex(reqs[r].seen) # 0
    /\ \A id \in Recoveries : RecoveryOk(pending[id])

\* A new copy is a genesis, a copy that circulates with an event somebody signed,
\* which only the command line may store unverified, or one with the event of a
\* recovery that has all its signatures.
Recovered(id, trustee) == [pending[id] EXCEPT !.signed = @ \cup {trustee}]

SignedCopy(d) ==
    \E c \in published, signer \in Keys : \E e \in Proposals(c, signer) :
        d = Append(c, e) /\ (Verify(d) \/ signer = Owner)

RecoveredCopy(d) ==
    \E c \in published, id \in Recoveries, trustee \in Trustees :
        /\ pending[id] # NoRecovery
        /\ trustee \in pending[id].trustees
        /\ IsComplete(Recovered(id, trustee))
        /\ d = Append(c, RecoveryEvent(c, Recovered(id, trustee)))

NewCopy(d) == d = <<Genesis>> \/ SignedCopy(d) \/ RecoveredCopy(d)

\* Whatever the step, copies only come to circulate in these ways, and the row
\* is one of them.
Publishes ==
    /\ published \subseteq published'
    /\ \A d \in published' : d \in published \/ NewCopy(d)
    /\ chain' = chain \/ chain' \in published'

\* A handler or command that saves c publishes it.
LEMMA SavePublishes ==
    ASSUME NEW c, SaveSigchain(c), c \in published \/ NewCopy(c)
    PROVE  Publishes
  BY DEF SaveSigchain, Publishes

\* Every step of ChainStore is one of them, or publishes nothing.
LEMMA StepPublishes ==
    ASSUME StoreInv, [Next]_vars
    PROVE  Publishes
  <1>1. CASE UNCHANGED <<chain, published>>
    BY <1>1 DEF Publishes
  <1>2. CASE CreateIdentity
    BY <1>2, SavePublishes DEF CreateIdentity, NewCopy
  <1>3. ASSUME NEW r \in Requests, SubmitWrite(r)
        PROVE  Publishes
    <2>1. reqs[r].seen \in published
      BY <1>3 DEF StoreInv, SubmitWrite
    <2>2. PICK signer \in Keys : \E e \in Proposals(reqs[r].seen, signer) :
             /\ Verify(Append(reqs[r].seen, e))
             /\ SaveSigchain(Append(reqs[r].seen, e))
      BY <1>3 DEF SubmitWrite
    <2>3. PICK e \in Proposals(reqs[r].seen, signer) :
             /\ Verify(Append(reqs[r].seen, e))
             /\ SaveSigchain(Append(reqs[r].seen, e))
      BY <2>2
    <2>4. SignedCopy(Append(reqs[r].seen, e))
      BY <2>1, <2>3 DEF SignedCopy
    <2> QED
      BY <2>3, <2>4, SavePublishes DEF NewCopy
  <1>4. ASSUME NEW id \in Recoveries, NEW trustee \in Trustees, SignRecovery(id, trustee)
        PROVE  Publishes
    <2> DEFINE d == Append(chain, RecoveryEvent(chain, Recovered(id, trustee)))
    <2>1. \/ UNCHANGED <<chain, published>>
          \/ /\ pending[id] # NoRecovery /\ trustee \in pending[id].trustees
             /\ IsComplete(Recovered(id, trustee)) /\ chain # << >>
             /\ SaveSigchain(d)
      BY <1>4 DEF SignRecovery, Recovered
    <2>2. ASSUME pending[id] # NoRecovery, trustee \in pending[id].trustees,
                 IsComplete(Recovered(id, trustee)), chain # << >>
          PROVE  RecoveredCopy(d)
      <3>1. chain \in published
        BY <2>2 DEF StoreInv, TypeOK
      <3> QED
        BY <2>2, <3>1 DEF RecoveredCopy
    <2> QED
      BY <2>1, <2>2, <1>1, SavePublishes DEF NewCopy
  <1>5. ASSUME NEW c \in published,
               \/ FetcherIngest(c) \/ PollerSave(c) \/ DaemonHandleSigchain(c)
               \/ CliImport(c) \/ CliRestore(c)
        PROVE  Publishes
    BY <1>5, SavePublishes
       DEF FetcherIngest, PollerSave, DaemonHandleSigchain, CliImport, CliRestore
  <1>6. ASSUME NEW c \in published, GrowElsewhere(c)
        PROVE  Publishes
    <2>1. PICK signer \in Keys : \E e \in Proposals(c, signer) :
             Verify(Append(c, e)) /\ published' = published \cup {Append(c, e)}
      BY <1>6 DEF GrowElsewhere
    <2>2. PICK e \in Proposals(c, signer) :
             Verify(Append(c, e)) /\ published' = published \cup {Append(c, e)}
      BY <2>1
    <2>3. SignedCopy(Append(c, e))
      BY <2>2 DEF SignedCopy
    <2> QED
      BY <1>6, <2>2, <2>3 DEF GrowElsewhere, Publishes, NewCopy
  <1>7. ASSUME cli # << >>, NEW e \in Proposals(cli, Owner), CliStore(e)
        PROVE  Publishes
    <2>1. cli \in published /\ Owner \in Keys
      BY <1>7, ChainStoreAssumption DEF StoreInv
    <2>2. SignedCopy(Append(cli, e))
      BY <2>1 DEF SignedCopy
    <2> QED
      BY <1>7, <2>2, SavePublishes DEF CliStore, NewCopy
  <1>8. CASE CliIdentityCommand \/ CliClaimAdd \/ CliClaimRevoke
    BY <1>7, <1>8 DEF CliIdentityCommand, CliClaimAdd, CliClaimRevoke
  <1>9. CASE \E r \in Requests : SubmitRead(r) \/ InitiateRead(r) \/ InitiateWrite(r) \/ RequestFails(r)
    BY <1>1, <1>9 DEF SubmitRead, InitiateRead, InitiateWrite, RequestFails
  <1>10. CASE \/ \E id \in Recoveries : ExpireRecovery(id)
              \/ Restart \/ CliLoad \/ CliFails \/ UNCHANGED vars
    BY <1>1, <1>10 DEF ExpireRecovery, Restart, CliLoad, CliFails, vars
  <1> QED
    BY <1>2, <1>3, <1>4, <1>5, <1>6, <1>8, <1>9, <1>10 DEF Next

-----------------------------------------------------------------------------
(* Type correctness *)

\* A new copy is a chain with at least one event.
LEMMA NewCopyTyped ==
    ASSUME StoreInv, NEW d, NewCopy(d)
    PROVE  d \in Chains /\ d # << >>
  <1>1. CASE d = <<Genesis>>
    BY <1>1, GenesisTyped DEF Chains
  <1>2. ASSUME NEW c \in published, NEW e \in Event, d = Append(c, e)
        PROVE  d \in Chains /\ d # << >>
    <2>1. c \in Chains
      BY DEF StoreInv, TypeOK
    <2> QED
      BY <1>2, <2>1 DEF Chains
  <1>3. CASE SignedCopy(d)
    <2>1. PICK c \in published, signer \in Keys : \E e \in Proposals(c, signer) : d = Append(c, e)
      BY <1>3 DEF SignedCopy
    <2>2. c \in Chains /\ c # << >> /\ issued \in Nat
      BY DEF StoreInv, TypeOK
    <2> QED
      BY <1>2, <2>1, <2>2, ProposalIs
  <1>4. CASE RecoveredCopy(d)
    <2>1. PICK c \in published, id \in Recoveries, trustee \in Trustees :
              /\ pending[id] # NoRecovery
              /\ d = Append(c, RecoveryEvent(c, Recovered(id, trustee)))
      BY <1>4 DEF RecoveredCopy
    <2>2. c \in Chains /\ c # << >> /\ issued \in Nat /\ pending[id] \in RecoveryRecord
          /\ pending[id].new_pubkey \in Keys
      BY <2>1 DEF StoreInv, TypeOK, RecoveryRecord, RecoveryOk
    <2>3. Recovered(id, trustee) \in RecoveryRecord /\ Recovered(id, trustee).new_pubkey \in Keys
      BY <2>2 DEF Recovered, RecoveryRecord
    <2> QED
      BY <1>2, <2>1, <2>2, <2>3, RecoveryEventIs
  <1> QED
    BY <1>1, <1>3, <1>4 DEF NewCopy

\* The copies and the row keep their shape.
LEMMA CopiesStep ==
    ASSUME StoreInv, [Next]_vars
    PROVE  /\ published' \subseteq Chains /\ << >> \notin published'
           /\ chain' \in Chains
           /\ chain' = << >> \/ chain' \in published'
  <1>1. Publishes
    BY StepPublishes
  <1>2. \A d \in published' : d \in Chains /\ d # << >>
    BY <1>1, NewCopyTyped DEF Publishes, StoreInv, TypeOK
  <1> QED
    BY <1>1, <1>2 DEF Publishes, StoreInv, TypeOK

\* What a handler may hold between its two steps.
HandlerOk(h) ==
    /\ h \in [handler : {"idle", "submit", "initiate"}, seen : Chains]
    /\ h.handler # "idle" => h.seen \in published
    /\ h.handler = "initiate" => RecoveryConfigIndex(h.seen) # 0

\* A handler that starts to wait holds a copy that circulates.
LEMMA HandlersStep ==
    ASSUME StoreInv, [Next]_vars
    PROVE  /\ reqs' \in [Requests -> [handler : {"idle", "submit", "initiate"}, seen : Chains]]
           /\ \A r \in Requests : HandlerOk(reqs[r])'
  <1>1. published \subseteq published'
    BY StepPublishes DEF Publishes
  <1>2. \A r \in Requests : HandlerOk(reqs[r])
    BY DEF StoreInv, TypeOK, HandlerOk
  <1>3. \A h : HandlerOk(h) => HandlerOk(h)'
    BY <1>1 DEF HandlerOk
  <1>4. HandlerOk(Idle)
    BY DEF HandlerOk, Idle, Chains
  <1>5. reqs \in [Requests -> [handler : {"idle", "submit", "initiate"}, seen : Chains]]
    BY DEF StoreInv, TypeOK
  <1>6. \A h : HandlerOk(h) => h \in [handler : {"idle", "submit", "initiate"}, seen : Chains]
    BY DEF HandlerOk
  <1>7. ASSUME NEW r \in Requests, NEW h, HandlerOk(h), reqs' = [reqs EXCEPT ![r] = h]
        PROVE  /\ reqs' \in [Requests -> [handler : {"idle", "submit", "initiate"}, seen : Chains]]
               /\ \A q \in Requests : HandlerOk(reqs'[q])
    BY <1>2, <1>5, <1>6, <1>7
  <1>8. \/ UNCHANGED reqs
        \/ reqs' = [r \in Requests |-> Idle]
        \/ \E r \in Requests : \E h : HandlerOk(h) /\ reqs' = [reqs EXCEPT ![r] = h]
    <2>1. ASSUME NEW r \in Requests, SubmitRead(r) \/ InitiateRead(r)
          PROVE  \E h : HandlerOk(h) /\ reqs' = [reqs EXCEPT ![r] = h]
      <3>1. chain \in published /\ chain \in Chains
        BY <2>1 DEF SubmitRead, InitiateRead, StoreInv, TypeOK
      <3>2. CASE SubmitRead(r)
        BY <3>1, <3>2 DEF SubmitRead, HandlerOk
      <3>3. CASE InitiateRead(r)
        <4>1. HandlerOk([handler |-> "initiate", seen |-> chain])
          BY <3>1, <3>3 DEF InitiateRead, HandlerOk
        <4> QED
          BY <3>3, <4>1 DEF InitiateRead
      <3> QED
        BY <2>1, <3>2, <3>3
    <2>2. ASSUME NEW r \in Requests, SubmitWrite(r) \/ InitiateWrite(r) \/ RequestFails(r)
          PROVE  HandlerOk(Idle) /\ reqs' = [reqs EXCEPT ![r] = Idle]
      BY <1>4, <2>2 DEF SubmitWrite, InitiateWrite, RequestFails
    <2>3. CASE CreateIdentity \/ CliLoad \/ CliIdentityCommand \/ CliClaimAdd \/ CliClaimRevoke
               \/ CliFails \/ UNCHANGED vars
      BY <2>3 DEF CreateIdentity, CliLoad, CliIdentityCommand, CliClaimAdd, CliClaimRevoke,
                  CliStore, CliFails, vars
    <2>4. ASSUME NEW c \in published,
                 \/ FetcherIngest(c) \/ PollerSave(c) \/ DaemonHandleSigchain(c)
                 \/ GrowElsewhere(c) \/ CliImport(c) \/ CliRestore(c)
          PROVE  UNCHANGED reqs
      BY <2>4 DEF FetcherIngest, PollerSave, DaemonHandleSigchain, GrowElsewhere,
                  CliImport, CliRestore
    <2>5. ASSUME NEW id \in Recoveries,
                 (\E trustee \in Trustees : SignRecovery(id, trustee)) \/ ExpireRecovery(id)
          PROVE  UNCHANGED reqs
      BY <2>5 DEF SignRecovery, ExpireRecovery
    <2>6. CASE Restart
      BY <2>6 DEF Restart
    <2> QED
      BY <2>1, <2>2, <2>3, <2>4, <2>5, <2>6 DEF Next
  <1>9. /\ reqs' \in [Requests -> [handler : {"idle", "submit", "initiate"}, seen : Chains]]
        /\ \A r \in Requests : HandlerOk(reqs'[r])
    <2>1. CASE UNCHANGED reqs
      BY <2>1, <1>2, <1>5
    <2>2. CASE reqs' = [r \in Requests |-> Idle]
      BY <2>2, <1>4, <1>6
    <2> QED
      BY <1>7, <1>8, <2>1, <2>2
  <1>10. ASSUME NEW r \in Requests
         PROVE  HandlerOk(reqs[r])'
    <2>1. HandlerOk(reqs'[r])
      BY <1>9
    <2> QED
      BY <1>1, <2>1 DEF HandlerOk
  <1> QED
    BY <1>9, <1>10

\* A recovery starts from a configuration that circulates and gains signatures of
\* trustees that it names.
LEMMA RecoveriesStep ==
    ASSUME StoreInv, [Next]_vars
    PROVE  /\ pending' \in [Recoveries -> RecoveryRecord]
           /\ \A id \in Recoveries : RecoveryOk(pending[id])'
  <1>1. published \subseteq published'
    BY StepPublishes DEF Publishes
  <1>2. pending \in [Recoveries -> RecoveryRecord] /\ \A id \in Recoveries : RecoveryOk(pending[id])
    BY DEF StoreInv, TypeOK, RecoveryRecord
  <1>3. \A p : RecoveryOk(p) => RecoveryOk(p)'
    BY <1>1 DEF RecoveryOk
  <1>4. NoRecovery \in RecoveryRecord /\ RecoveryOk(NoRecovery)
    BY DEF NoRecovery, RecoveryRecord, RecoveryOk
  <1>5. \/ UNCHANGED pending
        \/ pending' = [id \in Recoveries |-> NoRecovery]
        \/ \E id \in Recoveries : \E p \in RecoveryRecord :
              RecoveryOk(p) /\ pending' = [pending EXCEPT ![id] = p]
    <2>1. ASSUME NEW r \in Requests, InitiateWrite(r)
          PROVE  \E id \in Recoveries : \E p \in RecoveryRecord :
                     RecoveryOk(p) /\ pending' = [pending EXCEPT ![id] = p]
      <3> DEFINE seen == reqs[r].seen
                 config == seen[RecoveryConfigIndex(seen)]
      <3>1. seen \in published /\ seen \in Chains /\ RecoveryConfigIndex(seen) # 0
        BY <2>1 DEF InitiateWrite, StoreInv, TypeOK
      <3>2. RecoveryConfigIndex(seen) \in DOMAIN seen /\ config.type = "set_recovery"
        BY <3>1, RecoveryConfigIs
      <3>3. config \in EventFields
        BY <3>1, <3>2 DEF Chains, Event
      <3>4. config.trustees \in SUBSET Trustees /\ config.threshold \in Nat
        BY <3>3 DEF EventFields
      <3>5. PICK id \in Recoveries, new_pubkey \in Keys :
                pending' = [pending EXCEPT ![id] =
                    [new_pubkey |-> new_pubkey, trustees |-> config.trustees,
                     threshold |-> config.threshold, signed |-> {}]]
        BY <2>1 DEF InitiateWrite
      <3> DEFINE p == [new_pubkey |-> new_pubkey, trustees |-> config.trustees,
                       threshold |-> config.threshold, signed |-> {}]
      <3>6. p \in RecoveryRecord
        BY <3>4 DEF RecoveryRecord
      <3>7. RecoveryOk(p)
        BY <3>1, <3>2 DEF RecoveryOk
      <3> QED
        BY <3>5, <3>6, <3>7
    <2>2. ASSUME NEW id \in Recoveries, NEW trustee \in Trustees, SignRecovery(id, trustee)
          PROVE  \E p \in RecoveryRecord : RecoveryOk(p) /\ pending' = [pending EXCEPT ![id] = p]
      <3> DEFINE p == Recovered(id, trustee)
      <3>1. pending[id] # NoRecovery /\ trustee \in pending[id].trustees
        BY <2>2 DEF SignRecovery
      <3>2. pending[id] \in RecoveryRecord /\ RecoveryOk(pending[id])
        BY <1>2
      <3>3. /\ p \in RecoveryRecord
            /\ p.new_pubkey = pending[id].new_pubkey /\ p.trustees = pending[id].trustees
            /\ p.threshold = pending[id].threshold /\ p.signed = pending[id].signed \cup {trustee}
        BY <3>2 DEF Recovered, RecoveryRecord
      <3>4. RecoveryOk(p)
        BY <3>1, <3>2, <3>3 DEF RecoveryOk
      <3>5. pending' = [pending EXCEPT ![id] = p] \/ pending' = [pending EXCEPT ![id] = NoRecovery]
        BY <2>2 DEF SignRecovery, Recovered
      <3> QED
        BY <1>4, <3>3, <3>4, <3>5
    <2>3. ASSUME NEW id \in Recoveries, ExpireRecovery(id)
          PROVE  pending' = [pending EXCEPT ![id] = NoRecovery]
      BY <2>3 DEF ExpireRecovery
    <2>4. CASE Restart
      BY <2>4 DEF Restart
    <2>5. CASE CreateIdentity \/ CliLoad \/ CliIdentityCommand \/ CliClaimAdd \/ CliClaimRevoke
               \/ CliFails \/ UNCHANGED vars
      BY <2>5 DEF CreateIdentity, CliLoad, CliIdentityCommand, CliClaimAdd, CliClaimRevoke,
                  CliStore, CliFails, vars
    <2>6. ASSUME NEW r \in Requests,
                 SubmitRead(r) \/ SubmitWrite(r) \/ InitiateRead(r) \/ RequestFails(r)
          PROVE  UNCHANGED pending
      BY <2>6 DEF SubmitRead, SubmitWrite, InitiateRead, RequestFails
    <2>7. ASSUME NEW c \in published,
                 \/ FetcherIngest(c) \/ PollerSave(c) \/ DaemonHandleSigchain(c)
                 \/ GrowElsewhere(c) \/ CliImport(c) \/ CliRestore(c)
          PROVE  UNCHANGED pending
      BY <2>7 DEF FetcherIngest, PollerSave, DaemonHandleSigchain, GrowElsewhere,
                  CliImport, CliRestore
    <2> QED
      BY <1>4, <2>1, <2>2, <2>3, <2>4, <2>5, <2>6, <2>7 DEF Next
  <1>6. pending' \in [Recoveries -> RecoveryRecord] /\ \A id \in Recoveries : RecoveryOk(pending'[id])
    <2>1. CASE UNCHANGED pending
      BY <2>1, <1>2
    <2>2. CASE pending' = [id \in Recoveries |-> NoRecovery]
      BY <2>2, <1>4
    <2>3. ASSUME NEW id \in Recoveries, NEW p \in RecoveryRecord, RecoveryOk(p),
                 pending' = [pending EXCEPT ![id] = p]
          PROVE  /\ pending' \in [Recoveries -> RecoveryRecord]
                 /\ \A other \in Recoveries : RecoveryOk(pending'[other])
      BY <2>3, <1>2
    <2> QED
      BY <1>5, <2>1, <2>2, <2>3
  <1>7. ASSUME NEW id \in Recoveries
        PROVE  RecoveryOk(pending[id])'
    <2>1. RecoveryOk(pending'[id])
      BY <1>6
    <2> QED
      BY <1>1, <2>1 DEF RecoveryOk
  <1> QED
    BY <1>6, <1>7

\* A command holds a copy that circulates, and events are counted.
LEMMA CommandStep ==
    ASSUME StoreInv, [Next]_vars
    PROVE  /\ cli' = << >> \/ cli' \in published'
           /\ issued' \in Nat
  <1>1. published \subseteq published'
    BY StepPublishes DEF Publishes
  <1>2. (cli = << >> \/ cli \in published) /\ issued \in Nat
    BY DEF StoreInv, TypeOK
  <1>3. cli' = cli \/ cli' = << >> \/ (CliLoad /\ cli' = chain)
    <2>1. CASE CliLoad
      BY <2>1 DEF CliLoad
    <2>2. CASE CreateIdentity \/ CliIdentityCommand \/ CliClaimAdd \/ CliClaimRevoke
               \/ CliFails \/ Restart \/ UNCHANGED vars
      BY <2>2 DEF CreateIdentity, CliIdentityCommand, CliClaimAdd, CliClaimRevoke,
                  CliStore, CliFails, Restart, vars
    <2>3. CASE \E r \in Requests :
                  \/ SubmitRead(r) \/ SubmitWrite(r) \/ InitiateRead(r)
                  \/ InitiateWrite(r) \/ RequestFails(r)
      BY <2>3 DEF SubmitRead, SubmitWrite, InitiateRead, InitiateWrite, RequestFails
    <2>4. CASE \E id \in Recoveries :
                  (\E trustee \in Trustees : SignRecovery(id, trustee)) \/ ExpireRecovery(id)
      BY <2>4 DEF SignRecovery, ExpireRecovery
    <2>5. CASE \E c \in published :
                  \/ FetcherIngest(c) \/ PollerSave(c) \/ DaemonHandleSigchain(c)
                  \/ GrowElsewhere(c) \/ CliImport(c) \/ CliRestore(c)
      BY <2>5 DEF FetcherIngest, PollerSave, DaemonHandleSigchain, GrowElsewhere,
                  CliImport, CliRestore
    <2> QED
      BY <2>1, <2>2, <2>3, <2>4, <2>5 DEF Next
  <1>4. issued' = issued \/ issued' = issued + 1
    <2>1. CASE \E r \in Requests :
                  \/ SubmitRead(r) \/ SubmitWrite(r) \/ InitiateRead(r)
                  \/ InitiateWrite(r) \/ RequestFails(r)
      BY <2>1 DEF SubmitRead, SubmitWrite, InitiateRead, InitiateWrite, RequestFails, Sign
    <2>2. CASE \E id \in Recoveries :
                  (\E trustee \in Trustees : SignRecovery(id, trustee)) \/ ExpireRecovery(id)
      BY <2>2 DEF SignRecovery, ExpireRecovery, Sign
    <2>3. CASE \E c \in published :
                  \/ FetcherIngest(c) \/ PollerSave(c) \/ DaemonHandleSigchain(c)
                  \/ GrowElsewhere(c) \/ CliImport(c) \/ CliRestore(c)
      BY <2>3 DEF FetcherIngest, PollerSave, DaemonHandleSigchain, GrowElsewhere,
                  CliImport, CliRestore, Sign
    <2>4. CASE CreateIdentity \/ CliLoad \/ CliIdentityCommand \/ CliClaimAdd \/ CliClaimRevoke
               \/ CliFails \/ Restart \/ UNCHANGED vars
      BY <2>4 DEF CreateIdentity, CliLoad, CliIdentityCommand, CliClaimAdd, CliClaimRevoke,
                  CliStore, CliFails, Restart, vars, Sign
    <2> QED
      BY <2>1, <2>2, <2>3, <2>4 DEF Next
  <1>5. CliLoad => chain \in published
    BY DEF CliLoad, StoreInv, TypeOK
  <1> QED
    BY <1>1, <1>2, <1>3, <1>4, <1>5

LEMMA StoreInit == Init => StoreInv
  <1> SUFFICES ASSUME Init
               PROVE  StoreInv
    OBVIOUS
  <1>1. << >> \in Chains /\ NoRecovery \in RecoveryRecord
    BY DEF Chains, NoRecovery, RecoveryRecord
  <1>2. reqs \in [Requests -> [handler : {"idle", "submit", "initiate"}, seen : Chains]]
        /\ \A r \in Requests : reqs[r].handler = "idle"
    BY <1>1 DEF Init, Idle
  <1>3. pending \in [Recoveries -> RecoveryRecord]
        /\ \A id \in Recoveries : pending[id] = NoRecovery
    BY <1>1 DEF Init
  <1>4. TypeOK
    BY <1>1, <1>2, <1>3 DEF Init, TypeOK, RecoveryRecord
  <1> QED
    BY <1>2, <1>3, <1>4 DEF Init, StoreInv, RecoveryOk

LEMMA StoreStep == StoreInv /\ [Next]_vars => StoreInv'
  <1> SUFFICES ASSUME StoreInv, [Next]_vars
               PROVE  StoreInv'
    OBVIOUS
  <1>0. << >> \in Chains
    BY DEF Chains
  <1>1. cli' \in Chains
    BY <1>0, CommandStep, CopiesStep
  <1>2. TypeOK'
    BY <1>1, CopiesStep, HandlersStep, RecoveriesStep, CommandStep DEF TypeOK, RecoveryRecord
  <1>3. ASSUME NEW r \in Requests
        PROVE  /\ (reqs[r].handler # "idle" => reqs[r].seen \in published)'
               /\ (reqs[r].handler = "initiate" => RecoveryConfigIndex(reqs[r].seen) # 0)'
    BY HandlersStep DEF HandlerOk
  <1> QED
    BY <1>2, <1>3, CopiesStep, RecoveriesStep, CommandStep DEF StoreInv

LEMMA StoreAlways == Spec => []StoreInv
  BY StoreInit, StoreStep, PTL DEF Spec

\* Whatever the writers do, in whatever order, the row is one of the copies that
\* circulate, every copy is a list of well-formed events, and a pending recovery
\* has the fields RecoveryStore.create gives it.
THEOREM TypeCorrect == Spec => []TypeOK
  <1>1. StoreInv => TypeOK
    BY DEF StoreInv
  <1> QED
    BY <1>1, StoreAlways, PTL

-----------------------------------------------------------------------------
(* Hash links *)

\* An event that names the last event of a linked chain keeps it linked.
LEMMA AppendLinks ==
    ASSUME NEW c \in Chains, c # << >>, Linked(c), NEW e \in Event, e.prev = LastOf(c).hash
    PROVE  Linked(Append(c, e))
  <1> DEFINE d == Append(c, e)
  <1>1. Len(c) \in Nat /\ Len(c) >= 1 /\ Len(d) = Len(c) + 1
        /\ d[Len(c) + 1] = e /\ \A i \in 1 .. Len(c) : d[i] = c[i]
    BY DEF Chains
  <1> HIDE DEF d
  <1>2. d[1] = Genesis
    BY <1>1 DEF Linked
  <1>3. ASSUME NEW i \in 2 .. Len(d)
        PROVE  d[i].prev = d[i - 1].hash
    <2>1. CASE i \in 2 .. Len(c)
      <3>1. d[i] = c[i] /\ d[i - 1] = c[i - 1]
        BY <1>1, <2>1
      <3> QED
        BY <2>1, <3>1 DEF Linked
    <2>2. CASE i = Len(c) + 1
      <3>1. d[i] = e /\ d[i - 1] = c[Len(c)]
        BY <1>1, <2>2
      <3> QED
        BY <3>1 DEF LastOf
    <2> QED
      BY <1>1, <1>3, <2>1, <2>2
  <1>4. Linked(d)
    BY <1>2, <1>3 DEF Linked
  <1> QED
    BY <1>4 DEF d

LinkedInv == \A c \in published : Linked(c)

LEMMA LinkedStep == StoreInv /\ LinkedInv /\ [Next]_vars => LinkedInv'
  <1> SUFFICES ASSUME StoreInv, LinkedInv, [Next]_vars, NEW d \in published'
               PROVE  Linked(d)
    BY DEF LinkedInv, Linked, Genesis
  <1>1. d \in published \/ NewCopy(d)
    BY StepPublishes DEF Publishes
  <1>2. \A c \in published : c \in Chains /\ c # << >> /\ Linked(c)
    BY DEF StoreInv, TypeOK, LinkedInv
  <1>3. issued \in Nat
    BY DEF StoreInv, TypeOK
  <1>4. CASE d = <<Genesis>>
    BY <1>4 DEF Linked
  <1>5. CASE SignedCopy(d)
    <2>1. PICK c \in published, signer \in Keys : \E e \in Proposals(c, signer) : d = Append(c, e)
      BY <1>5 DEF SignedCopy
    <2>2. PICK e \in Proposals(c, signer) : d = Append(c, e)
      BY <2>1
    <2>3. e \in Event /\ e.prev = LastOf(c).hash
      BY <1>2, <1>3, ProposalIs
    <2> QED
      BY <1>2, <2>2, <2>3, AppendLinks
  <1>6. CASE RecoveredCopy(d)
    <2>1. PICK c \in published, id \in Recoveries, trustee \in Trustees :
              /\ pending[id] # NoRecovery
              /\ d = Append(c, RecoveryEvent(c, Recovered(id, trustee)))
      BY <1>6 DEF RecoveredCopy
    <2>2. pending[id] \in RecoveryRecord /\ pending[id].new_pubkey \in Keys
      BY <2>1 DEF StoreInv, TypeOK, RecoveryRecord, RecoveryOk
    <2>3. Recovered(id, trustee) \in RecoveryRecord /\ Recovered(id, trustee).new_pubkey \in Keys
      BY <2>2 DEF Recovered, RecoveryRecord
    <2> QED
      BY <1>2, <1>3, <2>1, <2>3, RecoveryEventIs, AppendLinks
  <1> QED
    BY <1>1, <1>2, <1>4, <1>5, <1>6 DEF NewCopy

LEMMA LinkedAlways == Spec => []LinkedInv
  <1>1. Init => LinkedInv
    BY DEF Init, LinkedInv
  <1> QED
    BY <1>1, LinkedStep, StoreAlways, PTL DEF Spec

\* A writer may start from a copy that the row has long left behind, and may
\* store what it has not verified: still the row is empty or one unbroken chain
\* of hashes from the genesis.
THEOREM LinkedRow == Spec => []RowIsLinked
  <1>1. StoreInv /\ LinkedInv => RowIsLinked
    BY DEF StoreInv, TypeOK, LinkedInv, RowIsLinked, Linked
  <1> QED
    BY <1>1, StoreAlways, LinkedAlways, PTL

-----------------------------------------------------------------------------
(* Recoveries *)

\* The event of a recovery has a quorum of a configuration that circulates.
HasQuorum(e) ==
    e.type = "social_recovery" /\ ~e.sig =>
        \E b \in published : \E j \in DOMAIN b :
            /\ b[j].type = "set_recovery"
            /\ e.trustees \subseteq b[j].trustees
            /\ Cardinality(e.trustees) >= b[j].threshold

LEMMA QuorumStep == StoreInv /\ RecoveryHasQuorum /\ [Next]_vars => RecoveryHasQuorum'
  <1> SUFFICES ASSUME StoreInv, RecoveryHasQuorum, [Next]_vars
               PROVE  RecoveryHasQuorum'
    OBVIOUS
  <1>1. Publishes
    BY StepPublishes
  <1>2. \A e : HasQuorum(e) => HasQuorum(e)'
    BY <1>1 DEF HasQuorum, Publishes
  <1>3. \A c \in published : c \in Chains /\ c # << >> /\ \A i \in DOMAIN c : HasQuorum(c[i])
    BY DEF StoreInv, TypeOK, RecoveryHasQuorum, HasQuorum
  <1>4. issued \in Nat
    BY DEF StoreInv, TypeOK
  <1>5. ASSUME NEW c \in published, NEW e, HasQuorum(e), NEW i \in DOMAIN Append(c, e)
        PROVE  HasQuorum(Append(c, e)[i])
    <2>1. Len(c) \in Nat /\ DOMAIN c = 1 .. Len(c) /\ DOMAIN Append(c, e) = 1 .. Len(c) + 1
          /\ Append(c, e)[Len(c) + 1] = e /\ \A j \in 1 .. Len(c) : Append(c, e)[j] = c[j]
      BY <1>3 DEF Chains
    <2>2. CASE i = Len(c) + 1
      BY <1>5, <2>1, <2>2
    <2>3. CASE i \in 1 .. Len(c)
      BY <1>3, <2>1, <2>3
    <2> QED
      BY <2>1, <2>2, <2>3
  <1>6. ASSUME NEW d \in published', NEW i \in DOMAIN d
        PROVE  HasQuorum(d[i])
    <2>1. d \in published \/ NewCopy(d)
      BY <1>1 DEF Publishes
    <2>2. CASE d = <<Genesis>>
      <3>1. d[i] = Genesis
        BY <2>2
      <3> QED
        BY <3>1 DEF HasQuorum, Genesis, GenesisEvent, BaseEvent
    <2>3. CASE SignedCopy(d)
      <3>1. PICK c \in published, signer \in Keys : \E e \in Proposals(c, signer) : d = Append(c, e)
        BY <2>3 DEF SignedCopy
      <3>2. PICK e \in Proposals(c, signer) : d = Append(c, e)
        BY <3>1
      <3>3. e.sig = TRUE
        BY <1>3, <1>4, ProposalIs
      <3>4. HasQuorum(e)
        BY <3>3 DEF HasQuorum
      <3> QED
        BY <1>5, <3>2, <3>4
    <2>4. CASE RecoveredCopy(d)
      <3>1. PICK c \in published, id \in Recoveries, trustee \in Trustees :
                /\ pending[id] # NoRecovery
                /\ trustee \in pending[id].trustees
                /\ IsComplete(Recovered(id, trustee))
                /\ d = Append(c, RecoveryEvent(c, Recovered(id, trustee)))
        BY <2>4 DEF RecoveredCopy
      <3> DEFINE p == Recovered(id, trustee)
                 e == RecoveryEvent(c, p)
      <3>2. pending[id] \in RecoveryRecord /\ RecoveryOk(pending[id])
        BY DEF StoreInv, TypeOK, RecoveryRecord
      <3>3. /\ p \in RecoveryRecord
            /\ p.new_pubkey = pending[id].new_pubkey /\ p.trustees = pending[id].trustees
            /\ p.threshold = pending[id].threshold /\ p.signed = pending[id].signed \cup {trustee}
        BY <3>2 DEF Recovered, RecoveryRecord
      <3>4. PICK b \in published : \E j \in DOMAIN b :
                /\ b[j].type = "set_recovery"
                /\ p.trustees = b[j].trustees /\ p.threshold = b[j].threshold
        BY <3>1, <3>2, <3>3 DEF RecoveryOk
      <3>5. p.new_pubkey \in Keys /\ p.signed \subseteq p.trustees
        BY <3>1, <3>2, <3>3 DEF RecoveryOk
      <3>6. e.trustees = p.signed
        BY <1>3, <1>4, <3>3, <3>5, RecoveryEventIs
      <3>7. Cardinality(p.signed) >= p.threshold
        BY <3>1 DEF IsComplete
      <3> HIDE DEF p, e
      <3>8. HasQuorum(e)
        BY <3>4, <3>5, <3>6, <3>7 DEF HasQuorum
      <3> QED
        BY <1>5, <3>1, <3>8 DEF e, p
    <2> QED
      BY <1>3, <2>1, <2>2, <2>3, <2>4 DEF NewCopy
  <1>7. \A d \in published' : \A i \in DOMAIN d : HasQuorum(d[i])'
    BY <1>2, <1>6
  <1> QED
    BY <1>7 DEF RecoveryHasQuorum, HasQuorum

\* A social_recovery made without a master key carries the signatures of as many
\* trustees as one set_recovery event asked for, whichever configurations the
\* owner signed and in whichever order, however the row was replaced meanwhile.
THEOREM RecoveryQuorum == Spec => []RecoveryHasQuorum
  <1>1. Init => RecoveryHasQuorum
    BY DEF Init, RecoveryHasQuorum
  <1> QED
    BY <1>1, QuorumStep, StoreAlways, PTL DEF Spec

-----------------------------------------------------------------------------
(* Who can make a copy that does not verify *)

ByLocalWriter(e) == e.signed_by = Owner \/ (e.type = "social_recovery" /\ ~e.sig)

\* An event at which verify() changes its mind was made by the command line or
\* by a completed recovery.
Blamed(c) ==
    \A i \in DOMAIN c :
        /\ ~Verify(SubSeq(c, 1, i))
        /\ i = 1 \/ Verify(SubSeq(c, 1, i - 1))
        => ByLocalWriter(c[i])

BlamedInv == \A c \in published : Blamed(c)

\* Appending keeps the events that are to blame.
LEMMA AppendBlames ==
    ASSUME NEW c \in Chains, Blamed(c), NEW e \in Event,
           Verify(Append(c, e)) \/ ByLocalWriter(e)
    PROVE  Blamed(Append(c, e))
  <1> DEFINE d == Append(c, e)
  <1>1. Len(c) \in Nat /\ DOMAIN c = 1 .. Len(c) /\ DOMAIN d = 1 .. Len(c) + 1
        /\ d[Len(c) + 1] = e /\ d \in Chains /\ Len(d) = Len(c) + 1
        /\ \A j \in 1 .. Len(c) : d[j] = c[j]
    BY DEF Chains
  <1> HIDE DEF d
  <1>2. ASSUME NEW n \in 0 .. Len(c)
        PROVE  SubSeq(d, 1, n) = SubSeq(c, 1, n)
    <2>1. \A j \in 1 .. n : d[j] = c[j]
      BY <1>1
    <2>2. n \in Nat /\ n <= Len(c) /\ n <= Len(d)
      BY <1>1
    <2>3. /\ SubSeq(c, 1, n) = [j \in 1 .. n |-> c[j]]
          /\ SubSeq(d, 1, n) = [j \in 1 .. n |-> d[j]]
      BY <1>1, <2>2 DEF Chains
    <2> QED
      BY <2>1, <2>3
  <1>3. ASSUME NEW i \in DOMAIN d, ~Verify(SubSeq(d, 1, i)),
               i = 1 \/ Verify(SubSeq(d, 1, i - 1))
        PROVE  ByLocalWriter(d[i])
    <2>1. CASE i \in 1 .. Len(c)
      <3>1. SubSeq(d, 1, i) = SubSeq(c, 1, i) /\ SubSeq(d, 1, i - 1) = SubSeq(c, 1, i - 1)
        BY <1>1, <1>2, <2>1
      <3>2. i \in DOMAIN c /\ d[i] = c[i]
        BY <1>1, <2>1
      <3> QED
        BY <1>3, <3>1, <3>2 DEF Blamed
    <2>2. CASE i = Len(c) + 1
      <3>1. SubSeq(d, 1, i) = d
        BY <1>1, <2>2 DEF Chains
      <3> QED
        BY <1>1, <1>3, <2>2, <3>1 DEF d
    <2> QED
      BY <1>1, <2>1, <2>2
  <1>4. Blamed(d)
    BY <1>3 DEF Blamed
  <1> QED
    BY <1>4 DEF d

LEMMA BlamedStep == StoreInv /\ BlamedInv /\ [Next]_vars => BlamedInv'
  <1> SUFFICES ASSUME StoreInv, BlamedInv, [Next]_vars, NEW d \in published'
               PROVE  Blamed(d)
    BY DEF BlamedInv, Blamed, ByLocalWriter
  <1>1. d \in published \/ NewCopy(d)
    BY StepPublishes DEF Publishes
  <1>2. \A c \in published : c \in Chains /\ c # << >> /\ Blamed(c)
    BY DEF StoreInv, TypeOK, BlamedInv
  <1>3. issued \in Nat
    BY DEF StoreInv, TypeOK
  <1>4. CASE d = <<Genesis>>
    <2>1. DOMAIN d = {1} /\ d[1] = Genesis
      BY <1>4
    <2> QED
      BY <2>1, GenesisTyped DEF Blamed, ByLocalWriter
  <1>5. CASE SignedCopy(d)
    <2>1. PICK c \in published, signer \in Keys : \E e \in Proposals(c, signer) :
              d = Append(c, e) /\ (Verify(d) \/ signer = Owner)
      BY <1>5 DEF SignedCopy
    <2>2. PICK e \in Proposals(c, signer) : d = Append(c, e) /\ (Verify(d) \/ signer = Owner)
      BY <2>1
    <2>3. e \in Event /\ e.signed_by = signer
      BY <1>2, <1>3, ProposalIs
    <2>4. Verify(Append(c, e)) \/ ByLocalWriter(e)
      BY <2>2, <2>3 DEF ByLocalWriter
    <2> QED
      BY <1>2, <2>2, <2>3, <2>4, AppendBlames
  <1>6. CASE RecoveredCopy(d)
    <2>1. PICK c \in published, id \in Recoveries, trustee \in Trustees :
              /\ pending[id] # NoRecovery
              /\ d = Append(c, RecoveryEvent(c, Recovered(id, trustee)))
      BY <1>6 DEF RecoveredCopy
    <2> DEFINE e == RecoveryEvent(c, Recovered(id, trustee))
    <2>2. pending[id] \in RecoveryRecord /\ pending[id].new_pubkey \in Keys
      BY <2>1 DEF StoreInv, TypeOK, RecoveryRecord, RecoveryOk
    <2>3. Recovered(id, trustee) \in RecoveryRecord /\ Recovered(id, trustee).new_pubkey \in Keys
      BY <2>2 DEF Recovered, RecoveryRecord
    <2>4. e \in Event /\ e.type = "social_recovery" /\ e.sig = FALSE
      BY <1>2, <1>3, <2>3, RecoveryEventIs
    <2> HIDE DEF e
    <2>5. ByLocalWriter(e)
      BY <2>4 DEF ByLocalWriter
    <2>6. Blamed(Append(c, e))
      BY <1>2, <2>4, <2>5, AppendBlames
    <2> QED
      BY <2>1, <2>6 DEF e
  <1> QED
    BY <1>1, <1>2, <1>4, <1>5, <1>6 DEF NewCopy

\* verify() first refuses a chain somewhere.
LEMMA FirstRefusedIs ==
    ASSUME NEW c \in Chains, c # << >>, ~Verify(c)
    PROVE  \E i \in DOMAIN c : /\ FirstRefused(c) = c[i]
                               /\ ~Verify(SubSeq(c, 1, i))
                               /\ i = 1 \/ Verify(SubSeq(c, 1, i - 1))
  <1> DEFINE First(i) == ~Verify(SubSeq(c, 1, i)) /\ (i = 1 \/ Verify(SubSeq(c, 1, i - 1)))
             S == {i \in 1 .. Len(c) : ~Verify(SubSeq(c, 1, i))}
  <1>1. Len(c) \in Nat /\ Len(c) >= 1 /\ DOMAIN c = 1 .. Len(c) /\ SubSeq(c, 1, Len(c)) = c
    BY DEF Chains
  <1>2. Len(c) \in S /\ S \in SUBSET Nat
    <2>1. Len(c) \in S
      <3>1. Len(c) \in 1 .. Len(c)
        BY <1>1
      <3>2. ~Verify(SubSeq(c, 1, Len(c)))
        BY <1>1, Zenon
      <3> QED
        BY <3>1, <3>2, Zenon
    <2>2. \A i \in 1 .. Len(c) : i \in Nat
      OBVIOUS
    <2> QED
      BY <2>1, <2>2
  <1>3. PICK i \in S : \A j \in S : i <= j
    BY <1>2, LeastExists
  <1>4. i \in DOMAIN c /\ First(i)
    <2>1. CASE i = 1
      BY <1>1, <1>3, <2>1
    <2>2. CASE i # 1
      <3>1. i \in 1 .. Len(c) /\ i - 1 \in 1 .. Len(c) /\ ~(i <= i - 1)
        BY <1>1, <2>2
      <3>2. i - 1 \notin S
        BY <1>3, <3>1
      <3> QED
        BY <1>1, <3>1, <3>2
    <2> QED
      BY <2>1, <2>2
  <1>5. FirstRefused(c) = c[CHOOSE j \in DOMAIN c : First(j)]
    BY DEF FirstRefused
  <1> HIDE DEF First
  <1>6. PICK j \in DOMAIN c : First(j) /\ j = CHOOSE k \in DOMAIN c : First(k)
    BY <1>4
  <1> QED
    BY <1>5, <1>6 DEF First

LEMMA BlamedAlways == Spec => []BlamedInv
  <1>1. Init => BlamedInv
    BY DEF Init, BlamedInv
  <1> QED
    BY <1>1, BlamedStep, StoreAlways, PTL DEF Spec

\* If the row does not verify, the event where verify() stops was made by the
\* command line or completes a recovery: nothing that came in by submit_event or
\* from another node does that, however the writers interleave.
THEOREM OnlyLocalWriters == Spec => []OnlyLocalWritersBreakIt
  <1>1. ASSUME StoreInv, BlamedInv
        PROVE  OnlyLocalWritersBreakIt
    <2>1. SUFFICES ASSUME chain # << >>, ~Verify(chain)
                   PROVE  ByLocalWriter(FirstRefused(chain))
      BY DEF OnlyLocalWritersBreakIt, ByLocalWriter
    <2>2. chain \in Chains /\ Blamed(chain)
      BY <1>1, <2>1 DEF StoreInv, TypeOK, BlamedInv
    <2> QED
      BY <2>1, <2>2, FirstRefusedIs DEF Blamed
  <1> QED
    BY <1>1, StoreAlways, BlamedAlways, PTL

-----------------------------------------------------------------------------
(* One writer at a time *)

\* A step of the node with one writer at a time is a step of the node.
LEMMA SerialIsNext == [SerialNext]_vars => [Next]_vars
  BY DEF SerialNext, Next, CreateOnce

\* Whoever is about to save holds the row as it is, and is the only one.
SerialInv ==
    /\ cli # << >> => cli = chain /\ \A r \in Requests : reqs[r].handler # "submit"
    /\ \A r \in Requests :
          reqs[r].handler = "submit" =>
              /\ reqs[r].seen = chain
              /\ chain # << >>
              /\ \A q \in Requests \ {r} : reqs[q].handler # "submit"

\* Appending to a chain is a step of the log.
LEMMA AppendGrows ==
    ASSUME chain \in Chains, NEW e, chain' = Append(chain, e), chain' \in Chains
    PROVE  Log!Grow
  <1>1. Len(chain) \in Nat /\ Len(chain') = Len(chain) + 1
        /\ \A j \in 1 .. Len(chain) : chain'[j] = chain[j]
    BY DEF Chains
  <1>2. SubSeq(chain, 1, Len(chain)) = SubSeq(chain', 1, Len(chain))
    <2>1. /\ SubSeq(chain, 1, Len(chain)) = [j \in 1 .. Len(chain) |-> chain[j]]
          /\ SubSeq(chain', 1, Len(chain)) = [j \in 1 .. Len(chain) |-> chain'[j]]
      BY <1>1 DEF Chains
    <2> QED
      BY <1>1, <2>1
  <1>3. chain # chain'
    BY <1>1
  <1> QED
    BY <1>1, <1>2, <1>3 DEF Log!Grow, Log!IsPrefix

\* What saving does to the row when the copy that is saved was read from it.
SerialSave ==
    \/ UNCHANGED chain
    \/ chain = << >> /\ chain' = <<Genesis>>
    \/ chain # << >> /\ \E e : chain' = Append(chain, e)
    \/ \E c \in published : FetcherIngest(c)

LEMMA SerialWrites ==
    ASSUME SerialInv, [SerialNext]_vars
    PROVE  SerialSave
  <1>1. ASSUME NEW r \in Requests, SubmitWrite(r)
        PROVE  SerialSave
    <2>1. reqs[r].seen = chain /\ chain # << >>
      BY <1>1 DEF SerialInv, SubmitWrite
    <2>2. \E e : chain' = Append(reqs[r].seen, e)
      BY <1>1 DEF SubmitWrite, SaveSigchain
    <2> QED
      BY <2>1, <2>2 DEF SerialSave
  <1>2. ASSUME CliIdentityCommand \/ CliClaimAdd \/ CliClaimRevoke
        PROVE  SerialSave
    <2>1. cli # << >> /\ \E e : chain' = Append(cli, e)
      BY <1>2 DEF CliIdentityCommand, CliClaimAdd, CliClaimRevoke, CliStore, SaveSigchain
    <2> QED
      BY <2>1 DEF SerialInv, SerialSave
  <1>3. ASSUME NEW id \in Recoveries, NEW trustee \in Trustees, SignRecovery(id, trustee)
        PROVE  SerialSave
    BY <1>3 DEF SignRecovery, SaveSigchain, SerialSave
  <1>4. CASE \/ \E r \in Requests : SubmitRead(r) \/ InitiateRead(r) \/ InitiateWrite(r) \/ RequestFails(r)
             \/ \E id \in Recoveries : ExpireRecovery(id)
             \/ \E c \in published : GrowElsewhere(c)
             \/ Restart \/ CliLoad \/ CliFails \/ UNCHANGED vars
    BY <1>4 DEF SubmitRead, InitiateRead, InitiateWrite, RequestFails, ExpireRecovery,
                GrowElsewhere, Restart, CliLoad, CliFails, vars, SerialSave
  <1>5. CASE CreateOnce \/ \E c \in published : FetcherIngest(c)
    BY <1>5 DEF CreateOnce, CreateIdentity, SaveSigchain, SerialSave
  <1> QED
    BY <1>1, <1>2, <1>3, <1>4, <1>5 DEF SerialNext

\* Nobody starts to write while somebody else holds the row.
LEMMA SerialStep ==
    ASSUME StoreInv, SerialInv, [SerialNext]_vars
    PROVE  SerialInv'
  <1>1. reqs \in [Requests -> [handler : {"idle", "submit", "initiate"}, seen : Chains]]
    BY DEF StoreInv, TypeOK
  <1> DEFINE NobodySubmits == \A r \in Requests : reqs[r].handler # "submit"
             Kept == \A r \in Requests : reqs'[r] = reqs[r] \/ reqs'[r].handler # "submit"
  <1>2. ASSUME Kept, UNCHANGED chain, cli' = cli \/ cli' = << >>
        PROVE  SerialInv'
    BY <1>2 DEF SerialInv
  <1>3. ASSUME NobodySubmits, Kept, cli' = << >>
        PROVE  SerialInv'
    BY <1>3 DEF SerialInv
  <1>4. ASSUME NEW r \in Requests, NoWriter /\ SubmitRead(r)
        PROVE  SerialInv'
    <2>1. cli = << >> /\ NobodySubmits
      BY <1>4 DEF NoWriter
    <2>2. /\ chain # << >> /\ UNCHANGED <<chain, cli>>
          /\ reqs' = [reqs EXCEPT ![r] = [handler |-> "submit", seen |-> chain]]
      BY <1>4 DEF SubmitRead
    <2>3. /\ reqs'[r] = [handler |-> "submit", seen |-> chain]
          /\ \A q \in Requests \ {r} : reqs'[q] = reqs[q]
      BY <1>1, <2>2
    <2> QED
      BY <2>1, <2>2, <2>3 DEF SerialInv
  <1>5. ASSUME NEW r \in Requests, SubmitWrite(r)
        PROVE  SerialInv'
    <2>1. /\ \A q \in Requests \ {r} : reqs[q].handler # "submit"
          /\ cli = << >>
      BY <1>5 DEF SerialInv, SubmitWrite
    <2>2. reqs' = [reqs EXCEPT ![r] = Idle] /\ UNCHANGED cli
      BY <1>5 DEF SubmitWrite
    <2>3. reqs'[r].handler = "idle" /\ \A q \in Requests \ {r} : reqs'[q] = reqs[q]
      BY <1>1, <2>2 DEF Idle
    <2> QED
      BY <2>1, <2>2, <2>3 DEF SerialInv
  <1>6. ASSUME NEW r \in Requests, InitiateRead(r) \/ InitiateWrite(r) \/ RequestFails(r)
        PROVE  SerialInv'
    <2>1. /\ UNCHANGED <<chain, cli>>
          /\ \E h : h.handler # "submit" /\ reqs' = [reqs EXCEPT ![r] = h]
      <3>1. Idle.handler # "submit"
        BY DEF Idle
      <3>2. CASE InitiateRead(r)
        <4>1. [handler |-> "initiate", seen |-> chain].handler # "submit"
          OBVIOUS
        <4> QED
          BY <3>2, <4>1 DEF InitiateRead
      <3>3. CASE InitiateWrite(r) \/ RequestFails(r)
        BY <3>1, <3>3 DEF InitiateWrite, RequestFails
      <3> QED
        BY <1>6, <3>2, <3>3
    <2>2. Kept
      BY <1>1, <2>1
    <2> QED
      BY <1>2, <2>1, <2>2
  <1>7. ASSUME CliIdentityCommand \/ CliClaimAdd \/ CliClaimRevoke
        PROVE  SerialInv'
    <2>1. cli # << >> /\ cli' = << >> /\ UNCHANGED reqs
      BY <1>7 DEF CliIdentityCommand, CliClaimAdd, CliClaimRevoke, CliStore
    <2>2. NobodySubmits
      BY <2>1 DEF SerialInv
    <2> QED
      BY <1>3, <2>1, <2>2
  <1>8. ASSUME NoWriter, UNCHANGED <<reqs, cli>>
        PROVE  SerialInv'
    BY <1>8 DEF NoWriter, SerialInv
  <1>9. CASE NoWriter /\ CliLoad
    BY <1>9 DEF NoWriter, CliLoad, SerialInv
  <1>10. CASE CreateOnce
    <2>1. chain = << >> /\ chain' = <<Genesis>> /\ UNCHANGED <<reqs, cli>>
      BY <1>10 DEF CreateOnce, CreateIdentity, SaveSigchain
    <2>2. NobodySubmits /\ cli = << >>
      BY <2>1 DEF SerialInv
    <2> QED
      BY <1>3, <2>1, <2>2
  <1>11. CASE Restart
    <2>1. Kept /\ UNCHANGED <<chain, cli>>
      BY <1>11 DEF Restart, Idle
    <2> QED
      BY <1>2, <2>1
  <1>12. CASE \/ \E id \in Recoveries : ExpireRecovery(id)
              \/ \E c \in published : GrowElsewhere(c)
              \/ CliFails \/ UNCHANGED vars
    <2>1. UNCHANGED <<chain, reqs>> /\ (cli' = cli \/ cli' = << >>)
      BY <1>12 DEF ExpireRecovery, GrowElsewhere, CliFails, vars
    <2> QED
      BY <1>2, <2>1
  <1>13. CASE \/ \E id \in Recoveries, trustee \in Trustees : NoWriter /\ SignRecovery(id, trustee)
              \/ \E c \in published : NoWriter /\ FetcherIngest(c)
    BY <1>8, <1>13 DEF SignRecovery, FetcherIngest
  <1> QED
    BY <1>4, <1>5, <1>6, <1>7, <1>9, <1>10, <1>11, <1>12, <1>13 DEF SerialNext

\* A step with one writer at a time adds to the row at its end, or leaves it.
LEMMA SerialGrows ==
    ASSUME StoreInv, SerialInv, [SerialNext]_vars
    PROVE  [Log!Grow]_chain
  <1>1. SerialSave
    BY SerialWrites
  <1>2. chain \in Chains /\ chain' \in Chains
    BY SerialIsNext, CopiesStep DEF StoreInv, TypeOK
  <1>3. CASE chain = << >> /\ chain' = <<Genesis>>
    <2>1. Len(chain) = 0 /\ Len(chain') = 1 /\ SubSeq(chain, 1, 0) = << >> /\ SubSeq(chain', 1, 0) = << >>
      BY <1>3
    <2> QED
      BY <1>3, <2>1 DEF Log!Grow, Log!IsPrefix
  <1>4. CASE \E c \in published : FetcherIngest(c)
    <2>1. Len(chain') > Len(chain) /\ IsPrefix(chain, chain')
      BY <1>4 DEF FetcherIngest, SaveSigchain
    <2>2. chain # chain'
      BY <1>2, <2>1 DEF Chains
    <2> QED
      BY <2>1, <2>2 DEF Log!Grow, Log!IsPrefix, IsPrefix
  <1> QED
    BY <1>1, <1>2, <1>3, <1>4, AppendGrows DEF SerialSave

\* The node with one writer of the row at a time implements the append-only log
\* of the documentation: no event that was stored is ever lost or replaced.
THEOREM SerialImplementsLog == SerialSpec => ImplementsAppendLog
  <1>1. Init => StoreInv /\ SerialInv /\ Log!Init
    BY StoreInit DEF Init, SerialInv, Idle, Log!Init
  <1>2. StoreInv /\ SerialInv /\ [SerialNext]_vars => (StoreInv /\ SerialInv)'
    BY SerialIsNext, StoreStep, SerialStep
  <1>3. StoreInv /\ SerialInv /\ [SerialNext]_vars => [Log!Grow]_chain
    BY SerialGrows
  <1> QED
    BY <1>1, <1>2, <1>3, PTL DEF SerialSpec, ImplementsAppendLog, Log!Spec

\* With one writer at a time the row only ever grows at its end: that several
\* handlers write at once is what takes this from the node.
THEOREM SerialAppendOnly == SerialSpec => AppendOnly
  <1>1. Init => StoreInv /\ SerialInv
    BY StoreInit DEF Init, SerialInv, Idle
  <1>2. StoreInv /\ SerialInv /\ [SerialNext]_vars => (StoreInv /\ SerialInv)'
    BY SerialIsNext, StoreStep, SerialStep
  <1>3. ASSUME StoreInv, SerialInv, [SerialNext]_vars
        PROVE  [IsPrefix(chain, chain')]_vars
    <2>1. [Log!Grow]_chain
      BY <1>3, SerialGrows
    <2>2. CASE Log!Grow
      BY <2>2 DEF Log!Grow, Log!IsPrefix, IsPrefix
    <2>3. CASE UNCHANGED chain
      <3>1. Len(chain) \in Nat
        BY <1>3 DEF StoreInv, TypeOK, Chains
      <3>2. Len(chain) <= Len(chain)
        BY <3>1
      <3> QED
        BY <2>3, <3>2 DEF IsPrefix
    <2> QED
      BY <2>1, <2>2, <2>3
  <1> QED
    BY <1>1, <1>2, <1>3, PTL DEF SerialSpec, AppendOnly

=============================================================================
