------------------------------ MODULE Sigchain ------------------------------
(***************************************************************************)
(* The sigchain of one identity: the events of core/identity.py, what the  *)
(* readers derive from a list of them (master key, devices, claims), and   *)
(* the loop of Sigchain.verify().  This module has no state: SigchainLog   *)
(* grows one chain event by event, ChainStore keeps the copies of a node.  *)
(*                                                                         *)
(* Abstractions.  A key, a claim id or a trustee is a member of a small    *)
(* set.  An event hash is a number, unique to the event; `sig` says that   *)
(* the signature verifies under `signed_by`.  Time 0 stands for Python's   *)
(* None: `if event.expires and event.expires < t` treats both as "never".  *)
(***************************************************************************)
EXTENDS Integers, Sequences, FiniteSets, SequencesExt, Selection

CONSTANTS Keys,          \* signing keys
          Claims,        \* claim ids
          ClaimTypes,    \* "email", "phone", "legal_name" in the code
          Capabilities,  \* what an add_device event may grant
          Trustees,      \* identity hashes named by set_recovery
          MaxOrder,      \* SetClaimOrderEvent.MAX_ORDER
          None           \* a field the event's type does not use

ASSUME SigchainAssumption ==
    /\ "manage_claims" \in Capabilities
    /\ None \notin Keys \cup Claims \cup ClaimTypes
    /\ MaxOrder \in Nat \ {0}

-----------------------------------------------------------------------------
(* Events *)

EventTypes == {"genesis", "add_device", "revoke_device", "rotate_master",
               "set_recovery", "social_recovery", "resolve_fork",
               "set_distribution", "add_claim", "revoke_claim",
               "set_claim_order"}

\* What verify() accepts from the current master key only.
MasterOnlyTypes == {"add_device", "revoke_device", "set_recovery",
                    "resolve_fork", "set_distribution", "rotate_master"}

ClaimEventTypes == {"add_claim", "revoke_claim", "set_claim_order"}

\* The events that say which key is the master.
MasterKeyTypes == {"genesis", "rotate_master", "social_recovery"}

EventFields ==
    [type : EventTypes, hash : Nat, prev : Nat, timestamp : Nat,
     signed_by : Keys, sig : BOOLEAN,
     key : Keys \cup {None}, caps : SUBSET Capabilities, expires : Nat,
     claim : Claims \cup {None}, ctype : ClaimTypes \cup {None},
     order : Seq(Claims), trustees : SUBSET Trustees, threshold : Nat]

\* from_dict refuses an event without the fields its class requires.
Event ==
    {e \in EventFields :
        /\ e.type \in MasterKeyTypes \cup {"add_device", "revoke_device"} => e.key \in Keys
        /\ e.type \in {"add_claim", "revoke_claim"} => e.claim \in Claims
        /\ e.type \in {"add_claim", "set_claim_order"} => e.ctype \in ClaimTypes}

Chains == Seq(Event)

\* The fields every event has (SigchainEvent), with the rest left empty.
\* hash_ is the event's own hash, prev_ the hash it names as predecessor.
BaseEvent(type, hash_, prev_, timestamp, signer) ==
    [type |-> type, hash |-> hash_, prev |-> prev_, timestamp |-> timestamp,
     signed_by |-> signer, sig |-> TRUE, key |-> None, caps |-> {},
     expires |-> 0, claim |-> None, ctype |-> None, order |-> << >>,
     trustees |-> {}, threshold |-> 0]

\* A genesis signs itself and has no predecessor.
GenesisEvent(hash_, timestamp, pubkey) ==
    [BaseEvent("genesis", hash_, 0, timestamp, pubkey) EXCEPT !.key = pubkey]

\* create() reads an empty capability list as "all of them".
AddDeviceEvent(base, device, caps, expires) ==
    [base EXCEPT !.type = "add_device", !.key = device, !.expires = expires,
                 !.caps = IF caps = {} THEN Capabilities ELSE caps]

RevokeDeviceEvent(base, device) ==
    [base EXCEPT !.type = "revoke_device", !.key = device]

RotateMasterEvent_NoKey(base, new_pubkey) == [base EXCEPT !.type = "rotate_master"]

RotateMasterEvent(base, new_pubkey) ==
    [base EXCEPT !.type = "rotate_master", !.key = new_pubkey]

SetRecoveryEvent(base, primary_trustees, primary_threshold) ==
    [base EXCEPT !.type = "set_recovery", !.trustees = primary_trustees,
                 !.threshold = primary_threshold]

SocialRecoveryEvent(base, new_pubkey) ==
    [base EXCEPT !.type = "social_recovery", !.key = new_pubkey]

AddClaimEvent(base, claim_id, claim_type, expires) ==
    [base EXCEPT !.type = "add_claim", !.claim = claim_id,
                 !.ctype = claim_type, !.expires = expires]

SetClaimOrderEvent(base, claim_type, order) ==
    [base EXCEPT !.type = "set_claim_order", !.ctype = claim_type,
                 !.order = order]

RevokeClaimEvent(base, claim_id) ==
    [base EXCEPT !.type = "revoke_claim", !.claim = claim_id]

-----------------------------------------------------------------------------
(* Readers: each walks the whole list, whether or not it verifies *)

\* `if expires and expires < t`
Expired(expires, t) == expires # 0 /\ expires < t

\* Sigchain.get_current_master_key: the newest event that names a key wins.
GetCurrentMasterKey(chain) ==
    LET i == SelectLastInSeq(chain, LAMBDA e : e.type \in MasterKeyTypes)
    IN  IF i = 0 THEN None ELSE chain[i].key

\* The event get_active_devices keeps for key k: the newest that grants it,
\* passing over an add_device that is already expired at t.
GrantIndex(chain, k, t) ==
    SelectLastInSeq(chain, LAMBDA e :
        \/ e.type = "genesis" /\ e.key = k
        \/ e.type = "add_device" /\ e.key = k /\ ~Expired(e.expires, t))

DeviceCapabilities(chain, k, t) ==
    LET e == chain[GrantIndex(chain, k, t)]
    IN  IF e.type = "genesis" THEN {"sign", "encrypt"} ELSE e.caps

IsRevoked_UntilReadded(chain, k) ==
    \E i \in DOMAIN chain :
        /\ chain[i].type = "revoke_device" /\ chain[i].key = k
        /\ \A j \in i .. Len(chain) : ~(chain[j].type = "add_device" /\ chain[j].key = k)

\* One revocation anywhere in the chain keeps the key out, whatever follows it.
IsRevoked(chain, k) ==
    \E i \in DOMAIN chain : chain[i].type = "revoke_device" /\ chain[i].key = k

\* Sigchain.get_active_devices(at_time), as the set of the active keys.
GetActiveDevices(chain, t) ==
    {k \in Keys : GrantIndex(chain, k, t) # 0 /\ ~IsRevoked(chain, k)}

\* The add_claim events of claims that no event before them adds.
FirstAdds(chain) ==
    {i \in DOMAIN chain :
        /\ chain[i].type = "add_claim"
        /\ \A j \in 1 .. i - 1 : ~(chain[j].type = "add_claim" /\ chain[j].claim = chain[i].claim)}

\* The claim ids of the chain in the order of their first add_claim: the
\* insertion order of the dict that get_claims builds.
ClaimIds(chain) ==
    LET first == Selected(chain, FirstAdds(chain))
    IN  [k \in DOMAIN first |-> first[k].claim]

\* get_claims has a record for claim c.
HasClaim(chain, c) ==
    \E i \in DOMAIN chain : chain[i].type = "add_claim" /\ chain[i].claim = c

\* The record get_claims holds for claim c: its newest add_claim, revoked if a
\* revoke_claim follows that one.
GetClaim(chain, c) ==
    LET i == SelectLastInSeq(chain, LAMBDA e : e.type = "add_claim" /\ e.claim = c)
    IN  [claim_type |-> chain[i].ctype, expires |-> chain[i].expires,
         revoked |-> \E j \in i + 1 .. Len(chain) :
                        chain[j].type = "revoke_claim" /\ chain[j].claim = c]

\* ClaimRecord.status(at_time)
ClaimStatus(record, t) ==
    IF record.revoked THEN "revoked"
    ELSE IF Expired(record.expires, t) THEN "expired" ELSE "active"

\* The active claims of a type, in the order they were made.
ActiveClaimIds(chain, claim_type, t) ==
    LET ids == ClaimIds(chain)
    IN  Selected(ids, {k \in DOMAIN ids :
            LET r == GetClaim(chain, ids[k])
            IN  r.claim_type = claim_type /\ ClaimStatus(r, t) = "active"})

\* What the newest set_claim_order of a type lists.
ListedClaimIds(chain, claim_type) ==
    LET newest == SelectLastInSeq(chain, LAMBDA e : e.type = "set_claim_order" /\ e.ctype = claim_type)
    IN  IF newest = 0 THEN << >> ELSE chain[newest].order

\* [c for c in ids if c not in others]
Without(ids, others) == Selected(ids, {k \in DOMAIN ids : ids[k] \notin ToSet(others)})

\* [c for c in ids if c in others]
Among(ids, others) == Selected(ids, {k \in DOMAIN ids : ids[k] \in ToSet(others)})

ClaimOrder_KeepsListed(chain, claim_type, t) ==
    LET listed == ListedClaimIds(chain, claim_type)
    IN  listed \o Without(ActiveClaimIds(chain, claim_type, t), listed)

\* Sigchain.claim_order(claim_type, at_time)
ClaimOrder(chain, claim_type, t) ==
    LET active == ActiveClaimIds(chain, claim_type, t)
        first  == Among(ListedClaimIds(chain, claim_type), active)
    IN  first \o Without(active, first)

\* Sigchain.get_recovery_config: the index of the newest set_recovery, 0 if none.
RecoveryConfigIndex(chain) ==
    SelectLastInSeq(chain, LAMBDA e : e.type = "set_recovery")

-----------------------------------------------------------------------------
(* Sigchain.verify(): its local variables, and one turn of its loop *)

Accumulators ==
    [master : Keys, prev_hash : Nat,
     devices : [Keys -> [caps : SUBSET Capabilities, expires : Nat]],
     revoked : SUBSET Keys,
     claim_states : [Claims -> {"unknown", "active", "revoked"}],
     claim_types : [Claims -> ClaimTypes \cup {None}]]

\* The state before the loop.  A key without entry reads as ([], None), the
\* default of devices.get().
StartOf(genesis) ==
    [master |-> genesis.key, prev_hash |-> genesis.hash,
     devices |-> [k \in Keys |-> [caps |-> {}, expires |-> 0]],
     revoked |-> {},
     claim_states |-> [c \in Claims |-> "unknown"],
     claim_types |-> [c \in Claims |-> None]]

\* The genesis signature is checked under the genesis' own key.
GenesisOk(e) == e.type = "genesis" /\ e.sig /\ e.signed_by = e.key

MayManageClaims_NoExpiry(acc, k, t) ==
    k \notin acc.revoked /\ "manage_claims" \in acc.devices[k].caps

\* A device key that verify() lets manage claims at time t.
MayManageClaims(acc, k, t) ==
    /\ k \notin acc.revoked
    /\ "manage_claims" \in acc.devices[k].caps
    /\ ~Expired(acc.devices[k].expires, t)

OrderOk(acc, e) ==
    /\ Len(e.order) \in 1 .. MaxOrder
    /\ \A i, j \in DOMAIN e.order : i # j => e.order[i] # e.order[j]
    /\ \A i \in DOMAIN e.order :
          /\ acc.claim_states[e.order[i]] = "active"
          /\ acc.claim_types[e.order[i]] = e.ctype

ClaimRuleOk_Renew(acc, e) ==
    \/ e.type = "add_claim" /\ acc.claim_states[e.claim] # "active"
    \/ e.type = "revoke_claim" /\ acc.claim_states[e.claim] = "active"
    \/ e.type = "set_claim_order" /\ OrderOk(acc, e)

\* What the three claim events ask of the claims before them.
ClaimRuleOk(acc, e) ==
    \/ e.type = "add_claim" /\ acc.claim_states[e.claim] = "unknown"
    \/ e.type = "revoke_claim" /\ acc.claim_states[e.claim] = "active"
    \/ e.type = "set_claim_order" /\ OrderOk(acc, e)

\* The checks of one turn.  A social_recovery is accepted on its signature
\* alone.  The loop has no branch for a genesis event, but never gets to one: a
\* genesis names no predecessor.
Accepts(acc, e) ==
    /\ e.prev = acc.prev_hash
    /\ e.sig
    /\ \/ e.type \in MasterOnlyTypes /\ e.signed_by = acc.master
       \/ /\ e.type \in ClaimEventTypes
          /\ \/ e.signed_by = acc.master
             \/ MayManageClaims(acc, e.signed_by, e.timestamp)
          /\ ClaimRuleOk(acc, e)
       \/ e.type \in {"social_recovery", "genesis"}

\* The assignments of one turn, one local variable at a time.
MasterAfter_RotationOnly(acc, e) == IF e.type = "rotate_master" THEN e.key ELSE acc.master

MasterAfter(acc, e) ==
    IF e.type \in {"rotate_master", "social_recovery"} THEN e.key ELSE acc.master

DevicesAfter(acc, e) ==
    IF e.type = "add_device"
    THEN [acc.devices EXCEPT ![e.key] = [caps |-> e.caps, expires |-> e.expires]]
    ELSE acc.devices

RevokedAfter_Readmit(acc, e) ==
    CASE e.type = "revoke_device" -> acc.revoked \cup {e.key}
      [] e.type = "add_device" -> acc.revoked \ {e.key}
      [] OTHER -> acc.revoked

RevokedAfter(acc, e) ==
    IF e.type = "revoke_device" THEN acc.revoked \cup {e.key} ELSE acc.revoked

ClaimStatesAfter_Forget(acc, e) ==
    CASE e.type = "add_claim" -> [acc.claim_states EXCEPT ![e.claim] = "active"]
      [] e.type = "revoke_claim" -> [acc.claim_states EXCEPT ![e.claim] = "unknown"]
      [] OTHER -> acc.claim_states

ClaimStatesAfter(acc, e) ==
    CASE e.type = "add_claim" -> [acc.claim_states EXCEPT ![e.claim] = "active"]
      [] e.type = "revoke_claim" -> [acc.claim_states EXCEPT ![e.claim] = "revoked"]
      [] OTHER -> acc.claim_states

ClaimTypesAfter(acc, e) ==
    IF e.type = "add_claim" THEN [acc.claim_types EXCEPT ![e.claim] = e.ctype]
    ELSE acc.claim_types

Advance(acc, e) ==
    [master |-> MasterAfter(acc, e), prev_hash |-> e.hash,
     devices |-> DevicesAfter(acc, e), revoked |-> RevokedAfter(acc, e),
     claim_states |-> ClaimStatesAfter(acc, e), claim_types |-> ClaimTypesAfter(acc, e)]

\* verify() on a whole chain: it fails at the first event its loop refuses.
Verify(chain) ==
    /\ chain # << >>
    /\ GenesisOk(chain[1])
    /\ LET acc[i \in 1 .. Len(chain)] ==
               IF i = 1 THEN StartOf(chain[1]) ELSE Advance(acc[i - 1], chain[i])
       IN  \A i \in 2 .. Len(chain) : Accepts(acc[i - 1], chain[i])

=============================================================================
