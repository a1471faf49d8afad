---------------------------- MODULE SigchainLog -----------------------------
(***************************************************************************)
(* A sigchain as it grows: at every step somebody signs one more event and *)
(* the chain, read again by Sigchain.verify(), still verifies.  `acc` is   *)
(* what the loop of verify() holds after the last event; verify() restarts *)
(* from the genesis each time, but it stops at the first event it refuses, *)
(* so on a chain that verified before it only has the new event to judge.  *)
(* An event that is refused is dropped by its writer and changes nothing.  *)
(*                                                                         *)
(* The actions are the event classes of core/identity.py, as their         *)
(* create() builds them; any key may sign, at any time its clock shows.    *)
(***************************************************************************)
EXTENDS Sigchain

CONSTANTS Times,         \* what a signer's clock may show
          Expiries,      \* `expires` values, 0 for none
          DeviceGrants,  \* capability sets handed to a device
          Orders,        \* claim orders that somebody may sign
          MaxEvents      \* bound on the length of the chain

ASSUME SigchainLogAssumption ==
    /\ Times \subseteq Nat
    /\ Expiries \subseteq Nat
    /\ DeviceGrants \subseteq SUBSET Capabilities
    /\ Orders \subseteq Seq(Claims)
    /\ MaxEvents \in Nat

VARIABLES events,  \* Sigchain.events
          acc      \* the locals of verify() after the last event

vars == <<events, acc>>

-----------------------------------------------------------------------------

\* The signed envelope of the next event: prev is the head hash its writer saw.
NextBase(signer, t) ==
    BaseEvent("resolve_fork", Len(events) + 1, events[Len(events)].hash, t, signer)

\* The bound of the model: the code lets a chain grow for ever.
Bound == Len(events) < MaxEvents

\* Sigchain.append, then verify(): kept only if the chain still verifies.
Extend(e) ==
    /\ Accepts(acc, e)
    /\ events' = Append(events, e)
    /\ acc' = Advance(acc, e)

\* Only claim events carry a timestamp that a rule reads.
SomeTime == 1

Init ==
    \E k \in Keys :
        LET g == GenesisEvent(1, SomeTime, k)
        IN  events = <<g>> /\ acc = StartOf(g)

AddDevice(signer) ==
    /\ Bound
    /\ \E device \in Keys, caps \in DeviceGrants, expires \in Expiries :
           Extend(AddDeviceEvent(NextBase(signer, SomeTime), device, caps, expires))

RevokeDevice(signer) ==
    /\ Bound
    /\ \E device \in Keys : Extend(RevokeDeviceEvent(NextBase(signer, SomeTime), device))

RotateMaster(signer) ==
    /\ Bound
    /\ \E new_pubkey \in Keys :
           Extend(RotateMasterEvent(NextBase(signer, SomeTime), new_pubkey))

SetRecovery(signer) ==
    /\ Bound
    /\ Extend(SetRecoveryEvent(NextBase(signer, SomeTime), Trustees, 1))

\* resolve_fork and set_distribution change nothing that is modelled here.
SetDistribution(signer) ==
    /\ Bound
    /\ \E type \in {"set_distribution", "resolve_fork"} :
           Extend([NextBase(signer, SomeTime) EXCEPT !.type = type])

SocialRecovery(signer) ==
    /\ Bound
    /\ \E new_pubkey \in Keys :
           Extend(SocialRecoveryEvent(NextBase(signer, SomeTime), new_pubkey))

AddClaim(signer) ==
    /\ Bound
    /\ \E t \in Times, c \in Claims, type \in ClaimTypes, expires \in Expiries :
           Extend(AddClaimEvent(NextBase(signer, t), c, type, expires))

SetClaimOrder(signer) ==
    /\ Bound
    /\ \E t \in Times, type \in ClaimTypes, order \in Orders :
           Extend(SetClaimOrderEvent(NextBase(signer, t), type, order))

RevokeClaim(signer) ==
    /\ Bound
    /\ \E t \in Times, c \in Claims : Extend(RevokeClaimEvent(NextBase(signer, t), c))

Next ==
    \E signer \in Keys :
        \/ AddDevice(signer)
        \/ RevokeDevice(signer)
        \/ RotateMaster(signer)
        \/ SetRecovery(signer)
        \/ SetDistribution(signer)
        \/ SocialRecovery(signer)
        \/ AddClaim(signer)
        \/ SetClaimOrder(signer)
        \/ RevokeClaim(signer)

Spec == Init /\ [][Next]_vars

-----------------------------------------------------------------------------
(* Properties *)

\* The shape of the chain and of verify()'s locals.
TypeOK ==
    /\ events \in Chains
    /\ Len(events) >= 1
    /\ acc \in Accumulators

Prefix(i) == SubSeq(events, 1, i)

\* verify() and get_current_master_key() follow the master key separately: they
\* agree on a chain that verifies, whatever was rotated or recovered.
MasterAgreement == acc.master = GetCurrentMasterKey(events)

\* A claim event that verifies was signed by the master of that moment, or by a
\* key that get_active_devices(), asked at the event's own timestamp, lists as
\* an active device with manage_claims.
ClaimSignersWereActive ==
    \A j \in 2 .. Len(events) :
        events[j].type \in ClaimEventTypes =>
            LET k == events[j].signed_by
                t == events[j].timestamp
            IN  \/ k = GetCurrentMasterKey(Prefix(j - 1))
                \/ /\ k \in GetActiveDevices(Prefix(j - 1), t)
                   /\ "manage_claims" \in DeviceCapabilities(Prefix(j - 1), k, t)

\* Revocation outlasts a second add_device of the same key: a revoked key signs
\* no further claim event, unless it is the master key itself.
RevokedSilenced ==
    \A i, j \in DOMAIN events :
        /\ i < j
        /\ events[i].type = "revoke_device"
        /\ events[j].type \in ClaimEventTypes
        /\ events[j].signed_by = events[i].key
        => events[j].signed_by = GetCurrentMasterKey(Prefix(j - 1))

\* get_claims() replays the chain with its own dict, verify() keeps another: a
\* claim is on record, and revoked, in one exactly when it is in the other.
ClaimLedgerAgreement ==
    \A c \in Claims :
        acc.claim_states[c] =
            IF ~HasClaim(events, c) THEN "unknown"
            ELSE IF GetClaim(events, c).revoked THEN "revoked" ELSE "active"

\* A claim that its holder withdrew never reads as active again, at any time.
WithdrawalIsFinal ==
    [][\A c \in Claims :
          /\ HasClaim(events, c)
          /\ GetClaim(events, c).revoked
          => GetClaim(events', c).revoked]_vars

\* A revoked device never comes back into get_active_devices(), not even when
\* the master key adds it again.
RevokedStaysOut ==
    [][\A k \in Keys, t \in Times :
          IsRevoked(events, k) => k \notin GetActiveDevices(events', t)]_vars

\* claim_order() offers every active claim of the type once, and nothing else,
\* even when the listed claims were withdrawn or expired after the listing.
ClaimOrderComplete ==
    \A type \in ClaimTypes, t \in Times :
        LET order == ClaimOrder(events, type, t)
        IN  /\ \A i, j \in DOMAIN order : i # j => order[i] # order[j]
            /\ ToSet(order) = {c \in ToSet(ClaimIds(events)) :
                                  /\ GetClaim(events, c).claim_type = type
                                  /\ ClaimStatus(GetClaim(events, c), t) = "active"}

\* A device that get_active_devices() lists with manage_claims at time t is one
\* whose claim events verify() accepts at t: "added, not revoked, not expired"
\* (identity-system.md, Verification Rules) means the same to both.  The
\* master's claim events are accepted whatever its device record says.
DeviceViewsAgree ==
    \A k \in Keys \ {acc.master}, t \in Times :
        /\ k \in GetActiveDevices(events, t)
        /\ "manage_claims" \in DeviceCapabilities(events, k, t)
        => MayManageClaims(acc, k, t)

=============================================================================
