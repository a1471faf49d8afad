--------------------------- MODULE MCNodeServices ---------------------------
(* Instance of NodeServices for TLC: alice, whose phone and whose claim     *)
(* come and go; carol, whose claim bob attests with his tablet, the device   *)
(* he signs on with; erin, who presents claims and is recovered; dave, whose *)
(* chain names no points; four people who trust each other.                  *)
EXTENDS NodeServices, TLC

CONSTANTS alice, bob, carol, dave, erin, ka, kb, kc, kd, ke, kr, phone, tablet, laptop, c1, a1, a2, a3, a4, a5, p, q, me, x, y, subject

MCKeys == {ka, kb, kc, kd, ke, kr, phone, tablet, laptop}
MCCapabilities == {"sign", "encrypt", "sign_identity", "manage_claims", "authenticate"}
MCIdentities == {alice, bob, carol, dave, erin}
MCRelayable == {alice, dave}
MCOffered == {<< >>, <<p>>}

Base(n, key) == BaseEvent("set_distribution", n, n - 1, 0, key)
MCHistory ==
    alice :> <<GenesisEvent(1, 0, ka),
               AddClaimEvent(Base(2, ka), c1, "email", 0),
               [AddDeviceEvent(Base(3, ka), phone, {}, 0) EXCEPT !.timestamp = 1],
               RevokeDeviceEvent(Base(4, ka), phone),
               RevokeClaimEvent(Base(5, ka), c1)>>
    @@ bob :> <<GenesisEvent(1, 0, kb),
                [AddDeviceEvent(Base(2, kb), tablet, {"sign_identity", "authenticate"}, 0) EXCEPT !.timestamp = 1],
                RevokeDeviceEvent(Base(3, kb), tablet)>>
    @@ carol :> <<GenesisEvent(1, 0, kc),
                  AddClaimEvent(Base(2, kc), c1, "email", 0),
                  AddDeviceEvent(Base(3, kc), laptop, {"sign_identity"}, 0),
                  RevokeClaimEvent(Base(4, kc), c1)>>
    @@ dave :> <<GenesisEvent(1, 0, kd)>>
    @@ erin :> <<GenesisEvent(1, 0, ke),
                 AddClaimEvent(Base(2, ke), c1, "email", 0),
                 SocialRecoveryEvent(Base(3, kr), kr),
                 RevokeClaimEvent(Base(4, kr), c1)>>
MCAround == alice :> {3, 4, 5} @@ bob :> {2, 3} @@ carol :> {3, 4} @@ dave :> {1} @@ erin :> {2, 3, 4}
MCNamed == alice :> << <<p>>, << >>, << >>, <<q, p>>, << >> >>
           @@ bob :> << << >>, << >>, << >> >> @@ carol :> << << >>, << >>, << >>, << >> >>
           @@ dave :> << << >> >> @@ erin :> << << >>, << >>, << >>, << >> >>

Letter(holder, issuer, key, head) ==
    [subject |-> holder, claim |-> c1, issuer |-> issuer, signed_by |-> key,
     chain_head |-> head, issued_at |-> 0, expires_at |-> 1]
MCLetters == a1 :> Letter(carol, bob, tablet, 2) @@ a2 :> Letter(carol, carol, laptop, 3) @@ a3 :> Letter(carol, None, None, 2)
             @@ a4 :> Letter(erin, bob, tablet, 2) @@ a5 :> Letter(erin, None, None, 2)

Shown(assurance) == [method |-> "any", assurance |-> assurance]
MCPresented == [a \in {a1, a2, a3} |-> Shown(0)] @@ a4 :> Shown(2) @@ a5 :> Shown(1)
MCPresentations == {<<a4, a5>>, <<a5, a4>>}
MCRule == [issuers |-> {bob}, methods |-> {}, min_assurance |-> 1, max_age |-> 1,
           allow_proof |-> TRUE, reject_if_recovered |-> TRUE]

Pairs == {<<me, x>>, <<me, y>>, <<x, y>>, <<y, x>>, <<y, subject>>}
Offer(weight, limit, scope) == [weight |-> weight, depth_limit |-> limit, scope |-> scope]
MCOffers == {Offer(2, NoLimit, AllTopics), Offer(1, 1, {"email"}), Offer(2, 0, AllTopics)}

MCDesks == {"documents", "attestations", "bridge", "sessions", "trust", "poller"}
MCDocumentsOnly == {"documents"}
MCReadBy == "documents" :> {alice} @@ "attestations" :> {bob, carol} @@ "bridge" :> {bob, erin} @@ "sessions" :> {bob}
            @@ "trust" :> {} @@ "poller" :> {alice}
MCStamps == 0 .. MaxTime
=============================================================================
