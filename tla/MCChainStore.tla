---------------------------- MODULE MCChainStore ----------------------------
(* Instances of ChainStore for TLC: one identity, its master key m, another *)
(* key d that is granted as a device or becomes master, three trustees.      *)
EXTENDS ChainStore, TLC

CONSTANTS m, d, c1, r1, r2, rec1, t1, t2, t3

MCKeys == {m, d}
MCClaims == {c1}
MCClaimTypes == {"email"}
MCCapabilities == {"sign", "encrypt", "sign_identity", "manage_claims"}
MCTrustees == {t1, t2, t3}
MCRequests == {r1, r2}
MCOneRequest == {r1}
MCRecoveries == {rec1}
Symmetry == Permutations(MCRequests) \cup Permutations({t1, t2})

\* The kinds of events that tell the writers apart.
MCKinds == {"add_device", "set_recovery", "rotate_master", "add_claim", "revoke_claim"}

\* With device keys that take over, withdrawals, and events without effect here.
MCAllKinds == MCKinds \cup {"revoke_device", "social_recovery", "set_distribution"}

\* Two trustees together, or a third one alone.
MCConfigs == {[trustees |-> {t1, t2}, threshold |-> 2], [trustees |-> {t3}, threshold |-> 1]}
MCOneConfig == {[trustees |-> {t1, t2}, threshold |-> 2]}

\* What a recovery needs to happen.
MCRecoveryKinds == {"set_recovery"}
=============================================================================
