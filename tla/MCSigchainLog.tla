--------------------------- MODULE MCSigchainLog ----------------------------
(* Instance of SigchainLog for TLC: three keys, two claims of one type.    *)
EXTENDS SigchainLog, TLC

CONSTANTS k1, k2, k3, c1, c2

MCKeys == {k1, k2, k3}
MCClaims == {c1, c2}
MCClaimTypes == {"email"}
MCCapabilities == {"sign", "encrypt", "manage_claims"}
MCTrustees == {"alice"}
\* 2 is the last moment before Expired, 3 lies behind it.
MCTimes == {2, 3}
MCExpiries == {0, 2}
\* {} is granted as all of Capabilities.
MCDeviceGrants == {{"encrypt"}, {}}
MCOrders == {<<c1>>, <<c2>>, <<c1, c2>>, <<c2, c1>>, <<c1, c1>>, <<c2, c2>>}
Symmetry == Permutations(MCKeys) \cup Permutations(MCClaims)
=============================================================================
