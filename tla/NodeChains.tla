----------------------------- MODULE NodeChains -----------------------------
(***************************************************************************)
(* The sigchains the services of a node read.  `History` is everything the *)
(* owner of an identity signs in one behaviour; a copy of the chain is a   *)
(* prefix of it, known by its length.  The row of an identity changes      *)
(* under the services, to a longer copy or back to a shorter one: who      *)
(* writes it, and how copies come to diverge, is the subject of ChainStore. *)
(***************************************************************************)
EXTENDS Sigchain, Clock

CONSTANTS Identities,  \* the identities of one behaviour
          History,     \* [Identities -> the whole chain of each]
          Around       \* the lengths of the copies of each that are around

ASSUME NodeChainsAssumption ==
    /\ None \notin Identities
    /\ History \in [Identities -> Chains] /\ DOMAIN Around = Identities
    /\ \A i \in Identities : /\ Verify(History[i])
                             /\ Around[i] \subseteq 1 .. Len(History[i])

VARIABLE held  \* sigchains table: the length of the stored copy, 0 for none

NodeChainsInit == held = [i \in Identities |-> 0]

Copy(i, n) == SubSeq(History[i], 1, n)

\* Storage.save_sigchain
SaveSigchain(i, n) == held' = [held EXCEPT ![i] = n]

\* Some writer of the row stores another copy.
ChainStored(i, n) == n # held[i] /\ SaveSigchain(i, n)

ChooseSigchain_Supplied(i, supplied) == IF supplied = 0 THEN held[i] ELSE supplied

\* choose_sigchain() where one copy extends the other; `supplied` is 0 when
\* the caller sends no copy.
ChooseSigchain(i, supplied) == IF supplied > held[i] THEN supplied ELSE held[i]

\* What the readers of Sigchain make of each copy at each time.
Readings(Read(_, _)) ==
    [i \in Identities |->
        [n \in 0 .. Len(History[i]) |-> [t \in 0 .. MaxTime |-> Read(Copy(i, n), t)]]]

Devices == Readings(GetActiveDevices)
Managing == Readings(LAMBDA chain, t :
    [k \in GetActiveDevices(chain, t) |-> DeviceCapabilities(chain, k, t)])
Active == Readings(LAMBDA chain, t :
    {c \in Claims : HasClaim(chain, c) /\ ClaimStatus(GetClaim(chain, c), t) = "active"})
Masters == Readings(LAMBDA chain, t : GetCurrentMasterKey(chain))

\* Of a copy of length n, now.
ActiveDevice(i, n, k) == k \in Devices[i][n][now]
Grants(i, n, k, capability) == capability \in Managing[i][n][now][k]
ActiveClaim(i, n, c) == c \in Active[i][n][now]
IsMaster(i, n, k) == k = Masters[i][n][now]

Away(a, b) == IF a < b THEN b - a ELSE a - b
=============================================================================
