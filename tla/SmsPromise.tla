----------------------------- MODULE SmsPromise -----------------------------
(***************************************************************************)
(* What the phone verifier, its queue and the gateway promise together     *)
(* about the text messages, whatever is lost, late, repeated or restarted: *)
(* nobody's phone gets a message twice, and what the wallet is told of a   *)
(* message is true and final.  A message has the number of its request.    *)
(***************************************************************************)
EXTENDS Naturals, Sequences

VARIABLES asked,  \* how many verifications were requested
          taken,  \* the messages let through to the modem, in order
          told    \* what is said of the messages that are still known

vars == <<asked, taken, told>>

Known == DOMAIN told
Taken == {taken[k] : k \in DOMAIN taken}

Init == asked = 0 /\ taken = << >> /\ told = << >>

\* Whatever else is known afterwards is said as before.
Unchanged(ids) == \A id \in ids : id \in Known /\ told'[id] = told[id]

\* A verification is requested, perhaps with a message; others may be
\* forgotten.
Request ==
    /\ asked' = asked + 1 /\ UNCHANGED taken
    /\ asked' \in DOMAIN told' => told'[asked'] = "waiting"
    /\ Unchanged(DOMAIN told' \ {asked'})

\* A message goes to the modem: once, and not after it was refused.
Take ==
    \E id \in 1 .. asked :
        /\ id \notin Taken
        /\ id \in Known => told[id] # "rejected"
        /\ taken' = Append(taken, id) /\ UNCHANGED <<asked, told>>

\* "sent" is said of what went to the modem, "rejected" of what did not;
\* of a message that "failed" nobody knows.
Honest(id, outcome) ==
    \/ outcome = "sent" /\ id \in Taken
    \/ outcome = "rejected" /\ id \notin Taken
    \/ outcome = "failed"

\* Messages that wait get their outcome.
Tell ==
    /\ DOMAIN told' = Known /\ UNCHANGED <<asked, taken>>
    /\ \A id \in Known : told'[id] # told[id] => told[id] = "waiting" /\ Honest(id, told'[id])

Forget == Unchanged(DOMAIN told') /\ UNCHANGED <<asked, taken>>

Next == Request \/ Take \/ Tell \/ Forget

Spec == Init /\ [][Next]_vars
=============================================================================
