----------------------------- MODULE AppendLog ------------------------------
(***************************************************************************)
(* What the documentation promises of the copy of a sigchain that a node   *)
(* keeps: "Append-only sigchain - no history rewriting".  The copy starts  *)
(* unknown, and every change keeps all it held and adds at the end: one    *)
(* event when the node signs or accepts one, several when it catches up.   *)
(***************************************************************************)
EXTENDS Sequences, SequencesExt

VARIABLE log

Init == log = << >>

Grow == log # log' /\ IsPrefix(log, log')

Spec == Init /\ [][Grow]_log
=============================================================================
