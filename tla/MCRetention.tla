----------------------------- MODULE MCRetention -----------------------------
(* Instances of Retention for TLC. *)
EXTENDS Retention, TLC

CONSTANTS scheduled, activity, sql1, cursor1

TwoWriters == {scheduled, activity}
OneSQL == {sql1}
OneCursor == {cursor1}
InterchangeableWriters == Permutations(TwoWriters)
=============================================================================
