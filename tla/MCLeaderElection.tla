-------------------------- MODULE MCLeaderElection ---------------------------
(***************************************************************************)
(* LeaderElection for TLC: model values for the instances and for the two  *)
(* lock owners that are no instance.                                       *)
(***************************************************************************)
EXTENDS LeaderElection

CONSTANTS i1, i2

TwoInstances == {i1, i2}
=============================================================================
