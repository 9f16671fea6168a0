------------------------- MODULE MCActivityWatermark -------------------------
(* Instances of ActivityWatermark for TLC. *)
EXTENDS ActivityWatermark

CONSTANTS orcl, inst1

OneTarget == {orcl}
SingleInstance == {inst1}
=============================================================================
