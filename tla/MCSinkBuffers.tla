---------------------------- MODULE MCSinkBuffers ----------------------------
(***************************************************************************)
(* SinkBuffers for TLC: two of the three writers, a buffer of two samples. *)
(***************************************************************************)
EXTENDS SinkBuffers

CONSTANTS scheduled, activity

TwoWriters == {scheduled, activity}

\* The writers are interchangeable, and the run checks safety only.
InterchangeableWriters == Permutations(TwoWriters)
=============================================================================
