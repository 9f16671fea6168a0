--------------------------- MODULE MCSQLConsumers ---------------------------
(* Instance of SQLConsumers for TLC.                                       *)
EXTENDS SQLConsumers

\* A SQL with two cursors and one with a single cursor.
ThreeCursors ==
    {[sql |-> "s1", cursor |-> 1], [sql |-> "s1", cursor |-> 2], [sql |-> "s2", cursor |-> 1]}
=============================================================================
