--------------------------- MODULE MCStateReports ---------------------------
(* Instance of StateReports for TLC.                                       *)
EXTENDS StateReports

\* Process 2 has lost database "a" from its configuration and gained "c".
OneLostOneGained == <<{"a", "b"}, {"b", "c"}>>

\* What the two of the old leader do between them, those of the new one do, too.
TwoOfTheNewLeader == <<{"scheduled"}, {"scheduled", "dcd"}>>
=============================================================================
