----------------------------- MODULE TelemetryLog ----------------------------
(***************************************************************************)
(* What the sink promises for the runtime telemetry of the collectors,     *)
(* whatever happens to its buffer and its transactions.  A sample is held  *)
(* by the process until it is stored, or dropped while Limit others are    *)
(* held.  It is recorded once and held in one place: what is dropped is    *)
(* gone, and what is stored is held no longer and so never stored again.   *)
(* The promise has one exception: the answer to a commit may be lost, and  *)
(* then the process still holds what is stored.                            *)
(***************************************************************************)
EXTENDS Naturals, FiniteSets

CONSTANTS Samples, Limit

VARIABLES
    held,       \* the samples in the memory of the process
    stored,     \* the samples in the table
    dropped,    \* the samples given up because too many were held
    unheard     \* number of commits whose answer was lost

Init ==
    /\ held = {}
    /\ stored = {}
    /\ dropped = {}
    /\ unheard = 0

\* The samples in lost are dropped: as many as Limit others stay.
GiveUp(lost) ==
    /\ dropped' = dropped \union lost
    /\ lost # {} => \E kept \in SUBSET held' : Cardinality(kept) = Limit

\* A new sample is recorded; it is not given up itself.
Record(s, lost) ==
    /\ s \notin held \union stored \union dropped
    /\ held' = (held \ lost) \union {s}
    /\ GiveUp(lost)
    /\ UNCHANGED <<stored, unheard>>

Drop(lost) ==
    /\ held' = held \ lost
    /\ GiveUp(lost)
    /\ UNCHANGED <<stored, unheard>>

Store(batch) ==
    /\ held' = held \ batch
    /\ stored' = stored \union batch
    /\ UNCHANGED <<dropped, unheard>>

\* A commit whose answer is lost.  It may be one without telemetry.
StoreUnheard(batch, lost) ==
    /\ unheard' = unheard + 1
    /\ held' = held \ lost
    /\ stored' = stored \union batch
    /\ GiveUp(lost)

Next ==
    \/ \E s \in Samples, lost \in SUBSET held : Record(s, lost)
    \/ \E lost \in SUBSET held : Drop(lost)
    \/ \E batch \in SUBSET held : Store(batch)
    \/ \E batch \in SUBSET held, lost \in SUBSET held : StoreUnheard(batch, lost)

Spec == Init /\ [][Next]_<<held, stored, dropped, unheard>>
=============================================================================
