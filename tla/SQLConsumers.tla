---------------------------- MODULE SQLConsumers ----------------------------
(***************************************************************************)
(* Top SQL consumers and their execution plans, ScrapePerformanceSamples   *)
(* of collector/performance.go, for one database (all of the state is kept *)
(* per database).                                                          *)
(*                                                                         *)
(* A scheduled pass reads cumulative counters per cursor from GV$SQLSTATS, *)
(* adds what has changed since the previous pass to the SQL's delta and,   *)
(* once per interval, takes the SQLs with the largest deltas, reads their  *)
(* cursors, and reads the plans of the cursors it does not know yet.  The  *)
(* pass is written to PostgreSQL afterwards.                               *)
(*                                                                         *)
(* Oracle is external: cursors execute, age out of the shared pool with    *)
(* their counters, and drop out of the query's lookback window when they   *)
(* are idle.  Elapsed time stands for all counters; its unit is one        *)
(* execution.  Sessions and blocking sessions are read between the steps   *)
(* and leave no state behind.                                              *)
(***************************************************************************)
EXTENDS Integers, FiniteSets, Functions

CONSTANTS
    Keys,         \* cursors: [sql, cursor], cursor for inst, plan hash and child
    TopN,         \* performance.sqlPlans.topN
    TopSQLLimit,  \* cursors considered per collection
    MaxWork       \* bound: executions

ASSUME ConsumersAssumption ==
    /\ IsFiniteSet(Keys)
    /\ TopN \in Nat \ {0}
    /\ TopSQLLimit \in Nat \ {0}
    /\ MaxWork \in Nat

VARIABLES
    total,       \* [cursor -> its cumulative counter; 0: not in the shared pool]
    recent,      \* cursors inside the lookback window
    executions,  \* executions so far
    snapshot,    \* sqlCounterSnapshots: [cursor -> counter], 0 without an entry
    initialized, \* there is a snapshot
    deltas,      \* sqlConsumerDeltas: [sql -> delta], 0 without an entry
    fresh,       \* ghost: [sql -> executions since the last snapshot]
    credited,    \* ghost: [sql -> executions the deltas should stand for]
    aged,        \* ghost: SQLs that have lost counters
    idled,       \* ghost: SQLs with a cursor that has left the lookback window
    unwritten,   \* ghost: known plans whose write has failed
    step,          \* the pass
    due,         \* the interval since lastSQLDetailCollection is over
    consumers,   \* consumerSQLIDs
    candidates,  \* uncached plan candidates
    known,       \* knownPlans
    plans,       \* sqlPlans of the pass: [cursor -> "none", "part" or "whole"]
    storedPlans       \* plans in PostgreSQL, likewise

sharedPool == <<total, recent, executions>>
counters == <<snapshot, initialized, deltas>>
ghosts == <<fresh, credited, aged, idled, unwritten>>
details == <<due, consumers, candidates, known, plans>>
consumerVars == <<sharedPool, counters, ghosts, step, details, storedPlans>>

SQLs == {k.sql : k \in Keys}
PlanStates == {"none", "part", "whole"}
NoPlans == [k \in Keys |-> "none"]

-----------------------------------------------------------------------------
(* Oracle.                                                                 *)

Execute(k) ==
    /\ executions < MaxWork
    /\ executions' = executions + 1
    /\ total' = [total EXCEPT ![k] = @ + 1]
    /\ recent' = recent \union {k}
    /\ fresh' = [fresh EXCEPT ![k.sql] = @ + 1]
    /\ UNCHANGED <<counters, credited, aged, idled, unwritten, step, details, storedPlans>>

Idle(k) ==
    /\ k \in recent
    /\ recent' = recent \ {k}
    /\ idled' = idled \union {k.sql}
    /\ UNCHANGED <<total, executions, counters, fresh, credited, aged, unwritten, step, details, storedPlans>>

AgesOut(k, left) ==
    /\ left < total[k]
    /\ total' = [total EXCEPT ![k] = left]
    /\ aged' = aged \union {k.sql}
    /\ UNCHANGED <<recent, executions, counters, fresh, credited, idled, unwritten, step, details, storedPlans>>

-----------------------------------------------------------------------------
(* recordSQLConsumerDeltas.                                                *)

SampledCursors == {k \in recent : total[k] > 0}

\* Variant: a lower value counts as the work since a reset to zero.
MonotonicDeltaOfReset(current, previous) ==
    IF current >= previous THEN current - previous ELSE current
MonotonicDelta(current, previous) ==
    IF current >= previous THEN current - previous ELSE 0

\* Variant: a cursor counts from its second sample on.
DeltaOfKnownCursor(k) ==
    IF snapshot[k] = 0 THEN 0 ELSE MonotonicDelta(total[k], snapshot[k])
\* A cursor without an entry in the snapshot counts with its whole value, which
\* is its difference to no entry.
Delta(k) == MonotonicDelta(total[k], snapshot[k])

CursorsOf(s) == {k \in Keys : k.sql = s}
NewDeltas(s) ==
    SumFunctionOnSet([k \in Keys |-> Delta(k)], SampledCursors \intersect CursorsOf(s))

RecordDeltas ==
    /\ step = "idle"
    /\ initialized' = TRUE
    /\ snapshot' = [k \in Keys |-> IF k \in SampledCursors THEN total[k] ELSE 0]
    /\ deltas' = IF initialized THEN [s \in SQLs |-> deltas[s] + NewDeltas(s)] ELSE deltas
    /\ credited' = IF initialized THEN [s \in SQLs |-> credited[s] + fresh[s]] ELSE credited
    /\ fresh' = [s \in SQLs |-> 0]
    /\ step' = "sampled"
    /\ UNCHANGED <<sharedPool, aged, idled, unwritten, details, storedPlans>>

SQLQueryFails ==
    /\ step = "idle"
    /\ step' = "sampled"
    /\ UNCHANGED <<sharedPool, counters, ghosts, details, storedPlans>>

-----------------------------------------------------------------------------
(* SQL details and plans.                                                  *)

IntervalPasses ==
    /\ ~due
    /\ due' = TRUE
    /\ UNCHANGED <<sharedPool, counters, ghosts, step, consumers, candidates, known, plans, storedPlans>>

NotDue ==
    /\ step = "sampled"
    /\ ~due
    /\ step' = "write"
    /\ UNCHANGED <<sharedPool, counters, ghosts, details, storedPlans>>

\* The SQLs with the largest deltas; equal ones are told apart by other counters.
Ranked(top) ==
    LET positive == {s \in SQLs : deltas[s] > 0}
    IN  /\ top \subseteq positive
        /\ Cardinality(top) <= TopN
        /\ top = positive \/ Cardinality(top) = TopN
        /\ \A s \in top, o \in positive \ top : deltas[s] >= deltas[o]

\* The interval begins anew and the deltas are gone, whatever follows.
TakeTopConsumers(top) ==
    /\ step = "sampled"
    /\ due
    /\ Ranked(top)
    /\ due' = FALSE
    /\ consumers' = top
    /\ deltas' = [s \in SQLs |-> 0]
    /\ credited' = [s \in SQLs |-> 0]
    /\ step' = "details"
    /\ UNCHANGED <<sharedPool, snapshot, initialized, fresh, aged, idled, unwritten, candidates,
                   known, plans, storedPlans>>

\* scrapeSQLDetails: the consumers' cursors in the shared pool.
CursorsOfConsumers == {k \in Keys : k.sql \in consumers /\ total[k] > 0}

\* The cursors that were read; all of them, unless the query fails.
\* Cursors beyond the limit are cut off, and a known plan whose cursor is not
\* among them is forgotten.
ReadDetails(read) ==
    /\ step = "details"
    /\ read \subseteq CursorsOfConsumers
    /\ Cardinality(read) <= TopSQLLimit
    /\ known' = known \intersect read
    /\ candidates' = read \ known
    /\ unwritten' = unwritten \intersect read
    /\ step' = IF read \subseteq known THEN "write" ELSE "plans"
    /\ UNCHANGED <<sharedPool, counters, fresh, credited, aged, idled, due, consumers, plans, storedPlans>>

\* Plans that are in GV$SQL_PLAN; they are marked as collected.
ReadPlans(read) ==
    /\ step = "plans"
    /\ plans' = [k \in Keys |-> IF k \in read THEN "whole" ELSE "none"]
    /\ known' = known \union read
    /\ step' = "write"
    /\ UNCHANGED <<sharedPool, counters, ghosts, due, consumers, candidates, storedPlans>>

\* Variant: the rows read before an error count as collected.
PlanQueryFailsMarks(whole, part) ==
    /\ step = "plans"
    /\ Cardinality(part) <= 1
    /\ plans' = [k \in Keys |-> IF k \in part THEN "part"
                                ELSE IF k \in whole THEN "whole" ELSE "none"]
    /\ known' = known \union whole \union part
    /\ step' = "write"
    /\ UNCHANGED <<sharedPool, counters, ghosts, due, consumers, candidates, storedPlans>>
\* The rows end with an error: the plans read so far, the last one of them in
\* part, go into the batch and are not marked.
PlanQueryFails(whole, part) ==
    /\ step = "plans"
    /\ Cardinality(part) <= 1
    /\ plans' = [k \in Keys |-> IF k \in part THEN "part"
                                ELSE IF k \in whole THEN "whole" ELSE "none"]
    /\ step' = "write"
    /\ UNCHANGED <<sharedPool, counters, ghosts, due, consumers, candidates, known, storedPlans>>

EndPass ==
    /\ step' = "idle"
    /\ consumers' = {}
    /\ candidates' = {}
    /\ plans' = NoPlans

\* Upsert of the plan lines.
PlansCommitted ==
    /\ step = "write"
    /\ storedPlans' = [k \in Keys |->
                    IF "whole" \in {plans[k], storedPlans[k]} THEN "whole"
                    ELSE IF "part" \in {plans[k], storedPlans[k]} THEN "part" ELSE "none"]
    /\ EndPass
    /\ UNCHANGED <<sharedPool, counters, ghosts, due, known>>

PlansNotWritten ==
    /\ step = "write"
    /\ unwritten' = unwritten \union {k \in known : plans[k] # "none"}
    /\ EndPass
    /\ UNCHANGED <<sharedPool, counters, fresh, credited, aged, idled, due, known, storedPlans>>

\* The process restarts, or another instance becomes the leader: what Scraper
\* remembers is lost.
ScraperRestarts ==
    /\ snapshot' = [k \in Keys |-> 0]
    /\ initialized' = FALSE
    /\ deltas' = [s \in SQLs |-> 0]
    /\ fresh' = [s \in SQLs |-> 0]
    /\ credited' = [s \in SQLs |-> 0]
    /\ aged' = {}
    /\ idled' = {k.sql : k \in {x \in Keys : total[x] > 0 /\ x \notin recent}}
    /\ unwritten' = {}
    /\ due' = TRUE
    /\ known' = {}
    /\ EndPass
    /\ UNCHANGED <<sharedPool, storedPlans>>

InitConsumers ==
    /\ total = [k \in Keys |-> 0]
    /\ recent = {}
    /\ executions = 0
    /\ snapshot = [k \in Keys |-> 0]
    /\ initialized = FALSE
    /\ deltas = [s \in SQLs |-> 0]
    /\ fresh = [s \in SQLs |-> 0]
    /\ credited = [s \in SQLs |-> 0]
    /\ aged = {}
    /\ idled = {}
    /\ unwritten = {}
    /\ step = "idle"
    /\ due = TRUE
    /\ consumers = {}
    /\ candidates = {}
    /\ known = {}
    /\ plans = NoPlans
    /\ storedPlans = NoPlans

NextConsumers ==
    \/ \E k \in Keys :
         \/ Execute(k)
         \/ Idle(k)
         \/ \E left \in 0 .. MaxWork : AgesOut(k, left)
    \/ RecordDeltas
    \/ SQLQueryFails
    \/ IntervalPasses
    \/ NotDue
    \/ \E top \in SUBSET SQLs : TakeTopConsumers(top)
    \/ \E read \in SUBSET Keys : ReadDetails(read)
    \/ \E read \in SUBSET candidates : ReadPlans(read)
    \/ \E whole, part \in SUBSET candidates : PlanQueryFails(whole, part)
    \/ PlansCommitted
    \/ PlansNotWritten
    \/ ScraperRestarts

ConsumersSpec == InitConsumers /\ [][NextConsumers]_consumerVars

-----------------------------------------------------------------------------

\* As long as a SQL is sampled in every pass, its delta never exceeds what it has
\* really executed between the snapshots of the interval, although its cursors
\* age out, come back with lower counters, and passes fail.
NoManufacturedWorkload == \A s \in SQLs \ idled : deltas[s] <= credited[s]

\* If its counters stay in the shared pool, nothing is left out either: across
\* failed queries, new cursors and collections the delta is exact.
WorkAttributed == \A s \in SQLs \ (idled \union aged) : deltas[s] = credited[s]

\* Between passes every plan that will not be asked for again is in PostgreSQL,
\* with all of its lines, unless a write has failed since it was marked: a plan
\* read in part, or asked for in vain, is never taken for a collected one.
KnownPlansStored == step = "idle" => \A k \in known \ unwritten : storedPlans[k] = "whole"
=============================================================================
