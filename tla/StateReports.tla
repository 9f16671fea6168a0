---------------------------- MODULE StateReports ----------------------------
(***************************************************************************)
(* The table of connection states (writeConnectionStates of                *)
(* postgresql/postgresql.go) and the reports that compete for it.  In      *)
(* every process two goroutines report the states of all databases: the    *)
(* scheduled pass and the dead connection detection.  Each takes the time, *)
(* reads the states and writes them in a transaction of its own; the row   *)
(* with the later time stays.  While leadership changes, the reports of    *)
(* two processes meet, which may have different databases configured and   *)
(* different clocks.                                                       *)
(*                                                                         *)
(* The states of the databases in a process are the number of their        *)
(* changes so far.  Of the times only the order counts: a stamp is its     *)
(* place among the stamps that are in use.                                 *)
(***************************************************************************)
EXTENDS FiniteSets, Integers

CONSTANTS
    Watched,     \* Watched[p]: the databases in the configuration of process p
    Reporters,   \* Reporters[p]: its goroutines that report and are in the model
    MaxChanges,  \* bound: changes of the states in one process
    MaxBehind    \* reports of a new leader whose clock may be behind the old one's

Processes == 1 .. 2

ASSUME ReportsAssumption ==
    /\ \A p \in Processes : IsFiniteSet(Watched[p]) /\ IsFiniteSet(Reporters[p])
    /\ MaxChanges \in Nat /\ MaxBehind \in Nat

Databases == UNION {Watched[p] : p \in Processes}

VARIABLES
    running,  \* processes that are active
    behind,   \* reports of process 2 that may still be stamped too early
    state,    \* [process -> the connection states of its databases]
    report,   \* [process, reporter -> the report in hand]
    table,    \* [database -> its row]
    floor     \* ghost: [process, database -> the states at the latest time of a
              \* report that the process has committed since the row was deleted]

reportVars == <<running, behind, state, report, table, floor>>

None == [stamp |-> 0]
Idle == [step |-> "idle", stamp |-> 0]
Goroutines == UNION {{p} \X Reporters[p] : p \in Processes}
States == 0 .. MaxChanges
Has(d) == table[d] # None

-----------------------------------------------------------------------------
(* Stamps.                                                                 *)

\* The stamps that anything can still be compared with, 0 apart.
Used(r, t) == ({r[g].stamp : g \in Goroutines} \union {t[d].stamp : d \in Databases}) \ {0}

\* The state with its stamps numbered from 1 on.
Renumbered(r, t) ==
    LET rank(s) == Cardinality({u \in Used(r, t) : u <= s})
    IN  /\ report' = [g \in Goroutines |-> [r[g] EXCEPT !.stamp = rank(@)]]
        /\ table' = [d \in Databases |-> [t[d] EXCEPT !.stamp = rank(@)]]

\* The places a new stamp of process p can take: behind all others, or, with a
\* clock that is behind, at least behind its own.
Places(p) ==
    LET others == Used(report, table)
        own == {report[g].stamp : g \in {p} \X Reporters[p]}
                 \union {table[d].stamp : d \in {x \in Databases : Has(x) /\ table[x].process = p}}
        last == 2 * Cardinality(others) + 1
    IN  IF p = 2 /\ behind > 0
        THEN {k \in 1 .. last : k % 2 = 1 /\ \A s \in own : k > 2 * s}
        ELSE {last}

-----------------------------------------------------------------------------
(* Reports: connectionStateSamples(time.Now()) and WriteSamples.           *)

\* Variant: the states are read before the time is taken.
TakeTimeAfterReading(g, k) ==
    /\ g[1] \in running /\ report[g].step = "idle"
    /\ \E old \in {state[g[1]], state[g[1]] - 1} \cap States :
         LET doubled == [h \in Goroutines |-> [report[h] EXCEPT !.stamp = 2 * @]]
             stamped == [doubled EXCEPT ![g] = [step |-> "read", stamp |-> k, states |-> old,
                                                 seen |-> state[g[1]]]]
         IN  Renumbered(stamped, [d \in Databases |-> [table[d] EXCEPT !.stamp = 2 * @]])
    /\ behind' = IF g[1] = 2 /\ behind > 0 THEN behind - 1 ELSE behind
    /\ UNCHANGED <<running, state, floor>>

\* finished := time.Now(); k is the place of the new stamp between the others,
\* which are doubled to make room.
TakeTime(g, k) ==
    /\ g[1] \in running /\ report[g].step = "idle"
    /\ LET doubled == [h \in Goroutines |-> [report[h] EXCEPT !.stamp = 2 * @]]
           stamped == [doubled EXCEPT ![g] = [step |-> "stamped", stamp |-> k, seen |-> state[g[1]]]]
       IN Renumbered(stamped, [d \in Databases |-> [table[d] EXCEPT !.stamp = 2 * @]])
    /\ behind' = IF g[1] = 2 /\ behind > 0 THEN behind - 1 ELSE behind
    /\ UNCHANGED <<running, state, floor>>

\* The states are read one after the other, each under the lock of its database;
\* as nothing relates two of them, one step reads all.
ReadStates(g) ==
    /\ report[g].step = "stamped"
    /\ report' = [report EXCEPT ![g] =
                    [step |-> "read", stamp |-> @.stamp, seen |-> @.seen, states |-> state[g[1]]]]
    /\ UNCHANGED <<running, behind, state, table, floor>>

\* on conflict (source_database) do update ... where excluded.observed_at >=
\* existing.observed_at
Upsert(p, r) ==
    [d \in Databases |->
       IF d \in Watched[p] /\ r.stamp >= table[d].stamp
       THEN [stamp |-> r.stamp, process |-> p, state |-> r.states]
       ELSE table[d]]

\* Variant: rows of other databases stay.
DeleteNothing(p, t) == t

\* delete ... where not (source_database = any($1)); everything, if there are no samples
DeleteUnconfigured(p, t) == [d \in Databases |-> IF d \in Watched[p] THEN t[d] ELSE None]

Commit(g) ==
    /\ report[g].step = "read"
    /\ LET p == g[1]
           r == report[g]
       IN /\ Renumbered([report EXCEPT ![g] = Idle], DeleteUnconfigured(p, Upsert(p, r)))
          /\ floor' = [q \in Processes |-> [d \in Databases |->
                         IF d \notin Watched[p] THEN 0
                         ELSE IF q = p /\ floor[q][d] < r.seen THEN r.seen ELSE floor[q][d]]]
    /\ UNCHANGED <<running, behind, state>>

\* The transaction fails; the error is logged and the report is dropped.
WriteFails(g) ==
    /\ report[g].step = "read"
    /\ Renumbered([report EXCEPT ![g] = Idle], table)
    /\ UNCHANGED <<running, behind, state, floor>>

-----------------------------------------------------------------------------
(* The rest of the system.                                                 *)

\* A database becomes active, queued or probed.
Changes(p) ==
    /\ p \in running /\ state[p] < MaxChanges
    /\ state' = [state EXCEPT ![p] = @ + 1]
    /\ UNCHANGED <<running, behind, report, table, floor>>

\* A standby becomes active; the old leader may not have noticed yet.
SuccessorElected ==
    /\ running = {1}
    /\ running' = {1, 2}
    /\ UNCHANGED <<behind, state, report, table, floor>>

\* It stops.  A transaction of its own that is not committed now never will be.
LeaderDeposed ==
    /\ running = {1, 2}
    /\ running' = {2}
    /\ Renumbered([g \in Goroutines |-> IF g[1] = 1 THEN Idle ELSE report[g]], table)
    /\ state' = [state EXCEPT ![1] = 0]
    /\ floor' = [floor EXCEPT ![1] = [d \in Databases |-> 0]]
    /\ UNCHANGED behind

InitReports ==
    /\ running = {1}
    /\ behind = MaxBehind
    /\ state = [p \in Processes |-> 0]
    /\ report = [g \in Goroutines |-> Idle]
    /\ table = [d \in Databases |-> None]
    /\ floor = [p \in Processes |-> [d \in Databases |-> 0]]

Report(g) == (\E k \in Places(g[1]) : TakeTime(g, k)) \/ ReadStates(g)

NextReports ==
    \/ \E g \in Goroutines : Report(g) \/ Commit(g) \/ WriteFails(g)
    \/ \E p \in Processes : Changes(p)
    \/ SuccessorElected
    \/ LeaderDeposed

ReportsSpec == InitReports /\ [][NextReports]_reportVars

\* Both schedulers go on reporting, and PostgreSQL does not fail for ever.
ReportsFairness ==
    \A g \in Goroutines : WF_reportVars(Report(g)) /\ SF_reportVars(Commit(g))

FairReportsSpec == ReportsSpec /\ ReportsFairness

-----------------------------------------------------------------------------
\* The table is as fresh as the newest report it has taken in, in whatever order
\* the reports were committed: the state in a row was the database's state at or
\* after the time of every report that its process has committed since a process
\* without the database deleted its row.
TableFresh ==
    \A p \in Processes : \A d \in Watched[p] :
        Has(d) /\ table[d].process = p => table[d].state >= floor[p][d]

Shows(p) ==
    \A d \in Databases :
        IF d \in Watched[p]
        THEN Has(d) /\ table[d].process = p /\ table[d].state = state[p]
        ELSE ~Has(d)

\* Once a single process is left, the table comes to show its databases and
\* nothing else, each in its state: the rows of databases that have left the
\* configuration go, late reports of a deposed leader and its faster clock
\* notwithstanding, and a stale state that has won is replaced.
TableConverges == \A p \in Processes : <>[](running = {p}) => <>[]Shows(p)
=============================================================================
