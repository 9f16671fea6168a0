------------------------- MODULE OperationalSamples -------------------------
(***************************************************************************)
(* The operational samples of one database (all of the state is kept per   *)
(* database): shouldCollectOperational, ScrapeOperationalSamples and       *)
(* operationalDelta of collector/operational.go, scrapeDataGuard of        *)
(* collector/dataguard.go, and the tables and views of                     *)
(* postgresql/postgresql.go in which the samples are read.                 *)
(*                                                                         *)
(* Thirteen collections follow one another, each with its own queries and  *)
(* its own status.  They are of four kinds, of which each has one here:    *)
(* "tablespaces" for the lists that are copied row by row (status,         *)
(* instances, limits, tablespaces, disk groups, metrics), "allocation" for *)
(* the columns that are added to such a list by a second query (identity,  *)
(* memory, allocation), "counters" for the cumulative counters (system,    *)
(* CPU and I/O, waits), and "dataguard".                                   *)
(*                                                                         *)
(* Oracle is external: it works, is restarted, gains and loses tablespaces *)
(* and changes its Data Guard role between any two queries.                *)
(***************************************************************************)
EXTENDS FiniteSets, Integers

CONSTANTS
    Tablespaces,  \* names
    Counters,     \* instances with their counter
    Interval,     \* operational.interval, in scrape intervals
    MaxTime,      \* bound: scrape intervals
    MaxEvents     \* bound: changes in Oracle and failures of its queries

ASSUME OperationalAssumption ==
    /\ Interval \in Nat \ {0}
    /\ MaxTime \in Nat /\ MaxEvents \in Nat
    /\ IsFiniteSet(Tablespaces)

VARIABLES
    clock,      \* the time, in scrape intervals
    tick,       \* the tick in the ticker's channel, 0: none
    present,    \* the tablespaces of the database
    role,       \* "none": no Data Guard, or the role of the database in it
    counter,    \* [counter -> its value]
    events,     \* changes and failures so far
    fresh,      \* ghost: [counter -> work since the reading in snapshot]
    restarted,  \* ghost: counters reset since the reading in snapshot
    roles,      \* ghost: roles since the Data Guard collection in hand began
    last,       \* lastOperationalScrape, 0: no entry
    snapshot,   \* operationalCounters: [counter -> [at, value]], at = 0: no entry
    pass,       \* [step, at] of the pass; seen: the role it goes by
    batch,      \* rows, as far as a view shows them, and statuses of the pass
    latest,     \* [collection -> its latest scrape status]
    samples,    \* [table with a view of the current state -> its rows]
    newest      \* ghost: time of the newest pass in the repository

oracle == <<present, role, counter>>
ghosts == <<fresh, restarted, roles>>
memory == <<last, snapshot>>
repository == <<latest, samples, newest>>
vars == <<clock, tick, oracle, events, ghosts, memory, pass, batch, repository>>

Roles == {"none", "primary", "physical standby", "logical standby"}
Collections == {"tablespaces", "allocation", "counters", "dataguard"}
Views == {"tablespaces", "dataguard"}
NoSnapshot == [at |-> 0, value |-> 0]
Known(c) == snapshot[c].at # 0
NoStatus == [at |-> 0]
Idle == [step |-> "idle"]
NoBatch == [rows |-> [v \in Views |-> {}], status |-> [c \in Collections |-> NoStatus]]

-----------------------------------------------------------------------------
(* Oracle and the clock.                                                   *)

Happens == events < MaxEvents /\ events' = events + 1

Works(c) ==
    /\ Happens
    /\ counter' = [counter EXCEPT ![c] = @ + 1]
    /\ fresh' = IF Known(c) THEN [fresh EXCEPT ![c] = @ + 1] ELSE fresh
    /\ UNCHANGED <<clock, tick, present, role, restarted, roles, memory, pass, batch, repository>>

InstanceRestarts(c) ==
    /\ Happens
    /\ counter' = [counter EXCEPT ![c] = 0]
    /\ restarted' = IF Known(c) THEN restarted \union {c} ELSE restarted
    /\ UNCHANGED <<clock, tick, present, role, fresh, roles, memory, pass, batch, repository>>

TablespaceChanges(t) ==
    /\ Happens
    /\ present' = IF t \in present THEN present \ {t} ELSE present \union {t}
    /\ UNCHANGED <<clock, tick, role, counter, ghosts, memory, pass, batch, repository>>

RoleChanges(r) ==
    /\ r # role
    /\ Happens
    /\ role' = r
    /\ roles' = IF roles = {} THEN {} ELSE roles \union {r}
    /\ UNCHANGED <<clock, tick, present, counter, fresh, restarted, memory, pass, batch, repository>>

\* A tick that finds the channel full is dropped; the one in it keeps its time.
TimePasses ==
    /\ clock < MaxTime
    /\ clock' = clock + 1
    /\ tick' = IF tick = 0 THEN clock + 1 ELSE tick
    /\ UNCHANGED <<oracle, events, ghosts, memory, pass, batch, repository>>

-----------------------------------------------------------------------------
(* The beginning of a pass.                                                *)

\* Variant: any other time than that of the pass before will do.
ShouldCollectAnyOther(at) == last = 0 \/ at # last

\* shouldCollectOperational
ShouldCollect(at) == last = 0 \/ at >= last + Interval

\* The pass of a tick, or one that a warmup has asked for and that has the time
\* of its own beginning, with an older tick perhaps still in the channel.
BeginsAt(at) ==
    /\ pass = Idle
    /\ \/ tick # 0 /\ at = tick /\ tick' = 0
       \/ at = clock /\ UNCHANGED tick

Begin(at) ==
    /\ BeginsAt(at)
    /\ ShouldCollect(at)
    /\ last' = at
    /\ pass' = [step |-> "tablespaces", at |-> at]
    /\ UNCHANGED <<clock, oracle, events, ghosts, snapshot, batch, repository>>

\* It is too early, or the database was left before its operational samples.
PassWithout ==
    /\ pass = Idle
    /\ tick # 0 /\ tick' = 0
    /\ UNCHANGED <<clock, oracle, events, ghosts, memory, pass, batch, repository>>

-----------------------------------------------------------------------------
(* The collections.  A query fails after any part of its rows.             *)

\* A query ends with all of its rows, or with an error.
Ends(ok) == IF ok THEN UNCHANGED events ELSE Happens

Goto(step) == pass' = [pass EXCEPT !.step = step]

\* newScrapeStatus, with what the query had to return as a ghost
Status(count, ok, real) ==
    [at |-> pass.at, success |-> ok, count |-> count, real |-> real]

Listed(v, rows, ok, real) ==
    batch' = [batch EXCEPT !.rows[v] = rows, !.status[v] = Status(Cardinality(rows), ok, real)]

\* scrapeTablespaces and its like
ScrapeTablespaces ==
    /\ pass.step = "tablespaces"
    /\ \E rows \in SUBSET present, ok \in BOOLEAN :
         /\ Ends(ok)
         /\ ok => rows = present
         /\ Listed("tablespaces", {[name |-> t, allocated |-> FALSE] : t \in rows}, ok, present)
    /\ Goto("allocation")
    /\ UNCHANGED <<clock, tick, oracle, ghosts, memory, repository>>

\* Variant: a row for each of the second query, whether or not the list has it.
ApplyAdding(list, allocations) ==
    {[name |-> n, allocated |-> n \in allocations] : n \in {r.name : r \in list} \union allocations}

\* applyTablespaceAllocation: the rows of the list are completed, none is added.
Apply(list, allocations) ==
    {IF r.name \in allocations THEN [r EXCEPT !.allocated = TRUE] ELSE r : r \in list}

\* scrapeTablespaceAllocation and its like: nothing is applied after an error.
ScrapeAllocation ==
    /\ pass.step = "allocation"
    /\ \E ok \in BOOLEAN : Ends(ok) /\
         LET list == IF ok THEN Apply(batch.rows["tablespaces"], present)
                     ELSE batch.rows["tablespaces"]
         IN batch' = [batch EXCEPT
                        !.rows["tablespaces"] = list,
                        !.status["allocation"] =
                            Status(Cardinality({r \in list : r.allocated}), ok, {})]
    /\ Goto("counters")
    /\ UNCHANGED <<clock, tick, oracle, ghosts, memory, repository>>

\* The snapshot operationalDelta leaves.
NewSnapshot(c) == [at |-> pass.at, value |-> counter[c]]

\* The row operationalDelta makes; delta = -1 stands for none.
Delta(c) ==
    LET previous == snapshot[c]
        baseline == previous.at = 0 \/ pass.at <= previous.at
        reset == ~baseline /\ counter[c] < previous.value
    IN [delta |-> IF baseline \/ reset THEN -1 ELSE counter[c] - previous.value,
        interval |-> IF baseline THEN -1 ELSE pass.at - previous.at,
        reset |-> reset]

\* scrapeOperationalCounterRows
ScrapeCounters ==
    /\ pass.step = "counters"
    /\ \E read \in SUBSET Counters, ok \in BOOLEAN :
         /\ Ends(ok)
         /\ ok => read = Counters
         /\ batch' = [batch EXCEPT !.status["counters"] = Status(Cardinality(read), ok, {})]
         /\ snapshot' = [c \in Counters |-> IF c \in read THEN NewSnapshot(c) ELSE snapshot[c]]
         /\ fresh' = [c \in Counters |-> IF c \in read THEN 0 ELSE fresh[c]]
         /\ restarted' = restarted \ read
    /\ Goto("dataguard")
    /\ UNCHANGED <<clock, tick, oracle, roles, last, repository>>

-----------------------------------------------------------------------------
(* scrapeDataGuard: discovery, then up to three queries in the role found. *)

\* The rows there are of a database that stays in role r.
DataGuardRows(r) ==
    CASE r = "none" -> {}
      [] r = "primary" -> {"destination"}
      [] r = "logical standby" -> {"destination", "lag"}
      [] r = "physical standby" -> {"destination", "lag", "process"}

\* The role decides which queries follow; without Data Guard, or after an error,
\* none does.
Discover ==
    /\ pass.step = "dataguard"
    /\ \/ /\ role # "none"
          /\ pass' = [step |-> "destinations", at |-> pass.at, seen |-> role, ok |-> TRUE]
          /\ roles' = {role}
          /\ UNCHANGED <<batch, events>>
       \/ \E ok \in BOOLEAN :
            /\ Ends(ok)
            /\ ok => role = "none"
            /\ Listed("dataguard", {}, ok, {role})
            /\ Goto("write")
            /\ UNCHANGED roles
    /\ UNCHANGED <<clock, tick, oracle, fresh, restarted, memory, repository>>

\* A query of the collection: its rows, those there are in the present role, are
\* added, and an error is joined to the others.
Query(step, row, allOrNone, next) ==
    /\ pass.step = step
    /\ \E got \in BOOLEAN, ok \in BOOLEAN :
         /\ Ends(ok)
         /\ got => row \in DataGuardRows(role)
         /\ ok => (got <=> row \in DataGuardRows(role))
         /\ allOrNone => (got => ok)
         /\ batch' = [batch EXCEPT !.rows["dataguard"] = IF got THEN @ \union {row} ELSE @]
         /\ pass' = [pass EXCEPT !.step = next, !.ok = @ /\ ok]
    /\ UNCHANGED <<clock, tick, oracle, ghosts, memory, repository>>

\* scrapeDataGuardDestinations
ScrapeDestinations ==
    Query("destinations", "destination", FALSE, IF pass.seen = "primary" THEN "status" ELSE "lag")

\* scrapeDataGuardLag: one sample of all rows, and only without an error.
ScrapeLag ==
    Query("lag", "lag", TRUE, IF pass.seen = "physical standby" THEN "processes" ELSE "status")

\* scrapeDataGuardProcesses
ScrapeProcesses == Query("processes", "process", FALSE, "status")

DataGuardStatus ==
    /\ pass.step = "status"
    /\ Listed("dataguard", batch.rows["dataguard"], pass.ok, roles)
    /\ pass' = [step |-> "write", at |-> pass.at]
    /\ roles' = {}
    /\ UNCHANGED <<clock, tick, oracle, events, fresh, restarted, memory, repository>>

-----------------------------------------------------------------------------
(* The repository.                                                         *)

\* writeScrapeStatuses: on conflict do update ... where excluded.collected_at >=
\* the one in the table
Latest ==
    [c \in Collections |->
       IF batch.status[c].at >= latest[c].at THEN batch.status[c] ELSE latest[c]]

\* writeOperationalSamples and writeScrapeStatuses, in one transaction.  What is
\* older than the latest status is in no view again, and left out.
Write ==
    /\ pass.step = "write"
    /\ latest' = Latest
    /\ samples' = [v \in Views |->
                     {s \in samples[v] \union {[at |-> pass.at, row |-> r] : r \in batch.rows[v]} :
                        s.at >= latest'[v].at}]
    /\ newest' = pass.at
    /\ pass' = Idle
    /\ batch' = NoBatch
    /\ UNCHANGED <<clock, tick, oracle, events, ghosts, memory>>

\* The transaction fails: the samples are not kept for another one.
WriteFails ==
    /\ pass.step = "write"
    /\ pass' = Idle
    /\ batch' = NoBatch
    /\ UNCHANGED <<clock, tick, oracle, events, ghosts, memory, repository>>

\* The process ends, and another begins with nothing in its memory.
ProcessRestarts ==
    /\ pass' = Idle
    /\ batch' = NoBatch
    /\ last' = 0
    /\ snapshot' = [c \in Counters |-> NoSnapshot]
    /\ clock < MaxTime
    /\ clock' = clock + 1
    /\ tick' = 0
    /\ fresh' = [c \in Counters |-> 0] /\ restarted' = {} /\ roles' = {}
    /\ UNCHANGED <<oracle, events, repository>>

\* oracle_..._current: the samples with the time of the latest status
View(v) == {s.row : s \in {x \in samples[v] : x.at = latest[v].at}}

Init ==
    /\ clock = 1 /\ tick = 0
    /\ present = Tablespaces
    /\ role \in Roles
    /\ counter = [c \in Counters |-> 1]
    /\ events = 0
    /\ fresh = [c \in Counters |-> 0] /\ restarted = {} /\ roles = {}
    /\ last = 0 /\ snapshot = [c \in Counters |-> NoSnapshot]
    /\ pass = Idle /\ batch = NoBatch
    /\ latest = [c \in Collections |-> NoStatus]
    /\ samples = [v \in Views |-> {}] /\ newest = 0

Scrape ==
    \/ ScrapeTablespaces \/ ScrapeAllocation \/ ScrapeCounters
    \/ Discover \/ ScrapeDestinations \/ ScrapeLag \/ ScrapeProcesses \/ DataGuardStatus

Next ==
    \/ \E c \in Counters : Works(c) \/ InstanceRestarts(c)
    \/ \E t \in Tablespaces : TablespaceChanges(t)
    \/ \E r \in Roles : RoleChanges(r)
    \/ TimePasses
    \/ \E at \in 1 .. MaxTime : Begin(at)
    \/ PassWithout
    \/ Scrape
    \/ Write \/ WriteFails
    \/ ProcessRestarts

Spec == Init /\ [][Next]_vars

-----------------------------------------------------------------------------
\* A delta is never more than the work since the reading before, whichever
\* passes were skipped, cut short or not written in between, and all of it unless
\* the instance was restarted; a reset is reported only after a restart; and work
\* goes without a delta only at the first reading of a process, never because a
\* late tick is older than the pass of a warmup before it.
DeltasHonest ==
    [][\A c \in Counters : snapshot'[c].at # 0 /\ snapshot'[c] # snapshot[c] =>
          LET row == Delta(c)
          IN /\ row.delta >= 0 =>
                  /\ row.interval >= Interval
                  /\ row.delta <= fresh[c]
                  /\ c \notin restarted => row.delta = fresh[c]
             /\ row.reset => c \in restarted
             /\ row.delta < 0 => ~Known(c) \/ row.reset]_vars

\* The oracle_..._current views show the newest pass that was written and nothing
\* of an older one, even if a collection has failed in the newest: with a
\* successful status exactly the rows Oracle had, and otherwise a part of them.
\* For Data Guard this holds of a database that keeps its role while it is asked;
\* when it has left Data Guard, its views are empty.
ViewsTruthful ==
    /\ \A c \in Collections : latest[c].at = newest
    /\ newest # 0 =>
         LET list == latest["tablespaces"]
             shown == View("tablespaces")
             dg == latest["dataguard"]
             dgShown == View("dataguard")
         IN /\ Cardinality(shown) = list.count
            /\ {r.name : r \in shown} \subseteq list.real
            /\ list.success => {r.name : r \in shown} = list.real
            /\ Cardinality({r \in shown : r.allocated}) = latest["allocation"].count
            /\ Cardinality(dgShown) = dg.count
            /\ \A r \in dg.real : dg.real = {r} =>
                 /\ dgShown \subseteq DataGuardRows(r)
                 /\ dg.success => dgShown = DataGuardRows(r)
=============================================================================
