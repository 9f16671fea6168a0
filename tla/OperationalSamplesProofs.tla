---------------------- MODULE OperationalSamplesProofs ----------------------
(***************************************************************************)
(* Theorems about OperationalSamples, for any number of tablespaces and    *)
(* counters, any interval and any number of changes in Oracle, failures    *)
(* and restarts.                                                           *)
(***************************************************************************)
EXTENDS OperationalSamples, FiniteSetTheorems, TLAPS

-----------------------------------------------------------------------------
(* The inductive invariant.                                                *)

Asking == {"destinations", "lag", "processes", "status"}
BeforeReading == {"tablespaces", "allocation", "counters"}
PlainSteps == BeforeReading \union {"dataguard", "write"}
Rows == [name : Tablespaces, allocated : BOOLEAN]

\* The passes: the step, the time, and in the Data Guard collection the role it
\* goes by and whether its queries have succeeded so far.
Passes ==
    {Idle} \union [step : PlainSteps, at : Nat]
    \union [step : Asking, at : Nat, seen : Roles \ {"none"}, ok : BOOLEAN]

\* The batch has rows for each view and a status for each collection.
BatchShape ==
    batch = [rows |-> [v \in Views |-> batch.rows[v]],
             status |-> [c \in Collections |-> batch.status[c]]]

TypeOK ==
    /\ clock \in Nat /\ tick \in Nat /\ last \in Nat /\ newest \in Nat
    /\ present \subseteq Tablespaces
    /\ role \in Roles
    /\ pass \in Passes
    /\ BatchShape

\* A pass is later than everything in the repository, across restarts too.
Order ==
    /\ tick <= clock /\ last <= clock /\ newest <= clock
    /\ last = 0 => newest < clock /\ (tick # 0 => newest < tick)
    /\ last # 0 => newest <= last
    /\ pass # Idle => pass.at = last /\ last # 0 /\ newest < last

CounterTypes ==
    /\ counter \in [Counters -> Nat] /\ fresh \in [Counters -> Nat]
    /\ snapshot \in [Counters -> [at : Nat, value : Nat]]
    /\ restarted \subseteq Counters

\* What the counters have done since they were read, and when that was.
Counted ==
    \A c \in Counters :
        /\ snapshot[c].at <= last
        /\ Known(c) /\ c \notin restarted => counter[c] = snapshot[c].value + fresh[c]
        /\ Known(c) /\ c \in restarted => counter[c] <= fresh[c]
        /\ Known(c) /\ pass.step \in BeforeReading => snapshot[c].at + Interval <= last

\* A list and its status: as many rows as it counts, of the names Oracle had, and
\* all of them after a success.
ListTruthful(rows, status) ==
    /\ Cardinality(rows) = status.count
    /\ {r.name : r \in rows} \subseteq status.real
    /\ status.success => {r.name : r \in rows} = status.real

AllocationTruthful(rows, status) == Cardinality({r \in rows : r.allocated}) = status.count

\* The Data Guard rows and their status.
DataGuardTruthful(rows, status) ==
    /\ Cardinality(rows) = status.count
    /\ \A r \in status.real : status.real = {r} =>
         /\ rows \subseteq DataGuardRows(r)
         /\ status.success => rows = DataGuardRows(r)

\* The batch of a pass that has its list of tablespaces, its allocations, and its
\* counters.
ListCollected ==
    LET rows == batch.rows["tablespaces"]
        status == batch.status
    IN /\ pass.step \notin {"idle", "tablespaces"} =>
            /\ IsFiniteSet(rows) /\ rows \subseteq Rows
            /\ status["tablespaces"].at = last
            /\ ListTruthful(rows, status["tablespaces"])
       /\ pass.step = "allocation" => \A r \in rows : ~r.allocated
       /\ pass.step \notin {"idle", "tablespaces", "allocation"} =>
            /\ status["allocation"].at = last
            /\ AllocationTruthful(rows, status["allocation"])
       /\ pass.step \notin BeforeReading \union {"idle"} => status["counters"].at = last

\* The rows that the queries before a step have asked for.
Asked ==
    CASE pass.step = "destinations" -> {}
      [] pass.step = "lag" -> {"destination"}
      [] pass.step = "processes" -> {"destination", "lag"}
      [] pass.step = "status" -> DataGuardRows(pass.seen)

\* The batch of a pass within, and after, its Data Guard collection.
DataGuardCollected ==
    LET rows == batch.rows["dataguard"]
        status == batch.status["dataguard"]
    IN /\ pass = Idle => batch = NoBatch
       /\ pass.step \in BeforeReading \union {"dataguard", "destinations"} => rows = {}
       /\ pass.step \notin Asking => roles = {}
       /\ pass.step \in Asking =>
            /\ role \in roles /\ pass.seen \in roles
            /\ \A r \in Roles : roles = {r} =>
                 /\ rows \subseteq Asked \intersect DataGuardRows(r)
                 /\ pass.ok => rows = Asked \intersect DataGuardRows(r)
       /\ pass.step = "lag" => pass.seen # "primary"
       /\ pass.step = "processes" => pass.seen = "physical standby"
       /\ pass.step = "write" => status.at = last /\ DataGuardTruthful(rows, status)

\* The tables hold nothing but the newest pass.
Stored ==
    /\ \A c \in Collections : latest[c].at = newest
    /\ \A v \in Views : \A s \in samples[v] : s.at = newest

IInv ==
    /\ TypeOK /\ Order /\ CounterTypes /\ Counted
    /\ ListCollected /\ DataGuardCollected /\ Stored /\ ViewsTruthful

-----------------------------------------------------------------------------
(* The time of a pass, and what the steps do to the pass.                  *)

\* The constants.
LEMMA Constants == Interval \in Nat \ {0} /\ IsFiniteSet(Tablespaces)
BY OperationalAssumption

\* A step of a pass, by where it is in it.
LEMMA StepOfPass ==
    ASSUME pass \in Passes
    PROVE  /\ pass = Idle <=> pass.step = "idle"
           /\ pass.step \in PlainSteps => pass = [step |-> pass.step, at |-> pass.at]
           /\ pass.step \in PlainSteps \/ pass.step \in Asking => pass.at \in Nat
           /\ pass.step \in Asking =>
                /\ pass = [step |-> pass.step, at |-> pass.at, seen |-> pass.seen, ok |-> pass.ok]
                /\ pass.seen \in Roles \ {"none"} /\ pass.ok \in BOOLEAN
           /\ pass.step \in {"idle"} \union PlainSteps \union Asking
BY DEF Passes, Idle, PlainSteps, Asking, BeforeReading

\* A pass moves on in its order, and keeps its time.
LEMMA PassMoves ==
    ASSUME TypeOK, Scrape
    PROVE  /\ pass' \in Passes
           /\ pass # Idle /\ pass' # Idle
           /\ pass'.at = pass.at
           /\ pass'.step \in BeforeReading => pass.step \in BeforeReading
           /\ UNCHANGED <<clock, tick, oracle, last, repository>>
<1>1. pass \in Passes
  BY DEF TypeOK
<1>2. CASE ScrapeTablespaces
  <2>1. pass.step = "tablespaces" /\ pass' = [pass EXCEPT !.step = "allocation"]
    BY <1>2 DEF ScrapeTablespaces, Goto
  <2>2. pass' = [step |-> "allocation", at |-> pass.at] /\ pass.at \in Nat
    BY <1>1, <2>1, StepOfPass DEF PlainSteps, BeforeReading
  <2> QED
    BY <1>2, <2>1, <2>2 DEF ScrapeTablespaces, Passes, PlainSteps, BeforeReading, Idle, memory
<1>3. CASE ScrapeAllocation
  <2>1. pass.step = "allocation" /\ pass' = [pass EXCEPT !.step = "counters"]
    BY <1>3 DEF ScrapeAllocation, Goto
  <2>2. pass' = [step |-> "counters", at |-> pass.at] /\ pass.at \in Nat
    BY <1>1, <2>1, StepOfPass DEF PlainSteps, BeforeReading
  <2> QED
    BY <1>3, <2>1, <2>2 DEF ScrapeAllocation, Passes, PlainSteps, BeforeReading, Idle, memory
<1>4. CASE ScrapeCounters
  <2>1. pass.step = "counters" /\ pass' = [pass EXCEPT !.step = "dataguard"]
    BY <1>4 DEF ScrapeCounters, Goto
  <2>2. pass' = [step |-> "dataguard", at |-> pass.at] /\ pass.at \in Nat
    BY <1>1, <2>1, StepOfPass DEF PlainSteps, BeforeReading
  <2> QED
    BY <1>4, <2>1, <2>2 DEF ScrapeCounters, Passes, PlainSteps, BeforeReading, Idle
<1>5. CASE Discover
  <2>1. pass.step = "dataguard" /\ UNCHANGED <<clock, tick, oracle, last, repository>>
    BY <1>5 DEF Discover, memory
  <2>2. pass = [step |-> "dataguard", at |-> pass.at] /\ pass.at \in Nat
    BY <1>1, <2>1, StepOfPass DEF PlainSteps, BeforeReading
  <2>3. \/ role # "none" /\ pass' = [step |-> "destinations", at |-> pass.at, seen |-> role, ok |-> TRUE]
        \/ pass' = [pass EXCEPT !.step = "write"]
    BY <1>5 DEF Discover, Goto
  <2>4. CASE role # "none" /\ pass' = [step |-> "destinations", at |-> pass.at, seen |-> role, ok |-> TRUE]
    BY <2>1, <2>2, <2>4 DEF TypeOK, Passes, Asking, BeforeReading, Idle
  <2>5. CASE pass' = [pass EXCEPT !.step = "write"]
    BY <2>1, <2>2, <2>5 DEF Passes, PlainSteps, BeforeReading, Idle
  <2> QED
    BY <2>3, <2>4, <2>5
<1>6. ASSUME NEW step \in {"destinations", "lag", "processes"}, NEW next \in Asking,
             NEW row, NEW all, Query(step, row, all, next)
      PROVE  /\ pass' \in Passes
             /\ pass # Idle /\ pass' # Idle
             /\ pass'.at = pass.at
             /\ pass'.step \in BeforeReading => pass.step \in BeforeReading
             /\ UNCHANGED <<clock, tick, oracle, last, repository>>
  <2>1. /\ pass.step = step
        /\ \E ok \in BOOLEAN : pass' = [pass EXCEPT !.step = next, !.ok = @ /\ ok]
        /\ UNCHANGED <<clock, tick, oracle, last, repository>>
    BY <1>6 DEF Query, memory
  <2>2. /\ pass = [step |-> step, at |-> pass.at, seen |-> pass.seen, ok |-> pass.ok]
        /\ pass.at \in Nat /\ pass.seen \in Roles \ {"none"} /\ pass.ok \in BOOLEAN
    BY <1>1, <1>6, <2>1, StepOfPass DEF Asking
  <2>3. PICK ok \in BOOLEAN : pass' = [pass EXCEPT !.step = next, !.ok = @ /\ ok]
    BY <2>1
  <2>4. pass' = [step |-> next, at |-> pass.at, seen |-> pass.seen, ok |-> pass.ok /\ ok]
    BY <2>2, <2>3
  <2>5. (pass.ok /\ ok) \in BOOLEAN
    OBVIOUS
  <2> QED
    BY <1>6, <2>1, <2>2, <2>4, <2>5 DEF Passes, Asking, BeforeReading, Idle
<1>7. CASE ScrapeDestinations
  BY <1>6, <1>7 DEF ScrapeDestinations, Asking
<1>8. CASE ScrapeLag
  BY <1>6, <1>8 DEF ScrapeLag, Asking
<1>9. CASE ScrapeProcesses
  BY <1>6, <1>9 DEF ScrapeProcesses, Asking
<1>10. CASE DataGuardStatus
  <2>1. pass.step = "status" /\ pass' = [step |-> "write", at |-> pass.at]
    BY <1>10 DEF DataGuardStatus
  <2>2. pass.at \in Nat
    BY <1>1, <2>1, StepOfPass DEF Asking
  <2> QED
    BY <1>10, <2>1, <2>2 DEF DataGuardStatus, Passes, PlainSteps, BeforeReading, Idle, memory
<1> QED
  BY <1>2, <1>3, <1>4, <1>5, <1>7, <1>8, <1>9, <1>10 DEF Scrape

\* What the steps of the collections do to the batch.
Put(v, c, rows, status) == [batch EXCEPT !.rows[v] = rows, !.status[c] = status]
PutStatus(c, status) == [batch EXCEPT !.status[c] = status]
PutRows(v, rows) == [batch EXCEPT !.rows[v] = rows]

\* An empty batch has it.
LEMMA EmptyBatch ==
    ASSUME batch = NoBatch
    PROVE  BatchShape /\ batch.rows["dataguard"] = {}
BY DEF NoBatch, BatchShape, Views

\* Replacing the rows of a view and the status of a collection.
LEMMA Replaced ==
    ASSUME BatchShape, NEW v \in Views, NEW c \in Collections, NEW rows, NEW status,
           batch' = Put(v, c, rows, status)
    PROVE  /\ BatchShape'
           /\ batch'.rows[v] = rows
           /\ \A w \in Views \ {v} : batch'.rows[w] = batch.rows[w]
           /\ batch'.status[c] = status
           /\ \A d \in Collections \ {c} : batch'.status[d] = batch.status[d]
<1>1. batch' = [rows |-> [batch.rows EXCEPT ![v] = rows],
                status |-> [batch.status EXCEPT ![c] = status]]
  BY DEF BatchShape, Put
<1>2. batch.rows = [w \in Views |-> batch.rows[w]] /\ batch.status = [d \in Collections |-> batch.status[d]]
  BY DEF BatchShape
<1>3. batch'.rows = [w \in Views |-> IF w = v THEN rows ELSE batch.rows[w]]
  BY <1>1, <1>2
<1>4. batch'.status = [d \in Collections |-> IF d = c THEN status ELSE batch.status[d]]
  BY <1>1, <1>2
<1>5. BatchShape'
  BY <1>1, <1>3, <1>4 DEF BatchShape
<1> QED
  BY <1>3, <1>4, <1>5

\* Replacing a status.
LEMMA StatusReplaced ==
    ASSUME BatchShape, NEW c \in Collections, NEW status,
           batch' = PutStatus(c, status)
    PROVE  /\ BatchShape'
           /\ batch'.rows = batch.rows
           /\ batch'.status[c] = status
           /\ \A d \in Collections \ {c} : batch'.status[d] = batch.status[d]
<1>1. batch' = [rows |-> batch.rows, status |-> [batch.status EXCEPT ![c] = status]]
  BY DEF BatchShape, PutStatus
<1> QED
  BY <1>1 DEF BatchShape

\* Replacing rows.
LEMMA RowsReplaced ==
    ASSUME BatchShape, NEW v \in Views, NEW rows,
           batch' = PutRows(v, rows)
    PROVE  /\ BatchShape'
           /\ batch'.status = batch.status
           /\ batch'.rows[v] = rows
           /\ \A w \in Views \ {v} : batch'.rows[w] = batch.rows[w]
<1>1. batch' = [rows |-> [batch.rows EXCEPT ![v] = rows], status |-> batch.status]
  BY DEF BatchShape, PutRows
<1> QED
  BY <1>1 DEF BatchShape

\* The shape is kept by every step of the collections.
LEMMA ShapeKept ==
    ASSUME BatchShape, Scrape
    PROVE  BatchShape'
<1>1. "tablespaces" \in Views /\ "dataguard" \in Views
      /\ "tablespaces" \in Collections /\ "allocation" \in Collections
      /\ "counters" \in Collections /\ "dataguard" \in Collections
  BY DEF Views, Collections
<1>2. CASE ScrapeTablespaces
  <2>1. \E rows, status :
          batch' = Put("tablespaces", "tablespaces", rows, status)
    BY <1>2 DEF ScrapeTablespaces, Listed, Put
  <2> QED
    BY <1>1, <2>1, Replaced
<1>3. CASE ScrapeAllocation
  <2>1. \E rows, status :
          batch' = Put("tablespaces", "allocation", rows, status)
    BY <1>3 DEF ScrapeAllocation, Put
  <2> QED
    BY <1>1, <2>1, Replaced
<1>4. CASE ScrapeCounters
  BY <1>1, <1>4, StatusReplaced DEF ScrapeCounters, PutStatus
<1>5. CASE Discover
  <2>1. \/ batch' = batch
        \/ \E rows, status :
             batch' = Put("dataguard", "dataguard", rows, status)
    BY <1>5 DEF Discover, Listed, Put
  <2>2. CASE batch' = batch
    BY <2>2 DEF BatchShape
  <2>3. CASE \E rows, status :
               batch' = Put("dataguard", "dataguard", rows, status)
    BY <1>1, <2>3, Replaced
  <2> QED
    BY <2>1, <2>2, <2>3
<1>6. ASSUME NEW step, NEW next, NEW row, NEW all, Query(step, row, all, next)
      PROVE  BatchShape'
  <2>1. \E rows : batch' = PutRows("dataguard", rows)
    BY <1>6 DEF Query, PutRows
  <2> QED
    BY <1>1, <2>1, RowsReplaced
<1>7. CASE ScrapeDestinations \/ ScrapeLag \/ ScrapeProcesses
  BY <1>6, <1>7 DEF ScrapeDestinations, ScrapeLag, ScrapeProcesses
<1>8. CASE DataGuardStatus
  BY <1>1, <1>8, Replaced DEF DataGuardStatus, Listed, Put
<1> QED
  BY <1>2, <1>3, <1>4, <1>5, <1>7, <1>8 DEF Scrape

\* Types and order are kept by every step.
LEMMA OrderKept ==
    ASSUME TypeOK, Order, [Next]_vars
    PROVE  TypeOK' /\ Order'
<1> USE DEF BatchShape
<1>1. ASSUME NEW c \in Counters, Works(c) \/ InstanceRestarts(c) PROVE TypeOK' /\ Order'
  BY <1>1 DEF Works, InstanceRestarts, TypeOK, Order, memory, repository
<1>2. ASSUME NEW t \in Tablespaces, TablespaceChanges(t) PROVE TypeOK' /\ Order'
  BY <1>2 DEF TablespaceChanges, TypeOK, Order, memory, repository
<1>3. ASSUME NEW r \in Roles, RoleChanges(r) PROVE TypeOK' /\ Order'
  BY <1>3 DEF RoleChanges, TypeOK, Order, memory, repository
<1>4. CASE TimePasses
  BY <1>4 DEF TimePasses, TypeOK, Order, memory, repository, oracle
<1>5. ASSUME NEW at \in 1 .. MaxTime, Begin(at) PROVE TypeOK' /\ Order'
  <2>1. /\ pass = Idle /\ last' = at /\ pass' = [step |-> "tablespaces", at |-> at]
        /\ last = 0 \/ at >= last + Interval
        /\ \/ tick # 0 /\ at = tick /\ tick' = 0
           \/ at = clock /\ tick' = tick
        /\ UNCHANGED <<clock, present, role, batch, newest>>
    BY <1>5 DEF Begin, BeginsAt, ShouldCollect, oracle, repository
  <2>2. at \in Nat /\ at # 0 /\ newest < at /\ at <= clock
    BY <2>1, Constants, OperationalAssumption DEF TypeOK, Order
  <2>3. pass' \in Passes /\ pass'.at = at
    BY <2>1, <2>2 DEF Passes, PlainSteps, BeforeReading
  <2>4. TypeOK'
    BY <2>1, <2>2, <2>3 DEF TypeOK
  <2>5. Order'
    BY <2>1, <2>2, <2>3 DEF TypeOK, Order
  <2> QED
    BY <2>4, <2>5
<1>6. CASE PassWithout
  BY <1>6 DEF PassWithout, TypeOK, Order, memory, repository, oracle
<1>7. CASE Scrape
  <2>1. /\ pass' \in Passes /\ pass # Idle /\ pass' # Idle /\ pass'.at = pass.at
        /\ UNCHANGED <<clock, tick, present, role, last, newest>>
    BY <1>7, PassMoves DEF oracle, repository
  <2>2. BatchShape'
    BY <1>7, ShapeKept DEF TypeOK
  <2> QED
    BY <2>1, <2>2 DEF TypeOK, Order
<1>8. CASE Write
  <2>1. /\ pass.step = "write" /\ pass' = Idle /\ batch' = NoBatch /\ newest' = pass.at
        /\ UNCHANGED <<clock, tick, present, role, last>>
    BY <1>8 DEF Write, oracle, memory
  <2>2. pass # Idle /\ pass.at = last /\ last \in Nat
    BY <2>1 DEF Idle, Order, TypeOK
  <2>3. BatchShape'
    BY <2>1 DEF NoBatch
  <2> QED
    BY <2>1, <2>2, <2>3 DEF TypeOK, Order, Passes
<1>9. CASE WriteFails
  <2>1. BatchShape'
    BY <1>9 DEF NoBatch, WriteFails
  <2> QED
    BY <1>9, <2>1 DEF WriteFails, oracle, memory, repository, TypeOK, Order, Passes
<1>10. CASE ProcessRestarts
  <2>1. BatchShape'
    BY <1>10 DEF NoBatch, ProcessRestarts
  <2> QED
    BY <1>10, <2>1 DEF ProcessRestarts, oracle, repository, TypeOK, Order, Passes
<1>11. CASE UNCHANGED vars
  BY <1>11 DEF vars, oracle, memory, repository, TypeOK, Order
<1> QED
  BY <1>1, <1>2, <1>3, <1>4, <1>5, <1>6, <1>7, <1>8, <1>9, <1>10, <1>11 DEF Next

-----------------------------------------------------------------------------
(* The counters.                                                           *)

\* The readings of a collection of the counters.
ReadAt(read) ==
    /\ snapshot' = [c \in Counters |-> IF c \in read THEN NewSnapshot(c) ELSE snapshot[c]]
    /\ fresh' = [c \in Counters |-> IF c \in read THEN 0 ELSE fresh[c]]
    /\ restarted' = restarted \ read

\* The counters and the readings are kept by every step.
LEMMA CountedKept ==
    ASSUME TypeOK, Order, CounterTypes, Counted, [Next]_vars
    PROVE  CounterTypes' /\ Counted'
<1>1. TypeOK' /\ Order'
  BY OrderKept
<1>2. ASSUME NEW c \in Counters, Works(c) PROVE CounterTypes' /\ Counted'
  <2>1. /\ counter' = [counter EXCEPT ![c] = @ + 1]
        /\ fresh' = IF Known(c) THEN [fresh EXCEPT ![c] = @ + 1] ELSE fresh
        /\ UNCHANGED <<restarted, last, snapshot, pass>>
    BY <1>2 DEF Works, memory
  <2>2. CounterTypes'
    BY <2>1 DEF CounterTypes
  <2> QED
    BY <2>1, <2>2 DEF CounterTypes, Counted, Known
<1>3. ASSUME NEW c \in Counters, InstanceRestarts(c) PROVE CounterTypes' /\ Counted'
  <2>1. /\ counter' = [counter EXCEPT ![c] = 0]
        /\ restarted' = IF Known(c) THEN restarted \union {c} ELSE restarted
        /\ UNCHANGED <<fresh, last, snapshot, pass>>
    BY <1>3 DEF InstanceRestarts, memory
  <2>2. CounterTypes'
    BY <2>1 DEF CounterTypes
  <2> QED
    BY <2>1, <2>2 DEF CounterTypes, Counted, Known
<1>4. ASSUME UNCHANGED <<counter, fresh, restarted, last, snapshot>>,
             pass'.step \in BeforeReading => pass.step \in BeforeReading
      PROVE  CounterTypes' /\ Counted'
  BY <1>4 DEF CounterTypes, Counted, Known
<1>5. ASSUME NEW at \in 1 .. MaxTime, Begin(at) PROVE CounterTypes' /\ Counted'
  <2>1. /\ last' = at /\ pass' = [step |-> "tablespaces", at |-> at]
        /\ last = 0 \/ at >= last + Interval
        /\ UNCHANGED <<counter, fresh, restarted, snapshot>>
    BY <1>5 DEF Begin, ShouldCollect, oracle, ghosts
  <2>2. CounterTypes' /\ at \in Nat /\ Interval \in Nat /\ last \in Nat
    BY <2>1, OperationalAssumption DEF CounterTypes, TypeOK
  <2>3. ASSUME NEW c \in Counters
        PROVE  /\ snapshot[c].at <= last' /\ snapshot[c].at \in Nat
               /\ Known(c) => snapshot[c].at + Interval <= last'
    BY <2>1, <2>2 DEF CounterTypes, Counted, Known
  <2> QED
    BY <2>1, <2>2, <2>3 DEF Counted, Known
<1>6. CASE ScrapeCounters
  <2>1. PICK read \in SUBSET Counters : ReadAt(read)
    BY <1>6 DEF ScrapeCounters, ReadAt
  <2>2. /\ pass.step = "counters" /\ pass' = [pass EXCEPT !.step = "dataguard"]
        /\ UNCHANGED <<counter, last>>
    BY <1>6 DEF ScrapeCounters, oracle, Goto
  <2>3. pass.at = last /\ last \in Nat /\ pass'.step = "dataguard"
    <3>1. pass = [step |-> pass.step, at |-> pass.at] /\ pass # Idle
      BY <2>2, StepOfPass DEF TypeOK, PlainSteps, BeforeReading
    <3> QED
      BY <2>2, <3>1 DEF TypeOK, Order
  <2>4. CounterTypes'
    BY <2>1, <2>2, <2>3 DEF ReadAt, CounterTypes, NewSnapshot
  <2>5. ASSUME NEW c \in Counters
        PROVE  /\ c \in read => snapshot'[c] = [at |-> last, value |-> counter[c]] /\ fresh'[c] = 0 /\ c \notin restarted'
               /\ c \notin read => snapshot'[c] = snapshot[c] /\ fresh'[c] = fresh[c] /\ (c \in restarted' <=> c \in restarted)
    BY <2>1, <2>3 DEF ReadAt, NewSnapshot
  <2> QED
    BY <2>2, <2>3, <2>4, <2>5 DEF CounterTypes, Counted, Known, BeforeReading
<1>7. CASE Scrape /\ ~ScrapeCounters
  <2>1. UNCHANGED <<counter, fresh, restarted, last, snapshot>>
    BY <1>7 DEF Scrape, ScrapeTablespaces, ScrapeAllocation, Discover, ScrapeDestinations,
                ScrapeLag, ScrapeProcesses, Query, DataGuardStatus, oracle, ghosts, memory
  <2> QED
    BY <1>4, <1>7, <2>1, PassMoves
<1>8. CASE ProcessRestarts
  <2>1. /\ snapshot' = [c \in Counters |-> NoSnapshot] /\ last' = 0 /\ counter' = counter
        /\ fresh' = [c \in Counters |-> 0] /\ restarted' = {}
    BY <1>8 DEF ProcessRestarts, oracle
  <2> QED
    BY <2>1 DEF CounterTypes, Counted, Known, NoSnapshot
<1>9. CASE Write \/ WriteFails
  BY <1>4, <1>9 DEF Write, WriteFails, oracle, ghosts, memory, Idle, BeforeReading
<1>10. CASE TimePasses \/ PassWithout \/ \E t \in Tablespaces : TablespaceChanges(t)
  BY <1>4, <1>10 DEF TimePasses, PassWithout, TablespaceChanges, oracle, ghosts, memory
<1>11. CASE \E r \in Roles : RoleChanges(r)
  BY <1>4, <1>11 DEF RoleChanges, oracle, ghosts, memory
<1>12. CASE UNCHANGED vars
  BY <1>4, <1>12 DEF vars, oracle, ghosts, memory
<1> QED
  BY <1>2, <1>3, <1>5, <1>6, <1>7, <1>8, <1>9, <1>10, <1>11, <1>12 DEF Next

\* What the invariant says of the rows of one collection of the counters.
LEMMA DeltasOfAStep ==
    ASSUME TypeOK, Order, CounterTypes, Counted, [Next]_vars,
           NEW c \in Counters, snapshot'[c].at # 0, snapshot'[c] # snapshot[c]
    PROVE  /\ Delta(c).delta >= 0 =>
                /\ Delta(c).interval >= Interval
                /\ Delta(c).delta <= fresh[c]
                /\ c \notin restarted => Delta(c).delta = fresh[c]
           /\ Delta(c).reset => c \in restarted
           /\ Delta(c).delta < 0 => ~Known(c) \/ Delta(c).reset
<1>1. ScrapeCounters
  <2>1. snapshot' # snapshot
    OBVIOUS
  <2>2. CASE Scrape
    BY <2>1, <2>2 DEF Scrape, ScrapeTablespaces, ScrapeAllocation, Discover, ScrapeDestinations,
                ScrapeLag, ScrapeProcesses, Query, DataGuardStatus, memory
  <2>3. CASE ProcessRestarts
    BY <2>3 DEF ProcessRestarts, NoSnapshot
  <2> QED
    BY <2>1, <2>2, <2>3 DEF Next, Works, InstanceRestarts, TablespaceChanges, RoleChanges, TimePasses,
                Begin, PassWithout, Write, WriteFails, vars, memory
<1>2. pass.step = "counters" /\ pass.at = last /\ last \in Nat
  <2>1. pass.step = "counters" /\ pass # Idle
    BY <1>1 DEF ScrapeCounters, Idle
  <2> QED
    BY <2>1 DEF Order, TypeOK
<1>3. /\ counter[c] \in Nat /\ fresh[c] \in Nat /\ snapshot[c].at \in Nat /\ snapshot[c].value \in Nat
      /\ Known(c) => snapshot[c].at + Interval <= last
      /\ Known(c) /\ c \notin restarted => counter[c] = snapshot[c].value + fresh[c]
      /\ Known(c) /\ c \in restarted => counter[c] <= fresh[c]
  BY <1>2 DEF CounterTypes, Counted, BeforeReading
<1>4. Interval \in Nat \ {0}
  BY Constants
<1>5. CASE ~Known(c)
  <2>1. Delta(c).delta = -1 /\ Delta(c).reset = FALSE
    BY <1>5 DEF Delta, Known
  <2> QED
    BY <1>5, <2>1
<1>6. CASE Known(c)
  <2>1. ~(snapshot[c].at = 0 \/ pass.at <= snapshot[c].at)
    BY <1>2, <1>3, <1>4, <1>6 DEF Known
  <2>2. Delta(c).interval = last - snapshot[c].at /\ Delta(c).interval >= Interval
    BY <1>2, <1>3, <1>4, <1>6, <2>1 DEF Delta
  <2>3. CASE counter[c] < snapshot[c].value
    <3>1. Delta(c).delta = -1 /\ Delta(c).reset = TRUE
      BY <2>1, <2>3 DEF Delta
    <3>2. c \in restarted
      BY <1>3, <1>6, <2>3
    <3> QED
      BY <3>1, <3>2
  <2>4. CASE ~(counter[c] < snapshot[c].value)
    <3>1. Delta(c).delta = counter[c] - snapshot[c].value /\ Delta(c).reset = FALSE
      BY <2>1, <2>4 DEF Delta
    <3> QED
      BY <1>3, <1>6, <2>2, <2>4, <3>1
  <2> QED
    BY <2>3, <2>4
<1> QED
  BY <1>5, <1>6

-----------------------------------------------------------------------------
(* The list of the tablespaces.                                            *)

Names(rows) == {r.name : r \in rows}
ListOf(names) == {[name |-> t, allocated |-> FALSE] : t \in names}

\* The list that scrapeTablespaces makes of what it has read.
LEMMA NewList ==
    ASSUME NEW names \in SUBSET Tablespaces
    PROVE  /\ IsFiniteSet(ListOf(names)) /\ ListOf(names) \subseteq Rows
           /\ \A r \in ListOf(names) : ~r.allocated
           /\ Names(ListOf(names)) = names
<1> DEFINE f == [t \in names |-> [name |-> t, allocated |-> FALSE]]
<1>1. IsFiniteSet(names)
  BY Constants, FS_Subset
<1>2. f \in Surjection(names, ListOf(names))
  BY DEF Surjection, ListOf
<1>3. IsFiniteSet(ListOf(names))
  BY <1>1, <1>2, FS_Surjection
<1>4. ASSUME NEW t \in names
      PROVE  f[t] \in Rows /\ ~f[t].allocated /\ f[t].name = t
  BY DEF Rows
<1>5. ListOf(names) = {f[t] : t \in names}
  BY DEF ListOf
<1> HIDE DEF f
<1>6. ListOf(names) \subseteq Rows /\ \A r \in ListOf(names) : ~r.allocated
  BY <1>4, <1>5
<1>7. Names(ListOf(names)) = names
  BY <1>4, <1>5 DEF Names
<1> QED
  BY <1>3, <1>6, <1>7

\* applyTablespaceAllocation completes the rows of a list, and adds and loses none.
LEMMA Applied ==
    ASSUME NEW list \in SUBSET Rows, IsFiniteSet(list), \A r \in list : ~r.allocated,
           NEW allocations
    PROVE  /\ IsFiniteSet(Apply(list, allocations)) /\ Apply(list, allocations) \subseteq Rows
           /\ Cardinality(Apply(list, allocations)) = Cardinality(list)
           /\ Names(Apply(list, allocations)) = Names(list)
<1> DEFINE done(r) == IF r.name \in allocations THEN [r EXCEPT !.allocated = TRUE] ELSE r
           f == [r \in list |-> done(r)]
<1>1. ASSUME NEW r \in list
      PROVE  /\ r = [name |-> r.name, allocated |-> FALSE] /\ r.name \in Tablespaces
             /\ done(r) \in Rows /\ done(r).name = r.name
  <2>1. r \in Rows /\ r.allocated \in BOOLEAN /\ ~r.allocated
    BY DEF Rows
  <2>2. r = [name |-> r.name, allocated |-> FALSE] /\ r.name \in Tablespaces
    BY <2>1 DEF Rows
  <2>3. CASE r.name \in allocations
    <3>1. done(r) = [name |-> r.name, allocated |-> TRUE]
      BY <2>2, <2>3
    <3> QED
      BY <2>2, <3>1 DEF Rows
  <2>4. CASE r.name \notin allocations
    BY <2>1, <2>2, <2>4
  <2> QED
    BY <2>2, <2>3, <2>4
<1>2. Apply(list, allocations) = {done(r) : r \in list}
  BY DEF Apply
<1> HIDE DEF done
<1>3. f \in Surjection(list, Apply(list, allocations))
  BY <1>2 DEF Surjection
<1>4. f \in Injection(list, Apply(list, allocations))
  <2>1. \A r, q \in list : f[r] = f[q] => r = q
    <3> SUFFICES ASSUME NEW r \in list, NEW q \in list, f[r] = f[q] PROVE r = q
      OBVIOUS
    <3>1. done(r) = done(q)
      OBVIOUS
    <3>2. r.name = q.name
      BY <1>1, <3>1
    <3> QED
      BY <1>1, <3>2
  <2>2. f \in [list -> Apply(list, allocations)]
    BY <1>3 DEF Surjection
  <2> HIDE DEF f
  <2> QED
    BY <2>1, <2>2 DEF Injection, IsInjective
<1>5. IsFiniteSet(Apply(list, allocations)) /\ Cardinality(Apply(list, allocations)) = Cardinality(list)
  BY <1>3, <1>4, FS_Surjection
<1>6. Apply(list, allocations) \subseteq Rows
  BY <1>1, <1>2
<1>7. Names(Apply(list, allocations)) = Names(list)
  BY <1>1, <1>2 DEF Names
<1> QED
  BY <1>5, <1>6, <1>7

\* The list, its allocations and their statuses are kept by every step.
LEMMA ListKept ==
    ASSUME TypeOK, Order, ListCollected, [Next]_vars
    PROVE  ListCollected'
<1>1. BatchShape
  BY DEF TypeOK, BatchShape
<1>2. ASSUME UNCHANGED <<pass, batch, last>> PROVE ListCollected'
  BY <1>2 DEF ListCollected
<1>3. ASSUME pass'.step \in {"idle", "tablespaces"} PROVE ListCollected'
  BY <1>3 DEF ListCollected, BeforeReading
<1>4. ASSUME /\ pass.step \notin BeforeReading \union {"idle"}
             /\ pass'.step \notin BeforeReading \union {"idle"}
             /\ batch'.rows["tablespaces"] = batch.rows["tablespaces"]
             /\ \A c \in Collections \ {"dataguard"} : batch'.status[c] = batch.status[c]
             /\ last' = last
      PROVE  ListCollected'
  <2>1. /\ batch'.status["tablespaces"] = batch.status["tablespaces"]
        /\ batch'.status["allocation"] = batch.status["allocation"]
        /\ batch'.status["counters"] = batch.status["counters"]
    BY <1>4 DEF Collections
  <2> QED
    BY <1>4, <2>1 DEF ListCollected, BeforeReading
<1>5. /\ "tablespaces" \in Views /\ "dataguard" \in Views \ {"tablespaces"}
      /\ "tablespaces" \in Collections /\ "allocation" \in Collections
      /\ "counters" \in Collections /\ "dataguard" \in Collections
  BY DEF Views, Collections
<1>6. CASE ScrapeTablespaces
  <2>1. /\ pass.step = "tablespaces" /\ pass' = [pass EXCEPT !.step = "allocation"] /\ last' = last
    BY <1>6 DEF ScrapeTablespaces, Goto, memory
  <2>2. PICK rows \in SUBSET present, ok \in BOOLEAN :
          /\ ok => rows = present
          /\ batch' = Put("tablespaces", "tablespaces", ListOf(rows),
                       Status(Cardinality(ListOf(rows)), ok, present))
    BY <1>6 DEF ScrapeTablespaces, Listed, ListOf, Put
  <2>3. /\ batch'.rows["tablespaces"] = ListOf(rows)
        /\ batch'.status["tablespaces"] = Status(Cardinality(ListOf(rows)), ok, present)
    BY <1>1, <1>5, <2>2, Replaced
  <2>4. pass'.step = "allocation" /\ pass.at = last
    BY <2>1, StepOfPass DEF TypeOK, Order, Idle, PlainSteps, BeforeReading
  <2>5. /\ IsFiniteSet(ListOf(rows)) /\ ListOf(rows) \subseteq Rows
        /\ \A r \in ListOf(rows) : ~r.allocated
        /\ Names(ListOf(rows)) = rows
    BY NewList DEF TypeOK
  <2>6. ListTruthful(ListOf(rows), Status(Cardinality(ListOf(rows)), ok, present))
    BY <2>2, <2>5 DEF ListTruthful, Status, Names
  <2>7. Status(Cardinality(ListOf(rows)), ok, present).at = last
    BY <2>4 DEF Status
  <2> QED
    BY <2>1, <2>3, <2>4, <2>5, <2>6, <2>7 DEF ListCollected, BeforeReading
<1>7. CASE ScrapeAllocation
  <2>1. /\ pass.step = "allocation" /\ pass' = [pass EXCEPT !.step = "counters"] /\ last' = last
    BY <1>7 DEF ScrapeAllocation, Goto, memory
  <2> DEFINE old == batch.rows["tablespaces"]
             new == batch'.rows["tablespaces"]
  <2>2. PICK ok \in BOOLEAN, list \in {old, Apply(old, present)} :
          /\ list = IF ok THEN Apply(old, present) ELSE old
          /\ batch' = Put("tablespaces", "allocation", list,
                       Status(Cardinality({r \in list : r.allocated}), ok, {}))
    BY <1>7 DEF ScrapeAllocation, Put
  <2>3. /\ new = list
        /\ batch'.status["allocation"] = Status(Cardinality({r \in list : r.allocated}), ok, {})
        /\ batch'.status["tablespaces"] = batch.status["tablespaces"]
    <3>1. "tablespaces" \in Collections \ {"allocation"}
      BY DEF Collections
    <3> QED
      BY <1>1, <1>5, <2>2, <3>1, Replaced
  <2>4. pass'.step = "counters" /\ pass.at = last
    BY <2>1, StepOfPass DEF TypeOK, Order, Idle, PlainSteps, BeforeReading
  <2>5. /\ IsFiniteSet(old) /\ old \subseteq Rows /\ \A r \in old : ~r.allocated
        /\ batch.status["tablespaces"].at = last
        /\ ListTruthful(old, batch.status["tablespaces"])
    BY <2>1 DEF ListCollected
  <2>6. /\ IsFiniteSet(new) /\ new \subseteq Rows
        /\ Cardinality(new) = Cardinality(old) /\ Names(new) = Names(old)
    <3> HIDE DEF old, new
    <3>1. /\ IsFiniteSet(Apply(old, present)) /\ Apply(old, present) \subseteq Rows
          /\ Cardinality(Apply(old, present)) = Cardinality(old)
          /\ Names(Apply(old, present)) = Names(old)
      <4>1. old \in SUBSET Rows /\ IsFiniteSet(old) /\ \A r \in old : ~r.allocated
        BY <2>5
      <4> QED
        BY <4>1, Applied
    <3>2. new = Apply(old, present) \/ new = old
      BY <2>2, <2>3
    <3> QED
      BY <2>5, <3>1, <3>2
  <2>7. ListTruthful(new, batch'.status["tablespaces"])
    BY <2>3, <2>5, <2>6 DEF ListTruthful, Names
  <2>8. AllocationTruthful(new, batch'.status["allocation"]) /\ batch'.status["allocation"].at = last
    BY <2>3, <2>4 DEF AllocationTruthful, Status
  <2> QED
    BY <2>1, <2>3, <2>4, <2>5, <2>6, <2>7, <2>8 DEF ListCollected, BeforeReading
<1>8. CASE ScrapeCounters
  <2>1. /\ pass.step = "counters" /\ pass' = [pass EXCEPT !.step = "dataguard"] /\ last' = last
        /\ \E count, ok : batch' = PutStatus("counters", Status(count, ok, {}))
    BY <1>8 DEF ScrapeCounters, Goto, PutStatus
  <2>2. PICK count, ok : batch' = PutStatus("counters", Status(count, ok, {}))
    BY <2>1
  <2>3. /\ batch'.rows = batch.rows
        /\ batch'.status["counters"] = Status(count, ok, {})
        /\ batch'.status["tablespaces"] = batch.status["tablespaces"]
        /\ batch'.status["allocation"] = batch.status["allocation"]
    <3>1. "tablespaces" \in Collections \ {"counters"} /\ "allocation" \in Collections \ {"counters"}
      BY DEF Collections
    <3> QED
      BY <1>1, <1>5, <2>2, <3>1, StatusReplaced
  <2>4. pass'.step = "dataguard" /\ pass.at = last
    BY <2>1, StepOfPass DEF TypeOK, Order, Idle, PlainSteps, BeforeReading
  <2>5. batch'.status["counters"].at = last
    BY <2>3, <2>4 DEF Status
  <2> QED
    BY <2>1, <2>3, <2>4, <2>5 DEF ListCollected, BeforeReading
<1>9. CASE Discover
  <2>1. /\ pass.step = "dataguard" /\ last' = last
        /\ \/ pass' = [step |-> "destinations", at |-> pass.at, seen |-> role, ok |-> TRUE] /\ batch' = batch
           \/ /\ pass' = [pass EXCEPT !.step = "write"]
              /\ \E rows, status :
                   batch' = Put("dataguard", "dataguard", rows, status)
    BY <1>9 DEF Discover, Goto, memory, Listed, Put
  <2>2. pass'.step \in {"destinations", "write"}
    <3>1. pass = [step |-> pass.step, at |-> pass.at]
      BY <2>1, StepOfPass DEF TypeOK, PlainSteps, BeforeReading
    <3> QED
      BY <2>1, <3>1
  <2>3. /\ batch'.rows["tablespaces"] = batch.rows["tablespaces"]
        /\ \A c \in Collections \ {"dataguard"} : batch'.status[c] = batch.status[c]
    <3>1. CASE batch' = batch
      BY <3>1
    <3>2. CASE \E rows, status :
                 batch' = Put("dataguard", "dataguard", rows, status)
      BY <1>1, <1>5, <3>2, Replaced
    <3> QED
      BY <2>1, <3>1, <3>2
  <2> QED
    BY <1>4, <2>1, <2>2, <2>3 DEF BeforeReading
<1>10. ASSUME NEW step \in {"destinations", "lag", "processes"}, NEW next \in Asking,
              NEW row, NEW all, Query(step, row, all, next)
       PROVE  ListCollected'
  <2>1. /\ pass.step = step /\ last' = last
        /\ \E rows : batch' = PutRows("dataguard", rows)
        /\ \E ok \in BOOLEAN : pass' = [pass EXCEPT !.step = next, !.ok = @ /\ ok]
    BY <1>10 DEF Query, memory, PutRows
  <2>2. pass'.step = next
    BY <1>10, <2>1, StepOfPass DEF TypeOK, Asking
  <2>3. /\ batch'.rows["tablespaces"] = batch.rows["tablespaces"] /\ batch'.status = batch.status
    BY <1>1, <1>5, <2>1, RowsReplaced
  <2> QED
    BY <1>4, <1>10, <2>1, <2>2, <2>3 DEF BeforeReading, Asking
<1>11. CASE ScrapeDestinations \/ ScrapeLag \/ ScrapeProcesses
  BY <1>10, <1>11 DEF ScrapeDestinations, ScrapeLag, ScrapeProcesses, Asking
<1>12. CASE DataGuardStatus
  <2>1. /\ pass.step = "status" /\ last' = last /\ pass' = [step |-> "write", at |-> pass.at]
        /\ \E rows, status :
             batch' = Put("dataguard", "dataguard", rows, status)
    BY <1>12 DEF DataGuardStatus, Listed, memory, Put
  <2>2. /\ batch'.rows["tablespaces"] = batch.rows["tablespaces"]
        /\ \A c \in Collections \ {"dataguard"} : batch'.status[c] = batch.status[c]
    BY <1>1, <1>5, <2>1, Replaced
  <2> QED
    BY <1>4, <2>1, <2>2 DEF BeforeReading
<1>13. CASE Scrape
  BY <1>6, <1>7, <1>8, <1>9, <1>11, <1>12, <1>13 DEF Scrape
<1>14. CASE Write \/ WriteFails \/ ProcessRestarts
  BY <1>3, <1>14 DEF Write, WriteFails, ProcessRestarts, Idle
<1>15. ASSUME NEW at \in 1 .. MaxTime, Begin(at) PROVE ListCollected'
  BY <1>3, <1>15 DEF Begin
<1> QED
  BY <1>2, <1>13, <1>14, <1>15
     DEF Next, Works, InstanceRestarts, TablespaceChanges, RoleChanges, TimePasses, PassWithout, vars, memory

-----------------------------------------------------------------------------
(* The Data Guard collection.                                              *)

\* What a query adds in a database that keeps its role.
Added(row, next) ==
    /\ pass'.step = next /\ pass'.seen = pass.seen
    /\ UNCHANGED <<role, roles, last>>
    /\ role \in roles /\ pass.seen \in roles
    /\ \A r \in Roles : roles = {r} =>
         /\ batch'.rows["dataguard"] \subseteq (Asked \union {row}) \intersect DataGuardRows(r)
         /\ pass'.ok => batch'.rows["dataguard"] = (Asked \union {row}) \intersect DataGuardRows(r)
QueryOf(step, row, next) == \E all \in BOOLEAN : Query(step, row, all, next)

\* A query adds its row.
LEMMA QueryAdds ==
    ASSUME TypeOK, DataGuardCollected,
           NEW step \in {"destinations", "lag", "processes"}, NEW next \in Asking,
           NEW row, QueryOf(step, row, next)
    PROVE  Added(row, next)
<1> DEFINE rows == batch.rows["dataguard"]
           new == batch'.rows["dataguard"]
<1>1. PICK got \in BOOLEAN, ok \in BOOLEAN :
        /\ got => row \in DataGuardRows(role)
        /\ ok => (got <=> row \in DataGuardRows(role))
        /\ batch' = PutRows("dataguard", IF got THEN rows \union {row} ELSE rows)
        /\ pass' = [pass EXCEPT !.step = next, !.ok = @ /\ ok]
  BY DEF QueryOf, Query, PutRows
<1>2. pass.step = step /\ UNCHANGED <<role, roles, last>>
  BY DEF QueryOf, Query, oracle, ghosts, memory
<1>3. new = IF got THEN rows \union {row} ELSE rows
  <2>1. "dataguard" \in Views /\ BatchShape
    BY DEF Views, TypeOK, BatchShape
  <2> QED
    BY <1>1, <2>1, RowsReplaced
<1>4. /\ pass = [step |-> step, at |-> pass.at, seen |-> pass.seen, ok |-> pass.ok]
      /\ pass.ok \in BOOLEAN
  BY <1>2, StepOfPass DEF TypeOK, Asking
<1>5. pass' = [step |-> next, at |-> pass.at, seen |-> pass.seen, ok |-> pass.ok /\ ok]
  BY <1>1, <1>4
<1>6. /\ role \in roles /\ pass.seen \in roles
      /\ \A r \in Roles : roles = {r} =>
           /\ rows \subseteq Asked \intersect DataGuardRows(r)
           /\ pass.ok => rows = Asked \intersect DataGuardRows(r)
  BY <1>2 DEF DataGuardCollected, Asking
<1>7. ASSUME NEW r \in Roles, roles = {r}
      PROVE  /\ new \subseteq (Asked \union {row}) \intersect DataGuardRows(r)
             /\ pass'.ok => new = (Asked \union {row}) \intersect DataGuardRows(r)
  <2>1. role = r /\ rows \subseteq Asked \intersect DataGuardRows(r)
    BY <1>6, <1>7
  <2>2. new \subseteq (Asked \union {row}) \intersect DataGuardRows(r)
    BY <1>1, <1>3, <2>1
  <2>3. ASSUME pass'.ok PROVE new = (Asked \union {row}) \intersect DataGuardRows(r)
    <3>1. pass.ok /\ ok
      BY <1>5, <2>3
    <3>2. rows = Asked \intersect DataGuardRows(r)
      BY <1>6, <1>7, <3>1
    <3>3. got <=> row \in DataGuardRows(r)
      BY <1>1, <2>1, <3>1
    <3>4. CASE got
      BY <1>3, <3>2, <3>3, <3>4
    <3>5. CASE ~got
      BY <1>3, <3>2, <3>3, <3>5
    <3> QED
      BY <3>4, <3>5
  <2> QED
    BY <2>2, <2>3
<1> QED
  BY <1>2, <1>5, <1>6, <1>7 DEF Added

\* The Data Guard part of the batch is kept by every step.
LEMMA DataGuardKept ==
    ASSUME TypeOK, Order, DataGuardCollected, [Next]_vars
    PROVE  DataGuardCollected'
<1> DEFINE rows == batch.rows["dataguard"]
<1>1. TypeOK' /\ Order' /\ BatchShape
  BY OrderKept DEF TypeOK, BatchShape
<1>2. /\ "tablespaces" \in Views \ {"dataguard"} /\ "dataguard" \in Views \ {"tablespaces"}
      /\ "tablespaces" \in Collections /\ "allocation" \in Collections
      /\ "counters" \in Collections /\ "dataguard" \in Collections
  BY DEF Views, Collections
<1>3. ASSUME UNCHANGED <<pass, batch, last, role, roles>> PROVE DataGuardCollected'
  BY <1>3 DEF DataGuardCollected, Asked
<1>4. ASSUME pass' = Idle, batch' = NoBatch, roles' = {} PROVE DataGuardCollected'
  BY <1>4 DEF DataGuardCollected, Asking, BeforeReading, Idle
<1>5. ASSUME pass'.step \in BeforeReading \union {"dataguard"},
             batch'.rows["dataguard"] = {}, roles' = {}
      PROVE  DataGuardCollected'
  <2>1. pass' # Idle /\ pass'.step \notin Asking /\ pass'.step # "write"
    BY <1>5 DEF Asking, BeforeReading, Idle
  <2> QED
    BY <1>5, <2>1 DEF DataGuardCollected, Asking
<1>5a. ASSUME pass'.step \in {"lag", "processes", "status"}, UNCHANGED <<role, roles>>,
              role \in roles, pass'.seen \in roles,
              \A r \in Roles : roles = {r} =>
                /\ batch'.rows["dataguard"] \subseteq Asked' \intersect DataGuardRows(r)
                /\ pass'.ok => batch'.rows["dataguard"] = Asked' \intersect DataGuardRows(r),
              pass'.step = "lag" => pass'.seen # "primary",
              pass'.step = "processes" => pass'.seen = "physical standby"
       PROVE  DataGuardCollected'
  <2>1. pass'.step \in {"lag", "processes", "status"}
    BY <1>5a
  <2>2. /\ pass' # Idle /\ pass'.step \in Asking /\ pass'.step # "write"
        /\ pass'.step \notin BeforeReading \union {"dataguard", "destinations"}
    BY <2>1 DEF Asking, BeforeReading, Idle
  <2> QED
    BY <1>5a, <2>2 DEF DataGuardCollected
<1>6. ASSUME NEW r \in Roles, RoleChanges(r) PROVE DataGuardCollected'
  <2>1. /\ r # role /\ role' = r /\ UNCHANGED <<pass, batch, last>>
        /\ roles' = IF roles = {} THEN {} ELSE roles \union {r}
    BY <1>6 DEF RoleChanges, memory
  <2>2. CASE pass.step \notin Asking
    BY <2>1, <2>2 DEF DataGuardCollected, Asking
  <2>3. CASE pass.step \in Asking
    <3>1. role \in roles /\ pass.seen \in roles
      BY <2>3 DEF DataGuardCollected
    <3>2. roles' = roles \union {r} /\ \A q : roles' # {q}
      BY <2>1, <3>1
    <3> QED
      BY <2>1, <2>3, <3>1, <3>2 DEF DataGuardCollected, Asking
  <2> QED
    BY <2>2, <2>3
<1>7. ASSUME NEW at \in 1 .. MaxTime, Begin(at) PROVE DataGuardCollected'
  <2>1. pass = Idle /\ batch' = batch /\ roles' = roles /\ pass' = [step |-> "tablespaces", at |-> at]
    BY <1>7 DEF Begin, BeginsAt, ghosts
  <2>2. batch = NoBatch /\ roles = {}
    BY <2>1 DEF DataGuardCollected, Idle, Asking
  <2> QED
    BY <1>5, <2>1, <2>2, EmptyBatch DEF BeforeReading
<1>8. CASE ScrapeTablespaces \/ ScrapeAllocation \/ ScrapeCounters
  <2>1. /\ pass.step \in BeforeReading /\ roles' = roles
        /\ \E step \in {"allocation", "counters", "dataguard"} : pass' = [pass EXCEPT !.step = step]
    BY <1>8 DEF ScrapeTablespaces, ScrapeAllocation, ScrapeCounters, Goto, ghosts, BeforeReading
  <2>2. pass'.step \in {"allocation", "counters", "dataguard"}
    BY <2>1, StepOfPass DEF TypeOK, PlainSteps
  <2>3. batch'.rows["dataguard"] = batch.rows["dataguard"]
    <3>1. CASE ScrapeTablespaces
      <4>1. \E new, status : batch' = Put("tablespaces", "tablespaces", new, status)
        BY <3>1 DEF ScrapeTablespaces, Listed, Put
      <4> QED
        BY <1>1, <1>2, <4>1, Replaced
    <3>2. CASE ScrapeAllocation
      <4>1. \E new, status : batch' = Put("tablespaces", "allocation", new, status)
        BY <3>2 DEF ScrapeAllocation, Put
      <4> QED
        BY <1>1, <1>2, <4>1, Replaced
    <3>3. CASE ScrapeCounters
      <4>1. \E status : batch' = PutStatus("counters", status)
        BY <3>3 DEF ScrapeCounters, PutStatus
      <4> QED
        BY <1>1, <1>2, <4>1, StatusReplaced
    <3> QED
      BY <1>8, <3>1, <3>2, <3>3
  <2>4. rows = {} /\ roles = {}
    BY <2>1 DEF DataGuardCollected, Asking, BeforeReading
  <2> QED
    BY <1>5, <2>1, <2>2, <2>3, <2>4 DEF BeforeReading
<1>9. CASE Discover
  <2>1. pass.step = "dataguard" /\ role' = role /\ last' = last /\ rows = {} /\ roles = {}
    BY <1>9 DEF Discover, oracle, memory, DataGuardCollected, Asking
  <2>2. pass = [step |-> "dataguard", at |-> last]
    BY <2>1, StepOfPass DEF TypeOK, Order, PlainSteps, BeforeReading
  <2>3. CASE /\ pass' = [step |-> "destinations", at |-> pass.at, seen |-> role, ok |-> TRUE]
             /\ roles' = {role} /\ batch' = batch
    BY <2>1, <2>3 DEF DataGuardCollected, Asking, BeforeReading, Asked, Idle
  <2>4. CASE \E ok \in BOOLEAN :
               /\ ok => role = "none"
               /\ batch' = Put("dataguard", "dataguard", {}, Status(Cardinality({}), ok, {role}))
               /\ pass' = [pass EXCEPT !.step = "write"] /\ roles' = roles
    <3> DEFINE status(k) == Status(Cardinality({}), k, {role})
    <3>1. PICK ok \in BOOLEAN :
               /\ ok => role = "none"
               /\ batch' = Put("dataguard", "dataguard", {}, status(ok))
               /\ pass' = [pass EXCEPT !.step = "write"] /\ roles' = roles
      BY <2>4
    <3>2. batch'.rows["dataguard"] = {} /\ batch'.status["dataguard"] = status(ok)
      <4> HIDE DEF status
      <4> QED
        BY <1>1, <1>2, <3>1, Replaced
    <3>3. status(ok).at = last
      BY <2>2 DEF Status
    <3>4. DataGuardTruthful({}, status(ok))
      BY <3>1 DEF DataGuardTruthful, Status, DataGuardRows
    <3>5. pass' = [step |-> "write", at |-> last]
      BY <2>2, <3>1
    <3> QED
      BY <2>1, <3>1, <3>2, <3>3, <3>4, <3>5 DEF DataGuardCollected, Asking, BeforeReading, Idle
  <2> QED
    BY <1>9, <2>3, <2>4 DEF Discover, Listed, Put, Goto
<1>10. CASE ScrapeDestinations
  <2>1. PICK next \in {"status", "lag"} :
          /\ QueryOf("destinations", "destination", next)
          /\ next = IF pass.seen = "primary" THEN "status" ELSE "lag"
    BY <1>10 DEF ScrapeDestinations, QueryOf
  <2>2. pass.step = "destinations" /\ pass.seen \in Roles \ {"none"}
    BY <2>1, StepOfPass DEF QueryOf, Query, TypeOK, Asking
  <2>3. Added("destination", next)
    <3>1. "destinations" \in {"destinations", "lag", "processes"} /\ next \in Asking
      BY <2>1 DEF Asking
    <3> QED
      BY <2>1, <3>1, QueryAdds
  <2>4. Asked' = Asked \union {"destination"}
    BY <2>1, <2>2, <2>3 DEF Asked, DataGuardRows, Added
  <2> QED
    BY <1>5a, <2>1, <2>2, <2>3, <2>4 DEF Added
<1>11. CASE ScrapeLag
  <2>1. PICK next \in {"status", "processes"} :
          /\ QueryOf("lag", "lag", next)
          /\ next = IF pass.seen = "physical standby" THEN "processes" ELSE "status"
    BY <1>11 DEF ScrapeLag, QueryOf
  <2>2. pass.step = "lag" /\ pass.seen \in {"physical standby", "logical standby"}
    BY <2>1, StepOfPass DEF QueryOf, Query, TypeOK, Asking, Roles, DataGuardCollected
  <2>3. Added("lag", next)
    <3>1. "lag" \in {"destinations", "lag", "processes"} /\ next \in Asking
      BY <2>1 DEF Asking
    <3> QED
      BY <2>1, <3>1, QueryAdds
  <2>4. Asked' = Asked \union {"lag"}
    BY <2>1, <2>2, <2>3 DEF Asked, DataGuardRows, Added
  <2> QED
    BY <1>5a, <2>1, <2>2, <2>3, <2>4 DEF Added
<1>12. CASE ScrapeProcesses
  <2>1. QueryOf("processes", "process", "status")
    BY <1>12 DEF ScrapeProcesses, QueryOf
  <2>2. pass.step = "processes" /\ pass.seen = "physical standby"
    BY <2>1 DEF QueryOf, Query, DataGuardCollected
  <2>3. Added("process", "status")
    <3>1. "processes" \in {"destinations", "lag", "processes"} /\ "status" \in Asking
      BY <2>1 DEF Asking
    <3> QED
      BY <2>1, <3>1, QueryAdds
  <2>4. Asked' = Asked \union {"process"}
    BY <2>2, <2>3 DEF Asked, DataGuardRows, Added
  <2> QED
    BY <1>5a, <2>2, <2>3, <2>4 DEF Added
<1>13. CASE DataGuardStatus
  <2> DEFINE status == Status(Cardinality(rows), pass.ok, roles)
  <2>1. /\ pass.step = "status" /\ last' = last /\ roles' = {}
        /\ pass' = [step |-> "write", at |-> pass.at]
        /\ batch' = Put("dataguard", "dataguard", rows, status)
    BY <1>13 DEF DataGuardStatus, Listed, memory, Put
  <2>2. batch'.rows["dataguard"] = rows /\ batch'.status["dataguard"] = status
    BY <1>1, <1>2, <2>1, Replaced
  <2>3. /\ pass.seen \in roles
        /\ \A r \in Roles : roles = {r} =>
             /\ rows \subseteq Asked \intersect DataGuardRows(r)
             /\ pass.ok => rows = Asked \intersect DataGuardRows(r)
        /\ Asked = DataGuardRows(pass.seen) /\ pass.seen \in Roles
    BY <2>1, StepOfPass DEF DataGuardCollected, Asking, Asked, TypeOK
  <2>4. ASSUME NEW r \in roles, roles = {r}
        PROVE  rows \subseteq DataGuardRows(r) /\ (pass.ok => rows = DataGuardRows(r))
    BY <2>3, <2>4
  <2>5. DataGuardTruthful(rows, status)
    BY <2>4 DEF DataGuardTruthful, Status
  <2>6. status.at = last
    <3>1. pass # Idle
      BY <2>1 DEF Idle
    <3> QED
      BY <3>1 DEF Status, Order
  <2> QED
    BY <2>1, <2>2, <2>5, <2>6 DEF DataGuardCollected, Asking, BeforeReading, Idle
<1>14. CASE Scrape
  BY <1>8, <1>9, <1>10, <1>11, <1>12, <1>13, <1>14 DEF Scrape
<1>15. CASE Write \/ WriteFails
  <2>1. pass.step = "write" /\ pass' = Idle /\ batch' = NoBatch /\ roles' = roles
    BY <1>15 DEF Write, WriteFails, ghosts
  <2>2. roles = {}
    BY <2>1 DEF DataGuardCollected, Asking
  <2> QED
    BY <1>4, <2>1, <2>2
<1>16. CASE ProcessRestarts
  BY <1>4, <1>16 DEF ProcessRestarts
<1>17. CASE UNCHANGED vars
  BY <1>3, <1>17 DEF vars, memory, oracle, ghosts
<1> QED
  BY <1>3, <1>6, <1>7, <1>14, <1>15, <1>16, <1>17
     DEF Next, Works, InstanceRestarts, TablespaceChanges, TimePasses, PassWithout, memory, oracle, ghosts

-----------------------------------------------------------------------------
(* The repository.                                                         *)

\* The tables and what the views show of them are kept by every step: a write
\* replaces all of it, as its pass is newer than what is there.
LEMMA StoredKept ==
    ASSUME IInv, [Next]_vars
    PROVE  Stored' /\ ViewsTruthful'
<1>1. ASSUME UNCHANGED repository PROVE Stored' /\ ViewsTruthful'
  BY <1>1 DEF IInv, repository, Stored, ViewsTruthful, View
<1>2. CASE Write
  <2>1. /\ pass.step = "write" /\ newest' = pass.at /\ latest' = Latest
        /\ samples' = [v \in Views |->
                         {s \in samples[v] \union {[at |-> pass.at, row |-> r] : r \in batch.rows[v]} :
                            s.at >= latest'[v].at}]
    BY <1>2 DEF Write
  <2>2. pass.at = last /\ last \in Nat /\ newest \in Nat /\ newest < last /\ newest' = last
    BY <2>1 DEF IInv, TypeOK, Order, Idle
  <2>3. ASSUME NEW c \in Collections PROVE latest'[c] = batch.status[c] /\ batch.status[c].at = last
    <3>1. batch.status[c].at = last
      BY <2>1 DEF IInv, ListCollected, DataGuardCollected, Collections, BeforeReading
    <3>2. latest[c].at = newest
      BY DEF IInv, Stored
    <3> QED
      BY <2>1, <2>2, <3>1, <3>2 DEF Latest
  <2>4. Views \subseteq Collections
    BY DEF Views, Collections
  <2>5. ASSUME NEW v \in Views
        PROVE  /\ samples'[v] = {[at |-> last, row |-> r] : r \in batch.rows[v]}
               /\ View(v)' = batch.rows[v]
    <3>1. latest'[v].at = last
      BY <2>3, <2>4
    <3>2. \A s \in samples[v] : s.at = newest
      BY DEF IInv, Stored
    <3>3. samples'[v] = {s \in samples[v] \union {[at |-> last, row |-> r] : r \in batch.rows[v]} : s.at >= last}
      BY <2>1, <2>2, <3>1
    <3>4. \A s \in samples[v] : ~(s.at >= last)
      BY <2>2, <3>2
    <3>5. \A r : [at |-> last, row |-> r].at >= last
      BY <2>2
    <3>6. samples'[v] = {[at |-> last, row |-> r] : r \in batch.rows[v]}
      BY <3>3, <3>4, <3>5
    <3>7. View(v)' = {s.row : s \in {x \in samples'[v] : x.at = last}}
      BY <3>1 DEF View
    <3>8. {x \in samples'[v] : x.at = last} = samples'[v]
      BY <3>6
    <3>9. {s.row : s \in samples'[v]} = batch.rows[v]
      <4>1. \A s \in samples'[v] : s.row \in batch.rows[v]
        BY <3>6
      <4>2. ASSUME NEW r \in batch.rows[v]
            PROVE  \E s \in samples'[v] : s.row = r
        <5>1. [at |-> last, row |-> r] \in samples'[v] /\ [at |-> last, row |-> r].row = r
          BY <3>6
        <5> QED
          BY <5>1
      <4> QED
        BY <4>1, <4>2
    <3> QED
      BY <3>6, <3>7, <3>8, <3>9
  <2>6. Stored'
    BY <2>2, <2>3, <2>5 DEF Stored
  <2>7. /\ ListTruthful(batch.rows["tablespaces"], batch.status["tablespaces"])
        /\ AllocationTruthful(batch.rows["tablespaces"], batch.status["allocation"])
        /\ DataGuardTruthful(batch.rows["dataguard"], batch.status["dataguard"])
    BY <2>1 DEF IInv, ListCollected, DataGuardCollected
  <2>8. /\ latest'["tablespaces"] = batch.status["tablespaces"]
        /\ latest'["allocation"] = batch.status["allocation"]
        /\ latest'["dataguard"] = batch.status["dataguard"]
        /\ View("tablespaces")' = batch.rows["tablespaces"]
        /\ View("dataguard")' = batch.rows["dataguard"]
    BY <2>3, <2>5 DEF Collections, Views
  <2>9. ViewsTruthful'
    BY <2>6, <2>7, <2>8 DEF Stored, ViewsTruthful, ListTruthful, AllocationTruthful, DataGuardTruthful
  <2> QED
    BY <2>6, <2>9
<1>3. CASE Scrape
  BY <1>1, <1>3, PassMoves DEF IInv
<1> QED
  BY <1>1, <1>2, <1>3
     DEF Next, Works, InstanceRestarts, TablespaceChanges, RoleChanges, TimePasses, Begin, PassWithout,
         WriteFails, ProcessRestarts, vars

\* Nothing is in memory, in the batch or in the repository when the process begins.
LEMMA IInvInit == Init => IInv
<1> SUFFICES ASSUME Init PROVE IInv
  OBVIOUS
<1> USE DEF Init
<1>1. TypeOK /\ Order
  BY EmptyBatch DEF TypeOK, Order, Passes, BatchShape
<1>2. CounterTypes /\ Counted
  BY DEF CounterTypes, Counted, Known, NoSnapshot
<1>3. ListCollected /\ DataGuardCollected
  BY DEF ListCollected, DataGuardCollected, Idle, BeforeReading, Asking
<1>4. Stored /\ ViewsTruthful
  BY DEF Stored, ViewsTruthful, NoStatus
<1> QED
  BY <1>1, <1>2, <1>3, <1>4 DEF IInv

\* Every step keeps the invariant.
LEMMA IInvNext ==
    ASSUME IInv, [Next]_vars
    PROVE  IInv'
BY OrderKept, CountedKept, ListKept, DataGuardKept, StoredKept DEF IInv

\* The inductive invariant holds in every state: a pass is later than everything
\* in the repository, the snapshots of operationalDelta are an interval older than
\* the pass that reads the counters, and the batch agrees with its statuses.
THEOREM OperationalInvariant == Spec => []IInv
<1>1. Init => IInv
  BY IInvInit
<1>2. IInv /\ [Next]_vars => IInv'
  BY IInvNext
<1> QED
  BY <1>1, <1>2, PTL DEF Spec

\* The oracle_..._current views are truthful: they show the newest pass that
\* writeOperationalSamples has committed, and with a successful status exactly the
\* rows Oracle had.
THEOREM OperationalViewsTruthful == Spec => []ViewsTruthful
<1>1. IInv => ViewsTruthful
  BY DEF IInv
<1> QED
  BY <1>1, OperationalInvariant, PTL

\* The deltas of operationalDelta are honest, whichever passes were skipped, cut
\* short or not written between two readings.
THEOREM OperationalDeltasHonest == Spec => DeltasHonest
<1> DEFINE A == \A c \in Counters : snapshot'[c].at # 0 /\ snapshot'[c] # snapshot[c] =>
                  LET row == Delta(c)
                  IN /\ row.delta >= 0 =>
                          /\ row.interval >= Interval
                          /\ row.delta <= fresh[c]
                          /\ c \notin restarted => row.delta = fresh[c]
                     /\ row.reset => c \in restarted
                     /\ row.delta < 0 => ~Known(c) \/ row.reset
<1>1. IInv /\ [Next]_vars => A
  <2> SUFFICES ASSUME IInv, [Next]_vars PROVE A
    OBVIOUS
  <2> QED
    BY DeltasOfAStep DEF IInv
<1>2. IInv /\ [Next]_vars => [A]_vars
  BY <1>1
<1>3. [][A]_vars => DeltasHonest
  BY PTL DEF DeltasHonest
<1> QED
  BY <1>2, <1>3, OperationalInvariant, PTL DEF Spec

=============================================================================
