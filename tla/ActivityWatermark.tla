-------------------------- MODULE ActivityWatermark --------------------------
(***************************************************************************)
(* Activity sampling from Oracle's active session history (ASH),           *)
(* collector/activity.go with source "ash".                                *)
(*                                                                         *)
(* Each pass reads, for every database, the ASH rows newer than a bound    *)
(* derived from the database's watermark, writes the rows of all databases *)
(* in one transaction, and moves the watermarks to the newest row written. *)
(* The watermarks live in memory: a restart, or a change of leader, starts *)
(* from a fixed lookback.                                                  *)
(*                                                                         *)
(* Oracle is external.  Its instances take samples at their own pace, a    *)
(* sample may become visible in GV$ACTIVE_SESSION_HISTORY late, and rows   *)
(* disappear again (aged out, or their instance stopped).  A row stands    *)
(* for the samples of one instance at one time.                            *)
(***************************************************************************)
EXTENDS Integers

CONSTANTS
    Databases,   \* Scraper.databases
    OracleInsts, \* instances of a database (inst_id)
    Interval,    \* performance.activity.interval
    Lookback,    \* the two minutes before the first watermark
    MaxLag,      \* the longest an ASH sample stays invisible
    MaxTime      \* bound: the clock

ASSUME WatermarkAssumption ==
    /\ Interval \in Nat \ {0}
    /\ Lookback \in Nat
    /\ MaxLag \in Nat
    /\ MaxTime \in Nat \ {0}

Times == 1 .. MaxTime
NoMark == 0
Rows == [inst : OracleInsts, time : Times]

VARIABLES
    now,        \* the time
    unseen,     \* [database -> samples taken and not visible yet]
    ash,        \* [database -> rows of GV$ACTIVE_SESSION_HISTORY]
    pc,         \* the pass: "idle", "collecting", "written" (before the marks)
    sampledAt,  \* the tick of the pass
    outcome,    \* [database -> "wait", "ok" or "error"]
    since,      \* [database -> the bound of its query]
    fetched,    \* [database -> rows read in the pass]
    watermark,  \* [database -> activityWatermarks entry, or NoMark]
    from,       \* [database -> the bound from which its watermark vouches for]
    stored      \* [database -> rows in the activity table]

oracle == <<unseen, ash>>
pass == <<pc, sampledAt, outcome, since, fetched>>
marks == <<watermark, from>>
vars == <<now, oracle, pass, marks, stored>>

-----------------------------------------------------------------------------
(* Oracle and the clock.                                                   *)

Tick ==
    /\ now < MaxTime
    /\ \A d \in Databases : \A r \in unseen[d] : now < r.time + MaxLag
    /\ now' = now + 1
    /\ UNCHANGED <<oracle, pass, marks, stored>>

\* An instance samples its sessions now.
Sampled(d, i) ==
    LET r == [inst |-> i, time |-> now]
    IN  /\ r \notin unseen[d] \union ash[d] \union stored[d]
        /\ unseen' = [unseen EXCEPT ![d] = @ \union {r}]
        /\ UNCHANGED <<now, ash, pass, marks, stored>>

Appears(d, r) ==
    /\ r \in unseen[d]
    /\ unseen' = [unseen EXCEPT ![d] = @ \ {r}]
    /\ ash' = [ash EXCEPT ![d] = @ \union {r}]
    /\ UNCHANGED <<now, pass, marks, stored>>

Disappears(d, r) ==
    /\ r \in ash[d]
    /\ ash' = [ash EXCEPT ![d] = @ \ {r}]
    /\ UNCHANGED <<now, unseen, pass, marks, stored>>

-----------------------------------------------------------------------------
(* sampleActivity.                                                         *)

\* The pass is over, and with it its local variables.
Return ==
    /\ pc' = "idle"
    /\ sampledAt' = 0
    /\ outcome' = [d \in Databases |-> "wait"]
    /\ since' = [d \in Databases |-> 0]
    /\ fetched' = [d \in Databases |-> {}]

\* The ticker fires; the query may run later.
StartPass ==
    /\ pc = "idle"
    /\ pc' = "collecting"
    /\ sampledAt' = now
    /\ UNCHANGED <<now, oracle, outcome, since, fetched, marks, stored>>

\* Startup not ready, not active, suspended, or the query or its rows failed:
\* what has been read of the rows is thrown away.
Unavailable(d) ==
    /\ pc = "collecting"
    /\ outcome[d] = "wait"
    /\ outcome' = [outcome EXCEPT ![d] = "error"]
    /\ UNCHANGED <<now, oracle, pc, sampledAt, since, fetched, marks, stored>>

\* Variant: the query continues exactly where the last one ended.
SinceWithoutOverlap(d) ==
    IF watermark[d] = NoMark THEN sampledAt - Lookback ELSE watermark[d]
\* The bound of the query: an interval before the newest row that is stored.
Since(d) ==
    IF watermark[d] = NoMark THEN sampledAt - Lookback ELSE watermark[d] - Interval

Fetch(d) ==
    /\ pc = "collecting"
    /\ outcome[d] = "wait"
    /\ outcome' = [outcome EXCEPT ![d] = "ok"]
    /\ since' = [since EXCEPT ![d] = Since(d)]
    /\ fetched' = [fetched EXCEPT ![d] = {r \in ash[d] : r.time > Since(d)}]
    /\ UNCHANGED <<now, oracle, pc, sampledAt, marks, stored>>

Collected == pc = "collecting" /\ \A d \in Databases : outcome[d] # "wait"

\* on conflict do nothing: a row that is stored already stays as it is.
Insert == stored' = [d \in Databases |-> stored[d] \union fetched[d]]

WriteCommits ==
    /\ Collected
    /\ Insert
    /\ pc' = "written"
    /\ UNCHANGED <<now, oracle, sampledAt, outcome, since, fetched, marks>>

\* WriteSamples returns an error; its transaction may have committed even so.
WriteFails ==
    /\ Collected
    /\ Insert \/ UNCHANGED stored
    /\ Return
    /\ UNCHANGED <<now, oracle, marks>>

\* Variant: the watermark moves to the time of the pass.
LatestASHBySampledAt(d) == sampledAt

\* The newest row of the database in the batch (latestASH).
LatestASH(d) ==
    CHOOSE t \in Times :
        /\ \E r \in fetched[d] : r.time = t
        /\ \A r \in fetched[d] : r.time <= t

MoveWatermarks ==
    /\ pc = "written"
    /\ watermark' = [d \in Databases |->
                       IF fetched[d] = {} THEN watermark[d] ELSE LatestASH(d)]
    /\ from' = [d \in Databases |->
                  IF fetched[d] # {} /\ watermark[d] = NoMark THEN since[d] ELSE from[d]]
    /\ Return
    /\ UNCHANGED <<now, oracle, stored>>

\* The process restarts, or another instance becomes the leader.
Restart ==
    /\ Return
    /\ watermark' = [d \in Databases |-> NoMark]
    /\ from' = [d \in Databases |-> 0]
    /\ UNCHANGED <<now, oracle, stored>>

Init ==
    /\ now = 1
    /\ unseen = [d \in Databases |-> {}]
    /\ ash = [d \in Databases |-> {}]
    /\ pc = "idle"
    /\ sampledAt = 0
    /\ outcome = [d \in Databases |-> "wait"]
    /\ since = [d \in Databases |-> 0]
    /\ fetched = [d \in Databases |-> {}]
    /\ watermark = [d \in Databases |-> NoMark]
    /\ from = [d \in Databases |-> 0]
    /\ stored = [d \in Databases |-> {}]

Next ==
    \/ Tick
    \/ \E d \in Databases :
         \/ \E i \in OracleInsts : Sampled(d, i)
         \/ \E r \in unseen[d] : Appears(d, r)
         \/ \E r \in ash[d] : Disappears(d, r)
         \/ Unavailable(d)
         \/ Fetch(d)
    \/ StartPass
    \/ WriteCommits
    \/ WriteFails
    \/ MoveWatermarks
    \/ Restart

Spec == Init /\ [][Next]_vars

-----------------------------------------------------------------------------
\* Every variable keeps its type.
TypeOK ==
    /\ now \in Times
    /\ unseen \in [Databases -> SUBSET Rows]
    /\ ash \in [Databases -> SUBSET Rows]
    /\ pc \in {"idle", "collecting", "written"}
    /\ sampledAt \in Times \union {0}
    /\ outcome \in [Databases -> {"wait", "ok", "error"}]
    /\ since \in [Databases -> Int]
    /\ fetched \in [Databases -> SUBSET Rows]
    /\ watermark \in [Databases -> Times \union {NoMark}]
    /\ from \in [Databases -> Int]
    /\ stored \in [Databases -> SUBSET Rows]

\* Within the life of a watermark no sample is skipped: whatever is not stored
\* yet lies above the bound of the next query, although queries and writes fail,
\* passes are late and rows show up out of order, as long as a sample becomes
\* visible within less than the overlap of two queries.
NoRowSkipped ==
    MaxLag < Interval =>
        \A d \in Databases : \A r \in ash[d] \union unseen[d] :
            (watermark[d] # NoMark /\ r.time > from[d] /\ r \notin stored[d])
                => r.time > Since(d)

\* The watermark never runs ahead of the table: it is the time of a row that
\* has been committed.
WatermarkStored ==
    \A d \in Databases :
        watermark[d] # NoMark => \E r \in stored[d] : r.time = watermark[d]
=============================================================================
