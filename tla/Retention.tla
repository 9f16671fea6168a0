------------------------------ MODULE Retention ------------------------------
(***************************************************************************)
(* Daily partitions, the rows that samples refer to, and the retention     *)
(* cleanup of postgresql.Sink.                                             *)
(*                                                                         *)
(* A sample is stored in the partition of its day.  It may refer to a SQL  *)
(* text or to the metadata of a cursor, which are kept once, with the time *)
(* of the last reference and without a foreign key.  A text is upserted by *)
(* the batches that carry it; the others only move last_referenced_at of   *)
(* the row they find.  Metadata is upserted by each batch that refers to   *)
(* it, and its last_seen_at moves once per UTC day.  After a commit the    *)
(* writer runs the cleanup, at most once per CleanupInterval: it drops the *)
(* expired partitions of one table after the other and then deletes the    *)
(* texts and the metadata that were not referenced since.                  *)
(*                                                                         *)
(* PostgreSQL is external.  A transaction locks the rows that it writes    *)
(* until it ends; an UPDATE that finds no row locks nothing, and neither   *)
(* does "create table if not exists" when the partition is there.          *)
(***************************************************************************)
EXTENDS Naturals, FiniteSets

CONSTANTS
    Writers, Nobody, NoBatch,
    SQLs,            \* SQLs with a text
    Cursors,         \* cursors with metadata
    NumTables,       \* partitionedTables()
    DayLength,
    Retention,       \* output.postgresql.retention
    CleanupInterval, \* an hour
    MaxDelay,        \* the longest a batch waits for its commit
    MaxBacklog,      \* the age of the oldest ASH sample of a batch
    MaxTime,         \* bound: the clock
    MaxRows          \* bound: samples stored at a time

ASSUME RetentionAssumption ==
    /\ Nobody \notin Writers
    /\ SQLs \intersect Cursors = {}
    /\ {NumTables, DayLength, Retention, CleanupInterval} \subseteq Nat \ {0}
    /\ {MaxDelay, MaxBacklog, MaxTime, MaxRows} \subseteq Nat
    /\ MaxDelay < Retention

VARIABLES
    now,
    partitions,  \* set of [table, day]
    rows,        \* the samples, each with what became of its reference
    refs,        \* [item -> last_referenced_at or last_seen_at, or NoRef]
    pc,          \* [writer -> where its WriteSamples call is]
    batch,       \* [writer -> its sample; `full': it carries the item itself]
    existed,     \* [writer -> its partition existed when it looked]
    written,     \* [writer -> time it has given its item, or NoRef; not committed]
    cleaner,     \* holder of retentionMu
    lastCleanup, \* lastRetentionCleanup, or Never
    cutoff,      \* of the running cleanup
    table,       \* the table the cleanup is at
    expired      \* partitions it has listed there and not dropped yet

store == <<partitions, rows, refs>>
calls == <<pc, batch, existed, written>>
cleanup == <<cleaner, lastCleanup, cutoff, table, expired>>
vars == <<now, store, calls, cleanup>>

Times == 1 .. MaxTime
NoRef == 0
Never == 0
Tables == 1 .. NumTables
ActivityTable == NumTables  \* the last one whose rows refer to a text
Items == SQLs \union Cursors

\* dayStartUTC: the first instant of the day of t.
DayStart(t) == t - (t % DayLength)

Partition(r) == [table |-> r.table, day |-> DayStart(r.time)]
Samples == [table : Tables, item : Items, time : Times, collected : Times, full : BOOLEAN]

\* A stored sample.  Its transaction has written the item it refers to; or has
\* not, and the item was there at the commit all the same; or was not.
Rows == [table : Tables, item : Items, time : Times, collected : Times,
         ref : {"written", "found", "none"}]

-----------------------------------------------------------------------------
(* Writers.                                                                *)

Tick ==
    /\ now < MaxTime
    /\ \A w \in Writers : pc[w] \in {"collected", "ensured", "referenced"} =>
                              now - batch[w].collected < MaxDelay
    /\ now' = now + 1
    /\ UNCHANGED <<store, calls, cleanup>>

\* What a scheduled pass collects; a text may come with it, and metadata is what
\* the cursor details of the pass are about.
Scheduled(s) ==
    /\ s.table # ActivityTable
    /\ s.time = s.collected
    /\ s.item \in Cursors => s.full

\* What an activity pass collects: only this table is partitioned by the time of
\* the sample, and no text comes with it.
Activity(s) ==
    /\ s.table = ActivityTable
    /\ s.time <= s.collected
    /\ s.collected - s.time <= MaxBacklog
    /\ s.item \in SQLs
    /\ ~s.full

Collect(w, s) ==
    /\ pc[w] = "idle"
    /\ s.collected = now
    /\ Scheduled(s) \/ Activity(s)
    /\ batch' = [batch EXCEPT ![w] = s]
    /\ pc' = [pc EXCEPT ![w] = "collected"]
    /\ UNCHANGED <<now, store, existed, written, cleanup>>

\* The transaction of w is over.
Leaves(w, step) ==
    /\ pc' = [pc EXCEPT ![w] = step]
    /\ batch' = [batch EXCEPT ![w] = NoBatch]
    /\ existed' = [existed EXCEPT ![w] = FALSE]
    /\ written' = [written EXCEPT ![w] = NoRef]

EnsurePartition(w) ==
    /\ pc[w] = "collected"
    /\ existed' = [existed EXCEPT ![w] = Partition(batch[w]) \in partitions]
    /\ pc' = [pc EXCEPT ![w] = "ensured"]
    /\ UNCHANGED <<now, store, batch, written, cleanup>>

\* Somebody has written this item and not committed yet.
Locked(q) == \E v \in Writers : written[v] # NoRef /\ batch[v].item = q

\* Variant: the reference of the batch replaces a younger one.
LatestReferenceOverwritten(s) == s.collected
\* greatest(existing.last_referenced_at, excluded.last_referenced_at)
LatestReference(s) == IF s.collected > refs[s.item] THEN s.collected ELSE refs[s.item]

\* Variant: metadata is refreshed when it is a day old.
SeenSinceADay(s) ==
    {t \in {LatestReference(s), refs[s.item]} : t # NoRef /\ t + DayLength >= s.collected}
\* Metadata seen on the day of the batch, or after it, stays as it is unless the
\* cursor's details have changed.
SeenThatDay(s) ==
    {t \in {LatestReference(s), refs[s.item]} : t # NoRef /\ t >= DayStart(s.collected)}

\* The upserts of writeSQLTexts and writeSQLCursorMetadata lock their row, also
\* where they leave it as it is.
Upsert(w) ==
    LET s == batch[w]
    IN  /\ pc[w] = "ensured"
        /\ s.full
        /\ ~Locked(s.item)
        /\ \E t \in (IF s.item \in Cursors THEN SeenThatDay(s) ELSE {LatestReference(s)}) :
             written' = [written EXCEPT ![w] = t]
        /\ pc' = [pc EXCEPT ![w] = "referenced"]
        /\ UNCHANGED <<now, store, batch, existed, cleanup>>

\* The UPDATE of the references writes the text that it finds, after whoever has
\* it locked; it does not see one that is not committed yet.
UpdateReference(w) ==
    LET s == batch[w]
    IN  /\ pc[w] = "ensured"
        /\ ~s.full
        /\ refs[s.item] # NoRef => ~Locked(s.item)
        /\ written' = [written EXCEPT ![w] =
                         IF refs[s.item] # NoRef THEN LatestReference(s) ELSE NoRef]
        /\ pc' = [pc EXCEPT ![w] = "referenced"]
        /\ UNCHANGED <<now, store, batch, existed, cleanup>>

Row(s, ref) == [table |-> s.table, item |-> s.item, time |-> s.time, collected |-> s.collected,
                ref |-> ref]

\* The samples are inserted and the transaction commits.  It needs the partition
\* that it has found; one that it had to create is its own.
Commit(w) ==
    LET s == batch[w]
    IN  /\ pc[w] = "referenced"
        /\ Cardinality(rows) < MaxRows
        /\ existed[w] => Partition(s) \in partitions
        /\ partitions' = partitions \union {Partition(s)}
        /\ IF written[w] # NoRef
           THEN /\ refs' = [refs EXCEPT ![s.item] = written[w]]
                /\ rows' = rows \union {Row(s, "written")}
           ELSE /\ refs' = refs
                /\ rows' = rows \union {Row(s, IF refs[s.item] # NoRef THEN "found" ELSE "none")}
        /\ Leaves(w, "cleanup")
        /\ UNCHANGED <<now, cleanup>>

\* Any statement fails, also because the partition has been dropped meanwhile.
Rollback(w) ==
    /\ pc[w] \in {"collected", "ensured", "referenced"}
    /\ Leaves(w, "idle")
    /\ UNCHANGED <<now, store, cleanup>>

-----------------------------------------------------------------------------
(* cleanupRetention.                                                       *)

Due == lastCleanup = Never \/ now - lastCleanup >= CleanupInterval

Finished(w) ==
    /\ pc' = [pc EXCEPT ![w] = "idle"]
    /\ cleaner' = Nobody
    /\ expired' = {}
    /\ cutoff' = 0
    /\ table' = 1

CleanupNotDue(w) ==
    /\ pc[w] = "cleanup"
    /\ cleaner = Nobody
    /\ ~Due
    /\ pc' = [pc EXCEPT ![w] = "idle"]
    /\ UNCHANGED <<now, store, batch, existed, written, cleanup>>

\* lastRetentionCleanup is set before the work, so a failure waits for the next
\* interval.
CleanupBegins(w) ==
    /\ pc[w] = "cleanup"
    /\ cleaner = Nobody
    /\ Due
    /\ cleaner' = w
    /\ lastCleanup' = now
    /\ cutoff' = IF now > Retention THEN now - Retention ELSE 0
    /\ pc' = [pc EXCEPT ![w] = "list"]
    /\ UNCHANGED <<now, store, batch, existed, written, table, expired>>

\* Variant: a partition is compared by its first instant.
ExpiredByStart(p) == p.day <= cutoff
\* The whole day lies before the cutoff.
Expired(p) == p.day + DayLength <= cutoff

ListPartitions(w) ==
    /\ pc[w] = "list"
    /\ expired' = {p \in partitions : p.table = table /\ Expired(p)}
    /\ pc' = [pc EXCEPT ![w] = "drop"]
    /\ UNCHANGED <<now, store, batch, existed, written, cleaner, lastCleanup, cutoff, table>>

DropPartition(w, p) ==
    /\ pc[w] = "drop"
    /\ p \in expired
    /\ partitions' = partitions \ {p}
    /\ rows' = {r \in rows : Partition(r) # p}
    /\ expired' = expired \ {p}
    /\ UNCHANGED <<now, refs, calls, cleaner, lastCleanup, cutoff, table>>

NextTable(w) ==
    /\ pc[w] = "drop"
    /\ expired = {}
    /\ IF table < NumTables
       THEN table' = table + 1 /\ pc' = [pc EXCEPT ![w] = "list"]
       ELSE table' = table /\ pc' = [pc EXCEPT ![w] = "texts"]
    /\ UNCHANGED <<now, store, batch, existed, written, cleaner, lastCleanup, cutoff, expired>>

\* Variant: the references are cut off at the same instant as the partitions.
RetentionDayCutoffExact == cutoff
\* The partition of the cutoff's day is still there, and what it refers to stays.
RetentionDayCutoff == DayStart(cutoff)

Forgotten(gone) == refs' = [q \in Items |-> IF q \in gone THEN NoRef ELSE refs[q]]

\* The statement waits for the rows that it would delete.
DeleteExpiredSQLTexts(w) ==
    LET gone == {q \in SQLs : refs[q] # NoRef /\ refs[q] < RetentionDayCutoff}
    IN  /\ pc[w] = "texts"
        /\ \A q \in gone : ~Locked(q)
        /\ Forgotten(gone)
        /\ pc' = [pc EXCEPT ![w] = "metadata"]
        /\ UNCHANGED <<now, partitions, rows, batch, existed, written, cleanup>>

\* Batches with "skip locked", of a limited size and number; one may fail after
\* others have been deleted.
DeleteExpiredSQLCursorMetadata(w) ==
    LET expiredRows == {q \in Cursors : /\ refs[q] # NoRef
                                        /\ refs[q] < RetentionDayCutoff
                                        /\ ~Locked(q)}
    IN  /\ pc[w] = "metadata"
        /\ \E gone \in SUBSET expiredRows : Forgotten(gone)
        /\ Finished(w)
        /\ UNCHANGED <<now, partitions, rows, batch, existed, written, lastCleanup>>

\* Any statement of the cleanup fails; what has been done stays done.
CleanupFails(w) ==
    /\ pc[w] \in {"list", "drop", "texts", "metadata"}
    /\ Finished(w)
    /\ UNCHANGED <<now, store, batch, existed, written, lastCleanup>>

Init ==
    /\ now = 1
    /\ partitions = {}
    /\ rows = {}
    /\ refs = [q \in Items |-> NoRef]
    /\ pc = [w \in Writers |-> "idle"]
    /\ batch = [w \in Writers |-> NoBatch]
    /\ existed = [w \in Writers |-> FALSE]
    /\ written = [w \in Writers |-> NoRef]
    /\ cleaner = Nobody
    /\ lastCleanup = Never
    /\ cutoff = 0
    /\ table = 1
    /\ expired = {}

Next ==
    \/ Tick
    \/ \E w \in Writers :
         \/ \E s \in Samples : Collect(w, s)
         \/ EnsurePartition(w)
         \/ Upsert(w)
         \/ UpdateReference(w)
         \/ Commit(w)
         \/ Rollback(w)
         \/ CleanupNotDue(w)
         \/ CleanupBegins(w)
         \/ ListPartitions(w)
         \/ \E p \in expired : DropPartition(w, p)
         \/ NextTable(w)
         \/ DeleteExpiredSQLTexts(w)
         \/ DeleteExpiredSQLCursorMetadata(w)
         \/ CleanupFails(w)

Spec == Init /\ [][Next]_vars

-----------------------------------------------------------------------------

\* A stored sample still has the text or the metadata that its transaction has
\* written: the two cutoffs, the daily refresh, the order of the cleanup and its
\* early returns fit together, whatever fails and whatever is written between
\* drop and delete.  A text that was not there for the reference UPDATE, and that
\* another writer has committed before this one, is kept for the retention period
\* less the time a batch waits for its commit.
ReferencesKept ==
    \A r \in rows :
        /\ r.ref = "written" => refs[r.item] # NoRef
        /\ r.ref = "found" =>
              refs[r.item] # NoRef \/ now + MaxDelay > r.collected + Retention

\* The cleanup removes no sample that is younger than the retention period.
OnlyExpiredRemoved ==
    [][\A r \in rows : r \notin rows' => r.time + Retention <= now]_vars
=============================================================================
