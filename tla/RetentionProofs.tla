--------------------------- MODULE RetentionProofs ---------------------------
(***************************************************************************)
(* Theorems about Retention, for any number of writers, SQLs and tables,   *)
(* any length of a day and any retention period that is longer than the    *)
(* time a batch waits for its commit.                                      *)
(***************************************************************************)
EXTENDS Retention, TLAPS

-----------------------------------------------------------------------------
(* The inductive invariant.                                                *)

WriteSteps == {"idle", "collected", "ensured", "referenced", "cleanup", "list", "drop", "texts",
               "metadata"}
Cleaning == {"list", "drop", "texts", "metadata"}
Waiting == {"collected", "ensured", "referenced"}

TypeOK ==
    /\ now \in Nat
    /\ partitions \subseteq [table : Tables, day : Nat]
    /\ rows \subseteq Rows
    /\ refs \in [Items -> Nat]
    /\ pc \in [Writers -> WriteSteps]
    /\ batch \in [Writers -> Samples \union {NoBatch}]
    /\ existed \in [Writers -> BOOLEAN]
    /\ written \in [Writers -> Nat]
    /\ cleaner \in Writers \union {Nobody}
    /\ lastCleanup \in Nat
    /\ cutoff \in Nat
    /\ table \in Tables
    /\ expired \subseteq [table : Tables, day : Nat]

\* A batch that waits for its commit is younger than the retention period.
Fresh ==
    \A w \in Writers : pc[w] \in Waiting =>
        /\ batch[w] \in Samples
        /\ batch[w].time <= batch[w].collected
        /\ batch[w].collected <= now
        /\ now <= batch[w].collected + MaxDelay
        /\ batch[w].item \in Cursors => batch[w].full

\* A sample is in a partition, and was not collected before its time.
Placed == \A r \in rows : r.time <= r.collected /\ Partition(r) \in partitions

\* One cleanup at a time; the cutoff is a retention period ago.
OneCleanup ==
    /\ \A w \in Writers : pc[w] \in Cleaning => cleaner = w
    /\ cleaner = Nobody => table = 1 /\ expired = {}
    /\ cutoff = 0 \/ cutoff + Retention <= now
    /\ \A p \in expired : Expired(p)

\* What the cleanup has behind it: a sample that is still there refers to nothing
\* older than the cutoff's day, or is in a partition that has yet to be dropped.
Swept(r) == DayStart(r.collected) >= DayStart(cutoff)
Progress ==
    \A w \in Writers, r \in rows :
        /\ pc[w] = "list" => Swept(r) \/ r.table >= table
        /\ pc[w] = "drop" => Swept(r) \/ r.table > table \/ Partition(r) \in expired
        /\ pc[w] \in {"texts", "metadata"} => Swept(r)

\* An item is written by one transaction at a time, and not to an older time than
\* the committed one or than the day of the batch.
Held ==
    /\ \A w \in Writers : written[w] # NoRef =>
          /\ pc[w] = "referenced"
          /\ written[w] >= refs[batch[w].item]
          /\ written[w] >= DayStart(batch[w].collected)
          /\ batch[w].item \in SQLs => written[w] >= batch[w].collected
    /\ \A w \in Writers, v \in Writers :
          (written[w] # NoRef /\ written[v] # NoRef /\ w # v) => batch[w].item # batch[v].item

\* A text that a reference UPDATE has not found is one that somebody has inserted
\* since, from a batch that is not much older.
Close(t, c) == t + MaxDelay >= c
Unseen ==
    \A w \in Writers : pc[w] = "referenced" /\ written[w] = NoRef =>
        /\ batch[w].item \in SQLs
        /\ refs[batch[w].item] = NoRef \/ Close(refs[batch[w].item], batch[w].collected)

\* How old the item of a stored sample may be.
Recent ==
    \A r \in rows :
        /\ r.ref = "written" => refs[r.item] # NoRef /\ refs[r.item] >= DayStart(r.collected)
        /\ r.ref = "found" => \/ refs[r.item] # NoRef /\ Close(refs[r.item], r.collected)
                              \/ now + MaxDelay > r.collected + Retention

References == Held /\ Unseen /\ Recent

IInv == TypeOK /\ Fresh /\ Placed /\ OneCleanup /\ Progress /\ References

-----------------------------------------------------------------------------
(* Days.                                                                   *)

\* The numbers among the constants.
LEMMA Numbers ==
    /\ NumTables \in Nat \ {0} /\ DayLength \in Nat \ {0} /\ Retention \in Nat \ {0}
    /\ MaxDelay \in Nat /\ MaxDelay < Retention
BY RetentionAssumption

\* dayStartUTC is in the day it is given.
LEMMA DayOf ==
    ASSUME NEW t \in Nat
    PROVE  /\ DayStart(t) \in Nat
           /\ DayStart(t) <= t
           /\ t < DayStart(t) + DayLength
<1>1. t % DayLength \in 0 .. DayLength - 1 /\ t % DayLength <= t
  BY Numbers
<1> QED
  BY <1>1, Numbers DEF DayStart

\* Days do not overlap: one that has not ended at c does not begin before c's day.
LEMMA DaysAligned ==
    ASSUME NEW t \in Nat, NEW c \in Nat, c < DayStart(t) + DayLength
    PROVE  DayStart(c) <= DayStart(t)
<1> DEFINE p == t \div DayLength
           q == c \div DayLength
<1>1. p \in Nat /\ q \in Nat
  BY Numbers
<1>2. t = DayLength * p + (t % DayLength) /\ c = DayLength * q + (c % DayLength)
  BY Numbers
<1>3. t % DayLength \in Nat /\ c % DayLength \in Nat
  BY Numbers
<1> HIDE DEF p, q
<1>4. DayLength * p \in Nat /\ DayLength * q \in Nat
  BY <1>1, Numbers
<1>5. DayStart(t) = DayLength * p /\ DayStart(c) = DayLength * q
  BY <1>2, <1>3, <1>4 DEF DayStart
<1>6. DayLength * q < DayLength * p + DayLength
  BY <1>4, <1>5, DayOf, Numbers
<1>7. DayLength * q <= DayLength * p
  BY <1>1, <1>6, Numbers
<1> QED
  BY <1>5, <1>7

\* A later day begins later.
LEMMA DaysOrdered ==
    ASSUME NEW t \in Nat, NEW c \in Nat, c <= t
    PROVE  DayStart(c) <= DayStart(t)
<1>1. c < DayStart(t) + DayLength
  BY DayOf, Numbers
<1> QED
  BY <1>1, DaysAligned

\* A sample, collected or stored, and the day of its partition.
LEMMA SampleDay ==
    ASSUME NEW r \in Samples \union Rows
    PROVE  /\ r.table \in Tables /\ r.item \in Items /\ r.time \in Nat /\ r.collected \in Nat
           /\ r.collected # 0
           /\ DayStart(r.collected) \in Nat /\ DayStart(r.collected) <= r.collected
           /\ Partition(r) \in [table : Tables, day : Nat]
           /\ Partition(r).table = r.table /\ Partition(r).day = DayStart(r.time)
<1>1. /\ r.table \in Tables /\ r.item \in Items /\ r.time \in Nat /\ r.collected \in Nat
      /\ r.collected # 0
  BY RetentionAssumption DEF Samples, Rows, Times
<1>2. /\ DayStart(r.time) \in Nat
      /\ DayStart(r.collected) \in Nat /\ DayStart(r.collected) <= r.collected
  BY <1>1, DayOf
<1> QED
  BY <1>1, <1>2 DEF Partition

-----------------------------------------------------------------------------
(* The steps.                                                              *)

\* The initial states satisfy the inductive invariant.
LEMMA InitIInv == ASSUME Init PROVE IInv
<1> USE DEF Init
<1>1. TypeOK
  <2>1. 1 \in Tables /\ Never \in Nat /\ NoRef \in Nat
    BY Numbers DEF Tables, Never, NoRef
  <2> QED
    BY <2>1 DEF TypeOK, WriteSteps
<1>2. Fresh /\ Placed /\ Progress /\ References
  BY DEF Fresh, Placed, Progress, References, Held, Unseen, Recent, Waiting
<1>3. OneCleanup
  BY DEF OneCleanup, Cleaning
<1> QED
  BY <1>1, <1>2, <1>3 DEF IInv

\* Steps that write and delete no item and end no transaction that has come to
\* its references.
LEMMA ReferencesUntouched ==
    ASSUME TypeOK, References, UNCHANGED <<refs, written>>, rows' \subseteq rows,
           now' \in Nat, now' >= now,
           \A w \in Writers : /\ pc[w] = "referenced" <=> pc'[w] = "referenced"
                              /\ pc[w] = "referenced" => batch'[w] = batch[w]
    PROVE  References'
<1> USE DEF References
<1>1. Held'
  <2>1. \A w \in Writers : written[w] # NoRef =>
          pc'[w] = "referenced" /\ batch'[w] = batch[w]
    BY DEF Held
  <2> QED
    BY <2>1 DEF Held
<1>2. Unseen'
  <2>1. \A w \in Writers : pc'[w] = "referenced" =>
          pc[w] = "referenced" /\ batch'[w] = batch[w]
    OBVIOUS
  <2> QED
    BY <2>1 DEF Unseen, Close
<1>3. Recent'
  <2>1. ASSUME NEW r \in rows', r.ref = "found", now + MaxDelay > r.collected + Retention
        PROVE  now' + MaxDelay > r.collected + Retention
    <3>1. r.collected \in Nat /\ now \in Nat
      BY SampleDay DEF TypeOK
    <3> QED
      BY <2>1, <3>1, Numbers
  <2> QED
    BY <2>1 DEF Recent, Close
<1> QED
  BY <1>1, <1>2, <1>3

\* The clock waits for the batches.
LEMMA TickStep == ASSUME IInv, Tick PROVE IInv'
<1> USE DEF IInv
<1>1. /\ now' = now + 1
      /\ \A w \in Writers : pc[w] \in Waiting => now - batch[w].collected < MaxDelay
      /\ UNCHANGED <<partitions, rows, refs, pc, batch, existed, written, cleaner, lastCleanup, cutoff, table,
                     expired>>
  BY DEF Tick, Waiting, store, calls, cleanup
<1>2. TypeOK'
  BY <1>1 DEF TypeOK
<1>3. Fresh'
  <2>1. ASSUME NEW w \in Writers, pc[w] \in Waiting
        PROVE  /\ batch[w] \in Samples /\ batch[w].time <= batch[w].collected
               /\ batch[w].collected <= now + 1 /\ now + 1 <= batch[w].collected + MaxDelay
               /\ batch[w].item \in Cursors => batch[w].full
    <3>1. batch[w] \in Samples /\ batch[w].collected \in Nat /\ now \in Nat
      BY <2>1, SampleDay DEF Fresh, TypeOK
    <3> QED
      BY <1>1, <2>1, <3>1, Numbers DEF Fresh
  <2> QED
    BY <1>1, <2>1 DEF Fresh
<1>4. Placed' /\ Progress'
  BY <1>1 DEF Placed, Progress, Swept
<1>5. OneCleanup'
  BY <1>1, Numbers DEF OneCleanup, Expired, TypeOK
<1>6. References'
  BY <1>1, ReferencesUntouched DEF TypeOK
<1> QED
  BY <1>2, <1>3, <1>4, <1>5, <1>6

\* A scrape hands over a batch.
LEMMA CollectStep ==
    ASSUME IInv, NEW w \in Writers, NEW s \in Samples, Collect(w, s)
    PROVE  IInv'
<1> USE DEF IInv
<1>1. /\ pc[w] = "idle" /\ s.collected = now /\ s.time <= s.collected
      /\ s.item \in Cursors => s.full
      /\ batch' = [batch EXCEPT ![w] = s] /\ pc' = [pc EXCEPT ![w] = "collected"]
      /\ UNCHANGED <<now, partitions, rows, refs, existed, written, cleaner, lastCleanup, cutoff, table,
                     expired>>
  <2>1. Scheduled(s) \/ Activity(s)
    BY DEF Collect
  <2>2. s.time <= s.collected /\ (s.item \in Cursors => s.full)
    BY <2>1, SampleDay, RetentionAssumption DEF Scheduled, Activity
  <2> QED
    BY <2>2 DEF Collect, store, cleanup
<1>2. TypeOK'
  BY <1>1 DEF TypeOK, WriteSteps
<1>3. Fresh'
  <2>1. now \in Nat /\ now <= now + MaxDelay
    BY Numbers DEF TypeOK
  <2> QED
    BY <1>1, <2>1 DEF Fresh, TypeOK
<1>4. Placed'
  BY <1>1 DEF Placed
<1>5. OneCleanup'
  BY <1>1 DEF OneCleanup, Expired, TypeOK, Cleaning
<1>6. Progress'
  BY <1>1 DEF Progress, Swept, TypeOK
<1>7. References'
  BY <1>1, ReferencesUntouched DEF TypeOK
<1> QED
  BY <1>2, <1>3, <1>4, <1>5, <1>6, <1>7

\* ensurePartition looks at the partitions only.
LEMMA EnsureStep == ASSUME IInv, NEW w \in Writers, EnsurePartition(w) PROVE IInv'
<1> USE DEF IInv
<1>1. /\ pc[w] = "collected" /\ pc' = [pc EXCEPT ![w] = "ensured"]
      /\ existed' = [existed EXCEPT ![w] = Partition(batch[w]) \in partitions]
      /\ UNCHANGED <<now, partitions, rows, refs, batch, written, cleaner, lastCleanup, cutoff, table,
                     expired>>
  BY DEF EnsurePartition, store, cleanup
<1>2. TypeOK'
  <2>1. existed' \in [Writers -> BOOLEAN]
    BY <1>1 DEF TypeOK
  <2> QED
    BY <1>1, <2>1 DEF TypeOK, WriteSteps
<1>3. Fresh'
  BY <1>1 DEF Fresh, TypeOK, Waiting
<1>4. Placed'
  BY <1>1 DEF Placed
<1>5. OneCleanup'
  BY <1>1 DEF OneCleanup, Expired, TypeOK, Cleaning
<1>6. Progress'
  BY <1>1 DEF Progress, Swept, TypeOK
<1>7. References'
  BY <1>1, ReferencesUntouched DEF TypeOK
<1> QED
  BY <1>2, <1>3, <1>4, <1>5, <1>6, <1>7

\* greatest() is not before either of its arguments.
LEMMA LatestIsLatest ==
    ASSUME TypeOK, NEW s \in Samples
    PROVE  /\ LatestReference(s) \in Nat /\ LatestReference(s) # NoRef
           /\ LatestReference(s) >= refs[s.item]
           /\ LatestReference(s) >= s.collected /\ LatestReference(s) >= DayStart(s.collected)
<1>1. /\ s.collected \in Nat /\ s.collected # 0 /\ refs[s.item] \in Nat
      /\ DayStart(s.collected) \in Nat /\ DayStart(s.collected) <= s.collected
  BY SampleDay DEF TypeOK
<1> QED
  BY <1>1 DEF LatestReference, NoRef

\* A transaction comes to its references and writes an item that nobody else has
\* written, or a text that it does not find.
LEMMA ReferenceStep ==
    ASSUME IInv, NEW w \in Writers, Upsert(w) \/ UpdateReference(w)
    PROVE  IInv'
<1> USE DEF IInv
<1> DEFINE s == batch[w]
<1>1. /\ pc[w] = "ensured" /\ pc' = [pc EXCEPT ![w] = "referenced"]
      /\ UNCHANGED <<now, partitions, rows, refs, batch, existed, cleaner, lastCleanup, cutoff, table,
                     expired>>
  BY DEF Upsert, UpdateReference, store, cleanup
<1>2. s \in Samples /\ (s.item \in Cursors => s.full) /\ s.item \in Items
  BY <1>1, SampleDay DEF Fresh, Waiting
<1>3. PICK t \in Nat :
        /\ written' = [written EXCEPT ![w] = t]
        /\ t # NoRef => /\ ~Locked(s.item) /\ t >= refs[s.item] /\ t >= DayStart(s.collected)
                        /\ s.item \in SQLs => t >= s.collected
        /\ t = NoRef => s.item \in SQLs /\ refs[s.item] = NoRef
  <2>1. CASE Upsert(w)
    <3>1. PICK t \in (IF s.item \in Cursors THEN SeenThatDay(s) ELSE {LatestReference(s)}) :
            written' = [written EXCEPT ![w] = t]
      BY <2>1 DEF Upsert
    <3>2. ~Locked(s.item)
      BY <2>1 DEF Upsert
    <3>3. CASE s.item \in Cursors
      <4>1. s.item \notin SQLs
        BY <3>3, RetentionAssumption
      <4>2. /\ t \in {LatestReference(s), refs[s.item]}
            /\ t # NoRef /\ t >= DayStart(s.collected)
        BY <3>1, <3>3 DEF SeenThatDay
      <4>3. refs[s.item] \in Nat
        BY <1>2 DEF TypeOK
      <4>4. t \in Nat /\ t >= refs[s.item]
        BY <1>2, <4>2, <4>3, LatestIsLatest
      <4> QED
        BY <3>1, <3>2, <4>1, <4>2, <4>4
    <3>4. CASE s.item \notin Cursors
      <4>1. t = LatestReference(s)
        BY <3>1, <3>4
      <4> QED
        BY <1>2, <3>1, <3>2, <4>1, LatestIsLatest
    <3> QED
      BY <3>3, <3>4
  <2>2. CASE UpdateReference(w)
    <3>1. s.item \in SQLs
      BY <1>2, <2>2 DEF UpdateReference, Items
    <3>2. CASE refs[s.item] # NoRef
      <4>1. written' = [written EXCEPT ![w] = LatestReference(s)] /\ ~Locked(s.item)
        BY <2>2, <3>2 DEF UpdateReference
      <4> QED
        BY <1>2, <4>1, LatestIsLatest
    <3>3. CASE refs[s.item] = NoRef
      <4>1. written' = [written EXCEPT ![w] = NoRef] /\ NoRef \in Nat
        BY <2>2, <3>3 DEF UpdateReference, NoRef
      <4> QED
        BY <3>1, <3>3, <4>1
    <3> QED
      BY <3>2, <3>3
  <2> QED
    BY <2>1, <2>2
<1>4. TypeOK'
  BY <1>1, <1>3 DEF TypeOK, WriteSteps
<1>5. Fresh'
  BY <1>1 DEF Fresh, TypeOK, Waiting
<1>6. Placed'
  BY <1>1 DEF Placed
<1>7. OneCleanup'
  BY <1>1 DEF OneCleanup, Expired, TypeOK, Cleaning
<1>8. Progress'
  BY <1>1 DEF Progress, Swept, TypeOK
<1>9. /\ written'[w] = t /\ pc'[w] = "referenced"
      /\ \A v \in Writers : v # w => written'[v] = written[v] /\ pc'[v] = pc[v]
  BY <1>1, <1>3 DEF TypeOK
<1>10. Held'
  <2>1. ASSUME NEW v \in Writers, v # w, written[v] # NoRef, t # NoRef
        PROVE  batch[v].item # batch[w].item
    BY <1>3, <2>1 DEF Locked
  <2> QED
    BY <1>1, <1>3, <1>9, <2>1 DEF Held, References
<1>11. Unseen'
  BY <1>1, <1>3, <1>9 DEF Unseen, Close, References
<1>12. Recent'
  BY <1>1 DEF Recent, Close, References
<1> QED
  BY <1>4, <1>5, <1>6, <1>7, <1>8, <1>10, <1>11, <1>12 DEF References

\* A commit of a text makes it at most a little older than any batch that waits.
LEMMA CommitIsClose ==
    ASSUME IInv, NEW w \in Writers, pc[w] \in Waiting, NEW v \in Writers, pc[v] \in Waiting,
           NEW t \in Nat, t >= batch[w].collected
    PROVE  Close(t, batch[v].collected)
<1>1. /\ batch[w] \in Samples /\ now <= batch[w].collected + MaxDelay
      /\ batch[v] \in Samples /\ batch[v].collected <= now
  BY DEF IInv, Fresh
<1>2. batch[w].collected \in Nat /\ batch[v].collected \in Nat /\ now \in Nat
  BY <1>1, SampleDay DEF IInv, TypeOK
<1> QED
  BY <1>1, <1>2, Numbers DEF Close

\* A batch that commits is younger than the cutoff of any cleanup.
LEMMA CommitStep == ASSUME IInv, NEW w \in Writers, Commit(w) PROVE IInv'
<1> USE DEF IInv
<1> DEFINE s == batch[w]
           kind == IF written[w] # NoRef THEN "written"
                   ELSE IF refs[s.item] # NoRef THEN "found" ELSE "none"
           new == Row(s, kind)
<1>1. /\ pc[w] = "referenced" /\ pc' = [pc EXCEPT ![w] = "cleanup"]
      /\ batch' = [batch EXCEPT ![w] = NoBatch] /\ existed' = [existed EXCEPT ![w] = FALSE]
      /\ written' = [written EXCEPT ![w] = NoRef]
      /\ partitions' = partitions \union {Partition(s)}
      /\ refs' = IF written[w] # NoRef THEN [refs EXCEPT ![s.item] = written[w]] ELSE refs
      /\ rows' = rows \union {new}
      /\ UNCHANGED <<now, cleaner, lastCleanup, cutoff, table, expired>>
  BY DEF Commit, Leaves, cleanup
<1>2. /\ s \in Samples /\ s.time <= s.collected /\ now <= s.collected + MaxDelay
      /\ s.item \in Items
  BY <1>1, SampleDay DEF Fresh, Waiting
<1>3. /\ new \in Rows /\ new.table = s.table /\ new.item = s.item /\ new.time = s.time
      /\ new.collected = s.collected /\ new.ref = kind
  BY <1>2 DEF Samples, Rows, Row
<1>4. Partition(new) = Partition(s) /\ Partition(s) \in [table : Tables, day : Nat]
  BY <1>2, <1>3, SampleDay DEF Partition
<1>5. /\ refs' \in [Items -> Nat]
      /\ \A q \in Items : refs'[q] >= refs[q]
      /\ \A q \in Items : q # s.item => refs'[q] = refs[q]
      /\ written[w] # NoRef => refs'[s.item] = written[w]
      /\ written[w] = NoRef => refs' = refs
  BY <1>1, <1>2 DEF TypeOK, References, Held
<1>6. kind \in {"written", "found", "none"} /\ (kind = "written" <=> written[w] # NoRef)
      /\ (kind = "found" => refs[s.item] # NoRef)
  OBVIOUS
<1> HIDE DEF s, new, kind
<1>7. TypeOK'
  BY <1>1, <1>3, <1>4, <1>5 DEF TypeOK, WriteSteps, NoRef
<1>8. Fresh'
  BY <1>1 DEF Fresh, TypeOK, Waiting
<1>9. Placed'
  BY <1>1, <1>2, <1>3, <1>4 DEF Placed
<1>10. OneCleanup'
  BY <1>1 DEF OneCleanup, Expired, TypeOK, Cleaning
<1>11. Swept(new)
  <2>1. s.collected \in Nat /\ now \in Nat /\ cutoff \in Nat
    BY <1>2, SampleDay DEF TypeOK
  <2>2. cutoff <= s.collected
    BY <1>2, <2>1, Numbers DEF OneCleanup
  <2> QED
    BY <1>3, <2>1, <2>2, DaysOrdered, DayOf DEF Swept
<1>12. Progress'
  BY <1>1, <1>11 DEF Progress, Swept, TypeOK
<1>13. /\ written'[w] = NoRef /\ pc'[w] # "referenced"
       /\ \A v \in Writers : v # w => /\ written'[v] = written[v] /\ pc'[v] = pc[v]
                                      /\ batch'[v] = batch[v]
  BY <1>1 DEF TypeOK
<1>14. Held'
  <2>1. ASSUME NEW v \in Writers, written'[v] # NoRef
        PROVE  v # w /\ refs'[batch[v].item] = refs[batch[v].item]
    <3>1. v # w /\ pc[v] = "referenced"
      BY <1>13, <2>1 DEF References, Held
    <3>2. batch[v].item \in Items
      BY <3>1, SampleDay DEF Fresh, Waiting
    <3>3. written[w] # NoRef => batch[v].item # s.item
      BY <1>13, <2>1, <3>1 DEF References, Held, s
    <3> QED
      BY <1>5, <3>1, <3>2, <3>3
  <2> QED
    BY <1>13, <2>1 DEF References, Held
<1>15. Unseen'
  <2>1. ASSUME NEW v \in Writers, pc'[v] = "referenced", written'[v] = NoRef
        PROVE  /\ batch'[v].item \in SQLs
               /\ \/ refs'[batch'[v].item] = NoRef
                  \/ Close(refs'[batch'[v].item], batch'[v].collected)
    <3>1. /\ v # w /\ batch'[v] = batch[v] /\ pc[v] = "referenced" /\ written[v] = NoRef
      BY <1>13, <2>1
    <3>2. /\ batch[v].item \in SQLs /\ batch[v].item \in Items
          /\ refs[batch[v].item] = NoRef \/ Close(refs[batch[v].item], batch[v].collected)
      BY <3>1 DEF References, Unseen, Items
    <3>3. CASE written[w] # NoRef /\ batch[v].item = s.item
      <4>1. written[w] >= s.collected /\ written[w] \in Nat
        BY <3>2, <3>3 DEF References, Held, TypeOK, s
      <4>2. Close(written[w], batch[v].collected)
        BY <1>1, <3>1, <4>1, CommitIsClose DEF Waiting, s
      <4> QED
        BY <1>5, <3>1, <3>2, <3>3, <4>2
    <3>4. CASE ~(written[w] # NoRef /\ batch[v].item = s.item)
      BY <1>5, <3>1, <3>2, <3>4
    <3> QED
      BY <3>3, <3>4
  <2> QED
    BY <2>1 DEF Unseen, Close
<1>16. Recent'
  <2>1. ASSUME NEW r \in rows
        PROVE  /\ r.ref = "written" => refs'[r.item] # NoRef /\ refs'[r.item] >= DayStart(r.collected)
               /\ r.ref = "found" => \/ refs'[r.item] # NoRef /\ Close(refs'[r.item], r.collected)
                                     \/ now + MaxDelay > r.collected + Retention
    <3>1. /\ r.item \in Items /\ r.collected \in Nat /\ DayStart(r.collected) \in Nat
      BY SampleDay DEF TypeOK
    <3>2. refs[r.item] \in Nat /\ refs'[r.item] \in Nat /\ refs'[r.item] >= refs[r.item]
      BY <1>5, <3>1 DEF TypeOK
    <3> QED
      BY <3>1, <3>2, Numbers DEF References, Recent, Close, NoRef
  <2>2. /\ kind = "written" => refs'[s.item] # NoRef /\ refs'[s.item] >= DayStart(s.collected)
        /\ kind = "found" => refs'[s.item] # NoRef /\ Close(refs'[s.item], s.collected)
    BY <1>1, <1>5, <1>6 DEF References, Held, Unseen, s
  <2> QED
    BY <1>1, <1>3, <2>1, <2>2 DEF Recent, Close
<1> QED
  BY <1>7, <1>8, <1>9, <1>10, <1>12, <1>14, <1>15, <1>16 DEF References

\* A failed write leaves nothing.
LEMMA RollbackStep == ASSUME IInv, NEW w \in Writers, Rollback(w) PROVE IInv'
<1> USE DEF IInv
<1>1. /\ pc[w] \in Waiting /\ pc' = [pc EXCEPT ![w] = "idle"]
      /\ batch' = [batch EXCEPT ![w] = NoBatch] /\ existed' = [existed EXCEPT ![w] = FALSE]
      /\ written' = [written EXCEPT ![w] = NoRef]
      /\ UNCHANGED <<now, partitions, rows, refs, cleaner, lastCleanup, cutoff, table, expired>>
  BY DEF Rollback, Leaves, Waiting, store, cleanup
<1>2. TypeOK'
  BY <1>1 DEF TypeOK, WriteSteps, NoRef
<1>3. Fresh'
  BY <1>1 DEF Fresh, TypeOK, Waiting
<1>4. Placed'
  BY <1>1 DEF Placed
<1>5. OneCleanup'
  BY <1>1 DEF OneCleanup, Expired, TypeOK, Cleaning
<1>6. Progress'
  BY <1>1 DEF Progress, Swept, TypeOK
<1>7. /\ written'[w] = NoRef /\ pc'[w] # "referenced"
      /\ \A v \in Writers : v # w => /\ written'[v] = written[v] /\ pc'[v] = pc[v]
                                     /\ batch'[v] = batch[v]
  BY <1>1 DEF TypeOK
<1>8. Held' /\ Unseen' /\ Recent'
  BY <1>1, <1>7 DEF References, Held, Unseen, Recent, Close
<1> QED
  BY <1>2, <1>3, <1>4, <1>5, <1>6, <1>8 DEF References

\* The cleanup is not due.
LEMMA NotDueStep == ASSUME IInv, NEW w \in Writers, CleanupNotDue(w) PROVE IInv'
<1> USE DEF IInv
<1>1. /\ pc[w] = "cleanup" /\ pc' = [pc EXCEPT ![w] = "idle"]
      /\ UNCHANGED <<now, partitions, rows, refs, batch, existed, written, cleaner, lastCleanup, cutoff, table,
                     expired>>
  BY DEF CleanupNotDue, store, cleanup
<1>2. TypeOK' /\ Fresh'
  BY <1>1 DEF TypeOK, WriteSteps, Fresh, Waiting
<1>3. Placed'
  BY <1>1 DEF Placed
<1>4. OneCleanup'
  BY <1>1 DEF OneCleanup, Expired, TypeOK, Cleaning
<1>5. Progress'
  BY <1>1 DEF Progress, Swept, TypeOK
<1>6. References'
  BY <1>1, ReferencesUntouched DEF TypeOK
<1> QED
  BY <1>2, <1>3, <1>4, <1>5, <1>6

\* Nobody else cleans up while the cleaner of the step does.
LEMMA OnlyCleaner ==
    ASSUME IInv, NEW w \in Writers, NEW v \in Writers, v # w,
           pc[w] \in Cleaning \/ cleaner = Nobody
    PROVE  pc[v] \notin Cleaning
BY RetentionAssumption DEF IInv, OneCleanup

\* A cleanup begins with everything before it.
LEMMA BeginsStep == ASSUME IInv, NEW w \in Writers, CleanupBegins(w) PROVE IInv'
<1> USE DEF IInv
<1>1. /\ pc[w] = "cleanup" /\ pc' = [pc EXCEPT ![w] = "list"]
      /\ cleaner = Nobody /\ cleaner' = w /\ lastCleanup' = now
      /\ cutoff' = IF now > Retention THEN now - Retention ELSE 0
      /\ UNCHANGED <<now, partitions, rows, refs, batch, existed, written, table, expired>>
  BY DEF CleanupBegins, store
<1>2. table = 1 /\ expired = {} /\ \A v \in Writers : pc[v] \notin Cleaning
  BY <1>1, RetentionAssumption DEF OneCleanup, Cleaning
<1>3. cutoff' \in Nat /\ (cutoff' = 0 \/ cutoff' + Retention <= now)
  BY <1>1, Numbers DEF TypeOK
<1>4. TypeOK'
  BY <1>1, <1>3 DEF TypeOK, WriteSteps
<1>5. Fresh'
  BY <1>1 DEF Fresh, Waiting, TypeOK
<1>6. Placed'
  BY <1>1 DEF Placed
<1>7. OneCleanup'
  <2>1. \A v \in Writers : pc'[v] \in Cleaning => v = w
    BY <1>1, <1>2 DEF TypeOK
  <2> QED
    BY <1>1, <1>2, <1>3, <2>1, RetentionAssumption DEF OneCleanup
<1>8. Progress'
  <2>1. ASSUME NEW v \in Writers, NEW r \in rows
        PROVE  /\ pc'[v] = "list" => r.table >= 1
               /\ pc'[v] # "drop" /\ pc'[v] \notin {"texts", "metadata"}
    <3>1. r.table >= 1
      BY SampleDay DEF TypeOK, Tables
    <3> QED
      BY <1>1, <1>2, <3>1 DEF TypeOK, Cleaning
  <2> QED
    BY <1>1, <1>2, <2>1 DEF Progress
<1>9. References'
  BY <1>1, ReferencesUntouched DEF TypeOK
<1> QED
  BY <1>4, <1>5, <1>6, <1>7, <1>8, <1>9

\* A sample in a day that is not over at the cutoff refers to nothing older than
\* the cutoff's day.
LEMMA KeptIsSwept ==
    ASSUME IInv, NEW r \in rows, ~Expired(Partition(r))
    PROVE  Swept(r)
<1>1. /\ r \in Rows /\ cutoff \in Nat /\ r.time \in Nat /\ r.collected \in Nat
      /\ Partition(r).day = DayStart(r.time)
  BY SampleDay DEF IInv, TypeOK
<1>2. DayStart(r.time) \in Nat /\ DayStart(r.time) <= r.time /\ DayStart(cutoff) \in Nat
  BY <1>1, DayOf
<1>3. cutoff < DayStart(r.time) + DayLength
  BY <1>1, <1>2, Numbers DEF Expired
<1>4. DayStart(cutoff) <= DayStart(r.time)
  BY <1>1, <1>3, DaysAligned
<1>5. r.time <= r.collected
  BY DEF IInv, Placed
<1>6. DayStart(r.time) <= DayStart(r.collected) /\ DayStart(r.collected) \in Nat
  BY <1>1, <1>5, DaysOrdered, DayOf
<1> QED
  BY <1>2, <1>4, <1>6 DEF Swept

\* The expired partitions of a table are listed.
LEMMA ListStep == ASSUME IInv, NEW w \in Writers, ListPartitions(w) PROVE IInv'
<1> USE DEF IInv
<1>1. /\ pc[w] = "list" /\ pc' = [pc EXCEPT ![w] = "drop"]
      /\ expired' = {p \in partitions : p.table = table /\ Expired(p)}
      /\ UNCHANGED <<now, partitions, rows, refs, batch, existed, written, cleaner, lastCleanup, cutoff, table>>
  BY DEF ListPartitions, store
<1>2. cleaner = w /\ \A v \in Writers : v # w => pc[v] \notin Cleaning
  BY <1>1, OnlyCleaner DEF OneCleanup, Cleaning
<1>3. TypeOK'
  BY <1>1 DEF TypeOK, WriteSteps
<1>4. Fresh'
  BY <1>1 DEF Fresh, Waiting, TypeOK
<1>5. Placed'
  BY <1>1 DEF Placed
<1>6. OneCleanup'
  BY <1>1, <1>2, RetentionAssumption DEF OneCleanup, Cleaning, Expired, TypeOK
<1>7. Progress'
  <2>1. ASSUME NEW r \in rows PROVE Swept(r) \/ r.table > table \/ Partition(r) \in expired'
    <3>1. /\ r.table \in Nat /\ table \in Nat /\ Partition(r).table = r.table
          /\ Partition(r) \in partitions
      BY SampleDay DEF TypeOK, Tables, Placed
    <3>2. Swept(r) \/ r.table >= table
      BY <1>1 DEF Progress
    <3>3. CASE Expired(Partition(r))
      BY <1>1, <3>1, <3>2, <3>3
    <3>4. CASE ~Expired(Partition(r))
      BY <3>4, KeptIsSwept
    <3> QED
      BY <3>3, <3>4
  <2>2. \A v \in Writers : pc'[v] # "list" /\ pc'[v] \notin {"texts", "metadata"}
    BY <1>1, <1>2 DEF TypeOK, Cleaning
  <2> QED
    BY <1>1, <2>1, <2>2 DEF Progress, Swept
<1>8. References'
  BY <1>1, ReferencesUntouched DEF TypeOK
<1> QED
  BY <1>3, <1>4, <1>5, <1>6, <1>7, <1>8

\* An expired partition is dropped with its samples, none of which is younger
\* than the retention period.
LEMMA DropStep ==
    ASSUME IInv, NEW w \in Writers, NEW p \in expired, DropPartition(w, p)
    PROVE  IInv' /\ \A r \in rows : r \notin rows' => r.time + Retention <= now
<1> USE DEF IInv
<1>1. /\ pc[w] = "drop" /\ partitions' = partitions \ {p}
      /\ rows' = {r \in rows : Partition(r) # p}
      /\ expired' = expired \ {p}
      /\ UNCHANGED <<now, refs, pc, batch, existed, written, cleaner, lastCleanup, cutoff, table>>
  BY DEF DropPartition, calls
<1>2. cleaner = w /\ \A v \in Writers : v # w => pc[v] \notin Cleaning
  BY <1>1, OnlyCleaner DEF OneCleanup, Cleaning
<1>3. TypeOK'
  BY <1>1 DEF TypeOK
<1>4. Fresh'
  BY <1>1 DEF Fresh
<1>5. Placed'
  BY <1>1 DEF Placed
<1>6. OneCleanup'
  BY <1>1, <1>2, RetentionAssumption DEF OneCleanup, Expired
<1>7. Progress'
  <2>1. \A v \in Writers : pc[v] # "list" /\ pc[v] \notin {"texts", "metadata"}
    BY <1>1, <1>2 DEF Cleaning
  <2>2. \A r \in rows' : r \in rows /\ Partition(r) # p
    BY <1>1
  <2> QED
    BY <1>1, <2>1, <2>2 DEF Progress, Swept
<1>8. ASSUME NEW r \in rows, r \notin rows' PROVE r.time + Retention <= now
  <2>1. Partition(r) = p /\ Expired(p)
    BY <1>1, <1>8 DEF OneCleanup
  <2>2. /\ r.time \in Nat /\ Partition(r).day = DayStart(r.time)
        /\ now \in Nat /\ cutoff \in Nat
    BY SampleDay DEF TypeOK
  <2>3. DayStart(r.time) \in Nat /\ r.time < DayStart(r.time) + DayLength
    BY <2>2, DayOf
  <2>4. DayStart(r.time) + DayLength <= cutoff
    BY <2>1, <2>2 DEF Expired
  <2>5. r.time < cutoff
    BY <2>2, <2>3, <2>4, Numbers
  <2>6. cutoff = 0 \/ cutoff + Retention <= now
    BY DEF OneCleanup
  <2> QED
    BY <2>2, <2>5, <2>6, Numbers
<1>9. References'
  BY <1>1, ReferencesUntouched DEF TypeOK
<1> QED
  BY <1>3, <1>4, <1>5, <1>6, <1>7, <1>8, <1>9

\* All expired partitions of a table are dropped.
LEMMA NextTableStep == ASSUME IInv, NEW w \in Writers, NextTable(w) PROVE IInv'
<1> USE DEF IInv
<1>1. /\ pc[w] = "drop" /\ expired = {}
      /\ UNCHANGED <<now, partitions, rows, refs, batch, existed, written, cleaner, lastCleanup, cutoff,
                     expired>>
      /\ \/ table < NumTables /\ table' = table + 1 /\ pc' = [pc EXCEPT ![w] = "list"]
         \/ ~(table < NumTables) /\ table' = table /\ pc' = [pc EXCEPT ![w] = "texts"]
  BY DEF NextTable, store
<1>2. cleaner = w /\ \A v \in Writers : v # w => pc[v] \notin Cleaning
  BY <1>1, OnlyCleaner DEF OneCleanup, Cleaning
<1>3. table' \in Tables
  BY <1>1, Numbers DEF TypeOK, Tables
<1>4. TypeOK'
  BY <1>1, <1>3 DEF TypeOK, WriteSteps
<1>5. Fresh'
  BY <1>1 DEF Fresh, Waiting, TypeOK
<1>6. Placed'
  BY <1>1 DEF Placed
<1>7. OneCleanup'
  BY <1>1, <1>2, RetentionAssumption DEF OneCleanup, Cleaning, Expired, TypeOK
<1>8. Progress'
  <2>1. \A r \in rows : /\ Swept(r) \/ r.table > table
                        /\ r.table \in 1 .. NumTables /\ table \in 1 .. NumTables
    BY <1>1, SampleDay DEF Progress, TypeOK, Tables
  <2>2. \A v \in Writers : pc'[v] \in Cleaning => v = w
    BY <1>1, <1>2 DEF TypeOK
  <2>3. \A r \in rows : Swept(r)' <=> Swept(r)
    BY <1>1 DEF Swept
  <2>4. CASE table < NumTables
    <3>1. pc'[w] = "list" /\ \A r \in rows : Swept(r) \/ r.table >= table'
      BY <1>1, <2>1, <2>4, Numbers DEF TypeOK
    <3> QED
      BY <1>1, <2>2, <2>3, <3>1 DEF Progress, Cleaning
  <2>5. CASE ~(table < NumTables)
    <3>1. pc'[w] = "texts" /\ \A r \in rows : Swept(r)
      BY <1>1, <2>1, <2>5, Numbers DEF TypeOK
    <3> QED
      BY <1>1, <2>2, <2>3, <3>1 DEF Progress, Cleaning
  <2> QED
    BY <2>4, <2>5
<1>9. References'
  BY <1>1, ReferencesUntouched DEF TypeOK
<1> QED
  BY <1>4, <1>5, <1>6, <1>7, <1>8, <1>9

\* Only items that are older than the day of the cutoff are deleted: no sample
\* whose transaction has written one is left by then, and none that has found one
\* is young.
LEMMA ForgottenStep ==
    ASSUME IInv, NEW w \in Writers, pc[w] \in {"texts", "metadata"},
           NEW gone \in SUBSET Items, \A q \in gone : refs[q] < DayStart(cutoff), Forgotten(gone),
           UNCHANGED <<now, rows, batch, written>>,
           \A v \in Writers : pc[v] = "referenced" <=> pc'[v] = "referenced"
    PROVE  refs' \in [Items -> Nat] /\ References'
<1> USE DEF IInv, References
<1>1. refs' = [q \in Items |-> IF q \in gone THEN NoRef ELSE refs[q]]
  BY DEF Forgotten
<1>2. /\ refs' \in [Items -> Nat]
      /\ \A q \in Items : refs'[q] <= refs[q] /\ refs'[q] \in {NoRef, refs[q]}
  BY <1>1 DEF TypeOK, NoRef
<1>3. ASSUME NEW v \in Writers, pc[v] = "referenced" PROVE batch[v].item \in Items
  BY <1>3, SampleDay DEF Fresh, Waiting
<1>4. Held'
  <2>1. ASSUME NEW v \in Writers, written[v] # NoRef PROVE written[v] >= refs'[batch[v].item]
    <3>1. batch[v].item \in Items /\ written[v] >= refs[batch[v].item]
      BY <1>3, <2>1 DEF Held
    <3>2. /\ written[v] \in Nat /\ refs[batch[v].item] \in Nat /\ refs'[batch[v].item] \in Nat
          /\ refs'[batch[v].item] <= refs[batch[v].item]
      BY <1>2, <3>1 DEF TypeOK
    <3> QED
      BY <3>1, <3>2
  <2> QED
    BY <2>1 DEF Held
<1>5. Unseen'
  BY <1>2, <1>3 DEF Unseen, Close
<1>6. Recent'
  <2>1. ASSUME NEW r \in rows, r.item \in gone
        PROVE  r.ref # "written" /\ (r.ref = "found" => now + MaxDelay > r.collected + Retention)
    <3>1. /\ r.collected \in Nat /\ DayStart(r.collected) \in Nat /\ refs[r.item] \in Nat
          /\ now \in Nat /\ cutoff \in Nat
      BY SampleDay DEF TypeOK
    <3>2. DayStart(cutoff) \in Nat /\ DayStart(cutoff) <= cutoff
      BY <3>1, DayOf
    <3>3. refs[r.item] < DayStart(cutoff) /\ DayStart(r.collected) >= DayStart(cutoff)
      BY <2>1 DEF Progress, Swept
    <3>4. r.ref # "written"
      BY <3>1, <3>2, <3>3 DEF Recent
    <3>5. ASSUME r.ref = "found" PROVE now + MaxDelay > r.collected + Retention
      <4>1. cutoff + Retention <= now
        BY <3>1, <3>2, <3>3, Numbers DEF OneCleanup
      <4>2. CASE Close(refs[r.item], r.collected)
        BY <3>1, <3>2, <3>3, <4>1, <4>2, Numbers DEF Close
      <4>3. CASE ~Close(refs[r.item], r.collected)
        BY <3>5, <4>3 DEF Recent
      <4> QED
        BY <4>2, <4>3
    <3> QED
      BY <3>4, <3>5
  <2>2. ASSUME NEW r \in rows, r.item \notin gone PROVE refs'[r.item] = refs[r.item]
    BY <1>1, <2>2, SampleDay DEF TypeOK
  <2> QED
    BY <2>1, <2>2 DEF Recent, Close
<1> QED
  BY <1>2, <1>4, <1>5, <1>6

\* The expired texts are deleted.
LEMMA DeleteTextsStep == ASSUME IInv, NEW w \in Writers, DeleteExpiredSQLTexts(w) PROVE IInv'
<1> USE DEF IInv
<1> DEFINE gone == {q \in SQLs : refs[q] # NoRef /\ refs[q] < RetentionDayCutoff}
<1>1. /\ pc[w] = "texts" /\ pc' = [pc EXCEPT ![w] = "metadata"] /\ Forgotten(gone)
      /\ UNCHANGED <<now, partitions, rows, batch, existed, written, cleaner, lastCleanup, cutoff,
                     table, expired>>
  BY DEF DeleteExpiredSQLTexts, cleanup
<1>2. gone \in SUBSET Items /\ \A q \in gone : refs[q] < DayStart(cutoff)
  BY DEF Items, RetentionDayCutoff
<1> HIDE DEF gone
<1>3. refs' \in [Items -> Nat] /\ References'
  <2>1. \A v \in Writers : pc[v] = "referenced" <=> pc'[v] = "referenced"
    BY <1>1 DEF TypeOK
  <2> QED
    BY <1>1, <1>2, <2>1, ForgottenStep
<1>4. TypeOK'
  BY <1>1, <1>3 DEF TypeOK, WriteSteps
<1>5. Fresh' /\ Placed'
  BY <1>1 DEF Fresh, Waiting, TypeOK, Placed
<1>6. OneCleanup'
  BY <1>1 DEF OneCleanup, Cleaning, Expired, TypeOK
<1>7. Progress'
  BY <1>1 DEF Progress, Swept, TypeOK
<1> QED
  BY <1>3, <1>4, <1>5, <1>6, <1>7

\* The end of a cleanup, after its last step or after a failure.
LEMMA FinishStep ==
    ASSUME IInv, NEW w \in Writers, DeleteExpiredSQLCursorMetadata(w) \/ CleanupFails(w)
    PROVE  IInv'
<1> USE DEF IInv
<1>1. /\ pc[w] \in Cleaning /\ pc' = [pc EXCEPT ![w] = "idle"]
      /\ cleaner' = Nobody /\ expired' = {} /\ cutoff' = 0 /\ table' = 1
      /\ UNCHANGED <<now, partitions, rows, batch, existed, written, lastCleanup>>
  BY DEF DeleteExpiredSQLCursorMetadata, CleanupFails, Finished, Cleaning, store
<1>2. \A v \in Writers : pc'[v] \notin Cleaning
  BY <1>1, OnlyCleaner DEF TypeOK, Cleaning
<1>3. refs' \in [Items -> Nat] /\ References'
  <2>1. \A v \in Writers : pc[v] = "referenced" <=> pc'[v] = "referenced"
    BY <1>1 DEF TypeOK, Cleaning
  <2>2. CASE DeleteExpiredSQLCursorMetadata(w)
    <3>1. pc[w] = "metadata" /\ \E gone \in SUBSET {q \in Cursors : refs[q] < DayStart(cutoff)} :
                                   Forgotten(gone)
      BY <2>2 DEF DeleteExpiredSQLCursorMetadata, RetentionDayCutoff
    <3>2. PICK gone \in SUBSET {q \in Cursors : refs[q] < DayStart(cutoff)} : Forgotten(gone)
      BY <3>1
    <3>3. gone \in SUBSET Items /\ \A q \in gone : refs[q] < DayStart(cutoff)
      BY DEF Items
    <3> QED
      BY <1>1, <2>1, <3>1, <3>2, <3>3, ForgottenStep
  <2>3. CASE CleanupFails(w)
    <3>1. refs' = refs
      BY <2>3 DEF CleanupFails, store
    <3> QED
      BY <1>1, <2>1, <3>1, ReferencesUntouched DEF TypeOK
  <2> QED
    BY <2>2, <2>3
<1>4. TypeOK'
  <2>1. 1 \in Tables
    BY Numbers DEF Tables
  <2> QED
    BY <1>1, <1>3, <2>1 DEF TypeOK, WriteSteps
<1>5. Fresh' /\ Placed'
  BY <1>1 DEF Fresh, Waiting, TypeOK, Placed
<1>6. OneCleanup' /\ Progress'
  BY <1>1, <1>2 DEF OneCleanup, Progress, Cleaning
<1> QED
  BY <1>3, <1>4, <1>5, <1>6

\* Nothing happens.
LEMMA StutterStep == ASSUME IInv, UNCHANGED vars PROVE IInv'
<1>1. UNCHANGED <<now, partitions, rows, refs, pc, batch, existed, written, cleaner, lastCleanup, cutoff, table,
                  expired>>
  BY DEF vars, store, calls, cleanup
<1> QED
  BY <1>1 DEF IInv, TypeOK, Fresh, Placed, OneCleanup, Progress, Swept, Expired,
             References, Held, Unseen, Recent, Close

\* Only DropPartition takes samples away.
LEMMA NothingElseDrops ==
    ASSUME [Next]_vars, ~(\E w \in Writers, p \in expired : DropPartition(w, p))
    PROVE  rows \subseteq rows'
BY DEF Next, Tick, Collect, EnsurePartition, Upsert, UpdateReference, Commit, Rollback,
       CleanupNotDue, CleanupBegins, ListPartitions, NextTable, DeleteExpiredSQLTexts,
       DeleteExpiredSQLCursorMetadata, CleanupFails, vars, store

\* Every step.
LEMMA NextStep ==
    ASSUME IInv, [Next]_vars
    PROVE  IInv' /\ \A r \in rows : r \notin rows' => r.time + Retention <= now
<1>1. IInv'
  BY TickStep, CollectStep, EnsureStep, ReferenceStep, CommitStep, RollbackStep, NotDueStep,
     BeginsStep, ListStep, DropStep, NextTableStep, DeleteTextsStep, FinishStep, StutterStep DEF Next
<1>2. \A r \in rows : r \notin rows' => r.time + Retention <= now
  BY DropStep, NothingElseDrops
<1> QED
  BY <1>1, <1>2

-----------------------------------------------------------------------------
(* The theorems.                                                           *)

\* The inductive invariant holds in every behaviour.
THEOREM RetentionInvariant == Spec => []IInv
<1>1. Init => IInv
  BY InitIInv
<1>2. IInv /\ [Next]_vars => IInv'
  BY NextStep
<1> QED
  BY <1>1, <1>2, PTL DEF Spec

\* cleanupRetention never deletes the SQL text or the cursor metadata that the
\* transaction of a stored sample has written, whatever is written or fails while
\* it works; a text that the transaction did not find, and that was there at its
\* commit, is kept for the retention period less MaxDelay.
THEOREM RetentionReferencesKept == Spec => []ReferencesKept
<1>1. IInv => ReferencesKept
  BY DEF IInv, References, Recent, ReferencesKept
<1> QED
  BY <1>1, RetentionInvariant, PTL

\* cleanupRetention drops no partition with a sample that is younger than the
\* retention period.
THEOREM RetentionOnlyExpiredRemoved == Spec => OnlyExpiredRemoved
<1>1. IInv /\ [Next]_vars => [\A r \in rows : r \notin rows' => r.time + Retention <= now]_vars
  BY NextStep
<1> QED
  BY <1>1, RetentionInvariant, PTL DEF Spec, OnlyExpiredRemoved
=============================================================================
