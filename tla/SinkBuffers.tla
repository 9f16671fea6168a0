----------------------------- MODULE SinkBuffers -----------------------------
(***************************************************************************)
(* The two buffers of postgresql.Sink and the writers that share them.     *)
(*                                                                         *)
(* Each scheduler goroutine (scheduled, activity, dead connection          *)
(* detection) calls WriteSamples, one call at a time.  A call takes the    *)
(* buffered runtime telemetry along into its transaction, puts it back if  *)
(* the transaction fails, and afterwards buffers the telemetry of its own  *)
(* run.  A call that commits also counts its rows; the counts are flushed  *)
(* to the daily ingestion table now and then, in a transaction of their    *)
(* own.  sink.Close() flushes both buffers when the process stops.         *)
(*                                                                         *)
(* A batch is one row, a telemetry sample is who recorded it and when.     *)
(* PostgreSQL is external: a transaction commits, fails, or commits        *)
(* without the client hearing of it.  Time is left open: at each look at   *)
(* the clock a flush interval may have passed or not.                      *)
(***************************************************************************)
EXTENDS Naturals, Sequences, SequencesExt, FiniteSets

CONSTANTS
    Writers,         \* the scheduler goroutines
    Nobody,
    MaxPending,      \* maxPendingRuntimeSamples
    MaxSamples,      \* bound: telemetry samples recorded in a behaviour
    MaxRows,         \* bound: batches committed in a behaviour
    MaxUnheard       \* bound: commits that succeed although the client sees an error

ASSUME SinkAssumption ==
    /\ Writers # {}
    /\ IsFiniteSet(Writers)
    /\ Nobody \notin Writers
    /\ "closer" \notin Writers \union {Nobody}
    /\ MaxPending \in Nat \ {0}
    /\ MaxSamples \in Nat
    /\ MaxRows \in Nat
    /\ MaxUnheard \in Nat

Samples == [scheduler : Writers, observed : 1 .. MaxSamples]

VARIABLES
    mode,           \* "open", "closing" (sink.Close() runs), "closed"
    pc,             \* [writer -> where its WriteSamples call is]
    closer,         \* where sink.Close() is
    pendingRuntime, \* buffered telemetry, in queue order
    taken,          \* [writer -> telemetry in its transaction]
    closerTaken,    \* telemetry in the transaction of flushRuntime
    recorded,       \* number of samples recorded so far: the clock of observed
    stored,         \* the samples in the runtime samples table
    duplicated,     \* those of them that are in it more than once
    latest,         \* [scheduler -> observed_at of its latest status row, or 0]
    dropped,        \* samples dropped because the buffer was full
    pendingIngest,  \* rows counted and not yet flushed
    flusher,        \* holder of ingestFlushMu
    inFlush,        \* rows taken by the holder and not yet flushed
    ingestTable,    \* rows the daily ingestion table accounts for
    committed,      \* rows really committed
    unheard,        \* commits that the client has not heard of
    overlap,        \* a WriteSamples call overlapped sink.Close()
    closeFailed     \* one of the flushes of sink.Close() failed

runtimeVars == <<pendingRuntime, taken, closerTaken, recorded,
                 stored, duplicated, latest, dropped>>
ingestVars == <<pendingIngest, flusher, inFlush, ingestTable, committed>>
closeVars == <<mode, closer, overlap, closeFailed>>
vars == <<pc, runtimeVars, ingestVars, closeVars, unheard>>

WriteSteps == {"idle", "writing", "failed", "committed",
               "counted", "flushing", "result"}
CloseSteps == {"none", "flushRuntime", "writing", "flushIngest", "flushing", "pool"}

\* A commit succeeds and its answer is lost.
Unheard == unheard < MaxUnheard /\ unheard' = unheard + 1

-----------------------------------------------------------------------------
(* The telemetry buffer.                                                   *)

\* What is left of a queue, and what is lost, when it is cut to MaxPending.
Overflow(queue) == IF Len(queue) > MaxPending THEN Len(queue) - MaxPending ELSE 0
\* Variant: the buffer is not cut.
KeptAll(queue) == queue
Kept(queue) == SubSeq(queue, Overflow(queue) + 1, Len(queue))
Cut(queue) == ToSet(SubSeq(queue, 1, Overflow(queue)))

\* Variant: a failed batch is not put back.
RequeueRuntimeForgets(queue, batch) == queue

\* queueRuntime and requeueRuntime: the new buffer before it is cut.
QueueRuntime(queue, sample) == Append(queue, sample)
RequeueRuntime(queue, batch) == batch \o queue

\* The buffer becomes queue, cut to its limit from the front.
Buffer(queue) ==
    /\ pendingRuntime' = Kept(queue)
    /\ dropped' = dropped \union Cut(queue)

\* Variant: the last sample of a scheduler in the batch, not its newest.
NewestInBatchByPosition(batch, w) ==
    LET mine == SelectSeq(batch, LAMBDA s : s.scheduler = w)
    IN  IF mine = <<>> THEN 0 ELSE mine[Len(mine)].observed

\* The newest sample of scheduler w in a set of samples; 0 if there is none.
Newest(samples, w) ==
    LET times == {s.observed : s \in {x \in samples : x.scheduler = w}}
    IN  IF times = {} THEN 0 ELSE CHOOSE t \in times : \A u \in times : u <= t

\* The index that writeRuntimeSamples keeps for scheduler w.
NewestInBatch(batch, w) == Newest(ToSet(batch), w)

\* writeRuntimeSamples, as its transaction commits: rows are copied, and the
\* newest of each scheduler replaces an older latest status.
WriteRuntimeSamples(batch) ==
    /\ stored' = stored \union ToSet(batch)
    /\ duplicated' = duplicated \union (stored \intersect ToSet(batch))
    /\ latest' = [w \in Writers |->
                    IF NewestInBatch(batch, w) > latest[w] THEN NewestInBatch(batch, w)
                                                           ELSE latest[w]]

-----------------------------------------------------------------------------
(* WriteSamples of writer w.                                               *)

\* Variant: the telemetry is copied and the buffer is not emptied.
TakeRuntimeCopies(w) ==
    /\ pc[w] = "idle"
    /\ mode # "closed"
    /\ pc' = [pc EXCEPT ![w] = "writing"]
    /\ overlap' = (overlap \/ mode = "closing")
    /\ taken' = [taken EXCEPT ![w] = pendingRuntime]
    /\ UNCHANGED <<pendingRuntime, closerTaken, recorded, stored, duplicated, latest, dropped,
                   ingestVars, mode, closer, closeFailed, unheard>>

\* takePendingRuntime(false), which takes all telemetry if its flush interval has
\* passed, then pool.Begin: the call starts.
TakeRuntime(w) ==
    /\ pc[w] = "idle"
    /\ mode # "closed"
    /\ pc' = [pc EXCEPT ![w] = "writing"]
    /\ overlap' = (overlap \/ mode = "closing")
    /\ UNCHANGED <<closerTaken, recorded, stored, duplicated, latest, dropped, ingestVars,
                   mode, closer, closeFailed, unheard>>
    /\ \/ /\ taken' = [taken EXCEPT ![w] = pendingRuntime]
          /\ pendingRuntime' = <<>>
       \/ UNCHANGED <<taken, pendingRuntime>>

\* Begin, a statement or Commit fails: nothing of the batch is stored.
WriteFails(w) ==
    /\ pc[w] = "writing"
    /\ pc' = [pc EXCEPT ![w] = "failed"]
    /\ UNCHANGED <<runtimeVars, ingestVars, closeVars, unheard>>

\* Variant: the deferred call does not learn that the transaction committed.
WriteCommitsUnnoticed(w) ==
    /\ pc[w] = "writing"
    /\ committed < MaxRows
    /\ WriteRuntimeSamples(taken[w])
    /\ committed' = committed + 1
    /\ pc' = [pc EXCEPT ![w] = "failed"]
    /\ UNCHANGED <<pendingRuntime, taken, closerTaken, recorded, dropped,
                   pendingIngest, flusher, inFlush, ingestTable, closeVars, unheard>>

\* Commit reports success.
WriteCommits(w) ==
    /\ pc[w] = "writing"
    /\ committed < MaxRows
    /\ WriteRuntimeSamples(taken[w])
    /\ taken' = [taken EXCEPT ![w] = <<>>]
    /\ committed' = committed + 1
    /\ pc' = [pc EXCEPT ![w] = "committed"]
    /\ UNCHANGED <<pendingRuntime, closerTaken, recorded, dropped,
                   pendingIngest, flusher, inFlush, ingestTable, closeVars, unheard>>

\* PostgreSQL commits and the answer is lost: to WriteSamples a failure.
WriteOutcomeUnknown(w) ==
    /\ Unheard
    /\ pc[w] = "writing"
    /\ committed < MaxRows
    /\ WriteRuntimeSamples(taken[w])
    /\ committed' = committed + 1
    /\ pc' = [pc EXCEPT ![w] = "failed"]
    /\ UNCHANGED <<pendingRuntime, taken, closerTaken, recorded, dropped,
                   pendingIngest, flusher, inFlush, ingestTable, closeVars>>

\* The deferred call: requeueRuntime if the transaction did not commit ...
Requeue(w) ==
    /\ pc[w] = "failed"
    /\ mode # "closed"
    /\ Buffer(RequeueRuntime(pendingRuntime, taken[w]))
    /\ taken' = [taken EXCEPT ![w] = <<>>]
    /\ pc' = [pc EXCEPT ![w] = "result"]
    /\ UNCHANGED <<closerTaken, recorded, stored, duplicated, latest, ingestVars, closeVars, unheard>>

\* ... then recordRuntimeResult, which a successful call reaches too.
RecordRuntimeResult(w) ==
    /\ pc[w] = "result"
    /\ mode # "closed"
    /\ recorded < MaxSamples
    /\ Buffer(QueueRuntime(pendingRuntime, [scheduler |-> w, observed |-> recorded + 1]))
    /\ recorded' = recorded + 1
    /\ pc' = [pc EXCEPT ![w] = "idle"]
    /\ UNCHANGED <<taken, closerTaken, stored, duplicated, latest, ingestVars, closeVars, unheard>>

\* A batch may come without telemetry; the bounded model ends this way.
NoRuntimeResult(w) ==
    /\ pc[w] = "result"
    /\ mode # "closed"
    /\ recorded = MaxSamples
    /\ pc' = [pc EXCEPT ![w] = "idle"]
    /\ UNCHANGED <<runtimeVars, ingestVars, closeVars, unheard>>

-----------------------------------------------------------------------------
(* Row accounting of a call that committed.                                *)

\* recordRepositoryIngest
RecordIngest(w) ==
    /\ pc[w] = "committed"
    /\ mode # "closed"
    /\ pendingIngest' = pendingIngest + 1
    /\ pc' = [pc EXCEPT ![w] = "counted"]
    /\ UNCHANGED <<runtimeVars, flusher, inFlush, ingestTable, committed, closeVars, unheard>>

\* flushRepositoryIngest(false) within its interval.
FlushNotDue(w) ==
    /\ pc[w] = "counted"
    /\ mode # "closed"
    /\ flusher = Nobody
    /\ pc' = [pc EXCEPT ![w] = "result"]
    /\ UNCHANGED <<runtimeVars, ingestVars, closeVars, unheard>>

\* The counts are taken out of the buffer under ingestMu.
TakeIngest ==
    /\ inFlush' = pendingIngest
    /\ pendingIngest' = 0

FlushBegins(w) ==
    /\ pc[w] = "counted"
    /\ mode # "closed"
    /\ flusher = Nobody
    /\ flusher' = w
    /\ TakeIngest
    /\ pc' = [pc EXCEPT ![w] = "flushing"]
    /\ UNCHANGED <<runtimeVars, ingestTable, committed, closeVars, unheard>>

\* writeRepositoryIngest ends, and ingestFlushMu is released.
IngestWritten ==
    /\ ingestTable' = ingestTable + inFlush
    /\ inFlush' = 0
    /\ flusher' = Nobody
    /\ UNCHANGED pendingIngest

\* Variant: the counts of a failed flush are forgotten.
IngestPutBackForgotten ==
    /\ inFlush' = 0
    /\ flusher' = Nobody
    /\ UNCHANGED <<pendingIngest, ingestTable>>

IngestPutBack ==
    /\ pendingIngest' = pendingIngest + inFlush
    /\ inFlush' = 0
    /\ flusher' = Nobody
    /\ UNCHANGED ingestTable

\* PostgreSQL commits the counts and the answer is lost: they go back too.
IngestOutcomeUnknown ==
    /\ Unheard
    /\ ingestTable' = ingestTable + inFlush
    /\ pendingIngest' = pendingIngest + inFlush
    /\ inFlush' = 0
    /\ flusher' = Nobody

FlushEnds(w) ==
    /\ pc[w] = "flushing"
    /\ \/ (IngestWritten \/ IngestPutBack) /\ UNCHANGED unheard
       \/ IngestOutcomeUnknown
    /\ pc' = [pc EXCEPT ![w] = "result"]
    /\ UNCHANGED <<runtimeVars, committed, closeVars>>

-----------------------------------------------------------------------------
(* sink.Close().  The collectors' context is cancelled and nobody waits    *)
(* for their goroutines.                                                   *)

CloseBegins ==
    /\ mode = "open"
    /\ mode' = "closing"
    /\ closer' = "flushRuntime"
    /\ overlap' = \E w \in Writers : pc[w] # "idle"
    /\ UNCHANGED <<pc, runtimeVars, ingestVars, closeFailed, unheard>>

\* Variant: the last flush of the telemetry is not forced.
CloseTakesRuntimeIfDue ==
    /\ closer = "flushRuntime"
    /\ \/ closerTaken' = pendingRuntime /\ pendingRuntime' = <<>>
       \/ closerTaken' = <<>> /\ UNCHANGED pendingRuntime
    /\ closer' = "writing"
    /\ UNCHANGED <<pc, taken, recorded, stored, duplicated, latest, dropped,
                   ingestVars, mode, overlap, closeFailed, unheard>>

\* flushRuntime: takePendingRuntime(true) ...
CloseTakesRuntime ==
    /\ closer = "flushRuntime"
    /\ closerTaken' = pendingRuntime
    /\ pendingRuntime' = <<>>
    /\ closer' = "writing"
    /\ UNCHANGED <<pc, taken, recorded, stored, duplicated, latest, dropped, ingestVars,
                   mode, overlap, closeFailed, unheard>>

\* ... and its transaction commits ...
CloseWritesRuntime ==
    /\ closer = "writing"
    /\ WriteRuntimeSamples(closerTaken)
    /\ closerTaken' = <<>>
    /\ closer' = "flushIngest"
    /\ UNCHANGED <<pc, pendingRuntime, taken, recorded, dropped,
                   ingestVars, mode, overlap, closeFailed, unheard>>

\* ... or fails, and the samples go back into the buffer.
CloseWriteFails ==
    /\ closer = "writing"
    /\ closerTaken # <<>>
    /\ Buffer(RequeueRuntime(pendingRuntime, closerTaken))
    /\ closerTaken' = <<>>
    /\ closeFailed' = TRUE
    /\ closer' = "flushIngest"
    /\ UNCHANGED <<pc, taken, recorded, stored, duplicated, latest, ingestVars,
                   mode, overlap, unheard>>

\* ... or commits without the client hearing of it.
CloseWriteOutcomeUnknown ==
    /\ Unheard
    /\ closer = "writing"
    /\ closerTaken # <<>>
    /\ WriteRuntimeSamples(closerTaken)
    /\ Buffer(RequeueRuntime(pendingRuntime, closerTaken))
    /\ closerTaken' = <<>>
    /\ closeFailed' = TRUE
    /\ closer' = "flushIngest"
    /\ UNCHANGED <<pc, taken, recorded, ingestVars, mode, overlap>>

\* flushRepositoryIngest(true)
CloseFlushBegins ==
    /\ closer = "flushIngest"
    /\ flusher = Nobody
    /\ flusher' = "closer"
    /\ TakeIngest
    /\ closer' = "flushing"
    /\ UNCHANGED <<pc, runtimeVars, ingestTable, committed, mode, overlap, closeFailed, unheard>>

CloseFlushed ==
    /\ closer = "flushing"
    /\ IngestWritten
    /\ closer' = "pool"
    /\ UNCHANGED <<pc, runtimeVars, committed, mode, overlap, closeFailed, unheard>>

CloseFlushFails ==
    /\ closer = "flushing"
    /\ inFlush # 0
    /\ (IngestPutBack /\ UNCHANGED unheard) \/ IngestOutcomeUnknown
    /\ closeFailed' = TRUE
    /\ closer' = "pool"
    /\ UNCHANGED <<pc, runtimeVars, committed, mode, overlap>>

\* pool.Close() waits for every connection; then the process ends.
CloseEnds ==
    /\ closer = "pool"
    /\ \A w \in Writers : pc[w] \notin {"writing", "flushing"}
    /\ mode' = "closed"
    /\ closer' = "none"
    /\ UNCHANGED <<pc, runtimeVars, ingestVars, overlap, closeFailed, unheard>>

Init ==
    /\ mode = "open"
    /\ closer = "none"
    /\ pc = [w \in Writers |-> "idle"]
    /\ pendingRuntime = <<>>
    /\ taken = [w \in Writers |-> <<>>]
    /\ closerTaken = <<>>
    /\ recorded = 0
    /\ stored = {}
    /\ duplicated = {}
    /\ latest = [w \in Writers |-> 0]
    /\ dropped = {}
    /\ pendingIngest = 0
    /\ flusher = Nobody
    /\ inFlush = 0
    /\ ingestTable = 0
    /\ committed = 0
    /\ unheard = 0
    /\ overlap = FALSE
    /\ closeFailed = FALSE

WriteSamples(w) ==
    \/ TakeRuntime(w)
    \/ WriteFails(w)
    \/ WriteCommits(w)
    \/ WriteOutcomeUnknown(w)
    \/ Requeue(w)
    \/ RecordRuntimeResult(w)
    \/ NoRuntimeResult(w)
    \/ RecordIngest(w)
    \/ FlushNotDue(w)
    \/ FlushBegins(w)
    \/ FlushEnds(w)

Close ==
    \/ CloseBegins
    \/ CloseTakesRuntime
    \/ CloseWritesRuntime
    \/ CloseWriteFails
    \/ CloseWriteOutcomeUnknown
    \/ CloseFlushBegins
    \/ CloseFlushed
    \/ CloseFlushFails
    \/ CloseEnds

Next ==
    \/ \E w \in Writers : WriteSamples(w)
    \/ Close

Spec == Init /\ [][Next]_vars

-----------------------------------------------------------------------------

\* The telemetry buffer never outgrows maxPendingRuntimeSamples, whatever is
\* put back by however many failed calls.
BufferBounded == Len(pendingRuntime) <= MaxPending

InMemory == ToSet(pendingRuntime) \union ToSet(closerTaken)
              \union UNION {ToSet(taken[w]) : w \in Writers}

\* No telemetry disappears: what was recorded is buffered, in a transaction,
\* stored, or was dropped on purpose because the buffer was full.
NoSampleLost ==
    \A t \in 1 .. recorded :
        \E s \in InMemory \union stored \union dropped : s.observed = t

\* The refinement mapping: what the log holds is in the buffer or in a transaction.
Log == INSTANCE TelemetryLog WITH held <- InMemory, Limit <- MaxPending

\* The buffer and its writers implement the abstract telemetry log: whatever fails
\* and is put back, each sample moves once, into the table or, while the buffer is
\* full, out of the log; only a commit whose answer is lost leaves it in both.
ImplementsTelemetryLog == Log!Spec

\* As long as the outcome of a commit is known, a sample is never stored twice,
\* and what was dropped as lost was not stored.
StoredOnce ==
    unheard = 0 => duplicated = {} /\ stored \intersect dropped = {}

\* The latest status of a scheduler is its newest stored sample, although
\* calls fail, batches are put back out of order and commits overtake each other.
LatestIsNewest == \A w \in Writers : latest[w] = Newest(stored, w)

Uncounted == Cardinality({w \in Writers : pc[w] = "committed"})

\* Every committed row is accounted for exactly once: about to be counted,
\* counted, in a flush, or in the daily ingestion table.
RowsAccounted ==
    unheard = 0 => committed = Uncounted + pendingIngest + inFlush + ingestTable

\* A Close that no WriteSamples call overlaps and whose flushes succeed leaves
\* nothing behind in the buffers.
CloseLeavesNothing ==
    mode = "closed" /\ ~overlap /\ ~closeFailed
        => pendingRuntime = <<>> /\ pendingIngest = 0
=============================================================================
