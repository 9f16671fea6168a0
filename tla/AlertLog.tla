------------------------------ MODULE AlertLog ------------------------------
(***************************************************************************)
(* The alert log export, alertlog/alertlog.go and alert_log_retry.go.      *)
(*                                                                         *)
(* One goroutine calls UpdateLog for one database after the other.  A call *)
(* finds the last record of its database in the log file, asks Oracle for  *)
(* the newer entries and appends them, one line each.  The file is the     *)
(* only memory of what was exported, and a line that cannot be parsed ends *)
(* the call.  Queries that fail are retried with a growing backoff.        *)
(*                                                                         *)
(* Oracle and the file system are external.  Entries of a database are     *)
(* logged, and returned, in the order of their timestamps; several may     *)
(* have the same one.  A write that fails may leave a part of its line     *)
(* behind (full disk, crash of the host), and files may be removed at any  *)
(* time (log rotation).                                                    *)
(***************************************************************************)
EXTENDS Integers, Sequences, FiniteSetsExt

CONSTANTS
    Databases, NoDatabase,
    Shared,          \* the log file without per-database files
    Missing,         \* a file that does not exist
    PerDatabaseFiles,
    InitialBackoff, MaxBackoff, \* in units of the tick
    TornWrites,      \* writes may leave a part of their line behind
    MaxTime,         \* bound: timestamps of entries
    EntriesPerTime   \* bound: entries with the same timestamp

ASSUME AlertLogAssumption ==
    /\ NoDatabase \notin Databases
    /\ PerDatabaseFiles \in BOOLEAN
    /\ TornWrites \in BOOLEAN
    /\ InitialBackoff \in Nat \ {0}
    /\ MaxBackoff \in Nat
    /\ InitialBackoff <= MaxBackoff
    /\ MaxTime \in Nat
    /\ EntriesPerTime \in Nat

VARIABLES
    entries,   \* [database -> its entries in V$DIAG_ALERT_EXT]
    files,     \* [file -> its lines, or Missing]
    pc,        \* the UpdateLog call
    current,   \* its database, or NoDatabase
    since,     \* lastLogRecord.Timestamp
    pending,   \* entries of the query that are not written yet
    detached,  \* the file was removed after it had been opened
    failures,  \* [database -> consecutiveFailures]
    wait       \* [database -> the time until retryAfter]

call == <<pc, current, since, pending, detached>>
retries == <<failures, wait>>
vars == <<entries, files, call, retries>>

DefaultTime == 0
Entries == [db : Databases, time : 1 .. MaxTime, n : 1 .. EntriesPerTime]

\* logDestinationForDatabase
FileOf(d) == IF PerDatabaseFiles THEN d ELSE Shared
Files == {FileOf(d) : d \in Databases}

(* A line holds the entries written to it completely.  It is a whole       *)
(* record, one without its newline, a part of a record without a newline,  *)
(* or ended by a newline after more than one record.                       *)
Lines == [of : SUBSET Entries, kind : {"whole", "unterminated", "torn", "glued"}]

ASSUME MissingAssumption == Missing \notin Seq(Lines)

AppendLine(file, line) ==
    IF file # <<>> /\ file[Len(file)].kind \in {"unterminated", "torn"}
    THEN [file EXCEPT ![Len(file)] =
            [of |-> @.of \union line.of,
             kind |-> IF line.kind = "whole" THEN "glued" ELSE "torn"]]
    ELSE Append(file, line)

-----------------------------------------------------------------------------
(* readLastMatchingLogRecord.                                              *)

Contents(d) == IF files[FileOf(d)] = Missing THEN <<>> ELSE files[FileOf(d)]

Unparsable(line) == line.kind \in {"torn", "glued"}

\* Variant: the records of a shared file are not told apart.
MatchesAnyDatabase(line, d) == ~Unparsable(line)
Matches(line, d) ==
    /\ ~Unparsable(line)
    /\ \E e \in line.of : PerDatabaseFiles \/ e.db = d

\* Lines at which the scan for d ends.
Stops(d) ==
    {i \in DOMAIN Contents(d) : Unparsable(Contents(d)[i]) \/ Matches(Contents(d)[i], d)}

\* Variant: lines that cannot be parsed are passed over.
ReadableSkipsBadLines(d) == TRUE
Readable(d) == Stops(d) # {} => Matches(Contents(d)[Max(Stops(d))], d)

LastTime(d) ==
    LET stops == {i \in Stops(d) : Matches(Contents(d)[i], d)}
    IN  IF stops = {} THEN DefaultTime
        ELSE (CHOOSE e \in Contents(d)[Max(stops)].of : TRUE).time

-----------------------------------------------------------------------------
(* retryTracker.                                                           *)

\* How long a call has taken; longer ones than the longest backoff are no different.
Ages == 0 .. MaxBackoff

\* Failures beyond this number change nothing any more.
FailureCap == MaxBackoff + 1

Backoff[n \in 1 .. FailureCap] ==
    IF n = 1 THEN InitialBackoff
    ELSE IF 2 * Backoff[n - 1] >= MaxBackoff THEN MaxBackoff ELSE 2 * Backoff[n - 1]

\* Variant: a database that has failed is not tried again.
ShouldRetryOnce(d) == failures[d] = 0
ShouldRetry(d) == wait[d] = 0

\* The backoff counts from a moment that is `age' ago.
RecordFailure(age) ==
    LET n == IF failures[current] < FailureCap THEN failures[current] + 1 ELSE FailureCap
    IN  /\ failures' = [failures EXCEPT ![current] = n]
        /\ wait' = [wait EXCEPT ![current] =
                      IF age < Backoff[n] THEN Backoff[n] - age ELSE 0]

RecordSuccess ==
    /\ failures' = [failures EXCEPT ![current] = 0]
    /\ wait' = [wait EXCEPT ![current] = 0]

-----------------------------------------------------------------------------
(* UpdateLog.                                                              *)

Return ==
    /\ pc' = "idle"
    /\ current' = NoDatabase
    /\ since' = DefaultTime
    /\ pending' = {}
    /\ detached' = FALSE

\* Startup is over, the database active and not in backoff, and the file, which
\* is created if need be, has a last record or none.  Otherwise the call returns
\* and nothing has changed.
Begin(d) ==
    /\ pc = "idle"
    /\ ShouldRetry(d)
    /\ Readable(d)
    /\ files' = [files EXCEPT ![FileOf(d)] = Contents(d)]
    /\ since' = LastTime(d)
    /\ current' = d
    /\ pc' = "asking"
    /\ UNCHANGED <<entries, pending, detached, retries>>

\* The failure is recorded with the time at which the call began, age ago.
QueryFails(age) ==
    /\ pc = "asking"
    /\ RecordFailure(age)
    /\ Return
    /\ UNCHANGED <<entries, files>>

\* Variant: the entries of the last timestamp are fetched again.
QueryInclusive ==
    /\ pc = "asking"
    /\ pending' = {e \in entries[current] : e.time >= since}
    /\ pc' = "opening"
    /\ UNCHANGED <<entries, files, current, since, detached, retries>>
Query ==
    /\ pc = "asking"
    /\ pending' = {e \in entries[current] : e.time > since}
    /\ pc' = "opening"
    /\ UNCHANGED <<entries, files, current, since, detached, retries>>

OpenFile ==
    /\ pc = "opening"
    /\ files[FileOf(current)] # Missing
    /\ pc' = "writing"
    /\ UNCHANGED <<entries, files, current, since, pending, detached, retries>>

\* The file is gone, or cannot be opened: no failure is recorded.
OpenFails ==
    /\ pc = "opening"
    /\ Return
    /\ UNCHANGED <<entries, files, retries>>

Put(line) ==
    files' = IF detached THEN files
             ELSE [files EXCEPT ![FileOf(current)] = AppendLine(@, line)]

\* The rows come in the order of their timestamps.
NextRow(e) == e \in pending /\ \A o \in pending : e.time <= o.time

WriteRecord(e) ==
    /\ pc = "writing"
    /\ NextRow(e)
    /\ Put([of |-> {e}, kind |-> "whole"])
    /\ pending' = pending \ {e}
    /\ UNCHANGED <<entries, pc, current, since, detached, retries>>

\* What a write that fails leaves behind: nothing, a part of the record, or all
\* of it but the newline.
PartlyWritten(e) ==
    \/ UNCHANGED files
    \/ TornWrites /\ Put([of |-> {}, kind |-> "torn"])
    \/ TornWrites /\ Put([of |-> {e}, kind |-> "unterminated"])

WriteFails(e) ==
    /\ pc = "writing"
    /\ NextRow(e)
    /\ PartlyWritten(e)
    /\ RecordFailure(0)
    /\ Return
    /\ UNCHANGED entries

\* A row cannot be scanned or marshalled, or the rows end with an error.
RowsFail ==
    /\ pc = "writing"
    /\ RecordFailure(0)
    /\ Return
    /\ UNCHANGED <<entries, files>>

Done ==
    /\ pc = "writing"
    /\ pending = {}
    /\ RecordSuccess
    /\ Return
    /\ UNCHANGED <<entries, files>>

-----------------------------------------------------------------------------
(* The environment.                                                        *)

Logged(e) ==
    /\ e \notin entries[e.db]
    /\ \A o \in entries[e.db] : o.time <= e.time
    /\ entries' = [entries EXCEPT ![e.db] = @ \union {e}]
    /\ UNCHANGED <<files, call, retries>>

Tick ==
    /\ wait' = [d \in Databases |-> IF wait[d] > 0 THEN wait[d] - 1 ELSE 0]
    /\ wait' # wait
    /\ UNCHANGED <<entries, files, call, failures>>

Removed(f) ==
    /\ files[f] # Missing
    /\ files' = [files EXCEPT ![f] = Missing]
    /\ detached' = IF pc = "writing" /\ FileOf(current) = f THEN TRUE ELSE detached
    /\ UNCHANGED <<entries, pc, current, since, pending, retries>>

\* The process or its host ends and starts again.
Killed ==
    /\ IF pc = "writing" THEN UNCHANGED files \/ \E e \in pending : NextRow(e) /\ PartlyWritten(e)
       ELSE UNCHANGED files
    /\ Return
    /\ failures' = [d \in Databases |-> 0]
    /\ wait' = [d \in Databases |-> 0]
    /\ UNCHANGED entries

Init ==
    /\ entries = [d \in Databases |-> {}]
    /\ files = [f \in Files |-> Missing]
    /\ pc = "idle"
    /\ current = NoDatabase
    /\ since = DefaultTime
    /\ pending = {}
    /\ detached = FALSE
    /\ failures = [d \in Databases |-> 0]
    /\ wait = [d \in Databases |-> 0]

Next ==
    \/ \E d \in Databases : Begin(d)
    \/ \E age \in Ages : QueryFails(age)
    \/ Query
    \/ OpenFile
    \/ OpenFails
    \/ \E e \in pending : WriteRecord(e)
    \/ \E e \in pending : WriteFails(e)
    \/ RowsFail
    \/ Done
    \/ \E e \in Entries : Logged(e)
    \/ Tick
    \/ \E f \in Files : Removed(f)
    \/ Killed

Spec == Init /\ [][Next]_vars

Progress == Query \/ OpenFile \/ (\E e \in pending : WriteRecord(e)) \/ Done

\* Trouble of Oracle, of the file system and of the process itself.
Trouble ==
    \/ \E age \in Ages : QueryFails(age)
    \/ OpenFails
    \/ \E e \in pending : WriteFails(e)
    \/ RowsFail
    \/ \E f \in Files : Removed(f)
    \/ Killed

\* Time passes, a call ends in the end, and the loop comes back to each database.
Fairness ==
    /\ WF_vars(Tick)
    /\ WF_vars(Progress \/ OpenFails)
    /\ \A d \in Databases : SF_vars(Begin(d))

FairSpec == Spec /\ Fairness

-----------------------------------------------------------------------------

Exported(d) == UNION {Contents(d)[i].of : i \in DOMAIN Contents(d)}

\* The timestamp of e is exported: by e, or by another entry that has it too.
Covered(e) == \E o \in Exported(e.db) : o.db = e.db /\ o.time = e.time

\* The file is a faithful memory: each timestamp before the one at which the next
\* query starts has been exported, although calls end half-way, lines are torn,
\* databases share the file, and files disappear.  (Of several entries with one
\* timestamp a failure may lose some; with distinct timestamps nothing is lost.)
NothingPassedOver ==
    \A d \in Databases : Readable(d) =>
        \A e \in entries[d] : e.time < LastTime(d) => Covered(e)

\* No entry is exported to a file twice.
WrittenOnce ==
    \A d \in Databases : \A i, j \in DOMAIN Contents(d) :
        i # j => Contents(d)[i].of \intersect Contents(d)[j].of = {}

\* A part of a record at the end of a file is the last word: no database that
\* shares the file writes behind it, until the file is removed.
TornEndsFile ==
    [][\A f \in Files :
         (files[f] # Missing /\ files[f] # <<>> /\ files[f][Len(files[f])].kind = "torn")
            => files'[f] \in {files[f], Missing}]_vars

\* Once the trouble ends, and unless it has left a line that no call gets past,
\* an entry of every timestamp is exported: neither backoff nor a call cut short
\* nor the entries of other databases keep it out for good.
EntryExported ==
    (/\ <>[][~Trouble]_vars
     /\ \A d \in Databases : <>[]Readable(d))
        => \A e \in Entries : [](e \in entries[e.db] => <>Covered(e))
=============================================================================
