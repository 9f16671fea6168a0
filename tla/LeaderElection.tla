--------------------------- MODULE LeaderElection ----------------------------
(***************************************************************************)
(* The life of the scraper processes that share one PostgreSQL cluster and *)
(* one HA scope: main.go's run() with ha/election.go.  Each instance waits *)
(* for a session-level advisory lock, opens the sample sink, collects      *)
(* until it is told to stop or its monitor reports that leadership is      *)
(* gone, and then unwinds its deferred calls: the sink first, the lock     *)
(* connection last.                                                        *)
(*                                                                         *)
(* PostgreSQL is external.  It grants the lock to one session, frees it    *)
(* when that session ends, and may notice the end of a client late: the    *)
(* lock is then held by "orphan", a session without a process behind it.   *)
(* Sample writes use the sink's own connections, so losing the lock        *)
(* session does not stop them.                                             *)
(***************************************************************************)
EXTENDS Naturals

CONSTANTS Instances, NoInstance, Orphan

ASSUME InstancesAssumption ==
    /\ Instances # {}
    /\ NoInstance \notin Instances
    /\ Orphan \notin Instances
    /\ NoInstance # Orphan

VARIABLES
    writable,   \* PostgreSQL answers as a writable primary
    lockOwner,  \* whose session holds the advisory lock of the scope
    pc,         \* [instance -> where run() is]
    conn,       \* [instance -> Elector.conn: "none", or "live"/"dead" session]
    monitorErr, \* [instance -> Monitor has returned an error]
    stopping,   \* [instance -> "none", or "signal"/"server": why run() must end]
    ready,      \* [instance -> what /readyz reports]
    working,    \* [instance -> workCtx is not cancelled and collectors run]
    sink,       \* [instance -> the sink is open]
    inflight    \* [instance -> a sample transaction is in flight]

vars == <<writable, lockOwner, pc, conn, monitorErr, stopping, ready, working,
          sink, inflight>>

Locations == {"down", "waiting", "starting", "opened", "active", "exiting", "closing"}
Causes == {"none", "signal", "server"}

\* The lock session of i ends and PostgreSQL frees what it held.
FreedBy(i) == IF lockOwner = i THEN NoInstance ELSE lockOwner
\* The process of i goes away and PostgreSQL has not noticed it yet.
OrphanedBy(i) == IF lockOwner = i THEN Orphan ELSE lockOwner

Init ==
    /\ writable \in BOOLEAN
    /\ lockOwner = NoInstance
    /\ pc = [i \in Instances |-> "down"]
    /\ conn = [i \in Instances |-> "none"]
    /\ monitorErr = [i \in Instances |-> FALSE]
    /\ stopping = [i \in Instances |-> "none"]
    /\ ready = [i \in Instances |-> FALSE]
    /\ working = [i \in Instances |-> FALSE]
    /\ sink = [i \in Instances |-> FALSE]
    /\ inflight = [i \in Instances |-> FALSE]

-----------------------------------------------------------------------------
\* The process starts, and Acquire begins to retry.
Start(i) ==
    /\ pc[i] = "down"
    /\ pc' = [pc EXCEPT ![i] = "waiting"]
    /\ UNCHANGED <<writable, lockOwner, conn, monitorErr, stopping, ready,
                   working, sink, inflight>>

\* Variants: the connection is closed although it holds the lock; the answer
\* of pg_try_advisory_lock is ignored; the recovery test is inverted.
AcquireClosesConnection(i) ==
    /\ pc[i] = "waiting"
    /\ writable
    /\ lockOwner = NoInstance
    /\ lockOwner' = i
    /\ conn' = [conn EXCEPT ![i] = "closed"]
    /\ pc' = [pc EXCEPT ![i] = "starting"]
    /\ UNCHANGED <<writable, monitorErr, stopping, ready, working, sink, inflight>>

AcquireIgnoresLock(i) ==
    /\ pc[i] = "waiting"
    /\ writable
    /\ lockOwner' = IF lockOwner = NoInstance THEN i ELSE lockOwner
    /\ conn' = [conn EXCEPT ![i] = "live"]
    /\ pc' = [pc EXCEPT ![i] = "starting"]
    /\ UNCHANGED <<writable, monitorErr, stopping, ready, working, sink, inflight>>

AcquireOnReplica(i) ==
    /\ pc[i] = "waiting"
    /\ ~writable
    /\ lockOwner = NoInstance
    /\ lockOwner' = i
    /\ conn' = [conn EXCEPT ![i] = "live"]
    /\ pc' = [pc EXCEPT ![i] = "starting"]
    /\ UNCHANGED <<writable, monitorErr, stopping, ready, working, sink, inflight>>

\* acquireQuery answers true, Elector.conn keeps the session, and the select
\* of run() takes the result (a signal may be there too: the choice is Go's).
Acquire(i) ==
    /\ pc[i] = "waiting"
    /\ writable
    /\ lockOwner = NoInstance
    /\ lockOwner' = i
    /\ conn' = [conn EXCEPT ![i] = "live"]
    /\ pc' = [pc EXCEPT ![i] = "starting"]
    /\ UNCHANGED <<writable, monitorErr, stopping, ready, working, sink, inflight>>

\* The select of run() took the signal or the server's error, and the Acquire
\* goroutine, which nobody waits for, still gets the lock.
AcquireWhileLeaving(i) ==
    /\ pc[i] = "exiting"
    /\ conn[i] = "none"
    /\ writable
    /\ lockOwner = NoInstance
    /\ lockOwner' = i
    /\ conn' = [conn EXCEPT ![i] = "live"]
    /\ UNCHANGED <<writable, pc, monitorErr, stopping, ready, working, sink, inflight>>

\* PostgreSQL grants the lock but the answer is lost or late (queryCtx):
\* Acquire closes the connection and tries again, the lock stays behind
\* until PostgreSQL ends the session.
AcquireAnswerLost(i) ==
    /\ pc[i] \in {"waiting", "exiting"}
    /\ conn[i] = "none"
    /\ writable
    /\ lockOwner = NoInstance
    /\ lockOwner' = Orphan
    /\ UNCHANGED <<writable, pc, conn, monitorErr, stopping, ready, working, sink, inflight>>

\* A signal or a failed health server ends run() while it waits.
StopWaiting(i) ==
    /\ pc[i] = "waiting"
    /\ stopping[i] # "none"
    /\ pc' = [pc EXCEPT ![i] = "exiting"]
    /\ UNCHANGED <<writable, lockOwner, conn, monitorErr, stopping, ready,
                   working, sink, inflight>>

\* NewScraper and postgresql.New, which may fail for any reason.
OpenSink(i) ==
    /\ pc[i] = "starting"
    /\ sink' = [sink EXCEPT ![i] = TRUE]
    /\ pc' = [pc EXCEPT ![i] = "opened"]
    /\ UNCHANGED <<writable, lockOwner, conn, monitorErr, stopping, ready, working, inflight>>

OpenSinkFails(i) ==
    /\ pc[i] = "starting"
    /\ pc' = [pc EXCEPT ![i] = "exiting"]
    /\ UNCHANGED <<writable, lockOwner, conn, monitorErr, stopping, ready,
                   working, sink, inflight>>

\* The non-blocking look at leadershipErr before the collectors are started.
LeadershipLostDuringStartup(i) ==
    /\ pc[i] = "opened"
    /\ monitorErr[i]
    /\ pc' = [pc EXCEPT ![i] = "exiting"]
    /\ UNCHANGED <<writable, lockOwner, conn, monitorErr, stopping, ready,
                   working, sink, inflight>>

BecomeActive(i) ==
    /\ pc[i] = "opened"
    /\ ~monitorErr[i]
    /\ working' = [working EXCEPT ![i] = TRUE]
    /\ ready' = [ready EXCEPT ![i] = TRUE]
    /\ pc' = [pc EXCEPT ![i] = "active"]
    /\ UNCHANGED <<writable, lockOwner, conn, monitorErr, stopping, sink, inflight>>

\* Variants: Monitor takes an error of its query for "not now"; Monitor takes
\* the lock again on a new session.
MonitorFailsOnReplicaOnly(i) ==
    /\ pc[i] \in {"starting", "opened", "active"}
    /\ ~monitorErr[i]
    /\ ~writable \/ stopping[i] = "signal"
    /\ monitorErr' = [monitorErr EXCEPT ![i] = TRUE]
    /\ UNCHANGED <<writable, lockOwner, pc, conn, stopping, ready, working, sink, inflight>>

MonitorReacquires(i) ==
    /\ pc[i] \in {"starting", "opened", "active"}
    /\ conn[i] = "dead"
    /\ lockOwner = NoInstance
    /\ lockOwner' = i
    /\ conn' = [conn EXCEPT ![i] = "live"]
    /\ UNCHANGED <<writable, pc, monitorErr, stopping, ready, working, sink, inflight>>

\* Monitor returns: its query on the lock connection fails, finds no writable
\* primary, or a signal cancelled the context.  Monitor runs from the moment
\* the lock is acquired until workCtx ends, while run() opens the sink too.
MonitorFails(i) ==
    /\ pc[i] \in {"starting", "opened", "active"}
    /\ ~monitorErr[i]
    /\ conn[i] = "dead" \/ ~writable \/ stopping[i] = "signal"
    /\ monitorErr' = [monitorErr EXCEPT ![i] = TRUE]
    /\ UNCHANGED <<writable, lockOwner, pc, conn, stopping, ready, working, sink, inflight>>

\* The final select of run(): ready is withdrawn and workCtx cancelled.
LeaveActive(i) ==
    /\ pc[i] = "active"
    /\ stopping[i] # "none" \/ monitorErr[i]
    /\ ready' = [ready EXCEPT ![i] = FALSE]
    /\ working' = [working EXCEPT ![i] = FALSE]
    /\ pc' = [pc EXCEPT ![i] = "exiting"]
    /\ UNCHANGED <<writable, lockOwner, conn, monitorErr, stopping, sink, inflight>>

\* Deferred sink.Close(): the buffered telemetry and accounting are flushed
\* under a context of their own, leader or not; then the pool closes, which
\* waits for the transactions in flight.
FlushSink(i) ==
    /\ pc[i] = "exiting"
    /\ sink[i]
    /\ inflight' = [inflight EXCEPT ![i] = TRUE]
    /\ pc' = [pc EXCEPT ![i] = "closing"]
    /\ UNCHANGED <<writable, lockOwner, conn, monitorErr, stopping, ready, working, sink>>

CloseSink(i) ==
    /\ pc[i] = "closing"
    /\ sink[i]
    /\ ~inflight[i]
    /\ sink' = [sink EXCEPT ![i] = FALSE]
    /\ UNCHANGED <<writable, lockOwner, pc, conn, monitorErr, stopping, ready,
                   working, inflight>>

\* Variant: the lock is released before the sink is closed.
ReleaseBeforeSink(i) ==
    /\ pc[i] \in {"exiting", "closing"}
    /\ lockOwner' \in {FreedBy(i), OrphanedBy(i)}
    /\ conn' = [conn EXCEPT ![i] = "none"]
    /\ UNCHANGED <<writable, pc, monitorErr, stopping, ready, working, sink, inflight>>

\* Deferred elector.Close() comes last, with a timeout; the process ends.
Release(i) ==
    /\ pc[i] \in {"exiting", "closing"}
    /\ ~sink[i]
    /\ lockOwner' \in {FreedBy(i), OrphanedBy(i)}
    /\ conn' = [conn EXCEPT ![i] = "none"]
    /\ monitorErr' = [monitorErr EXCEPT ![i] = FALSE]
    /\ stopping' = [stopping EXCEPT ![i] = "none"]
    /\ pc' = [pc EXCEPT ![i] = "down"]
    /\ UNCHANGED <<writable, ready, working, sink, inflight>>

\* WriteSamples of one of the collectors: begin, and commit or roll back.
BeginWrite(i) ==
    /\ working[i]
    /\ sink[i]
    /\ ~inflight[i]
    /\ inflight' = [inflight EXCEPT ![i] = TRUE]
    /\ UNCHANGED <<writable, lockOwner, pc, conn, monitorErr, stopping, ready, working, sink>>

EndWrite(i) ==
    /\ inflight[i]
    /\ inflight' = [inflight EXCEPT ![i] = FALSE]
    /\ UNCHANGED <<writable, lockOwner, pc, conn, monitorErr, stopping, ready, working, sink>>

-----------------------------------------------------------------------------
\* SIGTERM or SIGINT cancels ctx; the health server may fail to listen, which
\* cancels nothing and is seen only by the two selects of run().
StopRequested(i) ==
    /\ pc[i] # "down"
    /\ stopping[i] # "signal"
    /\ stopping' = [stopping EXCEPT ![i] = "signal"]
    /\ UNCHANGED <<writable, lockOwner, pc, conn, monitorErr, ready, working, sink, inflight>>

ServerFails(i) ==
    /\ pc[i] # "down"
    /\ stopping[i] = "none"
    /\ stopping' = [stopping EXCEPT ![i] = "server"]
    /\ UNCHANGED <<writable, lockOwner, pc, conn, monitorErr, ready, working, sink, inflight>>

\* The process is killed, or replaces itself (RESTART_INTERVAL, syscall.Exec):
\* its connections close, PostgreSQL rolls back and notices sooner or later.
Killed(i) ==
    /\ pc[i] # "down"
    /\ pc' = [pc EXCEPT ![i] = "down"]
    /\ lockOwner' = OrphanedBy(i)
    /\ conn' = [conn EXCEPT ![i] = "none"]
    /\ monitorErr' = [monitorErr EXCEPT ![i] = FALSE]
    /\ stopping' = [stopping EXCEPT ![i] = "none"]
    /\ ready' = [ready EXCEPT ![i] = FALSE]
    /\ working' = [working EXCEPT ![i] = FALSE]
    /\ sink' = [sink EXCEPT ![i] = FALSE]
    /\ inflight' = [inflight EXCEPT ![i] = FALSE]
    /\ UNCHANGED writable

\* The lock session ends: the backend is terminated, a validation query runs
\* into its timeout and pgx closes the connection, the network drops it.  Only
\* Monitor will tell the instance, and PostgreSQL may notice late.
SessionLost(i) ==
    /\ conn[i] = "live"
    /\ conn' = [conn EXCEPT ![i] = "dead"]
    /\ lockOwner' \in {FreedBy(i), OrphanedBy(i)}
    /\ UNCHANGED <<writable, pc, monitorErr, stopping, ready, working, sink, inflight>>

OrphanReaped ==
    /\ lockOwner = Orphan
    /\ lockOwner' = NoInstance
    /\ UNCHANGED <<writable, pc, conn, monitorErr, stopping, ready, working, sink, inflight>>

PrimaryChanges ==
    /\ writable' = ~writable
    /\ UNCHANGED <<lockOwner, pc, conn, monitorErr, stopping, ready, working, sink, inflight>>

Program(i) ==
    \/ Acquire(i)
    \/ AcquireWhileLeaving(i)
    \/ StopWaiting(i)
    \/ OpenSink(i)
    \/ OpenSinkFails(i)
    \/ LeadershipLostDuringStartup(i)
    \/ BecomeActive(i)
    \/ MonitorFails(i)
    \/ LeaveActive(i)
    \/ FlushSink(i)
    \/ CloseSink(i)
    \/ Release(i)
    \/ BeginWrite(i)
    \/ EndWrite(i)

Environment(i) ==
    \/ Start(i)
    \/ AcquireAnswerLost(i)
    \/ StopRequested(i)
    \/ ServerFails(i)
    \/ Killed(i)
    \/ SessionLost(i)

Next ==
    \/ \E i \in Instances : Program(i) \/ Environment(i)
    \/ OrphanReaped
    \/ PrimaryChanges

Spec == Init /\ [][Next]_vars

(* Fairness.  run() and Monitor keep going, a transaction ends, PostgreSQL *)
(* reaps dead sessions.  Every Acquire retries for ever: if the lock is    *)
(* free again and again, one of the retries finds it so and hears of it.   *)
(* Nothing is assumed of stops, kills, lost sessions or the primary.       *)
Fairness ==
    /\ SF_vars(\E i \in Instances : Acquire(i))
    /\ \A i \in Instances :
         /\ WF_vars(StopWaiting(i))
         /\ WF_vars(OpenSink(i) \/ OpenSinkFails(i))
         /\ WF_vars(LeadershipLostDuringStartup(i) \/ BecomeActive(i))
         /\ WF_vars(MonitorFails(i))
         /\ WF_vars(LeaveActive(i))
         /\ WF_vars(FlushSink(i))
         /\ WF_vars(CloseSink(i))
         /\ WF_vars(Release(i))
         /\ WF_vars(EndWrite(i))
    /\ WF_vars(OrphanReaped)

FairSpec == Spec /\ Fairness

-----------------------------------------------------------------------------
\* Every variable keeps its type.
TypeOK ==
    /\ writable \in BOOLEAN
    /\ lockOwner \in Instances \union {NoInstance, Orphan}
    /\ pc \in [Instances -> Locations]
    /\ conn \in [Instances -> {"none", "live", "dead"}]
    /\ monitorErr \in [Instances -> BOOLEAN]
    /\ stopping \in [Instances -> Causes]
    /\ ready \in [Instances -> BOOLEAN]
    /\ working \in [Instances -> BOOLEAN]
    /\ sink \in [Instances -> BOOLEAN]
    /\ inflight \in [Instances -> BOOLEAN]

\* Elector.conn stands for the lock: a live lock session owns it, and a lock
\* that is owned belongs to a process that knows (no stacked or stray lock).
SessionOwnsLock ==
    \A i \in Instances : conn[i] = "live" <=> lockOwner = i

\* An instance reports ready, keeps a sink or has a transaction in flight only
\* between Acquire and elector.Close: standbys write nothing, and an orderly
\* stop hands the lock on only after the last write.
WritesOnlyAfterElection ==
    \A i \in Instances :
        ready[i] \/ sink[i] \/ inflight[i] => conn[i] # "none"

\* The refinement mapping: Elector.conn tells what an instance believes, the
\* state of the session behind it whether that is still so.
Role == [i \in Instances |->
            CASE conn[i] = "live" -> "leader"
              [] conn[i] = "dead" -> "deposed"
              [] OTHER -> "idle"]
Abstract == INSTANCE Leadership WITH role <- Role

\* The processes implement the abstract promise: one leader at a time, and an
\* instance that lost its lock session can only stop, never lead again.
ImplementsLeadership == Abstract!Spec

Deposed(i) == conn[i] = "dead" /\ sink[i]

\* A leader whose lock session is gone finds out through Monitor and closes
\* its sink, whether it was lost during startup, while active or on the way out.
DeposedLeaderStops == \A i \in Instances : Deposed(i) ~> ~sink[i]

\* A standby does not wait in vain.  While i waits and PostgreSQL stays
\* writable, a process that is up owns the lock again and again, however often
\* leaders die, locks are orphaned and answers to Acquire are lost.
StandbyTakesOver ==
    \A i \in Instances :
        <>[](writable /\ pc[i] = "waiting" /\ stopping[i] = "none")
            => []<>(\E j \in Instances : lockOwner = j /\ pc[j] # "down")

=============================================================================
