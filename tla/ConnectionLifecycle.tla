------------------------- MODULE ConnectionLifecycle -------------------------
(***************************************************************************)
(* The connection state machine of a monitored Oracle database             *)
(* (collector/database.go) and the goroutines that drive it concurrently:  *)
(*                                                                         *)
(*   "warmup"    InitializeDatabases, serial, once                         *)
(*   "scrape"    one goroutine per database and scheduled pass             *)
(*   "activity"  a serial check, then one goroutine per database           *)
(*   "dcd"       dead connection detection, serial over the databases      *)
(*   "alert"     the alert log loop, serial over the databases             *)
(*                                                                         *)
(* Every access to Database.connection and Database.Session is a critical  *)
(* section of Database.reconnectMU, a Go RWMutex.  Sections that only      *)
(* touch memory are single steps.  A read lock that is kept while Oracle   *)
(* works (Query, QueryContext, PingContext) stays in `readers' between two *)
(* steps; a writer first announces itself in `writer', which shuts out new *)
(* readers, and runs its section when the last reader has left.            *)
(*                                                                         *)
(* Database.Up is written but never read by the program, so its value is   *)
(* left out; the write sections of setUp are kept, because they block, and *)
(* are merged with a write section of the same goroutine that follows      *)
(* at once.  Errors are abstracted to what isConnectionFailure tells apart.*)
(***************************************************************************)
EXTENDS Naturals

CONSTANTS
    NumDatabases,     \* length of Scraper.databases, which never changes
    DCDEnabled,       \* metrics.deadConnectionDetection.enabled
    AlertLogEnabled,  \* log.disable is not 1
    DeadlineRace      \* may a query return rows just as its deadline passes?

ASSUME ConnectionAssumption ==
    /\ NumDatabases \in Nat \ {0}
    /\ DCDEnabled \in BOOLEAN
    /\ AlertLogEnabled \in BOOLEAN
    /\ DeadlineRace \in BOOLEAN

VARIABLES
    reachable,    \* [database -> the Oracle target and its credentials work]
    session,      \* [database -> Database.Session, a pool identity]
    open,         \* [database -> pools that are not closed]
    connState,    \* [database -> connection.State]
    queuedAt,     \* [database -> connection.QueuedAt]
    suspended,    \* [database -> activityError is not ""]
    startupReady, \* [database -> startupReady]
    readers,      \* [database -> goroutines that keep reconnectMU's read lock]
    leaked,       \* [database -> a read lock nobody will ever release]
    writer,       \* [database -> goroutine inside reconnectMU.Lock()]
    pc,           \* [goroutine -> [database -> its next step]]
    at,           \* [goroutine -> its position in its loop over the databases]
    using,        \* [goroutine -> [database -> pool it is working with]]
    phase,        \* [database -> what the scheduled scrape is running]
    scrapeErr     \* [database -> that phase met a connection failure]

oracle == <<reachable>>
lockVars == <<readers, leaked, writer>>
poolVars == <<session, open, using>>
stateVars == <<connState, queuedAt, suspended, startupReady>>
scrapeVars == <<phase, scrapeErr>>
control == <<pc, at>>
vars == <<oracle, lockVars, poolVars, stateVars, scrapeVars, control>>

-----------------------------------------------------------------------------
Databases == 1..NumDatabases
Actors == {"warmup", "scrape", "activity", "dcd", "alert"}
States == {"STARTING", "ACTIVE", "QUARANTINED", "PROBING"}
Phases == {"ping", "metrics", "performance", "operational"}

NoSession == 0
Pools == {1, 2}            \* the current pool and the candidate of a probe
NoTime == 0
Times == {1, 2}            \* enough to tell a kept time from a new one
OtherTime(t) == IF t = 1 THEN 2 ELSE 1
Candidate(d) == IF session[d] = 1 THEN 2 ELSE 1

Steps == {"rest", "done", "warm", "activate", "resume", "fail", "suspend",
          "ready", "check", "acquire", "run", "up", "next", "active",
          "available", "connect", "failed", "failSuspend", "finishError",
          "swap", "finishOk"}

\* The steps that take reconnectMU.Lock().
WriteSteps(a) ==
    CASE a = "warmup"   -> {"fail", "activate"}
      [] a = "scrape"   -> {"fail", "up"}
      [] a = "activity" -> {"fail"}
      [] a = "dcd"      -> {"rest", "failed", "finishError", "swap", "finishOk"}
      [] OTHER          -> {}

Goto(a, d, s) == pc' = [pc EXCEPT ![a][d] = s]
Advance(a) == at' = [at EXCEPT ![a] = @ + 1]

-----------------------------------------------------------------------------
(* reconnectMU: Go's RWMutex.  RLock blocks while a writer is announced,   *)
(* Lock blocks until the readers that came before it have left.            *)

CanRead(d) == writer[d] = "none"
RLock(a, d) ==
    /\ CanRead(d)
    /\ readers' = [readers EXCEPT ![d] = @ \union {a}]
    /\ using' = [using EXCEPT ![a][d] = session[d]]
RUnlock(a, d) ==
    /\ readers' = [readers EXCEPT ![d] = @ \ {a}]
    /\ using' = [using EXCEPT ![a][d] = NoSession]

\* A goroutine whose next step is a write section queues for it.
Announce(a, d) ==
    /\ pc[a][d] \in WriteSteps(a)
    /\ a = "dcd" => (DCDEnabled /\ at[a] = d)
    /\ writer[d] = "none"
    /\ writer' = [writer EXCEPT ![d] = a]
    /\ UNCHANGED <<oracle, readers, leaked, poolVars, stateVars, scrapeVars, control>>

Locked(a, d) ==
    /\ writer[d] = a
    /\ readers[d] = {}
    /\ ~leaked[d]
Unlock(d) ==
    /\ writer' = [writer EXCEPT ![d] = "none"]
    /\ UNCHANGED <<readers, leaked>>

-----------------------------------------------------------------------------
(* The sections of database.go that every goroutine shares.                *)

\* Variant: a failure reported during a probe counts as a new outage.
QuarantineLockedRestampsProbe(d) ==
    /\ connState' = [connState EXCEPT ![d] = "QUARANTINED"]
    /\ queuedAt' = [queuedAt EXCEPT ![d] =
           IF @ = NoTime \/ connState[d] # "QUARANTINED" THEN OtherTime(@) ELSE @]

QuarantineLocked(d) ==
    /\ connState' = [connState EXCEPT ![d] = "QUARANTINED"]
    /\ queuedAt' = [queuedAt EXCEPT ![d] =
           IF @ = NoTime \/ connState[d] \notin {"QUARANTINED", "PROBING"}
           THEN OtherTime(@) ELSE @]

\* Variant: activation clears the whole DatabaseConnectionStatus, and leaves State
\* at the zero value of its string type.
ActivateZeroStatus(d) ==
    /\ connState' = [connState EXCEPT ![d] = ""]
    /\ queuedAt' = [queuedAt EXCEPT ![d] = NoTime]

\* Variant: activation forgets to clear QueuedAt.
ActivateKeepsQueuedAt(d) ==
    /\ connState' = [connState EXCEPT ![d] = "ACTIVE"]
    /\ UNCHANGED queuedAt

Activate(d) ==
    /\ connState' = [connState EXCEPT ![d] = "ACTIVE"]
    /\ queuedAt' = [queuedAt EXCEPT ![d] = NoTime]

SetSuspended(d, b) == suspended' = [suspended EXCEPT ![d] = b]

\* setUp(0) and quarantine(err), the write sections of a connection failure.
Quarantine(a, d) ==
    /\ pc[a][d] = "fail"
    /\ Locked(a, d)
    /\ QuarantineLocked(d)
    /\ Unlock(d)
    /\ Goto(a, d, "suspend")
    /\ UNCHANGED <<oracle, poolVars, suspended, startupReady, scrapeVars, at>>

\* Every collector asks StartupReady() and then, under the read lock,
\* connectionState(): what the two answers lead to.
Admitted(d) == startupReady[d] /\ CanRead(d) /\ connState[d] = "ACTIVE"
Refused(d) == ~startupReady[d] \/ (CanRead(d) /\ connState[d] # "ACTIVE")

\* What Oracle may answer to a query on the current pool.
QueryOutcomes(d) ==
    IF session[d] = NoSession THEN {"connectionFailure"}
    ELSE IF reachable[d] THEN {"ok", "error"}
    ELSE {"error", "connectionFailure"}

-----------------------------------------------------------------------------
(* InitializeDatabases: WarmupConnectionPool for each database in turn.    *)

\* Variant: the warmup does not notice that there is no session.
WarmupReadSessionIgnoresNil(d) ==
    /\ at["warmup"] = d
    /\ pc["warmup"][d] = "rest"
    /\ CanRead(d)
    /\ using' = [using EXCEPT !["warmup"][d] = session[d]]
    /\ Goto("warmup", d, "warm")
    /\ UNCHANGED <<oracle, lockVars, session, open, stateVars, scrapeVars, at>>

WarmupReadSession(d) ==
    /\ at["warmup"] = d
    /\ pc["warmup"][d] = "rest"
    /\ CanRead(d)
    /\ using' = [using EXCEPT !["warmup"][d] = session[d]]
    /\ Goto("warmup", d, IF session[d] = NoSession THEN "fail" ELSE "warm")
    /\ UNCHANGED <<oracle, lockVars, session, open, stateVars, scrapeVars, at>>

\* warmupSession works on the pool without holding reconnectMU.
WarmupSession(d) ==
    /\ pc["warmup"][d] = "warm"
    /\ using' = [using EXCEPT !["warmup"][d] = NoSession]
    /\ Goto("warmup", d, IF reachable[d] THEN "activate" ELSE "fail")
    /\ UNCHANGED <<oracle, lockVars, session, open, stateVars, scrapeVars, at>>

WarmupActivate(d) ==
    /\ pc["warmup"][d] = "activate"
    /\ Locked("warmup", d)
    /\ Activate(d)
    /\ Unlock(d)
    /\ Goto("warmup", d, "resume")
    /\ UNCHANGED <<oracle, poolVars, suspended, startupReady, scrapeVars, at>>

WarmupActivity(d) ==
    /\ pc["warmup"][d] \in {"resume", "suspend"}
    /\ SetSuspended(d, pc["warmup"][d] = "suspend")
    /\ Goto("warmup", d, "ready")
    /\ UNCHANGED <<oracle, lockVars, poolVars, connState, queuedAt, startupReady,
                   scrapeVars, at>>

WarmupReady(d) ==
    /\ pc["warmup"][d] = "ready"
    /\ startupReady' = [startupReady EXCEPT ![d] = TRUE]
    /\ Goto("warmup", d, "done")
    /\ Advance("warmup")
    /\ UNCHANGED <<oracle, lockVars, poolVars, connState, queuedAt, suspended, scrapeVars>>

Warmup(d) ==
    \/ WarmupReadSession(d)
    \/ WarmupSession(d)
    \/ WarmupActivate(d)
    \/ WarmupActivity(d)
    \/ WarmupReady(d)
    \/ Quarantine("warmup", d)

-----------------------------------------------------------------------------
(* RunScheduledScrapes: scrapeSamples starts a goroutine per database,     *)
(* waits for all of them and then reads every connection state.            *)

ScrapeStart ==
    /\ at["scrape"] = 1
    /\ pc' = [pc EXCEPT !["scrape"] = [d \in Databases |-> "check"]]
    /\ at' = [at EXCEPT !["scrape"] = NumDatabases + 1]
    /\ UNCHANGED <<oracle, lockVars, poolVars, stateVars, scrapeVars>>

ScrapeSkipped(d) ==
    /\ pc["scrape"][d] = "check"
    /\ Refused(d)
    /\ Goto("scrape", d, "rest")
    /\ UNCHANGED <<oracle, lockVars, poolVars, stateVars, scrapeVars, at>>

\* Variant: the scrape turns away unavailable databases only, so that one
\* still in its startup warmup is pinged.
ScrapeAdmittedDuringStartup(d) ==
    /\ pc["scrape"][d] = "check"
    /\ CanRead(d)
    /\ connState[d] \notin {"QUARANTINED", "PROBING"}
    /\ phase' = [phase EXCEPT ![d] = "ping"]
    /\ Goto("scrape", d, "acquire")
    /\ UNCHANGED <<oracle, lockVars, poolVars, stateVars, scrapeErr, at>>

ScrapeAdmitted(d) ==
    /\ pc["scrape"][d] = "check"
    /\ Admitted(d)
    /\ phase' = [phase EXCEPT ![d] = "ping"]
    /\ Goto("scrape", d, "acquire")
    /\ UNCHANGED <<oracle, lockVars, poolVars, stateVars, scrapeErr, at>>

\* PingContext, Query and QueryContext take the read lock and keep it.
Acquire(a, d) ==
    /\ pc[a][d] = "acquire"
    /\ RLock(a, d)
    /\ Goto(a, d, "run")
    /\ UNCHANGED <<oracle, leaked, writer, session, open, stateVars, scrapeVars, at>>

ScrapePing(d) ==
    /\ pc["scrape"][d] = "run"
    /\ phase[d] = "ping"
    /\ RUnlock("scrape", d)
    /\ Goto("scrape", d,
            IF reachable[d] /\ session[d] # NoSession THEN "up" ELSE "fail")
    /\ UNCHANGED <<oracle, leaked, writer, session, open, stateVars, scrapeVars, at>>

ScrapeSetUp(d) ==
    /\ pc["scrape"][d] = "up"
    /\ Locked("scrape", d)
    /\ Unlock(d)
    /\ Goto("scrape", d, "resume")
    /\ UNCHANGED <<oracle, poolVars, stateVars, scrapeVars, at>>

\* Variant: a successful ping does not lift the suspension.
ScrapeResumeActivityForgotten(d) ==
    /\ pc["scrape"][d] = "resume"
    /\ phase' = [phase EXCEPT ![d] = "metrics"]
    /\ Goto("scrape", d, "next")
    /\ UNCHANGED <<oracle, lockVars, poolVars, stateVars, scrapeErr, at>>

ScrapeResumeActivity(d) ==
    /\ pc["scrape"][d] = "resume"
    /\ SetSuspended(d, FALSE)
    /\ phase' = [phase EXCEPT ![d] = "metrics"]
    /\ Goto("scrape", d, "next")
    /\ UNCHANGED <<oracle, lockVars, poolVars, connState, queuedAt, startupReady,
                   scrapeErr, at>>

\* The phase has another query to run.
ScrapeNextQuery(d) ==
    /\ pc["scrape"][d] = "next"
    /\ Goto("scrape", d, "acquire")
    /\ UNCHANGED <<oracle, lockVars, poolVars, stateVars, scrapeVars, at>>

\* A query returns.  An additional metric that fails with a connection error
\* quarantines at once and ends the loop; the performance and operational
\* collectors run to their end and the joined error is examined afterwards.
ScrapeQuery(d) ==
    /\ pc["scrape"][d] = "run"
    /\ phase[d] # "ping"
    /\ \E outcome \in QueryOutcomes(d) :
         LET failed == outcome = "connectionFailure" IN
         /\ scrapeErr' = [scrapeErr EXCEPT ![d] = @ \/ failed]
         /\ Goto("scrape", d,
                 IF failed /\ phase[d] = "metrics" THEN "fail" ELSE "next")
    /\ RUnlock("scrape", d)
    /\ UNCHANGED <<oracle, leaked, writer, session, open, stateVars, phase, at>>

\* scanRows, scrapeSQLSamples, scrapeSQLPlans, scrapeSessionSamples and
\* scrapeBlockingSessionSamples look at ctx.Err() before they defer unlock():
\* rows that arrive as the deadline passes leave the read lock behind.  The
\* operational collectors test err first and do not.
ScrapeQueryLeaksLock(d) ==
    /\ DeadlineRace
    /\ pc["scrape"][d] = "run"
    /\ phase[d] \in {"metrics", "performance"}
    /\ "ok" \in QueryOutcomes(d)
    /\ RUnlock("scrape", d)
    /\ leaked' = [leaked EXCEPT ![d] = TRUE]
    /\ Goto("scrape", d, "next")
    /\ UNCHANGED <<oracle, writer, session, open, stateVars, scrapeVars, at>>

\* The phase is over: quarantineConnectionFailure for its joined error, or
\* straight on to the isActive test (the end of the scrape after operational).
ScrapeEndPhase(d) ==
    /\ pc["scrape"][d] = "next"
    /\ Goto("scrape", d, IF scrapeErr[d] THEN "fail"
                         ELSE IF phase[d] = "operational" THEN "rest" ELSE "active")
    /\ UNCHANGED <<oracle, lockVars, poolVars, stateVars, scrapeVars, at>>

\* suspendActivity ends a failed ping and a failed phase.
ScrapeSuspendActivity(d) ==
    /\ pc["scrape"][d] = "suspend"
    /\ SetSuspended(d, TRUE)
    /\ scrapeErr' = [scrapeErr EXCEPT ![d] = FALSE]
    /\ Goto("scrape", d, IF phase[d] \in {"ping", "operational"} THEN "rest" ELSE "active")
    /\ UNCHANGED <<oracle, lockVars, poolVars, connState, queuedAt, startupReady, phase, at>>

\* isActive() between the phases.
ScrapeNextPhase(d) ==
    /\ pc["scrape"][d] = "active"
    /\ CanRead(d)
    /\ connState[d] = "ACTIVE"
    /\ phase' = [phase EXCEPT ![d] =
                    IF @ = "metrics" THEN "performance" ELSE "operational"]
    /\ Goto("scrape", d, "next")
    /\ UNCHANGED <<oracle, lockVars, poolVars, stateVars, scrapeErr, at>>

\* The database is no longer active, or shouldCollectOperational says no.
ScrapeEnds(d) ==
    /\ pc["scrape"][d] = "active"
    /\ CanRead(d)
    /\ connState[d] # "ACTIVE" \/ phase[d] = "performance"
    /\ Goto("scrape", d, "rest")
    /\ UNCHANGED <<oracle, lockVars, poolVars, stateVars, scrapeVars, at>>

\* connectionStateSamples, after the last goroutine of the pass.
ScrapeReport(d) ==
    /\ at["scrape"] = NumDatabases + d
    /\ \A e \in Databases : pc["scrape"][e] = "rest"
    /\ CanRead(d)
    /\ Advance("scrape")
    /\ UNCHANGED <<oracle, lockVars, poolVars, stateVars, scrapeVars, pc>>

Scrape(d) ==
    \/ ScrapeSkipped(d)
    \/ ScrapeAdmitted(d)
    \/ Acquire("scrape", d)
    \/ ScrapePing(d)
    \/ ScrapeSetUp(d)
    \/ ScrapeResumeActivity(d)
    \/ ScrapeNextQuery(d)
    \/ ScrapeQuery(d)
    \/ ScrapeQueryLeaksLock(d)
    \/ ScrapeEndPhase(d)
    \/ ScrapeNextPhase(d)
    \/ ScrapeEnds(d)
    \/ ScrapeReport(d)
    \/ Quarantine("scrape", d)
    \/ ScrapeSuspendActivity(d)

-----------------------------------------------------------------------------
(* RunActivitySampling: sampleActivity checks the databases in turn and    *)
(* starts a goroutine for each one that may be sampled.                    *)

ActivitySkipped(d) ==
    /\ at["activity"] = d
    /\ pc["activity"][d] = "rest"
    /\ Refused(d)
    /\ Advance("activity")
    /\ UNCHANGED <<oracle, lockVars, poolVars, stateVars, scrapeVars, pc>>

ActivityAdmitted(d) ==
    /\ at["activity"] = d
    /\ pc["activity"][d] = "rest"
    /\ Admitted(d)
    /\ Goto("activity", d, "available")
    /\ UNCHANGED <<oracle, lockVars, poolVars, stateVars, scrapeVars, at>>

ActivityAvailable(d) ==
    /\ pc["activity"][d] = "available"
    /\ Goto("activity", d, IF suspended[d] THEN "rest" ELSE "acquire")
    /\ Advance("activity")
    /\ UNCHANGED <<oracle, lockVars, poolVars, stateVars, scrapeVars>>

\* scrapeActivitySamples returns; a connection failure quarantines, any other
\* error only suspends activity sampling.
ActivityQuery(d) ==
    /\ pc["activity"][d] = "run"
    /\ \E outcome \in QueryOutcomes(d) :
         Goto("activity", d, CASE outcome = "ok" -> "rest"
                               [] outcome = "error" -> "suspend"
                               [] OTHER -> "fail")
    /\ RUnlock("activity", d)
    /\ UNCHANGED <<oracle, leaked, writer, session, open, stateVars, scrapeVars, at>>

ActivitySuspend(d) ==
    /\ pc["activity"][d] = "suspend"
    /\ SetSuspended(d, TRUE)
    /\ Goto("activity", d, "rest")
    /\ UNCHANGED <<oracle, lockVars, poolVars, connState, queuedAt, startupReady,
                   scrapeVars, at>>

\* wg.Wait(), the write to the sink and the next tick.
ActivityPassEnd ==
    /\ at["activity"] = NumDatabases + 1
    /\ \A d \in Databases : pc["activity"][d] = "rest"
    /\ at' = [at EXCEPT !["activity"] = 1]
    /\ UNCHANGED <<oracle, lockVars, poolVars, stateVars, scrapeVars, pc>>

Activity(d) ==
    \/ ActivitySkipped(d)
    \/ ActivityAdmitted(d)
    \/ ActivityAvailable(d)
    \/ Acquire("activity", d)
    \/ ActivityQuery(d)
    \/ Quarantine("activity", d)
    \/ ActivitySuspend(d)

-----------------------------------------------------------------------------
(* RunDeadConnectionDetection.                                             *)

\* beginProbe takes the write lock of every database, the active ones too.
DcdSkips(d) ==
    /\ pc["dcd"][d] = "rest"
    /\ Locked("dcd", d)
    /\ connState[d] # "QUARANTINED"
    /\ Unlock(d)
    /\ Advance("dcd")
    /\ UNCHANGED <<oracle, poolVars, stateVars, scrapeVars, pc>>

DcdBeginProbe(d) ==
    /\ pc["dcd"][d] = "rest"
    /\ Locked("dcd", d)
    /\ connState[d] = "QUARANTINED"
    /\ connState' = [connState EXCEPT ![d] = "PROBING"]
    /\ Unlock(d)
    /\ Goto("dcd", d, "connect")
    /\ UNCHANGED <<oracle, poolVars, queuedAt, suspended, startupReady, scrapeVars, at>>

\* The attempt is logged from connectionStateSample, then connect().
DcdConnect(d) ==
    /\ pc["dcd"][d] = "connect"
    /\ CanRead(d)
    /\ open' = [open EXCEPT ![d] = @ \union {Candidate(d)}]
    /\ using' = [using EXCEPT !["dcd"][d] = Candidate(d)]
    /\ Goto("dcd", d, "warm")
    /\ UNCHANGED <<oracle, lockVars, session, stateVars, scrapeVars, at>>

DcdConnectFails(d) ==
    /\ pc["dcd"][d] = "connect"
    /\ CanRead(d)
    /\ ~reachable[d]
    /\ Goto("dcd", d, "failed")
    /\ UNCHANGED <<oracle, lockVars, poolVars, stateVars, scrapeVars, at>>

\* warmupSession on the candidate pool, which is closed when it fails.
DcdWarmup(d) ==
    /\ pc["dcd"][d] = "warm"
    /\ reachable[d]
    /\ using' = [using EXCEPT !["dcd"][d] = NoSession]
    /\ Goto("dcd", d, "swap")
    /\ UNCHANGED <<oracle, lockVars, session, open, stateVars, scrapeVars, at>>

\* Variant: the candidate pool of a failed probe is not closed.
DcdWarmupFailsKeepsPool(d) ==
    /\ pc["dcd"][d] = "warm"
    /\ ~reachable[d]
    /\ using' = [using EXCEPT !["dcd"][d] = NoSession]
    /\ Goto("dcd", d, "failed")
    /\ UNCHANGED <<oracle, lockVars, session, open, stateVars, scrapeVars, at>>

DcdWarmupFails(d) ==
    /\ pc["dcd"][d] = "warm"
    /\ ~reachable[d]
    /\ open' = [open EXCEPT ![d] = @ \ {Candidate(d)}]
    /\ using' = [using EXCEPT !["dcd"][d] = NoSession]
    /\ Goto("dcd", d, "failed")
    /\ UNCHANGED <<oracle, lockVars, session, stateVars, scrapeVars, at>>

\* reconnect's failure: connectErr and Up under the lock.
DcdFailed(d) ==
    /\ pc["dcd"][d] = "failed"
    /\ Locked("dcd", d)
    /\ Unlock(d)
    /\ Goto("dcd", d, "failSuspend")
    /\ UNCHANGED <<oracle, poolVars, stateVars, scrapeVars, at>>

\* Variant: the old pool is replaced and closed without the write lock.
DcdSwapUnlocked(d) ==
    /\ pc["dcd"][d] = "swap"
    /\ session' = [session EXCEPT ![d] = Candidate(d)]
    /\ open' = [open EXCEPT ![d] = @ \ {session[d]}]
    /\ Goto("dcd", d, "resume")
    /\ UNCHANGED <<oracle, lockVars, using, stateVars, scrapeVars, at>>

\* reconnect's success: the candidate replaces the old pool, which is closed.
DcdSwap(d) ==
    /\ pc["dcd"][d] = "swap"
    /\ Locked("dcd", d)
    /\ session' = [session EXCEPT ![d] = Candidate(d)]
    /\ open' = [open EXCEPT ![d] = @ \ {session[d]}]
    /\ Unlock(d)
    /\ Goto("dcd", d, "resume")
    /\ UNCHANGED <<oracle, using, stateVars, scrapeVars, at>>

DcdActivity(d) ==
    /\ pc["dcd"][d] \in {"resume", "failSuspend"}
    /\ SetSuspended(d, pc["dcd"][d] = "failSuspend")
    /\ Goto("dcd", d, IF pc["dcd"][d] = "resume" THEN "finishOk" ELSE "finishError")
    /\ UNCHANGED <<oracle, lockVars, poolVars, connState, queuedAt, startupReady,
                   scrapeVars, at>>

\* Variant: a failed probe returns without queueing the database again.
DcdFinishProbeErrorForgotten(d) ==
    /\ pc["dcd"][d] \in {"finishOk", "finishError"}
    /\ Locked("dcd", d)
    /\ IF pc["dcd"][d] = "finishOk" THEN Activate(d) ELSE UNCHANGED <<connState, queuedAt>>
    /\ Unlock(d)
    /\ Goto("dcd", d, "rest")
    /\ Advance("dcd")
    /\ UNCHANGED <<oracle, poolVars, suspended, startupReady, scrapeVars>>

DcdFinishProbe(d) ==
    /\ pc["dcd"][d] \in {"finishOk", "finishError"}
    /\ Locked("dcd", d)
    /\ IF pc["dcd"][d] = "finishOk" THEN Activate(d) ELSE QuarantineLocked(d)
    /\ Unlock(d)
    /\ Goto("dcd", d, "rest")
    /\ Advance("dcd")
    /\ UNCHANGED <<oracle, poolVars, suspended, startupReady, scrapeVars>>

DcdReport(d) ==
    /\ at["dcd"] = NumDatabases + d
    /\ CanRead(d)
    /\ Advance("dcd")
    /\ UNCHANGED <<oracle, lockVars, poolVars, stateVars, scrapeVars, pc>>

Dcd(d) ==
    \/ DcdSkips(d)
    \/ DcdBeginProbe(d)
    \/ DcdConnect(d)
    \/ DcdConnectFails(d)
    \/ DcdWarmup(d)
    \/ DcdWarmupFails(d)
    \/ DcdFailed(d)
    \/ DcdSwap(d)
    \/ DcdActivity(d)
    \/ DcdFinishProbe(d)
    \/ DcdReport(d)

\* The write to the sink, and the timer of the next pass.
ReportingPassEnd(a) ==
    /\ at[a] = 2 * NumDatabases + 1
    /\ at' = [at EXCEPT ![a] = 1]
    /\ UNCHANGED <<oracle, lockVars, poolVars, stateVars, scrapeVars, pc>>

-----------------------------------------------------------------------------
(* The alert log loop of main.go: UpdateLog for each database in turn.     *)

\* Not active, in backoff after an earlier failure, or no usable log file.
AlertSkipped(d) ==
    /\ AlertLogEnabled
    /\ at["alert"] = d
    /\ pc["alert"][d] = "rest"
    /\ Refused(d) \/ Admitted(d)
    /\ Advance("alert")
    /\ UNCHANGED <<oracle, lockVars, poolVars, stateVars, scrapeVars, pc>>

AlertAdmitted(d) ==
    /\ AlertLogEnabled
    /\ at["alert"] = d
    /\ pc["alert"][d] = "rest"
    /\ Admitted(d)
    /\ Goto("alert", d, "acquire")
    /\ UNCHANGED <<oracle, lockVars, poolVars, stateVars, scrapeVars, at>>

\* The rows are appended to the log file with the read lock held; no outcome
\* touches the connection state.
AlertQuery(d) ==
    /\ pc["alert"][d] = "run"
    /\ RUnlock("alert", d)
    /\ Goto("alert", d, "rest")
    /\ Advance("alert")
    /\ UNCHANGED <<oracle, leaked, writer, session, open, stateVars, scrapeVars>>

AlertPassEnd ==
    /\ at["alert"] = NumDatabases + 1
    /\ at' = [at EXCEPT !["alert"] = 1]
    /\ UNCHANGED <<oracle, lockVars, poolVars, stateVars, scrapeVars, pc>>

Alert(d) ==
    \/ AlertSkipped(d)
    \/ AlertAdmitted(d)
    \/ Acquire("alert", d)
    \/ AlertQuery(d)

-----------------------------------------------------------------------------
\* The Oracle target becomes unavailable or available again.
OracleChanges(d) ==
    /\ reachable' = [reachable EXCEPT ![d] = ~@]
    /\ UNCHANGED <<lockVars, poolVars, stateVars, scrapeVars, control>>

\* NewDatabase: connect() may fail and leave the session nil.
Init ==
    /\ reachable \in [Databases -> BOOLEAN]
    /\ session \in [Databases -> {NoSession, 1}]
    /\ open = [d \in Databases |-> {session[d]} \ {NoSession}]
    /\ connState = [d \in Databases |-> "STARTING"]
    /\ queuedAt = [d \in Databases |-> NoTime]
    /\ suspended = [d \in Databases |-> FALSE]
    /\ startupReady = [d \in Databases |-> FALSE]
    /\ readers = [d \in Databases |-> {}]
    /\ leaked = [d \in Databases |-> FALSE]
    /\ writer = [d \in Databases |-> "none"]
    /\ pc = [a \in Actors |-> [d \in Databases |-> "rest"]]
    /\ at = [a \in Actors |-> 1]
    /\ using = [a \in Actors |-> [d \in Databases |-> NoSession]]
    /\ phase = [d \in Databases |-> "ping"]
    /\ scrapeErr = [d \in Databases |-> FALSE]

Step(d) ==
    \/ \E a \in Actors : Announce(a, d)
    \/ Warmup(d)
    \/ Scrape(d)
    \/ Activity(d)
    \/ Dcd(d)
    \/ Alert(d)

PassStep ==
    \/ ScrapeStart
    \/ ReportingPassEnd("scrape")
    \/ ActivityPassEnd
    \/ ReportingPassEnd("dcd")
    \/ AlertPassEnd

Next ==
    \/ \E d \in Databases : Step(d) \/ OracleChanges(d)
    \/ PassStep

Spec == Init /\ [][Next]_vars

-----------------------------------------------------------------------------
(* Fairness.  Every goroutine that can run does, queries and connection    *)
(* attempts return, and reconnectMU admits waiting goroutines: sync.Mutex  *)
(* hands over to a starving waiter, RWMutex.Unlock lets in every waiting   *)
(* reader first.  A waiter is enabled again and again rather than forever, *)
(* hence strong fairness.  A phase has finitely many queries, hence the    *)
(* fairness of ScrapeEndPhase.  Nothing is assumed of Oracle itself.       *)

Fairness ==
    /\ \A d \in Databases :
         /\ SF_vars(Warmup(d) \/ Announce("warmup", d))
         /\ SF_vars(Scrape(d) \/ Announce("scrape", d))
         /\ SF_vars(ScrapeEndPhase(d))
         /\ SF_vars(Activity(d) \/ Announce("activity", d))
         /\ SF_vars(Dcd(d) \/ Announce("dcd", d))
         /\ SF_vars(Alert(d))
    /\ WF_vars(ScrapeStart \/ ReportingPassEnd("scrape"))
    /\ WF_vars(ActivityPassEnd)
    /\ WF_vars(ReportingPassEnd("dcd"))
    /\ WF_vars(AlertPassEnd)

FairSpec == Spec /\ Fairness

-----------------------------------------------------------------------------
\* Every variable keeps its type.
TypeOK ==
    /\ reachable \in [Databases -> BOOLEAN]
    /\ session \in [Databases -> Pools \union {NoSession}]
    /\ open \in [Databases -> SUBSET Pools]
    /\ connState \in [Databases -> States]
    /\ queuedAt \in [Databases -> Times \union {NoTime}]
    /\ suspended \in [Databases -> BOOLEAN]
    /\ startupReady \in [Databases -> BOOLEAN]
    /\ readers \in [Databases -> SUBSET Actors]
    /\ leaked \in [Databases -> BOOLEAN]
    /\ writer \in [Databases -> Actors \union {"none"}]
    /\ pc \in [Actors -> [Databases -> Steps]]
    /\ at \in [Actors -> 1..(2 * NumDatabases + 1)]
    /\ using \in [Actors -> [Databases -> Pools \union {NoSession}]]
    /\ phase \in [Databases -> Phases]
    /\ scrapeErr \in [Databases -> BOOLEAN]

ProbeSteps == {"connect", "warm", "failed", "failSuspend", "finishError",
               "swap", "resume", "finishOk"}

\* quarantineLocked, beginProbe, finishProbe and activate are called from five
\* goroutines in any order: QueuedAt is set exactly while the database waits
\* for dead connection detection or is being probed by it.
QueuedWhileUnavailable ==
    \A d \in Databases :
        queuedAt[d] # NoTime <=> connState[d] \in {"QUARANTINED", "PROBING"}

\* beginProbe and finishProbe bracket a probe: a database is PROBING only while
\* the single detection loop is working on it, so it is never stuck there and
\* at most one database is probed at a time.
ProbeOwnedByDcd ==
    \A d \in Databases :
        connState[d] = "PROBING" => at["dcd"] = d /\ pc["dcd"][d] \in ProbeSteps

\* A database that collectors may use (IsActive) has a pool, and it is open.
ActiveHasOpenPool ==
    \A d \in Databases : connState[d] = "ACTIVE" => session[d] \in open[d]

\* reconnect closes the old pool under the write lock: no query, ping or
\* warmup ever works with a pool that has been closed under it.
NoUseOfClosedPool ==
    \A a \in Actors, d \in Databases :
        using[a][d] # NoSession => using[a][d] \in open[d]

\* Pools are not lost: outside a probe the only open pool is Database.Session.
NoPoolLeak ==
    \A d \in Databases :
        pc["dcd"][d] \notin {"warm", "swap"} => open[d] = {session[d]} \ {NoSession}

\* The states the goroutines leave behind agree with the work in hand: together,
\* an outage is neither forgotten nor are two of them dealt with at once.
OutagesTracked == QueuedWhileUnavailable /\ ProbeOwnedByDcd

\* The pools of reconnect and of the collectors: what may be used is open, what
\* is in use stays open, and what nobody can use any more has been closed.
PoolsSafe == ActiveHasOpenPool /\ NoUseOfClosedPool /\ NoPoolLeak

\* Startup warmup works without reconnectMU; nobody moves the database out of
\* STARTING before its outcome is recorded, so activate() in
\* WarmupConnectionPool never hides a quarantine of another goroutine.
WarmupUndisturbed ==
    \A d \in Databases :
        pc["warmup"][d] \in {"rest", "warm", "activate"} => connState[d] = "STARTING"

\* Failures that pile up during one outage keep the time at which the database
\* was queued: quarantineLocked restarts it only on leaving ACTIVE or STARTING.
QueuedAtKept ==
    [][\A d \in Databases :
          (/\ connState[d] \in {"QUARANTINED", "PROBING"}
           /\ connState'[d] \in {"QUARANTINED", "PROBING"})
             => queuedAt'[d] = queuedAt[d]]_vars

\* Dead connection detection restores a target that stays available, whatever
\* late failures of other goroutines arrive after the recovery.
TargetRestored ==
    \A d \in Databases : <>[]reachable[d] => <>[](connState[d] = "ACTIVE")

\* While the target stays available activity sampling goes on: a suspension
\* that outlives a recovery is lifted by the next successful ping.
ActivityGoesOn ==
    \A d \in Databases : <>[]reachable[d] => []<>(pc["activity"][d] = "run")

=============================================================================
