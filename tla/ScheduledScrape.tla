-------------------------- MODULE ScheduledScrape --------------------------
(***************************************************************************)
(* The scheduled passes of collector/collector.go: InitializeDatabases and *)
(* its requests, RunScheduledScrapes, the fan-out of scrapeSamples to one  *)
(* goroutine per database (scrapeDatabaseSamples) and the channels between *)
(* them, the statuses and the runtime sample of a pass.                    *)
(*                                                                         *)
(* scrapeSamples receives from the error channel until it is closed, which *)
(* happens when all goroutines have ended, and only then from the others:  *)
(* what they hold is what has been sent in the pass so far.  A send on the *)
(* error channel never blocks for long and has no channel here.            *)
(*                                                                         *)
(* Queries have an outcome and no contents.  The connection of a database  *)
(* is reduced to whether normal collectors may use it: the activity loop   *)
(* and the dead connection detection change it at any moment (see          *)
(* ConnectionLifecycle for how).  Whether a metric or the operational      *)
(* collection is due is left open.                                         *)
(***************************************************************************)
EXTENDS MetricDefinitions

CONSTANTS
    NumDatabases,  \* configured databases
    MaxOutside     \* bound: quarantines by other goroutines

ASSUME ScheduledAssumption == NumDatabases \in Nat \ {0} /\ MaxOutside \in Nat

Databases == 1 .. NumDatabases

VARIABLES
    ready,       \* [database -> StartupReady()]
    active,      \* [database -> isActive()]
    warming,     \* InitializeDatabases: [database, step]
    requested,   \* scrapeRequests holds a request
    loop,        \* RunScheduledScrapes
    at,          \* [database -> where its goroutine stands]
    left,        \* [database -> metrics it has yet to look at]
    errors,      \* [database -> databaseErrors # nil]
    sent,        \* [channel -> messages of the pass]
    completion,  \* [database -> its "scheduled" status in the pass]
    totalErrors, \* TotalErrors of the pass is not 0
    gap,         \* ghost: [database -> something due was not collected in the pass]
    outside,     \* ghost: [database -> somebody else quarantined it during the pass]
    outsiders,   \* ghost: quarantines by others so far
    found        \* ghost: [database -> a pass has found it ready]

startVars == <<ready, warming, requested>>
passVars == <<at, left, errors, sent, completion, totalErrors>>
ghosts == <<gap, outside, outsiders, found>>
vars == <<definitionVars, startVars, active, loop, passVars, ghosts>>

Channels == {"sample", "performance", "operational", "status"}
Statuses == {"none", "success", "failure"}

\* Variant: one message per database in each channel.
CapacityOneEach(ch) == NumDatabases

\* make(chan ..., n) in scrapeSamples
Capacity(ch) ==
    CASE ch = "sample" -> NumDatabases * NumFiles
      [] ch = "status" -> 12 * NumDatabases
      [] OTHER -> NumDatabases

\* Sends that a step makes, each of which would wait for room.
Send(sends) ==
    /\ \A ch \in DOMAIN sends : sent[ch] + sends[ch] <= Capacity(ch)
    /\ sent' = [ch \in Channels |->
                  IF ch \in DOMAIN sends THEN sent[ch] + sends[ch] ELSE sent[ch]]

\* What belongs to a pass, while there is none.
NoPass(p, l, e, s, c, t, g, o) ==
    /\ p = [d \in Databases |-> "idle"]
    /\ l = [d \in Databases |-> {}]
    /\ e = [d \in Databases |-> FALSE]
    /\ s = [ch \in Channels |-> 0]
    /\ c = [d \in Databases |-> "none"]
    /\ t = FALSE
    /\ g = [d \in Databases |-> FALSE]
    /\ o = [d \in Databases |-> FALSE]

-----------------------------------------------------------------------------
(* InitializeDatabases warms one database up after the other; each warmup  *)
(* ends with startupReady and a request, whatever came of it.              *)

Warmup(up) ==
    /\ warming.step = "warmup" /\ warming.database \in Databases
    /\ ready' = [ready EXCEPT ![warming.database] = TRUE]
    /\ active' = [active EXCEPT ![warming.database] = up]
    /\ warming' = [warming EXCEPT !.step = "request"]
    /\ UNCHANGED <<definitionVars, requested, loop, passVars, ghosts>>

\* Variant: the channel has no buffer, and perhaps nobody receives right now.
RequestUnbuffered ==
    /\ warming.step = "request"
    /\ requested' = (loop = "select")
    /\ warming' = [database |-> warming.database + 1, step |-> "warmup"]
    /\ UNCHANGED <<definitionVars, ready, active, loop, passVars, ghosts>>

\* A request is dropped when there is one already.
RequestScheduledScrape ==
    /\ warming.step = "request"
    /\ requested' = TRUE
    /\ warming' = [database |-> warming.database + 1, step |-> "warmup"]
    /\ UNCHANGED <<definitionVars, ready, active, loop, passVars, ghosts>>

-----------------------------------------------------------------------------
(* The loop.  It starts with a pass of its own.                            *)

Ticks ==
    /\ loop = "select"
    /\ loop' = "check"
    /\ UNCHANGED <<definitionVars, startVars, active, passVars, ghosts>>

Requested ==
    /\ loop = "select" /\ requested
    /\ requested' = FALSE
    /\ loop' = "check"
    /\ UNCHANGED <<definitionVars, ready, warming, active, passVars, ghosts>>

Stops ==
    /\ loop = "select"
    /\ loop' = "stopped"
    /\ UNCHANGED <<definitionVars, startVars, active, passVars, ghosts>>

MetricsChanged ==
    /\ loop = "check" /\ CheckIfMetricsChanged
    /\ BeginReload
    /\ loop' = "reload"
    /\ UNCHANGED <<startVars, active, passVars, ghosts>>

Reload ==
    /\ loop = "reload"
    /\ LoadFile \/ LoadFails \/ HashFile
    /\ loop' = IF reload' = Idle THEN "start" ELSE "reload"
    /\ UNCHANGED <<startVars, active, passVars, ghosts>>

MetricsUnchanged ==
    /\ loop = "check" /\ ~CheckIfMetricsChanged
    /\ loop' = "start"
    /\ UNCHANGED <<definitionVars, startVars, active, passVars, ghosts>>

StartPass ==
    /\ loop = "start"
    /\ loop' = "collect"
    /\ at' = [d \in Databases |-> "admit"]
    /\ left' = [d \in Databases |-> Metrics]
    /\ UNCHANGED <<definitionVars, startVars, active, errors, sent, completion, totalErrors, ghosts>>

\* The channels are closed once all goroutines have ended.
Collected ==
    /\ loop = "collect" /\ \A d \in Databases : at[d] = "done"
    /\ loop' = "write"
    /\ UNCHANGED <<definitionVars, startVars, active, passVars, ghosts>>

\* WriteSamples; an error is logged, and the pass is over.
Written ==
    /\ loop = "write"
    /\ loop' = "select"
    /\ NoPass(at', left', errors', sent', completion', totalErrors', gap', outside')
    /\ UNCHANGED <<definitionVars, startVars, active, outsiders, found>>

-----------------------------------------------------------------------------
(* scrapeDatabaseSamples, one goroutine per database.                      *)

PassRest == UNCHANGED <<definitionVars, startVars, loop, outside, outsiders>>

\* sendFailureStatuses and an early return.
EarlyReturn(d, err) ==
    /\ at' = [at EXCEPT ![d] = "done"]
    /\ Send([status |-> 1])
    /\ completion' = [completion EXCEPT ![d] = "failure"]
    /\ totalErrors' = (totalErrors \/ err)
    /\ gap' = [gap EXCEPT ![d] = TRUE]
    /\ UNCHANGED <<left, errors>>

NotReady(d) ==
    /\ at[d] = "admit" /\ ~ready[d]
    /\ EarlyReturn(d, FALSE)
    /\ PassRest /\ UNCHANGED <<active, found>>

NotActive(d) ==
    /\ at[d] = "admit" /\ ready[d] /\ ~active[d]
    /\ EarlyReturn(d, TRUE)
    /\ found' = [found EXCEPT ![d] = TRUE]
    /\ PassRest /\ UNCHANGED active

PingFails(d) ==
    /\ at[d] = "admit" /\ ready[d] /\ active[d]
    /\ EarlyReturn(d, TRUE)
    /\ active' = [active EXCEPT ![d] = FALSE]
    /\ found' = [found EXCEPT ![d] = TRUE]
    /\ PassRest

PingSucceeds(d) ==
    /\ at[d] = "admit" /\ ready[d] /\ active[d]
    /\ at' = [at EXCEPT ![d] = "metrics"]
    /\ Send([status |-> 1])
    /\ found' = [found EXCEPT ![d] = TRUE]
    /\ PassRest /\ UNCHANGED <<active, left, errors, completion, totalErrors, gap>>

\* A metric that is not enabled for the database or not due, or one with samples.
MetricDone(d, m) ==
    /\ at[d] = "metrics" /\ m \in left[d]
    /\ left' = [left EXCEPT ![d] = @ \ {m}]
    /\ \/ UNCHANGED sent
       \/ Send([sample |-> 1])
    /\ PassRest /\ UNCHANGED <<active, at, errors, completion, totalErrors, gap, found>>

\* A failed query, or one without rows; a connection failure ends the loop.
MetricFails(d, m, connection) ==
    /\ at[d] = "metrics" /\ m \in left[d]
    /\ left' = [left EXCEPT ![d] = IF connection THEN {} ELSE @ \ {m}]
    /\ active' = [active EXCEPT ![d] = @ /\ ~connection]
    /\ errors' = [errors EXCEPT ![d] = TRUE]
    /\ totalErrors' = TRUE
    /\ gap' = [gap EXCEPT ![d] = TRUE]
    /\ PassRest /\ UNCHANGED <<at, sent, completion, found>>

MetricsEnd(d) ==
    /\ at[d] = "metrics" /\ left[d] = {}
    /\ at' = [at EXCEPT ![d] = "performance"]
    /\ IF Metrics = {} THEN UNCHANGED sent ELSE Send([status |-> 1])
    /\ PassRest
    /\ UNCHANGED <<active, left, errors, completion, totalErrors, gap, found>>

\* The status "scheduled" of the pass.
Finish(d, failed) ==
    /\ at' = [at EXCEPT ![d] = "done"]
    /\ completion' = [completion EXCEPT ![d] = IF failed THEN "failure" ELSE "success"]

\* The database was quarantined before the phase: the pass ends here.
NoLongerActive(d) ==
    /\ at[d] \in {"performance", "operational"} /\ ~active[d]
    /\ Finish(d, errors[d])
    /\ Send([status |-> 1])
    /\ gap' = [gap EXCEPT ![d] = TRUE]
    /\ PassRest /\ UNCHANGED <<active, left, errors, totalErrors, found>>

Performance(d, samples) ==
    /\ at[d] = "performance" /\ active[d]
    /\ at' = [at EXCEPT ![d] = "operational"]
    /\ Send([performance |-> samples, status |-> 1])
    /\ PassRest
    /\ UNCHANGED <<active, left, errors, completion, totalErrors, gap, found>>

\* Variant: the error is sent and logged only.
PerformanceFailsUnjoined(d, samples, connection) ==
    /\ at[d] = "performance" /\ active[d]
    /\ at' = [at EXCEPT ![d] = "operational"]
    /\ Send([performance |-> samples, status |-> 1])
    /\ active' = [active EXCEPT ![d] = @ /\ ~connection]
    /\ totalErrors' = TRUE
    /\ gap' = [gap EXCEPT ![d] = TRUE]
    /\ PassRest /\ UNCHANGED <<left, errors, completion, found>>

PerformanceFails(d, samples, connection) ==
    /\ at[d] = "performance" /\ active[d]
    /\ at' = [at EXCEPT ![d] = "operational"]
    /\ Send([performance |-> samples, status |-> 1])
    /\ active' = [active EXCEPT ![d] = @ /\ ~connection]
    /\ errors' = [errors EXCEPT ![d] = TRUE]
    /\ totalErrors' = TRUE
    /\ gap' = [gap EXCEPT ![d] = TRUE]
    /\ PassRest /\ UNCHANGED <<left, completion, found>>

OperationalNotDue(d) ==
    /\ at[d] = "operational" /\ active[d]
    /\ Send([status |-> 1])
    /\ Finish(d, errors[d])
    /\ PassRest /\ UNCHANGED <<active, left, errors, totalErrors, gap, found>>

Operational(d, samples) ==
    /\ at[d] = "operational" /\ active[d]
    /\ Send([operational |-> samples, status |-> 2])
    /\ Finish(d, errors[d])
    /\ PassRest /\ UNCHANGED <<active, left, errors, totalErrors, gap, found>>

OperationalFails(d, samples, connection) ==
    /\ at[d] = "operational" /\ active[d]
    /\ Send([operational |-> samples, status |-> 2])
    /\ Finish(d, TRUE)
    /\ active' = [active EXCEPT ![d] = @ /\ ~connection]
    /\ errors' = [errors EXCEPT ![d] = TRUE]
    /\ totalErrors' = TRUE
    /\ gap' = [gap EXCEPT ![d] = TRUE]
    /\ PassRest /\ UNCHANGED <<left, found>>

\* newRuntimeSample: ErrorCount is not 0.
ErrorCounted == totalErrors \/ \E d \in Databases : completion[d] # "success"

-----------------------------------------------------------------------------
(* Other goroutines.                                                       *)

QuarantinedOutside(d) ==
    /\ ready[d] /\ active[d] /\ outsiders < MaxOutside
    /\ active' = [active EXCEPT ![d] = FALSE]
    /\ outside' = [outside EXCEPT ![d] = @ \/ at[d] \notin {"idle", "done"}]
    /\ outsiders' = outsiders + 1
    /\ UNCHANGED <<definitionVars, startVars, loop, passVars, gap, found>>

Restored(d) ==
    /\ ready[d] /\ ~active[d]
    /\ active' = [active EXCEPT ![d] = TRUE]
    /\ UNCHANGED <<definitionVars, startVars, loop, passVars, ghosts>>

Edited ==
    /\ \E f \in Files, health \in {"valid", "broken", "missing"} : Edit(f, health)
    /\ UNCHANGED <<startVars, active, loop, passVars, ghosts>>

-----------------------------------------------------------------------------
Init ==
    /\ InitDefinitions
    /\ ready = [d \in Databases |-> FALSE]
    /\ active = [d \in Databases |-> FALSE]
    /\ warming = [database |-> 1, step |-> "warmup"]
    /\ requested = FALSE
    /\ loop = "check"
    /\ NoPass(at, left, errors, sent, completion, totalErrors, gap, outside)
    /\ outsiders = 0
    /\ found = [d \in Databases |-> FALSE]

Initialize == (\E up \in BOOLEAN : Warmup(up)) \/ RequestScheduledScrape

Loop == MetricsChanged \/ Reload \/ MetricsUnchanged \/ StartPass \/ Collected \/ Written

ScrapeDatabase(d) ==
    \/ NotReady(d) \/ NotActive(d) \/ PingFails(d) \/ PingSucceeds(d)
    \/ \E m \in left[d] :
         \/ MetricDone(d, m)
         \/ \E connection \in BOOLEAN : MetricFails(d, m, connection)
    \/ MetricsEnd(d)
    \/ NoLongerActive(d)
    \/ OperationalNotDue(d)
    \/ \E samples \in 0 .. 1 :
         \/ Performance(d, samples)
         \/ Operational(d, samples)
         \/ \E connection \in BOOLEAN :
              PerformanceFails(d, samples, connection) \/ OperationalFails(d, samples, connection)

Next ==
    \/ Initialize
    \/ Ticks \/ Requested \/ Stops \/ Loop
    \/ \E d \in Databases : ScrapeDatabase(d) \/ QuarantinedOutside(d) \/ Restored(d)
    \/ Edited

Spec == Init /\ [][Next]_vars

-----------------------------------------------------------------------------
\* No goroutine of a pass ever waits for room in a channel, although nobody
\* receives from most of them before all goroutines have ended: each of them can
\* always go on.
NoSendBlocks ==
    \A d \in Databases : at[d] \notin {"idle", "done"} => ENABLED ScrapeDatabase(d)

\* "the next scheduled scrape will pick up all databases that are ready by then":
\* a database is never left to the ticker.  When the loop waits with no request
\* queued, a pass has found every database whose warmup has made its request.
WarmupNotOverlooked ==
    loop = "select" /\ ~requested =>
        \A d \in Databases : d < warming.database => found[d]

\* What a pass reports: a database that was not collected completely has failed
\* and counts as an error, unless the rest of its pass was left out because
\* somebody else quarantined it.
TroubleReported ==
    loop = "write" => \A d \in Databases :
        gap[d] /\ ~outside[d] => completion[d] = "failure" /\ ErrorCounted
=============================================================================
