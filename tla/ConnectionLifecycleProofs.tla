---------------------- MODULE ConnectionLifecycleProofs ----------------------
(***************************************************************************)
(* The safety properties of ConnectionLifecycle, proved for any number of  *)
(* databases and any setting of the configuration flags, with the lock     *)
(* leak of ScrapeQueryLeaksLock included.                                  *)
(*                                                                         *)
(* The properties are not inductive by themselves.  What they rest on is   *)
(* who may be where: a serial loop works on the database its position      *)
(* points at (Positions), collectors leave a database alone until its      *)
(* startup warmup is over (StartupGate), dead connection detection starts  *)
(* only after it (ProbeAfterWarmup), a pool in use is protected by the     *)
(* read lock or by that order (PoolUse), and the open pools are known at   *)
(* every step of a probe (OpenPools).                                      *)
(***************************************************************************)
EXTENDS ConnectionLifecycle, TLAPS

\* Each serial loop is working only on the database its position points at;
\* scrape goroutines exist only between the start of a pass and its report.
Positions ==
    \A d \in Databases :
        /\ pc["warmup"][d] \notin {"rest", "done"} => at["warmup"] = d
        /\ pc["scrape"][d] # "rest" => at["scrape"] = NumDatabases + 1
        /\ pc["activity"][d] = "available" => at["activity"] = d
        /\ pc["dcd"][d] \in ProbeSteps => at["dcd"] = d
        /\ writer[d] = "dcd" => at["dcd"] = d
        /\ pc["alert"][d] # "rest" => at["alert"] = d

\* Collectors touch a database only after its startup warmup has finished.
StartupGate ==
    \A d \in Databases :
        /\ startupReady[d] => pc["warmup"][d] = "done"
        /\ pc["scrape"][d] \notin {"rest", "check"} => startupReady[d]
        /\ pc["activity"][d] # "rest" => startupReady[d]

EarlyWarmup == {"rest", "warm", "activate"}

\* A probe begins only after the startup warmup has recorded its outcome.
ProbeAfterWarmup ==
    \A d \in Databases :
        pc["dcd"][d] \in ProbeSteps => pc["warmup"][d] \notin EarlyWarmup

\* Which pool a goroutine is working with, and what keeps it open.
PoolUse ==
    \A d \in Databases :
        /\ \A a \in {"scrape", "activity", "alert"} :
              /\ pc[a][d] = "run" => a \in readers[d]
              /\ using[a][d] = IF pc[a][d] = "run" THEN session[d] ELSE NoSession
        /\ using["warmup"][d] =
              IF pc["warmup"][d] = "warm" THEN session[d] ELSE NoSession
        /\ using["dcd"][d] =
              IF pc["dcd"][d] = "warm" THEN Candidate(d) ELSE NoSession

\* The open pools: the session, and the candidate while a probe holds one.
OpenPools ==
    \A d \in Databases :
        open[d] = ({session[d]} \ {NoSession})
                  \union (IF pc["dcd"][d] \in {"warm", "swap"} THEN {Candidate(d)} ELSE {})

\* A pool exists wherever the database is, or is about to be, ACTIVE.
SessionExists ==
    \A d \in Databases :
        \/ connState[d] = "ACTIVE"
        \/ pc["warmup"][d] \in {"warm", "activate"}
        \/ pc["dcd"][d] \in {"resume", "finishOk"}
        => session[d] # NoSession

\* Who is where: the part about control.
ControlInv ==
    /\ Positions
    /\ StartupGate
    /\ ProbeAfterWarmup
    /\ WarmupUndisturbed
    /\ QueuedWhileUnavailable
    /\ ProbeOwnedByDcd

\* Which pools exist and who uses them: the part about pools.
PoolInv ==
    /\ PoolUse
    /\ OpenPools
    /\ SessionExists

\* The inductive invariant.
IInv ==
    /\ TypeOK
    /\ ControlInv
    /\ PoolInv

-----------------------------------------------------------------------------
USE ConnectionAssumption DEF Databases, NoSession, NoTime, oracle, lockVars,
    poolVars, stateVars, scrapeVars, control, Goto, Advance, CanRead, Admitted,
    Refused, RLock, RUnlock, Locked, Unlock, QuarantineLocked, Activate,
    SetSuspended, OtherTime

\* The initial states of NewDatabase satisfy the inductive invariant.
LEMMA InitIInv == Init => IInv
  BY DEF Init, IInv, TypeOK, ControlInv, Positions, StartupGate,
         ProbeAfterWarmup, WarmupUndisturbed, QueuedWhileUnavailable,
         ProbeOwnedByDcd, PoolInv, PoolUse, OpenPools, SessionExists, Actors,
         Steps, States, Phases, Pools, Times, ProbeSteps, EarlyWarmup, Candidate

\* One entry of a table per goroutine and database is replaced.
LEMMA EntryReplaced ==
    ASSUME NEW S, NEW table \in [Actors -> [Databases -> S]],
           NEW a \in Actors, NEW d \in Databases, NEW v \in S
    PROVE  [table EXCEPT ![a][d] = v] \in [Actors -> [Databases -> S]]
OBVIOUS

\* RLock: the goroutine that gets the lock works with the session.
LEMMA AcquireTypes ==
    ASSUME TypeOK, NEW a \in Actors, NEW d \in Databases, Acquire(a, d)
    PROVE  TypeOK'
<1>1. /\ pc' = [pc EXCEPT ![a][d] = "run"] /\ "run" \in Steps
      /\ pc \in [Actors -> [Databases -> Steps]]
  BY DEF Acquire, TypeOK, Steps
<1>2. /\ using' = [using EXCEPT ![a][d] = session[d]]
      /\ session[d] \in Pools \union {NoSession}
      /\ using \in [Actors -> [Databases -> Pools \union {NoSession}]]
  BY DEF Acquire, TypeOK
<1>3. pc' \in [Actors -> [Databases -> Steps]]
  BY <1>1, EntryReplaced
<1>4. using' \in [Actors -> [Databases -> Pools \union {NoSession}]]
  BY <1>2, EntryReplaced, Zenon
<1>5. readers' \in [Databases -> SUBSET Actors]
  BY DEF Acquire, TypeOK
<1> QED
  BY <1>3, <1>4, <1>5 DEF Acquire, TypeOK

\* Every step of every goroutine keeps the types; the loop positions stay in
\* range because a loop advances only from the database it is working on.
LEMMA TypeStep == ASSUME IInv, [Next]_vars PROVE TypeOK'
<1> USE DEF IInv, ControlInv, TypeOK, Positions, Actors, Steps, States, Phases,
    Pools, Times, Candidate
<1>1. ASSUME NEW d \in Databases, NEW a \in Actors, Announce(a, d)
      PROVE TypeOK'
  BY <1>1 DEF Announce, Actors
<1>2. ASSUME NEW d \in Databases, Quarantine("warmup", d) PROVE TypeOK'
  BY <1>2 DEF Quarantine
<1>3. ASSUME NEW d \in Databases, Quarantine("scrape", d) PROVE TypeOK'
  BY <1>3 DEF Quarantine
<1>4. ASSUME NEW d \in Databases, Quarantine("activity", d) PROVE TypeOK'
  BY <1>4 DEF Quarantine
<1>5. ASSUME NEW d \in Databases, Acquire("scrape", d) PROVE TypeOK'
  BY <1>5, AcquireTypes DEF Actors
<1>6. ASSUME NEW d \in Databases, Acquire("activity", d) PROVE TypeOK'
  BY <1>6, AcquireTypes DEF Actors
<1>7. ASSUME NEW d \in Databases, Acquire("alert", d) PROVE TypeOK'
  BY <1>7, AcquireTypes DEF Actors
<1>8. ASSUME NEW d \in Databases, WarmupReadSession(d) PROVE TypeOK'
  <2>1. pc' \in [Actors -> [Databases -> Steps]]
    BY <1>8 DEF WarmupReadSession
  <2>2. using' \in [Actors -> [Databases -> Pools \union {NoSession}]]
    <3>1. session[d] \in Pools \union {NoSession}
      OBVIOUS
    <3> QED
      BY <1>8, <3>1 DEF WarmupReadSession
  <2> QED
    BY <1>8, <2>1, <2>2 DEF WarmupReadSession
<1>9. ASSUME NEW d \in Databases, WarmupSession(d) PROVE TypeOK'
  BY <1>9 DEF WarmupSession
<1>10. ASSUME NEW d \in Databases, WarmupActivate(d) PROVE TypeOK'
  BY <1>10 DEF WarmupActivate
<1>11. ASSUME NEW d \in Databases, WarmupActivity(d) PROVE TypeOK'
  BY <1>11 DEF WarmupActivity
<1>12. ASSUME NEW d \in Databases, WarmupReady(d) PROVE TypeOK'
  <2>1. at["warmup"] = d
    BY <1>12 DEF WarmupReady
  <2>2. at' \in [Actors -> 1..(2 * NumDatabases + 1)]
    BY <1>12, <2>1 DEF WarmupReady
  <2>3. pc' \in [Actors -> [Databases -> Steps]]
    BY <1>12 DEF WarmupReady
  <2> QED
    BY <1>12, <2>2, <2>3 DEF WarmupReady
<1>13. ASSUME NEW d \in Databases, ScrapeSkipped(d) PROVE TypeOK'
  BY <1>13 DEF ScrapeSkipped
<1>14. ASSUME NEW d \in Databases, ScrapeAdmitted(d) PROVE TypeOK'
  BY <1>14 DEF ScrapeAdmitted
<1>15. ASSUME NEW d \in Databases, ScrapePing(d) PROVE TypeOK'
  BY <1>15 DEF ScrapePing
<1>16. ASSUME NEW d \in Databases, ScrapeSetUp(d) PROVE TypeOK'
  BY <1>16 DEF ScrapeSetUp
<1>17. ASSUME NEW d \in Databases, ScrapeResumeActivity(d) PROVE TypeOK'
  BY <1>17 DEF ScrapeResumeActivity
<1>18. ASSUME NEW d \in Databases, ScrapeNextQuery(d) PROVE TypeOK'
  BY <1>18 DEF ScrapeNextQuery
<1>19. ASSUME NEW d \in Databases, ScrapeQuery(d) PROVE TypeOK'
  <2>1. scrapeErr' \in [Databases -> BOOLEAN]
    BY <1>19 DEF ScrapeQuery
  <2>2. pc' \in [Actors -> [Databases -> Steps]]
    <3>1. \/ pc' = [pc EXCEPT !["scrape"][d] = "fail"]
          \/ pc' = [pc EXCEPT !["scrape"][d] = "next"]
      BY <1>19 DEF ScrapeQuery
    <3>2. CASE pc' = [pc EXCEPT !["scrape"][d] = "fail"]
      BY <3>2
    <3>3. CASE pc' = [pc EXCEPT !["scrape"][d] = "next"]
      BY <3>3
    <3> QED
      BY <3>1, <3>2, <3>3
  <2>3. /\ readers' \in [Databases -> SUBSET Actors]
        /\ using' \in [Actors -> [Databases -> Pools \union {NoSession}]]
    BY <1>19 DEF ScrapeQuery
  <2> QED
    BY <1>19, <2>1, <2>2, <2>3 DEF ScrapeQuery
<1>20. ASSUME NEW d \in Databases, ScrapeQueryLeaksLock(d) PROVE TypeOK'
  BY <1>20 DEF ScrapeQueryLeaksLock
<1>21. ASSUME NEW d \in Databases, ScrapeEndPhase(d) PROVE TypeOK'
  BY <1>21 DEF ScrapeEndPhase
<1>22. ASSUME NEW d \in Databases, ScrapeNextPhase(d) PROVE TypeOK'
  BY <1>22 DEF ScrapeNextPhase
<1>23. ASSUME NEW d \in Databases, ScrapeEnds(d) PROVE TypeOK'
  BY <1>23 DEF ScrapeEnds
<1>24. ASSUME NEW d \in Databases, ScrapeReport(d) PROVE TypeOK'
  <2>1. at["scrape"] \in 1 .. 2 * NumDatabases
    BY <1>24 DEF ScrapeReport
  <2>2. at' \in [Actors -> 1..(2 * NumDatabases + 1)]
    BY <1>24, <2>1 DEF ScrapeReport
  <2> QED
    BY <1>24, <2>2 DEF ScrapeReport
<1>25. ASSUME NEW d \in Databases, ScrapeSuspendActivity(d) PROVE TypeOK'
  BY <1>25 DEF ScrapeSuspendActivity
<1>26. ASSUME NEW d \in Databases, ActivitySkipped(d) PROVE TypeOK'
  <2>1. at["activity"] \in 1 .. 2 * NumDatabases
    BY <1>26 DEF ActivitySkipped
  <2>2. at' \in [Actors -> 1..(2 * NumDatabases + 1)]
    BY <1>26, <2>1 DEF ActivitySkipped
  <2> QED
    BY <1>26, <2>2 DEF ActivitySkipped
<1>27. ASSUME NEW d \in Databases, ActivityAdmitted(d) PROVE TypeOK'
  BY <1>27 DEF ActivityAdmitted
<1>28. ASSUME NEW d \in Databases, ActivityAvailable(d) PROVE TypeOK'
  <2>1. at["activity"] = d
    BY <1>28 DEF ActivityAvailable
  <2>2. at' \in [Actors -> 1..(2 * NumDatabases + 1)]
    BY <1>28, <2>1 DEF ActivityAvailable
  <2>3. pc' \in [Actors -> [Databases -> Steps]]
    BY <1>28 DEF ActivityAvailable
  <2> QED
    BY <1>28, <2>2, <2>3 DEF ActivityAvailable
<1>29. ASSUME NEW d \in Databases, ActivityQuery(d) PROVE TypeOK'
  BY <1>29 DEF ActivityQuery
<1>30. ASSUME NEW d \in Databases, ActivitySuspend(d) PROVE TypeOK'
  BY <1>30 DEF ActivitySuspend
<1>31. ASSUME NEW d \in Databases, DcdSkips(d) PROVE TypeOK'
  <2>1. at["dcd"] \in 1 .. 2 * NumDatabases
    BY <1>31 DEF DcdSkips
  <2>2. at' \in [Actors -> 1..(2 * NumDatabases + 1)]
    BY <1>31, <2>1 DEF DcdSkips
  <2>3. writer' \in [Databases -> Actors \union {"none"}]
    BY <1>31 DEF DcdSkips
  <2> QED
    BY <1>31, <2>2, <2>3 DEF DcdSkips
<1>32. ASSUME NEW d \in Databases, DcdBeginProbe(d) PROVE TypeOK'
  BY <1>32 DEF DcdBeginProbe
<1>33. ASSUME NEW d \in Databases, DcdConnect(d) PROVE TypeOK'
  <2>1. pc' \in [Actors -> [Databases -> Steps]]
    <3>1. pc' = [pc EXCEPT !["dcd"][d] = "warm"]
      BY <1>33 DEF DcdConnect
    <3> QED
      BY <3>1
  <2>2. open' \in [Databases -> SUBSET Pools]
    BY <1>33 DEF DcdConnect
  <2>3. using' \in [Actors -> [Databases -> Pools \union {NoSession}]]
    <3>1. /\ using' = [using EXCEPT !["dcd"][d] = Candidate(d)]
          /\ Candidate(d) \in Pools \union {NoSession}
      BY <1>33 DEF DcdConnect
    <3> QED
      BY <3>1
  <2> QED
    BY <1>33, <2>1, <2>2, <2>3 DEF DcdConnect
<1>34. ASSUME NEW d \in Databases, DcdConnectFails(d) PROVE TypeOK'
  BY <1>34 DEF DcdConnectFails
<1>35. ASSUME NEW d \in Databases, DcdWarmup(d) PROVE TypeOK'
  BY <1>35 DEF DcdWarmup
<1>36. ASSUME NEW d \in Databases, DcdWarmupFails(d) PROVE TypeOK'
  <2>1. pc' \in [Actors -> [Databases -> Steps]]
    BY <1>36 DEF DcdWarmupFails
  <2>2. using' \in [Actors -> [Databases -> Pools \union {NoSession}]]
    BY <1>36 DEF DcdWarmupFails
  <2>3. open' \in [Databases -> SUBSET Pools]
    BY <1>36 DEF DcdWarmupFails
  <2> QED
    BY <1>36, <2>1, <2>2, <2>3 DEF DcdWarmupFails
<1>37. ASSUME NEW d \in Databases, DcdFailed(d) PROVE TypeOK'
  BY <1>37 DEF DcdFailed
<1>38. ASSUME NEW d \in Databases, DcdSwap(d) PROVE TypeOK'
  <2>1. /\ pc' \in [Actors -> [Databases -> Steps]]
        /\ writer' \in [Databases -> Actors \union {"none"}]
    BY <1>38 DEF DcdSwap
  <2>2. /\ session' \in [Databases -> Pools \union {NoSession}]
        /\ open' \in [Databases -> SUBSET Pools]
    BY <1>38 DEF DcdSwap
  <2> QED
    BY <1>38, <2>1, <2>2 DEF DcdSwap
<1>39. ASSUME NEW d \in Databases, DcdActivity(d) PROVE TypeOK'
  BY <1>39 DEF DcdActivity
<1>40. ASSUME NEW d \in Databases, DcdFinishProbe(d) PROVE TypeOK'
  <2>1. at["dcd"] = d
    BY <1>40 DEF DcdFinishProbe, ProbeSteps
  <2>2. at' \in [Actors -> 1..(2 * NumDatabases + 1)]
    BY <1>40, <2>1 DEF DcdFinishProbe
  <2>3. pc' \in [Actors -> [Databases -> Steps]]
    BY <1>40 DEF DcdFinishProbe
  <2>4. connState' \in [Databases -> States]
    <3>1. CASE pc["dcd"][d] = "finishOk"
      BY <1>40, <3>1 DEF DcdFinishProbe
    <3>2. CASE pc["dcd"][d] # "finishOk"
      BY <1>40, <3>2 DEF DcdFinishProbe
    <3> QED
      BY <3>1, <3>2
  <2>5. queuedAt' \in [Databases -> Times \union {NoTime}]
    <3>1. CASE pc["dcd"][d] = "finishOk"
      BY <1>40, <3>1 DEF DcdFinishProbe
    <3>2. CASE pc["dcd"][d] # "finishOk"
      BY <1>40, <3>2 DEF DcdFinishProbe
    <3> QED
      BY <3>1, <3>2
  <2> QED
    BY <1>40, <2>2, <2>3, <2>4, <2>5 DEF DcdFinishProbe
<1>41. ASSUME NEW d \in Databases, DcdReport(d) PROVE TypeOK'
  BY <1>41 DEF DcdReport
<1>42. ASSUME NEW d \in Databases, AlertSkipped(d) PROVE TypeOK'
  <2>1. at["alert"] \in 1 .. 2 * NumDatabases
    BY <1>42 DEF AlertSkipped
  <2>2. at' \in [Actors -> 1..(2 * NumDatabases + 1)]
    BY <1>42, <2>1 DEF AlertSkipped
  <2> QED
    BY <1>42, <2>2 DEF AlertSkipped
<1>43. ASSUME NEW d \in Databases, AlertAdmitted(d) PROVE TypeOK'
  BY <1>43 DEF AlertAdmitted
<1>44. ASSUME NEW d \in Databases, AlertQuery(d) PROVE TypeOK'
  <2>1. at["alert"] = d
    BY <1>44 DEF AlertQuery
  <2>2. at' \in [Actors -> 1..(2 * NumDatabases + 1)]
    BY <1>44, <2>1 DEF AlertQuery
  <2>3. pc' \in [Actors -> [Databases -> Steps]]
    BY <1>44 DEF AlertQuery
  <2> QED
    BY <1>44, <2>2, <2>3 DEF AlertQuery
<1>45. ASSUME NEW d \in Databases, OracleChanges(d) PROVE TypeOK'
  BY <1>45 DEF OracleChanges
<1>46. ASSUME ScrapeStart PROVE TypeOK'
  <2>1. pc' \in [Actors -> [Databases -> Steps]]
    BY <1>46 DEF ScrapeStart
  <2>2. at' \in [Actors -> 1..(2 * NumDatabases + 1)]
    BY <1>46 DEF ScrapeStart
  <2> QED
    BY <1>46, <2>1, <2>2 DEF ScrapeStart
<1>47. ASSUME ReportingPassEnd("scrape") PROVE TypeOK'
  BY <1>47 DEF ReportingPassEnd
<1>48. ASSUME ReportingPassEnd("dcd") PROVE TypeOK'
  BY <1>48 DEF ReportingPassEnd
<1>49. ASSUME ActivityPassEnd PROVE TypeOK'
  BY <1>49 DEF ActivityPassEnd
<1>50. ASSUME AlertPassEnd PROVE TypeOK'
  BY <1>50 DEF AlertPassEnd
<1>51. ASSUME UNCHANGED vars PROVE TypeOK'
  BY <1>51 DEF vars
<1> HIDE DEF IInv, ControlInv, TypeOK, Positions, Actors, Steps, States,
    Phases, Pools, Times, Candidate
<1> QED
  BY <1>1, <1>2, <1>3, <1>4, <1>5, <1>6, <1>7, <1>8, <1>9, <1>10, <1>11, <1>12,
     <1>13, <1>14, <1>15, <1>16, <1>17, <1>18, <1>19, <1>20, <1>21, <1>22,
     <1>23, <1>24, <1>25, <1>26, <1>27, <1>28, <1>29, <1>30, <1>31, <1>32,
     <1>33, <1>34, <1>35, <1>36, <1>37, <1>38, <1>39, <1>40, <1>41, <1>42,
     <1>43, <1>44, <1>45, <1>46, <1>47, <1>48, <1>49, <1>50, <1>51
  DEF Next, Step, PassStep, Warmup, Scrape, Activity, Dcd, Alert

\* Every step keeps the part about control.
LEMMA ControlStep == ASSUME IInv, [Next]_vars PROVE ControlInv'
<1> USE DEF IInv, ControlInv, TypeOK, Positions, StartupGate, ProbeAfterWarmup,
    WarmupUndisturbed, QueuedWhileUnavailable, ProbeOwnedByDcd, ProbeSteps,
    EarlyWarmup, Times
<1>1. ASSUME NEW d \in Databases, NEW a \in Actors, Announce(a, d)
      PROVE ControlInv'
  <2>1. UNCHANGED <<at, pc, startupReady, connState, queuedAt, session, suspended>>
    BY <1>1 DEF Announce
  <2>2. Positions' /\ StartupGate' /\ ProbeAfterWarmup'
    <3>1. Positions'
      <4>1. \A e \in Databases : writer'[e] = "dcd" => at["dcd"] = e
        BY <1>1 DEF Announce
      <4> QED
        BY <2>1, <4>1
    <3>2. StartupGate'
      BY <2>1
    <3>3. ProbeAfterWarmup'
      BY <2>1
    <3> QED
      BY <3>1, <3>2, <3>3
  <2>3. WarmupUndisturbed' /\ QueuedWhileUnavailable' /\ ProbeOwnedByDcd'
    BY <2>1
  <2> QED
    BY <2>2, <2>3
<1>2. ASSUME NEW d \in Databases, Quarantine("warmup", d) PROVE ControlInv'
  BY <1>2 DEF Quarantine
<1>3. ASSUME NEW d \in Databases, Quarantine("scrape", d) PROVE ControlInv'
  BY <1>3 DEF Quarantine
<1>4. ASSUME NEW d \in Databases, Quarantine("activity", d) PROVE ControlInv'
  BY <1>4 DEF Quarantine
<1>5. ASSUME NEW d \in Databases, Acquire("scrape", d) PROVE ControlInv'
  BY <1>5 DEF Acquire
<1>6. ASSUME NEW d \in Databases, Acquire("activity", d) PROVE ControlInv'
  BY <1>6 DEF Acquire
<1>7. ASSUME NEW d \in Databases, Acquire("alert", d) PROVE ControlInv'
  BY <1>7 DEF Acquire
<1>8. ASSUME NEW d \in Databases, WarmupReadSession(d) PROVE ControlInv'
  BY <1>8 DEF WarmupReadSession
<1>9. ASSUME NEW d \in Databases, WarmupSession(d) PROVE ControlInv'
  BY <1>9 DEF WarmupSession
<1>10. ASSUME NEW d \in Databases, WarmupActivate(d) PROVE ControlInv'
  BY <1>10 DEF WarmupActivate
<1>11. ASSUME NEW d \in Databases, WarmupActivity(d) PROVE ControlInv'
  BY <1>11 DEF WarmupActivity
<1>12. ASSUME NEW d \in Databases, WarmupReady(d) PROVE ControlInv'
  <2>1. at["warmup"] = d
    BY <1>12 DEF WarmupReady
  <2>2. \A e \in Databases : e # d => pc["warmup"][e] \in {"rest", "done"}
    BY <2>1
  <2>3. Positions'
    BY <1>12, <2>1, <2>2 DEF WarmupReady
  <2>4. StartupGate'
    <3>1. \A e \in Databases : pc["warmup"][e] = "done" => pc'["warmup"][e] = "done"
      BY <1>12 DEF WarmupReady
    <3>2. ASSUME NEW e \in Databases, startupReady'[e]
          PROVE  startupReady[e] \/ pc'["warmup"][e] = "done"
      <4>1. CASE e = d
        BY <1>12, <4>1 DEF WarmupReady, Actors
      <4>2. CASE e # d
        BY <1>12, <3>2, <4>2 DEF WarmupReady
      <4> QED
        BY <4>1, <4>2
    <3> QED
      BY <1>12, <3>1, <3>2 DEF WarmupReady
  <2> QED
    BY <1>12, <2>3, <2>4 DEF WarmupReady
<1>13. ASSUME NEW d \in Databases, ScrapeSkipped(d) PROVE ControlInv'
  BY <1>13 DEF ScrapeSkipped
<1>14. ASSUME NEW d \in Databases, ScrapeAdmitted(d) PROVE ControlInv'
  BY <1>14 DEF ScrapeAdmitted
<1>15. ASSUME NEW d \in Databases, ScrapePing(d) PROVE ControlInv'
  BY <1>15 DEF ScrapePing
<1>16. ASSUME NEW d \in Databases, ScrapeSetUp(d) PROVE ControlInv'
  BY <1>16 DEF ScrapeSetUp
<1>17. ASSUME NEW d \in Databases, ScrapeResumeActivity(d) PROVE ControlInv'
  BY <1>17 DEF ScrapeResumeActivity
<1>18. ASSUME NEW d \in Databases, ScrapeNextQuery(d) PROVE ControlInv'
  BY <1>18 DEF ScrapeNextQuery
<1>19. ASSUME NEW d \in Databases, ScrapeQuery(d) PROVE ControlInv'
  BY <1>19 DEF ScrapeQuery
<1>20. ASSUME NEW d \in Databases, ScrapeQueryLeaksLock(d) PROVE ControlInv'
  BY <1>20 DEF ScrapeQueryLeaksLock
<1>21. ASSUME NEW d \in Databases, ScrapeEndPhase(d) PROVE ControlInv'
  BY <1>21 DEF ScrapeEndPhase
<1>22. ASSUME NEW d \in Databases, ScrapeNextPhase(d) PROVE ControlInv'
  BY <1>22 DEF ScrapeNextPhase
<1>23. ASSUME NEW d \in Databases, ScrapeEnds(d) PROVE ControlInv'
  BY <1>23 DEF ScrapeEnds
<1>24. ASSUME NEW d \in Databases, ScrapeReport(d) PROVE ControlInv'
  BY <1>24 DEF ScrapeReport
<1>25. ASSUME NEW d \in Databases, ScrapeSuspendActivity(d) PROVE ControlInv'
  BY <1>25 DEF ScrapeSuspendActivity
<1>26. ASSUME NEW d \in Databases, ActivitySkipped(d) PROVE ControlInv'
  BY <1>26 DEF ActivitySkipped
<1>27. ASSUME NEW d \in Databases, ActivityAdmitted(d) PROVE ControlInv'
  BY <1>27 DEF ActivityAdmitted
<1>28. ASSUME NEW d \in Databases, ActivityAvailable(d) PROVE ControlInv'
  BY <1>28 DEF ActivityAvailable
<1>29. ASSUME NEW d \in Databases, ActivityQuery(d) PROVE ControlInv'
  BY <1>29 DEF ActivityQuery
<1>30. ASSUME NEW d \in Databases, ActivitySuspend(d) PROVE ControlInv'
  BY <1>30 DEF ActivitySuspend
<1>31. ASSUME NEW d \in Databases, DcdSkips(d) PROVE ControlInv'
  BY <1>31 DEF DcdSkips
<1>32. ASSUME NEW d \in Databases, DcdBeginProbe(d) PROVE ControlInv'
  BY <1>32 DEF DcdBeginProbe
<1>33. ASSUME NEW d \in Databases, DcdConnect(d) PROVE ControlInv'
  BY <1>33 DEF DcdConnect
<1>34. ASSUME NEW d \in Databases, DcdConnectFails(d) PROVE ControlInv'
  BY <1>34 DEF DcdConnectFails
<1>35. ASSUME NEW d \in Databases, DcdWarmup(d) PROVE ControlInv'
  BY <1>35 DEF DcdWarmup
<1>36. ASSUME NEW d \in Databases, DcdWarmupFails(d) PROVE ControlInv'
  BY <1>36 DEF DcdWarmupFails
<1>37. ASSUME NEW d \in Databases, DcdFailed(d) PROVE ControlInv'
  BY <1>37 DEF DcdFailed
<1>38. ASSUME NEW d \in Databases, DcdSwap(d) PROVE ControlInv'
  BY <1>38 DEF DcdSwap
<1>39. ASSUME NEW d \in Databases, DcdActivity(d) PROVE ControlInv'
  BY <1>39 DEF DcdActivity
<1>40. ASSUME NEW d \in Databases, DcdFinishProbe(d) PROVE ControlInv'
  <2>1. at["dcd"] = d
    BY <1>40 DEF DcdFinishProbe
  <2>2. CASE pc["dcd"][d] = "finishOk"
    BY <1>40, <2>1, <2>2 DEF DcdFinishProbe
  <2>3. CASE pc["dcd"][d] = "finishError"
    BY <1>40, <2>1, <2>3 DEF DcdFinishProbe
  <2> QED
    BY <1>40, <2>2, <2>3 DEF DcdFinishProbe
<1>41. ASSUME NEW d \in Databases, DcdReport(d) PROVE ControlInv'
  BY <1>41 DEF DcdReport
<1>42. ASSUME NEW d \in Databases, AlertSkipped(d) PROVE ControlInv'
  BY <1>42 DEF AlertSkipped
<1>43. ASSUME NEW d \in Databases, AlertAdmitted(d) PROVE ControlInv'
  BY <1>43 DEF AlertAdmitted
<1>44. ASSUME NEW d \in Databases, AlertQuery(d) PROVE ControlInv'
  <2>1. at["alert"] = d
    BY <1>44 DEF AlertQuery
  <2>2. \A e \in Databases : e # d => pc["alert"][e] \in {"rest", "done"}
    BY <2>1
  <2>3. Positions'
    BY <1>44, <2>1, <2>2 DEF AlertQuery
  <2>4. StartupGate'
    BY <1>44 DEF AlertQuery
  <2> QED
    BY <1>44, <2>3, <2>4 DEF AlertQuery
<1>45. ASSUME NEW d \in Databases, OracleChanges(d) PROVE ControlInv'
  BY <1>45 DEF OracleChanges
<1>46. ASSUME ScrapeStart PROVE ControlInv'
  BY <1>46 DEF ScrapeStart
<1>47. ASSUME ReportingPassEnd("scrape") PROVE ControlInv'
  BY <1>47 DEF ReportingPassEnd
<1>48. ASSUME ReportingPassEnd("dcd") PROVE ControlInv'
  BY <1>48 DEF ReportingPassEnd
<1>49. ASSUME ActivityPassEnd PROVE ControlInv'
  BY <1>49 DEF ActivityPassEnd
<1>50. ASSUME AlertPassEnd PROVE ControlInv'
  BY <1>50 DEF AlertPassEnd
<1>51. ASSUME UNCHANGED vars PROVE ControlInv'
  BY <1>51 DEF vars
<1> HIDE DEF IInv, ControlInv, TypeOK, Positions, StartupGate,
    ProbeAfterWarmup, WarmupUndisturbed, QueuedWhileUnavailable,
    ProbeOwnedByDcd, ProbeSteps, EarlyWarmup, Times
<1> QED
  BY <1>1, <1>2, <1>3, <1>4, <1>5, <1>6, <1>7, <1>8, <1>9, <1>10, <1>11, <1>12,
     <1>13, <1>14, <1>15, <1>16, <1>17, <1>18, <1>19, <1>20, <1>21, <1>22,
     <1>23, <1>24, <1>25, <1>26, <1>27, <1>28, <1>29, <1>30, <1>31, <1>32,
     <1>33, <1>34, <1>35, <1>36, <1>37, <1>38, <1>39, <1>40, <1>41, <1>42,
     <1>43, <1>44, <1>45, <1>46, <1>47, <1>48, <1>49, <1>50, <1>51
  DEF Next, Step, PassStep, Warmup, Scrape, Activity, Dcd, Alert

\* Every step keeps the part about pools.  DcdSwap is the step that closes a
\* pool: the write lock keeps out the readers, ProbeAfterWarmup the warmup.
LEMMA PoolStep == ASSUME IInv, [Next]_vars PROVE PoolInv'
<1> USE DEF IInv, ControlInv, PoolInv, TypeOK, PoolUse, OpenPools,
    SessionExists, ProbeAfterWarmup, Candidate, ProbeSteps, EarlyWarmup
<1>1. ASSUME NEW d \in Databases, NEW a \in Actors, Announce(a, d)
      PROVE PoolInv'
  BY <1>1 DEF Announce, Actors
<1>2. ASSUME NEW d \in Databases, Quarantine("warmup", d) PROVE PoolInv'
  BY <1>2 DEF Quarantine
<1>3. ASSUME NEW d \in Databases, Quarantine("scrape", d) PROVE PoolInv'
  BY <1>3 DEF Quarantine
<1>4. ASSUME NEW d \in Databases, Quarantine("activity", d) PROVE PoolInv'
  BY <1>4 DEF Quarantine
<1>5. ASSUME NEW d \in Databases, Acquire("scrape", d) PROVE PoolInv'
  BY <1>5 DEF Acquire
<1>6. ASSUME NEW d \in Databases, Acquire("activity", d) PROVE PoolInv'
  BY <1>6 DEF Acquire
<1>7. ASSUME NEW d \in Databases, Acquire("alert", d) PROVE PoolInv'
  BY <1>7 DEF Acquire
<1>8. ASSUME NEW d \in Databases, WarmupReadSession(d) PROVE PoolInv'
  BY <1>8 DEF WarmupReadSession
<1>9. ASSUME NEW d \in Databases, WarmupSession(d) PROVE PoolInv'
  BY <1>9 DEF WarmupSession
<1>10. ASSUME NEW d \in Databases, WarmupActivate(d) PROVE PoolInv'
  BY <1>10 DEF WarmupActivate
<1>11. ASSUME NEW d \in Databases, WarmupActivity(d) PROVE PoolInv'
  BY <1>11 DEF WarmupActivity
<1>12. ASSUME NEW d \in Databases, WarmupReady(d) PROVE PoolInv'
  BY <1>12 DEF WarmupReady
<1>13. ASSUME NEW d \in Databases, ScrapeSkipped(d) PROVE PoolInv'
  BY <1>13 DEF ScrapeSkipped
<1>14. ASSUME NEW d \in Databases, ScrapeAdmitted(d) PROVE PoolInv'
  BY <1>14 DEF ScrapeAdmitted
<1>15. ASSUME NEW d \in Databases, ScrapePing(d) PROVE PoolInv'
  BY <1>15 DEF ScrapePing
<1>16. ASSUME NEW d \in Databases, ScrapeSetUp(d) PROVE PoolInv'
  BY <1>16 DEF ScrapeSetUp
<1>17. ASSUME NEW d \in Databases, ScrapeResumeActivity(d) PROVE PoolInv'
  BY <1>17 DEF ScrapeResumeActivity
<1>18. ASSUME NEW d \in Databases, ScrapeNextQuery(d) PROVE PoolInv'
  BY <1>18 DEF ScrapeNextQuery
<1>19. ASSUME NEW d \in Databases, ScrapeQuery(d) PROVE PoolInv'
  BY <1>19 DEF ScrapeQuery
<1>20. ASSUME NEW d \in Databases, ScrapeQueryLeaksLock(d) PROVE PoolInv'
  BY <1>20 DEF ScrapeQueryLeaksLock
<1>21. ASSUME NEW d \in Databases, ScrapeEndPhase(d) PROVE PoolInv'
  BY <1>21 DEF ScrapeEndPhase
<1>22. ASSUME NEW d \in Databases, ScrapeNextPhase(d) PROVE PoolInv'
  BY <1>22 DEF ScrapeNextPhase
<1>23. ASSUME NEW d \in Databases, ScrapeEnds(d) PROVE PoolInv'
  BY <1>23 DEF ScrapeEnds
<1>24. ASSUME NEW d \in Databases, ScrapeReport(d) PROVE PoolInv'
  BY <1>24 DEF ScrapeReport
<1>25. ASSUME NEW d \in Databases, ScrapeSuspendActivity(d) PROVE PoolInv'
  BY <1>25 DEF ScrapeSuspendActivity
<1>26. ASSUME NEW d \in Databases, ActivitySkipped(d) PROVE PoolInv'
  BY <1>26 DEF ActivitySkipped
<1>27. ASSUME NEW d \in Databases, ActivityAdmitted(d) PROVE PoolInv'
  BY <1>27 DEF ActivityAdmitted
<1>28. ASSUME NEW d \in Databases, ActivityAvailable(d) PROVE PoolInv'
  BY <1>28 DEF ActivityAvailable
<1>29. ASSUME NEW d \in Databases, ActivityQuery(d) PROVE PoolInv'
  BY <1>29 DEF ActivityQuery
<1>30. ASSUME NEW d \in Databases, ActivitySuspend(d) PROVE PoolInv'
  BY <1>30 DEF ActivitySuspend
<1>31. ASSUME NEW d \in Databases, DcdSkips(d) PROVE PoolInv'
  BY <1>31 DEF DcdSkips
<1>32. ASSUME NEW d \in Databases, DcdBeginProbe(d) PROVE PoolInv'
  BY <1>32 DEF DcdBeginProbe
<1>33. ASSUME NEW d \in Databases, DcdConnect(d) PROVE PoolInv'
  <2>1. session[d] \in {0, 1, 2} /\ open[d] \in SUBSET {1, 2}
    BY DEF Pools
  <2>2. OpenPools'
    <3>1. ASSUME NEW e \in Databases
          PROVE  (open[e] = ({session[e]} \ {NoSession})
                    \union (IF pc["dcd"][e] \in {"warm", "swap"} THEN {Candidate(e)} ELSE {}))'
      <4>1. CASE e = d
        <5>1. session'[d] = session[d] /\ Candidate(d)' = Candidate(d)
          BY <1>33 DEF DcdConnect
        <5>2. pc'["dcd"][d] = "warm"
          BY <1>33 DEF DcdConnect, Actors
        <5>3. open'[d] = open[d] \union {Candidate(d)}
          BY <1>33 DEF DcdConnect
        <5>4. Candidate(d) # session[d] /\ Candidate(d) # NoSession
          BY <2>1
        <5>5. open[d] = ({session[d]} \ {NoSession}) \union {}
          BY <1>33 DEF DcdConnect
        <5> HIDE DEF Candidate
        <5> QED
          BY <4>1, <5>1, <5>2, <5>3, <5>4, <5>5
      <4>2. CASE e # d
        BY <1>33, <4>2 DEF DcdConnect
      <4> QED
        BY <4>1, <4>2
    <3> QED
      BY <3>1
  <2>3. PoolUse'
    BY <1>33 DEF DcdConnect
  <2>4. SessionExists'
    BY <1>33 DEF DcdConnect
  <2> QED
    BY <2>2, <2>3, <2>4
<1>34. ASSUME NEW d \in Databases, DcdConnectFails(d) PROVE PoolInv'
  BY <1>34 DEF DcdConnectFails
<1>35. ASSUME NEW d \in Databases, DcdWarmup(d) PROVE PoolInv'
  BY <1>35 DEF DcdWarmup
<1>36. ASSUME NEW d \in Databases, DcdWarmupFails(d) PROVE PoolInv'
  <2>1. session[d] \in {0, 1, 2} /\ open[d] \in SUBSET {1, 2}
    BY DEF Pools
  <2>2. OpenPools'
    <3>1. ASSUME NEW e \in Databases
          PROVE  (open[e] = ({session[e]} \ {NoSession})
                    \union (IF pc["dcd"][e] \in {"warm", "swap"} THEN {Candidate(e)} ELSE {}))'
      <4>1. CASE e = d
        <5>1. session'[d] = session[d] /\ Candidate(d)' = Candidate(d)
          BY <1>36 DEF DcdWarmupFails
        <5>2. pc'["dcd"][d] = "failed"
          BY <1>36 DEF DcdWarmupFails, Actors
        <5>3. open'[d] = open[d] \ {Candidate(d)}
          BY <1>36 DEF DcdWarmupFails
        <5>4. Candidate(d) # session[d] /\ Candidate(d) # NoSession
          BY <2>1
        <5>5. open[d] = ({session[d]} \ {NoSession}) \union {Candidate(d)}
          BY <1>36 DEF DcdWarmupFails
        <5> HIDE DEF Candidate
        <5> QED
          BY <4>1, <5>1, <5>2, <5>3, <5>4, <5>5
      <4>2. CASE e # d
        BY <1>36, <4>2 DEF DcdWarmupFails
      <4> QED
        BY <4>1, <4>2
    <3> QED
      BY <3>1
  <2>3. PoolUse'
    BY <1>36 DEF DcdWarmupFails
  <2>4. SessionExists'
    BY <1>36 DEF DcdWarmupFails
  <2> QED
    BY <2>2, <2>3, <2>4
<1>37. ASSUME NEW d \in Databases, DcdFailed(d) PROVE PoolInv'
  BY <1>37 DEF DcdFailed
<1>38. ASSUME NEW d \in Databases, DcdSwap(d) PROVE PoolInv'
  BY <1>38 DEF DcdSwap
<1>39. ASSUME NEW d \in Databases, DcdActivity(d) PROVE PoolInv'
  BY <1>39 DEF DcdActivity
<1>40. ASSUME NEW d \in Databases, DcdFinishProbe(d) PROVE PoolInv'
  BY <1>40 DEF DcdFinishProbe
<1>41. ASSUME NEW d \in Databases, DcdReport(d) PROVE PoolInv'
  BY <1>41 DEF DcdReport
<1>42. ASSUME NEW d \in Databases, AlertSkipped(d) PROVE PoolInv'
  BY <1>42 DEF AlertSkipped
<1>43. ASSUME NEW d \in Databases, AlertAdmitted(d) PROVE PoolInv'
  BY <1>43 DEF AlertAdmitted
<1>44. ASSUME NEW d \in Databases, AlertQuery(d) PROVE PoolInv'
  BY <1>44 DEF AlertQuery
<1>45. ASSUME NEW d \in Databases, OracleChanges(d) PROVE PoolInv'
  BY <1>45 DEF OracleChanges
<1>46. ASSUME ScrapeStart PROVE PoolInv'
  <2>1. \A d \in Databases :
            /\ pc["scrape"][d] = "rest"
            /\ using["scrape"][d] = NoSession
    BY <1>46 DEF ScrapeStart, Positions
  <2>2. \A d \in Databases : pc'["scrape"][d] = "check"
    BY <1>46 DEF ScrapeStart, Actors
  <2>3. \A a \in Actors \ {"scrape"} : pc'[a] = pc[a]
    BY <1>46 DEF ScrapeStart, Actors
  <2> QED
    BY <1>46, <2>1, <2>2, <2>3 DEF ScrapeStart, Actors
<1>47. ASSUME ReportingPassEnd("scrape") PROVE PoolInv'
  BY <1>47 DEF ReportingPassEnd
<1>48. ASSUME ReportingPassEnd("dcd") PROVE PoolInv'
  BY <1>48 DEF ReportingPassEnd
<1>49. ASSUME ActivityPassEnd PROVE PoolInv'
  BY <1>49 DEF ActivityPassEnd
<1>50. ASSUME AlertPassEnd PROVE PoolInv'
  BY <1>50 DEF AlertPassEnd
<1>51. ASSUME UNCHANGED vars PROVE PoolInv'
  BY <1>51 DEF vars
<1> HIDE DEF IInv, ControlInv, PoolInv, TypeOK, PoolUse, OpenPools,
    SessionExists, ProbeAfterWarmup, Candidate, ProbeSteps, EarlyWarmup
<1> QED
  BY <1>1, <1>2, <1>3, <1>4, <1>5, <1>6, <1>7, <1>8, <1>9, <1>10, <1>11, <1>12,
     <1>13, <1>14, <1>15, <1>16, <1>17, <1>18, <1>19, <1>20, <1>21, <1>22,
     <1>23, <1>24, <1>25, <1>26, <1>27, <1>28, <1>29, <1>30, <1>31, <1>32,
     <1>33, <1>34, <1>35, <1>36, <1>37, <1>38, <1>39, <1>40, <1>41, <1>42,
     <1>43, <1>44, <1>45, <1>46, <1>47, <1>48, <1>49, <1>50, <1>51
  DEF Next, Step, PassStep, Warmup, Scrape, Activity, Dcd, Alert

-----------------------------------------------------------------------------
\* The inductive invariant holds in every reachable state, for any number of
\* databases: the five goroutines of database.go may interleave as they like.
THEOREM ConnectionInvariant == Spec => []IInv
<1>1. IInv /\ [Next]_vars => IInv'
  BY TypeStep, ControlStep, PoolStep DEF IInv
<1> QED
  BY InitIInv, <1>1, PTL DEF Spec

\* Type correctness of the whole connection model.
THEOREM TypeCorrect == Spec => []TypeOK
<1>1. IInv => TypeOK
  BY DEF IInv
<1> QED
  BY ConnectionInvariant, <1>1, PTL

\* QueuedAt is set exactly while a database waits for detection or is probed
\* (quarantineLocked, beginProbe, finishProbe, activate).
THEOREM QueueConsistent == Spec => []QueuedWhileUnavailable
<1>1. IInv => QueuedWhileUnavailable
  BY DEF IInv, ControlInv
<1> QED
  BY ConnectionInvariant, <1>1, PTL

\* A database is PROBING only while the detection loop works on it, so at most
\* one is, and none is left behind in that state (beginProbe, finishProbe).
THEOREM ProbesOwned == Spec => []ProbeOwnedByDcd
<1>1. IInv => ProbeOwnedByDcd
  BY DEF IInv, ControlInv
<1> QED
  BY ConnectionInvariant, <1>1, PTL

\* What the goroutines leave behind agrees with the work in hand
\* (quarantineLocked, beginProbe, finishProbe, activate).
THEOREM OutagesAlwaysTracked == Spec => []OutagesTracked
<1>1. QueuedWhileUnavailable /\ ProbeOwnedByDcd => OutagesTracked
  BY DEF OutagesTracked
<1> QED
  BY QueueConsistent, ProbesOwned, <1>1, PTL

\* Nothing interferes with a startup warmup before it has recorded its outcome
\* (WarmupConnectionPool works without holding reconnectMU).
THEOREM WarmupAlone == Spec => []WarmupUndisturbed
<1>1. IInv => WarmupUndisturbed
  BY DEF IInv, ControlInv
<1> QED
  BY ConnectionInvariant, <1>1, PTL

\* reconnect never closes a pool that a query, a ping or a warmup is using.
THEOREM PoolsInUseStayOpen == Spec => []NoUseOfClosedPool
<1>1. ASSUME IInv PROVE NoUseOfClosedPool
  <2>1. ASSUME NEW a \in Actors, NEW d \in Databases, using[a][d] # NoSession
        PROVE  using[a][d] \in open[d]
    <3>1. /\ session[d] # NoSession => session[d] \in open[d]
          /\ pc["dcd"][d] = "warm" => Candidate(d) \in open[d]
      BY <1>1 DEF IInv, PoolInv, OpenPools
    <3>2. \/ using[a][d] = session[d]
          \/ using[a][d] = Candidate(d) /\ pc["dcd"][d] = "warm"
      BY <1>1, <2>1 DEF IInv, PoolInv, PoolUse, Actors
    <3> QED
      BY <2>1, <3>1, <3>2
  <2> QED
    BY <2>1 DEF NoUseOfClosedPool
<1> QED
  BY ConnectionInvariant, <1>1, PTL

\* Outside a probe the session is the only open pool: neither a failed
\* candidate nor a replaced pool is left open by reconnect.
THEOREM PoolsNotLeaked == Spec => []NoPoolLeak
<1>1. ASSUME IInv PROVE NoPoolLeak
  BY <1>1 DEF IInv, PoolInv, OpenPools, NoPoolLeak
<1> QED
  BY ConnectionInvariant, <1>1, PTL

\* A database that IsActive admits collectors to has an open pool.
THEOREM ActivePoolOpen == Spec => []ActiveHasOpenPool
<1>1. ASSUME IInv PROVE ActiveHasOpenPool
  BY <1>1 DEF IInv, PoolInv, OpenPools, SessionExists, ActiveHasOpenPool
<1> QED
  BY ConnectionInvariant, <1>1, PTL

\* Pools are neither used after they were closed nor forgotten (reconnect,
\* WarmupConnectionPool and the queries).
THEOREM PoolsAlwaysSafe == Spec => []PoolsSafe
<1>1. ActiveHasOpenPool /\ NoUseOfClosedPool /\ NoPoolLeak => PoolsSafe
  BY DEF PoolsSafe
<1> QED
  BY ActivePoolOpen, PoolsInUseStayOpen, PoolsNotLeaked, <1>1, PTL

\* No failure that arrives during an outage restarts its QueuedAt.
THEOREM OutageStartKept == Spec => QueuedAtKept
<1> DEFINE Kept ==
      \A d \in Databases :
          (/\ connState[d] \in {"QUARANTINED", "PROBING"}
           /\ connState'[d] \in {"QUARANTINED", "PROBING"})
             => queuedAt'[d] = queuedAt[d]
<1>1. ASSUME UNCHANGED <<connState, queuedAt>> PROVE Kept
  BY <1>1
<1>2. ASSUME IInv, NEW d \in Databases, QuarantineLocked(d) PROVE Kept
  BY <1>2 DEF IInv, TypeOK, ControlInv, QueuedWhileUnavailable
<1>3. ASSUME IInv, NEW d \in Databases, Activate(d) PROVE Kept
  BY <1>3 DEF IInv, TypeOK
<1> HIDE DEF Kept, QuarantineLocked, Activate
<1>4. ASSUME IInv, [Next]_vars PROVE Kept
  <2>1. ASSUME NEW d \in Databases, Step(d) PROVE Kept
    <3>1. ASSUME NEW a \in Actors, Announce(a, d) PROVE Kept
      BY <1>1, <3>1 DEF Announce
    <3>2. CASE Warmup(d)
      BY <1>1, <1>2, <1>3, <1>4, <3>2
      DEF Warmup, WarmupReadSession, WarmupSession, WarmupActivate,
          WarmupActivity, WarmupReady, Quarantine
    <3>3. CASE Scrape(d)
      BY <1>1, <1>2, <1>4, <3>3
      DEF Scrape, ScrapeSkipped, ScrapeAdmitted, Acquire, ScrapePing,
          ScrapeSetUp, ScrapeResumeActivity, ScrapeNextQuery, ScrapeQuery,
          ScrapeQueryLeaksLock, ScrapeEndPhase, ScrapeNextPhase, ScrapeEnds,
          ScrapeReport, ScrapeSuspendActivity, Quarantine
    <3>4. CASE Activity(d)
      BY <1>1, <1>2, <1>4, <3>4
      DEF Activity, ActivitySkipped, ActivityAdmitted, ActivityAvailable,
          Acquire, ActivityQuery, ActivitySuspend, Quarantine
    <3>5. CASE Dcd(d)
      <4>1. ASSUME DcdBeginProbe(d) PROVE Kept
        BY <1>4, <4>1 DEF DcdBeginProbe, Kept, IInv, TypeOK
      <4> QED
        BY <1>1, <1>2, <1>3, <1>4, <3>5, <4>1
        DEF Dcd, DcdSkips, DcdConnect, DcdConnectFails, DcdWarmup,
            DcdWarmupFails, DcdFailed, DcdSwap, DcdActivity, DcdFinishProbe,
            DcdReport
    <3>6. CASE Alert(d)
      BY <1>1, <3>6 DEF Alert, AlertSkipped, AlertAdmitted, Acquire, AlertQuery
    <3> QED
      BY <2>1, <3>1, <3>2, <3>3, <3>4, <3>5, <3>6 DEF Step
  <2>2. ASSUME NEW d \in Databases, OracleChanges(d) PROVE Kept
    BY <1>1, <2>2 DEF OracleChanges
  <2>3. CASE PassStep
    BY <1>1, <2>3
    DEF PassStep, ScrapeStart, ReportingPassEnd, ActivityPassEnd, AlertPassEnd
  <2>4. CASE UNCHANGED vars
    BY <1>1, <2>4 DEF vars
  <2> QED
    BY <1>4, <2>1, <2>2, <2>3, <2>4 DEF Next
<1>5. IInv /\ [Next]_vars => [Kept]_vars
  BY <1>4
<1> QED
  BY ConnectionInvariant, <1>5, PTL DEF Spec, QueuedAtKept, Kept
=============================================================================
