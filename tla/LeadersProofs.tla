---------------------------- MODULE LeadersProofs ----------------------------
(***************************************************************************)
(* Theorems about the processes that follow each other as leader.  About   *)
(* LeaderElection, for every set of instances: the lock and the sessions   *)
(* agree, only an elected instance has a sink, and the processes implement *)
(* the abstract Leadership.  About StateReports, for any configurations,   *)
(* reporters and clocks: the table of connection states stays fresh.       *)
(***************************************************************************)
EXTENDS LeaderElection, StateReports, FiniteSetTheorems, TLAPS

-----------------------------------------------------------------------------
(* The election.                                                           *)

\* Where run() is tells what it has: the lock session from Acquire on, the
\* sink after it, collectors only while active, writes only into a sink.
Elected ==
    \A i \in Instances :
        /\ pc[i] \in {"starting", "opened", "active", "closing"} => conn[i] # "none"
        /\ pc[i] \in {"down", "waiting"} => conn[i] = "none"
SinkAfterElection ==
    \A i \in Instances :
        /\ sink[i] => pc[i] \in {"opened", "active", "exiting", "closing"}
        /\ sink[i] => conn[i] # "none"
        /\ inflight[i] => sink[i]
WorkWhileActive ==
    \A i \in Instances :
        /\ ready[i] => pc[i] = "active"
        /\ working[i] => pc[i] = "active"

\* The inductive invariant.
IInv ==
    /\ TypeOK
    /\ SessionOwnsLock
    /\ Elected
    /\ SinkAfterElection
    /\ WorkWhileActive

\* The initial states satisfy the inductive invariant.
LEMMA InitIInv == ASSUME Init PROVE IInv
BY InstancesAssumption
   DEF Init, IInv, TypeOK, Locations, Causes, SessionOwnsLock, Elected,
       SinkAfterElection, WorkWhileActive

\* Every action preserves the inductive invariant.
LEMMA StepIInv == ASSUME IInv, [Next]_vars PROVE IInv'
<1> USE InstancesAssumption
<1> USE DEF IInv, TypeOK, Locations, Causes, SessionOwnsLock, Elected,
            SinkAfterElection, WorkWhileActive, FreedBy, OrphanedBy
<1>1. ASSUME NEW i \in Instances, Start(i) PROVE IInv'
      BY <1>1 DEF Start
<1>2. ASSUME NEW i \in Instances, Acquire(i) PROVE IInv'
      BY <1>2 DEF Acquire
<1>3. ASSUME NEW i \in Instances, AcquireWhileLeaving(i) PROVE IInv'
      BY <1>3 DEF AcquireWhileLeaving
<1>4. ASSUME NEW i \in Instances, AcquireAnswerLost(i) PROVE IInv'
      BY <1>4 DEF AcquireAnswerLost
<1>5. ASSUME NEW i \in Instances, StopWaiting(i) PROVE IInv'
      BY <1>5 DEF StopWaiting
<1>6. ASSUME NEW i \in Instances, OpenSink(i) PROVE IInv'
      BY <1>6 DEF OpenSink
<1>7. ASSUME NEW i \in Instances, OpenSinkFails(i) PROVE IInv'
      BY <1>7 DEF OpenSinkFails
<1>8. ASSUME NEW i \in Instances, LeadershipLostDuringStartup(i) PROVE IInv'
      BY <1>8 DEF LeadershipLostDuringStartup
<1>9. ASSUME NEW i \in Instances, BecomeActive(i) PROVE IInv'
      BY <1>9 DEF BecomeActive
<1>10. ASSUME NEW i \in Instances, MonitorFails(i) PROVE IInv'
      BY <1>10 DEF MonitorFails
<1>11. ASSUME NEW i \in Instances, LeaveActive(i) PROVE IInv'
      BY <1>11 DEF LeaveActive
<1>12. ASSUME NEW i \in Instances, FlushSink(i) PROVE IInv'
      BY <1>12 DEF FlushSink
<1>13. ASSUME NEW i \in Instances, CloseSink(i) PROVE IInv'
      BY <1>13 DEF CloseSink
<1>14. ASSUME NEW i \in Instances, Release(i) PROVE IInv'
      BY <1>14 DEF Release
<1>15. ASSUME NEW i \in Instances, BeginWrite(i) PROVE IInv'
      BY <1>15 DEF BeginWrite
<1>16. ASSUME NEW i \in Instances, EndWrite(i) PROVE IInv'
      BY <1>16 DEF EndWrite
<1>17. ASSUME NEW i \in Instances, StopRequested(i) PROVE IInv'
      BY <1>17 DEF StopRequested
<1>18. ASSUME NEW i \in Instances, ServerFails(i) PROVE IInv'
      BY <1>18 DEF ServerFails
<1>19. ASSUME NEW i \in Instances, Killed(i) PROVE IInv'
      BY <1>19 DEF Killed
<1>20. ASSUME NEW i \in Instances, SessionLost(i) PROVE IInv'
      BY <1>20 DEF SessionLost
<1>21. ASSUME OrphanReaped PROVE IInv'
      BY <1>21 DEF OrphanReaped
<1>22. ASSUME PrimaryChanges PROVE IInv'
      BY <1>22 DEF PrimaryChanges
<1>23. CASE UNCHANGED vars
      BY <1>23 DEF vars
<1> HIDE DEF IInv
<1>24. QED
      BY <1>1, <1>2, <1>3, <1>4, <1>5, <1>6, <1>7, <1>8, <1>9, <1>10, <1>11,
         <1>12, <1>13, <1>14, <1>15, <1>16, <1>17, <1>18, <1>19, <1>20, <1>21,
         <1>22, <1>23
         DEF Next, Program, Environment

\* The inductive invariant holds in every reachable state.
THEOREM ElectionInvariant == Spec => []IInv
<1>1. Init => IInv
      BY InitIInv
<1>2. IInv /\ [Next]_vars => IInv'
      BY StepIInv
<1>3. QED
      BY <1>1, <1>2, PTL DEF Spec

\* Type correctness of run() and of the election for any set of instances.
THEOREM ElectionTypeCorrect == Spec => []TypeOK
<1>1. IInv => TypeOK
      BY DEF IInv
<1>2. QED
      BY <1>1, ElectionInvariant, PTL

\* Elector.conn and PostgreSQL's lock table agree for any set of instances.
THEOREM LockMatchesSession == Spec => []SessionOwnsLock
<1>1. IInv => SessionOwnsLock
      BY DEF IInv
<1>2. QED
      BY <1>1, ElectionInvariant, PTL

\* Standbys write nothing, and an orderly stop closes the sink before the lock.
THEOREM OnlyElectedWrite == Spec => []WritesOnlyAfterElection
<1>1. IInv => WritesOnlyAfterElection
      BY DEF IInv, Elected, SinkAfterElection, WorkWhileActive, WritesOnlyAfterElection
<1>2. QED
      BY <1>1, ElectionInvariant, PTL

-----------------------------------------------------------------------------
\* A step that changes no session changes no role.
LEMMA RoleKept == ASSUME UNCHANGED conn PROVE UNCHANGED Role
BY DEF Role

\* A step that changes the session of one instance changes only its role.
LEMMA RoleChanged ==
    ASSUME NEW i \in Instances, NEW c \in {"none", "live", "dead"},
           conn \in [Instances -> {"none", "live", "dead"}],
           conn' = [conn EXCEPT ![i] = c]
    PROVE  Role' = [Role EXCEPT ![i] = CASE c = "live" -> "leader"
                                         [] c = "dead" -> "deposed"
                                         [] OTHER -> "idle"]
BY DEF Role

\* Every step of the processes is a step of Leadership or leaves the roles alone.
LEMMA StepRefines == ASSUME IInv, [Next]_vars PROVE [Abstract!Next]_Role
<1> USE DEF IInv, TypeOK
<1>1. ASSUME NEW i \in Instances, Acquire(i) \/ AcquireWhileLeaving(i)
      PROVE  Abstract!Elect(i)
      <2>1. conn[i] = "none" /\ conn' = [conn EXCEPT ![i] = "live"] /\ lockOwner = NoInstance
            BY <1>1 DEF Acquire, AcquireWhileLeaving, Elected
      <2>2. Role' = [Role EXCEPT ![i] = "leader"]
            BY <2>1, RoleChanged
      <2>3. Role[i] = "idle"
            BY <2>1 DEF Role
      <2>4. ASSUME NEW j \in Instances PROVE Role[j] # "leader"
            BY <2>1, InstancesAssumption DEF Role, SessionOwnsLock
      <2>5. QED
            BY <2>2, <2>3, <2>4 DEF Abstract!Elect
<1>2. ASSUME NEW i \in Instances, SessionLost(i) PROVE Abstract!Depose(i)
      <2>1. conn[i] = "live" /\ conn' = [conn EXCEPT ![i] = "dead"]
            BY <1>2 DEF SessionLost
      <2>2. Role' = [Role EXCEPT ![i] = "deposed"]
            BY <2>1, RoleChanged
      <2>3. Role[i] = "leader"
            BY <2>1 DEF Role
      <2>4. QED
            BY <2>2, <2>3 DEF Abstract!Depose
<1>3. ASSUME NEW i \in Instances, Release(i) \/ Killed(i)
      PROVE  Abstract!Retire(i) \/ UNCHANGED Role
      <2>1. conn' = [conn EXCEPT ![i] = "none"]
            BY <1>3 DEF Release, Killed
      <2>2. CASE conn[i] = "none"
            <3>1. conn' = conn
                  BY <2>1, <2>2
            <3>2. QED
                  BY <3>1, RoleKept
      <2>3. CASE conn[i] # "none"
            <3>1. Role' = [Role EXCEPT ![i] = "idle"]
                  BY <2>1, RoleChanged
            <3>2. Role[i] \in {"leader", "deposed"}
                  BY <2>3 DEF Role
            <3>3. QED
                  BY <3>1, <3>2 DEF Abstract!Retire
      <2>4. QED
            BY <2>2, <2>3
<1>4. ASSUME NEW i \in Instances,
             \/ Start(i) \/ AcquireAnswerLost(i) \/ StopWaiting(i)
             \/ OpenSink(i) \/ OpenSinkFails(i) \/ LeadershipLostDuringStartup(i)
             \/ BecomeActive(i) \/ MonitorFails(i) \/ LeaveActive(i)
             \/ FlushSink(i) \/ CloseSink(i) \/ BeginWrite(i) \/ EndWrite(i)
             \/ StopRequested(i) \/ ServerFails(i)
      PROVE  UNCHANGED Role
      <2>1. UNCHANGED conn
            BY <1>4 DEF Start, AcquireAnswerLost, StopWaiting, OpenSink, OpenSinkFails,
               LeadershipLostDuringStartup, BecomeActive, MonitorFails, LeaveActive,
               FlushSink, CloseSink, BeginWrite, EndWrite, StopRequested, ServerFails
      <2>2. QED
            BY <2>1, RoleKept
<1>5. ASSUME OrphanReaped \/ PrimaryChanges \/ UNCHANGED vars
      PROVE  UNCHANGED Role
      <2>1. UNCHANGED conn
            BY <1>5 DEF OrphanReaped, PrimaryChanges, vars
      <2>2. QED
            BY <2>1, RoleKept
<1>6. QED
      BY <1>1, <1>2, <1>3, <1>4, <1>5 DEF Next, Program, Environment, Abstract!Next

\* The processes implement the election's promise, for any set of instances:
\* one leader at a time, and a deposed instance can only stop.
THEOREM RefinesLeadership == Spec => ImplementsLeadership
<1>1. Init => Abstract!Init
      BY DEF Init, Abstract!Init, Role
<1>2. IInv /\ [Next]_vars => [Abstract!Next]_Role
      BY StepRefines
<1>3. QED
      BY <1>1, <1>2, ElectionInvariant, PTL DEF Spec, Abstract!Spec, ImplementsLeadership

-----------------------------------------------------------------------------
(* The table of connection states.                                         *)

Stamps == Nat \ {0}
Stamped == [step : {"stamped"}, stamp : Stamps, seen : Nat]
Read == [step : {"read"}, stamp : Stamps, seen : Nat, states : Nat]
StateRows == [stamp : Stamps, process : Processes, state : Nat]

\* The invariants are about any reports r and rows t, so that they can be carried
\* over from the stamps of a step to their numbers.
TypesOf(r, t) ==
    /\ r \in [Goroutines -> {Idle} \union Stamped \union Read]
    /\ t \in [Databases -> {None} \union StateRows]

\* What a report has seen is not newer than the states, and what it has read is
\* not older than what it has seen.
SeenBefore(r, st) ==
    \A g \in Goroutines :
        /\ r[g] # Idle => r[g].seen <= st[g[1]]
        /\ r[g] \in Read => r[g].seen <= r[g].states

\* The reports of a process are stamped in the order of what they have seen.
StampedInOrder(r) ==
    \A g, h \in Goroutines :
        (g[1] = h[1] /\ r[g] # Idle /\ r[h] # Idle /\ r[g].seen < r[h].seen)
            => r[g].stamp < r[h].stamp

\* A report that is older than one that has been committed does not replace its row.
LateReportLoses(r, t, fl) ==
    \A g \in Goroutines : \A d \in Watched[g[1]] :
        (r[g] # Idle /\ r[g].seen < fl[g[1]][d]) => r[g].stamp < t[d].stamp

\* A report that loses against a row of its own process does not know better.
LoserSawLess(r, t) ==
    \A g \in Goroutines : \A d \in Databases :
        (r[g] # Idle /\ t[d] # None /\ t[d].process = g[1] /\ r[g].stamp < t[d].stamp)
            => r[g].seen <= t[d].state

RowsFresh(t, fl) ==
    \A p \in Processes : \A d \in Watched[p] :
        t[d] # None /\ t[d].process = p => fl[p][d] <= t[d].state

Floors(st, fl) ==
    /\ st \in [Processes -> Nat]
    /\ fl \in [Processes -> [Databases -> Nat]]
    /\ \A p \in Processes : \A d \in Databases : fl[p][d] <= st[p]

OrderOf(r, t, st, fl) ==
    /\ SeenBefore(r, st)
    /\ StampedInOrder(r)
    /\ LateReportLoses(r, t, fl)
    /\ LoserSawLess(r, t)
    /\ RowsFresh(t, fl)

\* The stamps are numbered from 1 on.
Numbered(r, t) == \A s \in Used(r, t) : s <= Cardinality(Used(r, t))

\* The inductive invariant.
ReportsInv ==
    /\ TypesOf(report, table)
    /\ Floors(state, floor)
    /\ OrderOf(report, table, state, floor)
    /\ Numbered(report, table)

\* The place of a stamp among those in U.
Rank(U, s) == Cardinality({u \in U : u <= s})

\* The image of a finite set under a function is finite.
LEMMA ImageFinite ==
    ASSUME NEW S, IsFiniteSet(S), NEW f
    PROVE  IsFiniteSet({f[x] : x \in S})
<1> DEFINE T == {f[x] : x \in S}
           h == [x \in S |-> f[x]]
<1>1. h \in Surjection(S, T)
  BY DEF Surjection
<1> QED
  BY <1>1, FS_Surjection

\* There are finitely many goroutines and databases.
LEMMA ReportersFinite == IsFiniteSet(Goroutines) /\ IsFiniteSet(Databases)
<1>1. /\ IsFiniteSet(Watched[1]) /\ IsFiniteSet(Watched[2])
      /\ IsFiniteSet(Reporters[1]) /\ IsFiniteSet(Reporters[2])
  BY ReportsAssumption DEF Processes
<1>2. Databases = Watched[1] \union Watched[2]
  BY DEF Databases, Processes
<1>3. Goroutines = ({1} \X Reporters[1]) \union ({2} \X Reporters[2])
  BY DEF Goroutines, Processes
<1>4. IsFiniteSet({1} \X Reporters[1]) /\ IsFiniteSet({2} \X Reporters[2])
  BY <1>1, FS_Singleton, FS_Product
<1> QED
  BY <1>1, <1>2, <1>3, <1>4, FS_Union

\* Goroutines belong to a process.
LEMMA GoroutineOf == \A g \in Goroutines : g[1] \in Processes /\ Watched[g[1]] \subseteq Databases
BY DEF Goroutines, Databases, Processes

\* The stamps in use are finitely many.
LEMMA UsedFinite ==
    ASSUME NEW r, NEW t, TypesOf(r, t)
    PROVE  Used(r, t) \subseteq Stamps /\ IsFiniteSet(Used(r, t))
<1> DEFINE f == [g \in Goroutines |-> r[g].stamp]
           h == [d \in Databases |-> t[d].stamp]
<1>1. IsFiniteSet({f[g] : g \in Goroutines}) /\ IsFiniteSet({h[d] : d \in Databases})
  <2> HIDE DEF f, h
  <2> QED
    BY ReportersFinite, ImageFinite
<1>2. Used(r, t) \subseteq {f[g] : g \in Goroutines} \union {h[d] : d \in Databases}
  BY DEF Used
<1>3. IsFiniteSet(Used(r, t))
  <2> DEFINE F == {f[g] : g \in Goroutines}
             H == {h[d] : d \in Databases}
  <2> HIDE DEF F, H
  <2>1. IsFiniteSet(F \union H)
    BY <1>1, FS_Union DEF F, H
  <2>2. Used(r, t) \in SUBSET (F \union H)
    BY <1>2 DEF F, H
  <2> QED
    BY <2>1, <2>2, FS_Subset
<1>4. \A g \in Goroutines : r[g].stamp \in Nat
  BY DEF TypesOf, Idle, Stamped, Read, Stamps
<1>5. \A d \in Databases : t[d].stamp \in Nat
  BY DEF TypesOf, None, StateRows, Stamps
<1> QED
  BY <1>3, <1>4, <1>5 DEF Used, Stamps

\* Places are ordered like the stamps, and only 0 has none.
LEMMA RankOrder ==
    ASSUME NEW U, U \subseteq Stamps, IsFiniteSet(U)
    PROVE  /\ Rank(U, 0) = 0
           /\ \A s \in U : Rank(U, s) \in Stamps
           /\ \A s, u \in U \union {0} : s < u <=> Rank(U, s) < Rank(U, u)
<1> DEFINE below(s) == {u \in U : u <= s}
<1>0. \A u \in U : u \in Nat /\ u > 0
  BY DEF Stamps
<1>1. ASSUME NEW s \in U \union {0} PROVE IsFiniteSet(below(s)) /\ Cardinality(below(s)) \in Nat
  <2>1. below(s) \in SUBSET U
    OBVIOUS
  <2> QED
    BY <2>1, FS_Subset, FS_CardinalityType
<1>2. Rank(U, 0) = 0
  <2>1. \A u \in U : ~(u <= 0)
    BY <1>0
  <2>2. below(0) = {}
    BY <2>1, Zenon
  <2> QED
    BY <2>2, FS_EmptySet DEF Rank
<1>3. ASSUME NEW s \in U PROVE Rank(U, s) \in Stamps
  <2>1. s \in below(s)
    BY DEF Stamps
  <2>2. Cardinality(below(s)) # 0
    BY <1>1, <2>1, FS_EmptySet
  <2> QED
    BY <1>1, <2>2 DEF Rank, Stamps
<1>4. ASSUME NEW s \in U \union {0}, NEW u \in U \union {0}, s < u
      PROVE  Rank(U, s) < Rank(U, u)
  <2>1. s \in Nat /\ u \in Nat /\ u \in U
    BY <1>4 DEF Stamps
  <2>2. below(s) \subseteq below(u) /\ u \in below(u) /\ u \notin below(s)
    <3>1. u <= u /\ ~(u <= s)
      BY <1>4, <2>1
    <3>2. \A v \in U : v <= s => v <= u
      BY <1>0, <1>4, <2>1
    <3> QED
      BY <2>1, <3>1, <3>2, Zenon
  <2>3. /\ Cardinality(below(s)) <= Cardinality(below(u))
        /\ Cardinality(below(u)) # Cardinality(below(s))
    <3> HIDE DEF below
    <3>1. below(s) # below(u)
      BY <2>2
    <3> QED
      BY <1>1, <2>2, <3>1, FS_Subset
  <2> QED
    BY <1>1, <2>3 DEF Rank
<1>5. ASSUME NEW s \in U \union {0}, NEW u \in U \union {0}, Rank(U, s) < Rank(U, u)
      PROVE  s < u
  <2>1. s \in Nat /\ u \in Nat /\ Rank(U, s) \in Nat /\ Rank(U, u) \in Nat
    BY <1>1 DEF Stamps, Rank
  <2>2. CASE s = u
    BY <1>5, <2>1, <2>2
  <2>3. CASE u < s
    BY <1>4, <1>5, <2>1, <2>3
  <2> QED
    BY <2>1, <2>2, <2>3
<1> QED
  BY <1>2, <1>3, <1>4, <1>5

\* Numbering changes the stamps, and their order not.
LEMMA RenumberedInv ==
    ASSUME NEW r, NEW t, TypesOf(r, t), NEW st, NEW fl, OrderOf(r, t, st, fl), Renumbered(r, t)
    PROVE  /\ TypesOf(report', table') /\ Numbered(report', table')
           /\ OrderOf(report', table', st, fl)
<1> DEFINE U == Used(r, t)
<1>1. /\ U \subseteq Stamps
      /\ Rank(U, 0) = 0
      /\ \A s \in U : Rank(U, s) \in Stamps
      /\ \A s, u \in U \union {0} : s < u <=> Rank(U, s) < Rank(U, u)
  BY UsedFinite, RankOrder
<1>2. /\ report' = [g \in Goroutines |-> [r[g] EXCEPT !.stamp = Rank(U, r[g].stamp)]]
      /\ table' = [d \in Databases |-> [t[d] EXCEPT !.stamp = Rank(U, t[d].stamp)]]
  BY DEF Renumbered, Rank
<1>3. /\ \A g \in Goroutines : r[g].stamp \in U \union {0}
      /\ \A d \in Databases : t[d].stamp \in U \union {0}
  BY DEF Used
<1> HIDE DEF U
<1>4. ASSUME NEW g \in Goroutines
      PROVE  /\ r[g] = Idle => report'[g] = Idle
             /\ r[g] # Idle => /\ report'[g] # Idle
                               /\ report'[g].seen = r[g].seen
                               /\ report'[g].stamp = Rank(U, r[g].stamp)
             /\ r[g] \in Stamped => report'[g] \in Stamped
             /\ r[g] \in Read => report'[g] \in Read /\ report'[g].states = r[g].states
             /\ report'[g] \in Read => r[g] \in Read
  <2>1. report'[g] = [r[g] EXCEPT !.stamp = Rank(U, r[g].stamp)]
    BY <1>2
  <2>2. CASE r[g] = Idle
    <3>1. r[g].stamp = 0
      BY <2>2 DEF Idle
    <3>2. report'[g] = Idle
      BY <1>1, <2>1, <2>2, <3>1 DEF Idle
    <3> QED
      BY <2>2, <3>2 DEF Idle, Stamped, Read
  <2>3. CASE r[g] \in Stamped
    <3>1. r[g].stamp \in U
      BY <1>3, <2>3 DEF Stamped, Stamps
    <3>2. Rank(U, r[g].stamp) \in Stamps
      BY <1>1, <3>1
    <3> QED
      BY <2>1, <2>3, <3>2 DEF Idle, Stamped, Read
  <2>4. CASE r[g] \in Read
    <3>1. r[g].stamp \in U
      BY <1>3, <2>4 DEF Read, Stamps
    <3>2. Rank(U, r[g].stamp) \in Stamps
      BY <1>1, <3>1
    <3> QED
      BY <2>1, <2>4, <3>2 DEF Idle, Stamped, Read
  <2> QED
    BY <2>2, <2>3, <2>4 DEF TypesOf
<1>5. ASSUME NEW d \in Databases
      PROVE  /\ t[d] = None => table'[d] = None
             /\ t[d] # None => /\ table'[d] # None /\ table'[d] \in StateRows
                               /\ table'[d].process = t[d].process
                               /\ table'[d].state = t[d].state
             /\ table'[d].stamp = Rank(U, t[d].stamp)
  <2>1. table'[d] = [t[d] EXCEPT !.stamp = Rank(U, t[d].stamp)]
    BY <1>2
  <2>2. CASE t[d] = None
    BY <1>1, <2>1, <2>2 DEF None
  <2>3. CASE t[d] \in StateRows
    <3>1. t[d].stamp \in U
      BY <1>3, <2>3 DEF StateRows, Stamps
    <3>2. Rank(U, t[d].stamp) \in Stamps
      BY <1>1, <3>1
    <3> QED
      BY <2>1, <2>3, <3>2 DEF None, StateRows
  <2> QED
    BY <2>2, <2>3 DEF TypesOf
<1>6. TypesOf(report', table')
  <2>1. report' = [g \in Goroutines |-> report'[g]] /\ table' = [d \in Databases |-> table'[d]]
    BY <1>2
  <2>2. \A g \in Goroutines : report'[g] \in {Idle} \union Stamped \union Read
    BY <1>4 DEF TypesOf
  <2>3. \A d \in Databases : table'[d] \in {None} \union StateRows
    BY <1>5
  <2> QED
    BY <2>1, <2>2, <2>3 DEF TypesOf
<1>7. \A g \in Goroutines : \A d \in Databases :
        r[g] # Idle => (r[g].stamp < t[d].stamp <=> report'[g].stamp < table'[d].stamp)
  BY <1>1, <1>3, <1>4, <1>5
<1>8. \A g, h \in Goroutines :
        r[g] # Idle /\ r[h] # Idle
            => (r[g].stamp < r[h].stamp <=> report'[g].stamp < report'[h].stamp)
  BY <1>1, <1>3, <1>4
<1>9. SeenBefore(report', st)
  BY <1>4 DEF OrderOf, SeenBefore
<1>10. StampedInOrder(report')
  BY <1>4, <1>8 DEF OrderOf, StampedInOrder
<1>11. LateReportLoses(report', table', fl)
  BY <1>4, <1>7, GoroutineOf DEF OrderOf, LateReportLoses
<1>12. LoserSawLess(report', table')
  BY <1>4, <1>5, <1>7 DEF OrderOf, LoserSawLess
<1>13. RowsFresh(table', fl)
  BY <1>5 DEF OrderOf, RowsFresh, Databases
<1>14. Numbered(report', table')
  <2> DEFINE V == Used(report', table')
             f == [s \in U |-> Rank(U, s)]
  <2>1. V \subseteq {Rank(U, s) : s \in U}
    BY <1>1, <1>3, <1>4, <1>5 DEF Used, TypesOf, Idle
  <2>2. \A s \in U : Rank(U, s) \in V
    <3>1. ASSUME NEW g \in Goroutines, r[g].stamp \in U PROVE Rank(U, r[g].stamp) \in V
      <4>1. r[g].stamp # 0 /\ Rank(U, r[g].stamp) # 0
        BY <1>1, <3>1 DEF Stamps
      <4>2. r[g] # Idle
        BY <4>1 DEF Idle
      <4> QED
        BY <1>4, <4>1, <4>2 DEF Used
    <3>2. ASSUME NEW d \in Databases, t[d].stamp \in U PROVE Rank(U, t[d].stamp) \in V
      BY <1>1, <1>5, <3>2 DEF Used, Stamps
    <3> QED
      BY <3>1, <3>2 DEF U, Used
  <2>3. IsFiniteSet(U) /\ IsFiniteSet(V)
    BY <1>6, UsedFinite DEF U
  <2> HIDE DEF V
  <2>4. \A s \in U : Rank(U, s) \in Nat /\ Rank(U, s) <= Cardinality(U)
    <3>1. ASSUME NEW s \in U PROVE Rank(U, s) <= Cardinality(U)
      <4>1. {u \in U : u <= s} \in SUBSET U
        OBVIOUS
      <4> QED
        BY <2>3, <4>1, FS_Subset DEF Rank
    <3> QED
      BY <1>1, <3>1 DEF Stamps
  <2>5. f \in Injection(U, V)
    <3>1. \A s, u \in U : Rank(U, s) = Rank(U, u) => s = u
      <4>1. ASSUME NEW s \in U, NEW u \in U, Rank(U, s) = Rank(U, u) PROVE s = u
        <5>1. ~(s < u) /\ ~(u < s) /\ s \in Nat /\ u \in Nat
          BY <1>1, <2>4, <4>1 DEF Stamps
        <5> QED
          BY <5>1
      <4> QED
        BY <4>1
    <3> QED
      BY <2>2, <3>1 DEF Injection, IsInjective
  <2>6. Cardinality(U) <= Cardinality(V) /\ Cardinality(U) \in Nat /\ Cardinality(V) \in Nat
    <3> HIDE DEF f
    <3> QED
      BY <2>3, <2>5, FS_Injection, FS_CardinalityType
  <2> QED
    BY <2>1, <2>4, <2>6 DEF Numbered, V
<1> QED
  BY <1>6, <1>9, <1>10, <1>11, <1>12, <1>13, <1>14 DEF OrderOf

\* Doubling makes room between the stamps and keeps their order.
LEMMA DoubledInv ==
    ASSUME NEW r, NEW t, TypesOf(r, t), NEW st, NEW fl, OrderOf(r, t, st, fl)
    PROVE  LET r2 == [h \in Goroutines |-> [r[h] EXCEPT !.stamp = 2 * @]]
               t2 == [d \in Databases |-> [t[d] EXCEPT !.stamp = 2 * @]]
           IN  TypesOf(r2, t2) /\ OrderOf(r2, t2, st, fl)
<1> DEFINE r2 == [h \in Goroutines |-> [r[h] EXCEPT !.stamp = 2 * @]]
           t2 == [d \in Databases |-> [t[d] EXCEPT !.stamp = 2 * @]]
<1>1. ASSUME NEW g \in Goroutines
      PROVE  /\ r[g] = Idle => r2[g] = Idle
             /\ r[g] # Idle => r2[g] # Idle /\ r2[g].seen = r[g].seen
             /\ r2[g].stamp = 2 * r[g].stamp /\ r[g].stamp \in Nat
             /\ r[g] \in Stamped => r2[g] \in Stamped
             /\ r[g] \in Read => r2[g] \in Read /\ r2[g].states = r[g].states
             /\ r2[g] \in Read => r[g] \in Read
  <2>1. CASE r[g] = Idle
    BY <2>1 DEF Idle, Stamped, Read
  <2>2. CASE r[g] \in Stamped
    BY <2>2 DEF Idle, Stamped, Read, Stamps
  <2>3. CASE r[g] \in Read
    BY <2>3 DEF Idle, Stamped, Read, Stamps
  <2> QED
    BY <2>1, <2>2, <2>3 DEF TypesOf
<1>2. ASSUME NEW d \in Databases
      PROVE  /\ t[d] = None => t2[d] = None
             /\ t[d] # None => /\ t2[d] # None /\ t2[d] \in StateRows
                               /\ t2[d].process = t[d].process
                               /\ t2[d].state = t[d].state
             /\ t2[d].stamp = 2 * t[d].stamp /\ t[d].stamp \in Nat
  <2>1. CASE t[d] = None
    BY <2>1 DEF None
  <2>2. CASE t[d] \in StateRows
    BY <2>2 DEF None, StateRows, Stamps
  <2> QED
    BY <2>1, <2>2 DEF TypesOf
<1>3. TypesOf(r2, t2)
  <2>1. r2 = [g \in Goroutines |-> r2[g]] /\ t2 = [d \in Databases |-> t2[d]]
    OBVIOUS
  <2> HIDE DEF r2, t2
  <2>2. \A g \in Goroutines : r2[g] \in {Idle} \union Stamped \union Read
    BY <1>1 DEF TypesOf
  <2>3. \A d \in Databases : t2[d] \in {None} \union StateRows
    BY <1>2
  <2> QED
    BY <2>1, <2>2, <2>3 DEF TypesOf
<1> HIDE DEF r2, t2
<1>4. SeenBefore(r2, st)
  BY <1>1 DEF OrderOf, SeenBefore
<1>5. StampedInOrder(r2)
  BY <1>1 DEF OrderOf, StampedInOrder
<1>6. LateReportLoses(r2, t2, fl)
  BY <1>1, <1>2, GoroutineOf DEF OrderOf, LateReportLoses
<1>7. LoserSawLess(r2, t2)
  BY <1>1, <1>2 DEF OrderOf, LoserSawLess
<1>8. RowsFresh(t2, fl)
  BY <1>2 DEF OrderOf, RowsFresh, Databases
<1>9. TypesOf(r2, t2) /\ OrderOf(r2, t2, st, fl)
  BY <1>3, <1>4, <1>5, <1>6, <1>7, <1>8 DEF OrderOf
<1> QED
  BY <1>9 DEF r2, t2

\* A new stamp is later than those of its own process.
LEMMA PlacesLater ==
    ASSUME TypesOf(report, table), Numbered(report, table),
           NEW p \in Processes, NEW k \in Places(p)
    PROVE  /\ k \in Stamps
           /\ \A h \in Goroutines : h[1] = p => 2 * report[h].stamp < k
           /\ \A d \in Databases :
                table[d] # None /\ table[d].process = p => 2 * table[d].stamp < k
<1> DEFINE U == Used(report, table)
           own == {report[g].stamp : g \in {p} \X Reporters[p]}
                    \union {table[d].stamp :
                               d \in {x \in Databases : Has(x) /\ table[x].process = p}}
           last == 2 * Cardinality(U) + 1
<1>1. U \subseteq Stamps /\ IsFiniteSet(U) /\ Cardinality(U) \in Nat
  BY UsedFinite, FS_CardinalityType
<1>2. \A g \in Goroutines : report[g].stamp \in Nat /\ report[g].stamp \in U \union {0}
  BY DEF TypesOf, Idle, Stamped, Read, Stamps, Used
<1>3. \A d \in Databases : table[d].stamp \in Nat /\ table[d].stamp \in U \union {0}
  BY DEF TypesOf, None, StateRows, Stamps, Used
<1>4. \A h \in Goroutines : h[1] = p => h \in {p} \X Reporters[p]
  BY DEF Goroutines
<1>5. \A h \in {p} \X Reporters[p] : h \in Goroutines
  BY DEF Goroutines
<1>6. \A s \in own : s \in Nat /\ s \in U \union {0}
  BY <1>2, <1>3, <1>5
<1>7. \A s \in own : s <= Cardinality(U)
  BY <1>1, <1>6 DEF Numbered
<1> HIDE DEF U
<1>8. k \in Stamps /\ \A s \in own : 2 * s < k
  <2>1. CASE p = 2 /\ behind > 0
    <3>1. k \in {j \in 1 .. last : j % 2 = 1 /\ \A s \in own : j > 2 * s}
      BY <2>1 DEF Places, U
    <3>2. k \in 1 .. last /\ \A s \in own : k > 2 * s
      BY <3>1
    <3> HIDE DEF own
    <3> QED
      BY <1>1, <1>6, <3>2 DEF Stamps
  <2>2. CASE ~(p = 2 /\ behind > 0)
    <3>1. k = last
      BY <2>2 DEF Places, U
    <3> HIDE DEF own
    <3> QED
      BY <1>1, <1>6, <1>7, <3>1 DEF Stamps
  <2> QED
    BY <2>1, <2>2
<1>9. \A h \in Goroutines : h[1] = p => report[h].stamp \in own
  BY <1>4
<1>10. \A d \in Databases : table[d] # None /\ table[d].process = p => table[d].stamp \in own
  BY DEF Has
<1> QED
  BY <1>8, <1>9, <1>10

\* time.Now() is taken before the states are read.
LEMMA TakeTimeInv ==
    ASSUME ReportsInv, NEW g \in Goroutines, NEW k \in Places(g[1]), TakeTime(g, k)
    PROVE  ReportsInv'
<1> DEFINE p == g[1]
           r2 == [h \in Goroutines |-> [report[h] EXCEPT !.stamp = 2 * @]]
           t2 == [d \in Databases |-> [table[d] EXCEPT !.stamp = 2 * @]]
           new == [step |-> "stamped", stamp |-> k, seen |-> state[p]]
           r3 == [r2 EXCEPT ![g] = new]
<1>1. /\ TypesOf(report, table) /\ Numbered(report, table) /\ Floors(state, floor)
      /\ OrderOf(report, table, state, floor) /\ p \in Processes
  BY GoroutineOf DEF ReportsInv
<1>2. Renumbered(r3, t2) /\ UNCHANGED <<state, floor>>
  BY DEF TakeTime
<1>3. TypesOf(r2, t2) /\ OrderOf(r2, t2, state, floor)
  BY <1>1, DoubledInv
<1>4. /\ k \in Stamps
      /\ \A h \in Goroutines : h[1] = p => 2 * report[h].stamp < k
      /\ \A d \in Databases : table[d] # None /\ table[d].process = p => 2 * table[d].stamp < k
  BY <1>1, PlacesLater
<1>5. \A h \in Goroutines : h[1] = p => r2[h].stamp < k
  <2>1. \A h \in Goroutines : r2[h].stamp = 2 * report[h].stamp
    BY <1>1 DEF TypesOf, Idle, Stamped, Read
  <2> QED
    BY <1>4, <2>1
<1>6. \A d \in Databases : t2[d] # None /\ t2[d].process = p => t2[d].stamp < k
  <2>1. ASSUME NEW d \in Databases
        PROVE  /\ t2[d].stamp = 2 * table[d].stamp
               /\ t2[d] # None => table[d] # None /\ t2[d].process = table[d].process
    <3>1. CASE table[d] = None
      BY <3>1 DEF None
    <3>2. CASE table[d] \in StateRows
      BY <3>2 DEF None, StateRows
    <3> QED
      BY <1>1, <3>1, <3>2 DEF TypesOf
  <2> QED
    BY <1>4, <2>1
<1>7. state[p] \in Nat /\ \A d \in Databases : floor[p][d] \in Nat /\ floor[p][d] <= state[p]
  BY <1>1 DEF Floors
<1>8. new \in Stamped /\ new # Idle /\ new.seen = state[p] /\ new.stamp = k /\ new \notin Read
  BY <1>4, <1>7 DEF Stamped, Idle, Read
<1> HIDE DEF r2, t2, new
<1>9. r3[g] = new /\ \A h \in Goroutines \ {g} : r3[h] = r2[h]
  BY <1>3 DEF TypesOf
<1>10. TypesOf(r3, t2)
  BY <1>3, <1>8 DEF TypesOf
<1>11. \A h \in Goroutines : r2[h] # Idle => r2[h].seen \in Nat
  BY <1>3 DEF TypesOf, Stamped, Read
<1> HIDE DEF r3
<1>12. SeenBefore(r3, state)
  BY <1>3, <1>7, <1>8, <1>9 DEF OrderOf, SeenBefore
<1>13. StampedInOrder(r3)
  <2>1. \A h \in Goroutines : h[1] = p /\ r2[h] # Idle => r2[h].seen <= state[p]
    BY <1>3 DEF OrderOf, SeenBefore
  <2>2. ASSUME NEW a \in Goroutines, NEW b \in Goroutines, a[1] = b[1],
               r3[a] # Idle, r3[b] # Idle, r3[a].seen < r3[b].seen
        PROVE  r3[a].stamp < r3[b].stamp
    <3>1. CASE a = g /\ b = g
      BY <1>7, <1>8, <1>9, <2>2, <3>1
    <3>2. CASE a = g /\ b # g
      BY <1>7, <1>8, <1>9, <1>11, <2>1, <2>2, <3>2
    <3>3. CASE a # g /\ b = g
      BY <1>5, <1>8, <1>9, <2>2, <3>3
    <3>4. CASE a # g /\ b # g
      BY <1>3, <1>9, <2>2, <3>4 DEF OrderOf, StampedInOrder
    <3> QED
      BY <3>1, <3>2, <3>3, <3>4
  <2> QED
    BY <2>2 DEF StampedInOrder
<1>14. LateReportLoses(r3, t2, floor)
  <2>1. ASSUME NEW h \in Goroutines, NEW d \in Watched[h[1]], r3[h] # Idle,
               r3[h].seen < floor[h[1]][d]
        PROVE  r3[h].stamp < t2[d].stamp
    <3>1. CASE h = g
      BY <1>7, <1>8, <1>9, <2>1, <3>1, GoroutineOf
    <3>2. CASE h # g
      BY <1>3, <1>9, <2>1, <3>2 DEF OrderOf, LateReportLoses
    <3> QED
      BY <3>1, <3>2
  <2> QED
    BY <2>1 DEF LateReportLoses
<1>15. LoserSawLess(r3, t2)
  <2>1. ASSUME NEW h \in Goroutines, NEW d \in Databases, r3[h] # Idle, t2[d] # None,
               t2[d].process = h[1], r3[h].stamp < t2[d].stamp
        PROVE  r3[h].seen <= t2[d].state
    <3>1. CASE h = g
      <4>1. t2[d].stamp \in Nat /\ k \in Nat
        BY <1>3, <1>4, <2>1 DEF TypesOf, StateRows, Stamps
      <4> QED
        BY <1>6, <1>8, <1>9, <2>1, <3>1, <4>1
    <3>2. CASE h # g
      BY <1>3, <1>9, <2>1, <3>2 DEF OrderOf, LoserSawLess
    <3> QED
      BY <3>1, <3>2
  <2> QED
    BY <2>1 DEF LoserSawLess
<1>16. OrderOf(r3, t2, state, floor)
  BY <1>3, <1>12, <1>13, <1>14, <1>15 DEF OrderOf
<1>17. /\ TypesOf(report', table') /\ Numbered(report', table')
       /\ OrderOf(report', table', state, floor)
  BY <1>2, <1>10, <1>16, RenumberedInv DEF r3
<1> QED
  BY <1>1, <1>2, <1>17 DEF ReportsInv

\* A report reads the states as they are now.
LEMMA ReadStatesInv ==
    ASSUME ReportsInv, NEW g \in Goroutines, ReadStates(g)
    PROVE  ReportsInv'
<1> DEFINE p == g[1]
           new == [step |-> "read", stamp |-> report[g].stamp, seen |-> report[g].seen,
                   states |-> state[p]]
<1>1. /\ TypesOf(report, table) /\ Numbered(report, table) /\ Floors(state, floor)
      /\ OrderOf(report, table, state, floor) /\ p \in Processes
  BY GoroutineOf DEF ReportsInv
<1>2. report' = [report EXCEPT ![g] = new] /\ UNCHANGED <<state, table, floor>>
  BY DEF ReadStates
<1>3. report[g] \in Stamped /\ report[g] # Idle
  BY <1>1 DEF ReadStates, TypesOf, Idle, Read, Stamped
<1>4. /\ new \in Read /\ new # Idle
      /\ new.stamp = report[g].stamp /\ new.seen = report[g].seen /\ new.states = state[p]
  BY <1>1, <1>3 DEF Floors, Stamped, Read, Idle
<1> HIDE DEF new
<1>5. report'[g] = new /\ \A h \in Goroutines \ {g} : report'[h] = report[h]
  BY <1>1, <1>2 DEF TypesOf
<1>6. TypesOf(report', table')
  BY <1>1, <1>2, <1>4 DEF TypesOf
<1>7. \A h \in Goroutines : /\ report'[h].stamp = report[h].stamp
                            /\ report'[h] = Idle <=> report[h] = Idle
                            /\ report[h] # Idle => report'[h].seen = report[h].seen
  BY <1>3, <1>4, <1>5
<1>8. SeenBefore(report', state)
  BY <1>1, <1>3, <1>4, <1>5 DEF OrderOf, SeenBefore
<1>9. /\ StampedInOrder(report') /\ LoserSawLess(report', table)
      /\ LateReportLoses(report', table, floor)
  BY <1>1, <1>7 DEF OrderOf, StampedInOrder, LateReportLoses, LoserSawLess
<1>10. Used(report', table) = Used(report, table)
  BY <1>7 DEF Used
<1>11. Numbered(report', table)
  BY <1>1, <1>10 DEF Numbered
<1> QED
  BY <1>1, <1>2, <1>6, <1>8, <1>9, <1>11 DEF ReportsInv, OrderOf

\* A report that is dropped leaves the rest as it is; what its process has seen
\* does not matter any more.
LEMMA Dropped ==
    ASSUME NEW r, NEW t, TypesOf(r, t), NEW st, NEW fl, OrderOf(r, t, st, fl),
           NEW D, NEW r2, r2 = [g \in Goroutines |-> IF g \in D THEN Idle ELSE r[g]]
    PROVE  /\ TypesOf(r2, t) /\ OrderOf(r2, t, st, fl)
           /\ \A g \in Goroutines : r2[g] # Idle => g \notin D /\ r2[g] = r[g]
<1>1. \A g \in Goroutines : r2[g] # Idle => g \notin D /\ r2[g] = r[g]
  OBVIOUS
<1>2. TypesOf(r2, t)
  BY DEF TypesOf
<1>3. \A g \in Goroutines : r2[g] \in Read => r2[g] # Idle
  BY DEF Read, Idle
<1>4. SeenBefore(r2, st)
  BY <1>1, <1>3 DEF OrderOf, SeenBefore
<1>5. StampedInOrder(r2) /\ LateReportLoses(r2, t, fl) /\ LoserSawLess(r2, t)
  BY <1>1 DEF OrderOf, StampedInOrder, LateReportLoses, LoserSawLess
<1> QED
  BY <1>1, <1>2, <1>4, <1>5 DEF OrderOf

\* writeConnectionStates: the row with the later time stays.
LEMMA CommitInv ==
    ASSUME ReportsInv, NEW g \in Goroutines, Commit(g)
    PROVE  ReportsInv'
<1> DEFINE p == g[1]
           m == report[g]
           r2 == [report EXCEPT ![g] = Idle]
           t2 == DeleteUnconfigured(p, Upsert(p, m))
           row == [stamp |-> m.stamp, process |-> p, state |-> m.states]
<1>1. /\ TypesOf(report, table) /\ Floors(state, floor)
      /\ OrderOf(report, table, state, floor) /\ p \in Processes
      /\ Watched[p] \subseteq Databases
  BY GoroutineOf DEF ReportsInv
<1>2. Renumbered(r2, t2) /\ state' = state
  BY DEF Commit
<1>3. floor' = [q \in Processes |-> [d \in Databases |->
                  IF d \notin Watched[p] THEN 0
                  ELSE IF q = p /\ floor[q][d] < m.seen THEN m.seen ELSE floor[q][d]]]
  BY DEF Commit
<1>4. m \in Read /\ m # Idle
  BY <1>1 DEF Commit, TypesOf, Idle, Read, Stamped
<1>5. /\ m.stamp \in Stamps /\ m.seen \in Nat /\ m.states \in Nat
      /\ m.seen <= m.states /\ m.seen <= state[p] /\ state[p] \in Nat
  BY <1>1, <1>4 DEF Read, OrderOf, SeenBefore, Floors
<1> DEFINE D == {g}
<1>6. r2 = [h \in Goroutines |-> IF h \in D THEN Idle ELSE report[h]]
  BY <1>1 DEF TypesOf
<1>7. /\ TypesOf(r2, table) /\ OrderOf(r2, table, state, floor)
      /\ \A h \in Goroutines : r2[h] # Idle => h # g /\ r2[h] = report[h]
  <2> HIDE DEF r2, D
  <2>1. /\ TypesOf(r2, table) /\ OrderOf(r2, table, state, floor)
        /\ \A h \in Goroutines : r2[h] # Idle => h \notin D /\ r2[h] = report[h]
    BY <1>1, <1>6, Dropped
  <2> QED
    BY <2>1 DEF D
<1>8. /\ row \in StateRows /\ row # None
      /\ row.stamp = m.stamp /\ row.process = p /\ row.state = m.states
  BY <1>1, <1>5 DEF StateRows, None
<1>9. \A d \in Databases : table[d].stamp \in Nat
  BY <1>1 DEF TypesOf, None, StateRows, Stamps
<1>10. t2 = [d \in Databases |-> IF d \notin Watched[p] THEN None
                                 ELSE IF m.stamp >= table[d].stamp THEN row ELSE table[d]]
  BY DEF DeleteUnconfigured, Upsert
<1> HIDE DEF r2, t2, row, m
\* What becomes of a row.
<1>11. ASSUME NEW d \in Databases
       PROVE  \/ d \notin Watched[p] /\ t2[d] = None
              \/ d \in Watched[p] /\ t2[d] = row /\ table[d].stamp <= m.stamp
              \/ d \in Watched[p] /\ t2[d] = table[d] /\ m.stamp < table[d].stamp
  BY <1>5, <1>9, <1>10 DEF Stamps
<1>12. TypesOf(r2, t2)
  <2>1. t2 \in [Databases -> {None} \union StateRows]
    BY <1>1, <1>8, <1>10 DEF TypesOf
  <2> QED
    BY <1>7, <2>1 DEF TypesOf
<1>13. Floors(state, floor')
  <2>1. \A q \in Processes : \A d \in Databases :
          floor'[q][d] = IF d \notin Watched[p] THEN 0
                         ELSE IF q = p /\ floor[q][d] < m.seen THEN m.seen ELSE floor[q][d]
    BY <1>3
  <2>2. floor' \in [Processes -> [Databases -> Nat]]
    BY <1>1, <1>3, <1>5 DEF Floors
  <2>3. \A q \in Processes : \A d \in Databases : floor'[q][d] <= state[q]
    BY <1>1, <1>5, <2>1 DEF Floors
  <2> QED
    BY <1>1, <2>2, <2>3 DEF Floors
<1>14. \A h \in Goroutines : r2[h] # Idle => r2[h].stamp \in Nat /\ r2[h].seen \in Nat
  BY <1>7 DEF TypesOf, Stamped, Read, Stamps
<1>15. LateReportLoses(r2, t2, floor')
  <2>1. ASSUME NEW h \in Goroutines, NEW d \in Watched[h[1]], r2[h] # Idle,
               r2[h].seen < floor'[h[1]][d]
        PROVE  r2[h].stamp < t2[d].stamp
    <3> DEFINE q == h[1]
    <3>1. q \in Processes /\ d \in Databases
      BY GoroutineOf
    <3>2. d \in Watched[p]
      BY <1>3, <1>14, <2>1, <3>1
    <3>3. m.stamp <= t2[d].stamp /\ table[d].stamp <= t2[d].stamp /\ t2[d].stamp \in Nat
      BY <1>5, <1>8, <1>9, <1>11, <3>1, <3>2 DEF Stamps
    <3>4. CASE q = p /\ floor[q][d] < m.seen
      <4>1. r2[h].seen < m.seen /\ r2[h] = report[h] /\ report[h] # Idle
        BY <1>3, <1>7, <2>1, <3>1, <3>2, <3>4
      <4>2. r2[h].stamp < m.stamp
        BY <1>1, <1>4, <3>4, <4>1 DEF OrderOf, StampedInOrder, m
      <4> QED
        BY <1>5, <1>14, <2>1, <3>3, <4>2 DEF Stamps
    <3>5. CASE ~(q = p /\ floor[q][d] < m.seen)
      <4>1. floor'[q][d] = floor[q][d]
        BY <1>3, <3>1, <3>2, <3>5
      <4>2. r2[h].stamp < table[d].stamp
        BY <1>7, <2>1, <4>1 DEF OrderOf, LateReportLoses
      <4> QED
        BY <1>9, <1>14, <2>1, <3>1, <3>3, <4>2
    <3> QED
      BY <3>4, <3>5
  <2> QED
    BY <2>1 DEF LateReportLoses
<1>16. LoserSawLess(r2, t2)
  <2>1. ASSUME NEW h \in Goroutines, NEW d \in Databases, r2[h] # Idle, t2[d] # None,
               t2[d].process = h[1], r2[h].stamp < t2[d].stamp
        PROVE  r2[h].seen <= t2[d].state
    <3>1. CASE t2[d] = row
      <4>1. h[1] = p /\ r2[h].stamp < m.stamp /\ r2[h] = report[h] /\ report[h] # Idle
        BY <1>7, <1>8, <2>1, <3>1
      <4>2. m.seen < r2[h].seen => m.stamp < r2[h].stamp
        BY <1>1, <1>4, <4>1 DEF OrderOf, StampedInOrder, m
      <4> QED
        BY <1>5, <1>8, <1>14, <2>1, <3>1, <4>1, <4>2 DEF Stamps
    <3>2. CASE t2[d] = table[d]
      BY <1>7, <2>1, <3>2 DEF OrderOf, LoserSawLess
    <3> QED
      BY <1>11, <2>1, <3>1, <3>2
  <2> QED
    BY <2>1 DEF LoserSawLess
<1>17. RowsFresh(t2, floor')
  <2>1. ASSUME NEW q \in Processes, NEW d \in Watched[q], t2[d] # None, t2[d].process = q
        PROVE  floor'[q][d] <= t2[d].state
    <3>1. d \in Databases /\ floor[q][d] \in Nat
      BY <1>1 DEF Databases, Floors
    <3>2. d \in Watched[p]
      BY <1>11, <2>1, <3>1
    <3>3. floor'[q][d] = IF q = p /\ floor[q][d] < m.seen THEN m.seen ELSE floor[q][d]
      BY <1>3, <3>1, <3>2
    <3>4. CASE t2[d] = row /\ table[d].stamp <= m.stamp
      <4>1. q = p /\ t2[d].state = m.states
        BY <1>8, <2>1, <3>4
      <4>2. m.seen < floor[p][d] => m.stamp < table[d].stamp
        BY <1>1, <1>4, <3>2 DEF OrderOf, LateReportLoses, m
      <4> QED
        BY <1>5, <1>9, <3>1, <3>3, <3>4, <4>1, <4>2 DEF Stamps
    <3>5. CASE t2[d] = table[d] /\ m.stamp < table[d].stamp
      <4>1. floor[q][d] <= t2[d].state
        BY <1>1, <2>1, <3>5 DEF OrderOf, RowsFresh
      <4>2. q = p => m.seen <= t2[d].state
        BY <1>1, <1>4, <2>1, <3>1, <3>5 DEF OrderOf, LoserSawLess, m
      <4> QED
        BY <3>3, <4>1, <4>2
    <3> QED
      BY <1>11, <2>1, <3>1, <3>4, <3>5
  <2> QED
    BY <2>1 DEF RowsFresh
<1>18. OrderOf(r2, t2, state, floor')
  BY <1>7, <1>15, <1>16, <1>17 DEF OrderOf
<1>19. /\ TypesOf(report', table') /\ Numbered(report', table')
       /\ OrderOf(report', table', state, floor')
  BY <1>2, <1>12, <1>18, RenumberedInv
<1> QED
  BY <1>2, <1>13, <1>19 DEF ReportsInv

\* The initial states satisfy the inductive invariant.
LEMMA InitReportsInv == ASSUME InitReports PROVE ReportsInv
<1>1. TypesOf(report, table) /\ Floors(state, floor)
  BY DEF InitReports, TypesOf, Floors
<1>2. OrderOf(report, table, state, floor)
  <2>1. \A g \in Goroutines : report[g] = Idle /\ report[g] \notin Read
    BY DEF InitReports, Idle, Read
  <2>2. \A d \in Databases : table[d] = None
    BY DEF InitReports
  <2>3. RowsFresh(table, floor)
    BY <2>2 DEF RowsFresh, Databases
  <2>4. SeenBefore(report, state) /\ StampedInOrder(report)
    BY <2>1 DEF SeenBefore, StampedInOrder
  <2>5. LateReportLoses(report, table, floor) /\ LoserSawLess(report, table)
    BY <2>1 DEF LateReportLoses, LoserSawLess
  <2> QED
    BY <2>3, <2>4, <2>5 DEF OrderOf
<1>3. Numbered(report, table)
  BY DEF InitReports, Numbered, Used, Idle, None
<1> QED
  BY <1>1, <1>2, <1>3 DEF ReportsInv

\* Every action preserves the inductive invariant.
LEMMA StepReportsInv == ASSUME ReportsInv, [NextReports]_reportVars PROVE ReportsInv'
<1>0. /\ TypesOf(report, table) /\ Numbered(report, table) /\ Floors(state, floor)
      /\ OrderOf(report, table, state, floor)
  BY DEF ReportsInv
<1>1. ASSUME NEW g \in Goroutines, Report(g) PROVE ReportsInv'
  BY <1>1, TakeTimeInv, ReadStatesInv DEF Report
<1>2. ASSUME NEW g \in Goroutines, Commit(g) PROVE ReportsInv'
  BY <1>2, CommitInv
<1>3. ASSUME NEW g \in Goroutines, WriteFails(g) PROVE ReportsInv'
  <2> DEFINE r2 == [report EXCEPT ![g] = Idle]
             D == {g}
  <2>1. r2 = [h \in Goroutines |-> IF h \in D THEN Idle ELSE report[h]]
    BY <1>0 DEF TypesOf
  <2>2. Renumbered(r2, table) /\ UNCHANGED <<state, floor>>
    BY <1>3 DEF WriteFails
  <2> HIDE DEF r2, D
  <2>3. TypesOf(r2, table) /\ OrderOf(r2, table, state, floor)
    BY <1>0, <2>1, Dropped
  <2>4. /\ TypesOf(report', table') /\ Numbered(report', table')
        /\ OrderOf(report', table', state, floor)
    BY <2>2, <2>3, RenumberedInv
  <2> QED
    BY <1>0, <2>2, <2>4 DEF ReportsInv
<1>4. ASSUME NEW p \in Processes, Changes(p) PROVE ReportsInv'
  <2>1. /\ UNCHANGED <<report, table, floor>>
        /\ state' \in [Processes -> Nat] /\ \A q \in Processes : state[q] <= state'[q]
    BY <1>0, <1>4 DEF Changes, Floors
  <2>2. Floors(state', floor)
    BY <1>0, <2>1 DEF Floors
  <2>3. SeenBefore(report, state')
    <3>1. ASSUME NEW g \in Goroutines, report[g] # Idle
          PROVE  report[g].seen <= state[g[1]] /\ report[g].seen \in Nat
      BY <1>0, <3>1 DEF OrderOf, SeenBefore, TypesOf, Stamped, Read
    <3>2. \A q \in Processes : state[q] \in Nat /\ state'[q] \in Nat
      BY <1>0, <2>1 DEF Floors
    <3>3. \A g \in Goroutines : report[g] # Idle => report[g].seen <= state'[g[1]]
      BY <2>1, <3>1, <3>2, GoroutineOf
    <3> QED
      BY <1>0, <3>3 DEF OrderOf, SeenBefore
  <2> QED
    BY <1>0, <2>1, <2>2, <2>3 DEF ReportsInv, OrderOf
<1>5. CASE SuccessorElected
  BY <1>0, <1>5 DEF SuccessorElected, ReportsInv
<1>6. CASE LeaderDeposed
  <2> DEFINE r2 == [g \in Goroutines |-> IF g[1] = 1 THEN Idle ELSE report[g]]
             D == {g \in Goroutines : g[1] = 1}
  <2>1. Renumbered(r2, table)
    BY <1>6 DEF LeaderDeposed
  <2>2. /\ Floors(state', floor')
        /\ state'[2] = state[2]
        /\ \A d \in Databases : floor'[1][d] = 0 /\ floor'[2][d] = floor[2][d]
    <3> DEFINE none == [d \in Databases |-> 0]
    <3>1. state' = [state EXCEPT ![1] = 0] /\ floor' = [floor EXCEPT ![1] = none]
      BY <1>6 DEF LeaderDeposed
    <3>2. none \in [Databases -> Nat] /\ \A d \in Databases : none[d] = 0
      OBVIOUS
    <3>3. 1 \in Processes /\ 2 \in Processes /\ \A q \in Processes : q = 1 \/ q = 2
      BY DEF Processes
    <3> HIDE DEF none
    <3>4. /\ state' \in [Processes -> Nat] /\ floor' \in [Processes -> [Databases -> Nat]]
          /\ state'[1] = 0 /\ state'[2] = state[2] /\ floor'[1] = none /\ floor'[2] = floor[2]
      BY <1>0, <3>1, <3>2, <3>3 DEF Floors
    <3>5. \A q \in Processes : \A d \in Databases : floor'[q][d] <= state'[q]
      BY <1>0, <3>2, <3>3, <3>4 DEF Floors
    <3> QED
      BY <3>2, <3>4, <3>5 DEF Floors
  <2>3. r2 = [g \in Goroutines |-> IF g \in D THEN Idle ELSE report[g]]
    OBVIOUS
  <2>4. \A g \in Goroutines : g \notin D => g[1] = 2
    BY GoroutineOf DEF Processes
  <2> HIDE DEF r2
  <2>5. /\ TypesOf(r2, table) /\ OrderOf(r2, table, state, floor)
        /\ \A g \in Goroutines : r2[g] # Idle => g \notin D /\ r2[g] = report[g]
    <3> HIDE DEF D
    <3> QED
      BY <1>0, <2>3, Dropped
  <2>6. \A g \in Goroutines : r2[g] # Idle => g[1] = 2
    BY <2>4, <2>5
  <2>7. \A g \in Goroutines : r2[g] \in Read => r2[g] # Idle
    BY DEF Read, Idle
  <2>8. SeenBefore(r2, state')
    BY <2>2, <2>5, <2>6, <2>7 DEF OrderOf, SeenBefore
  <2>9. LateReportLoses(r2, table, floor')
    BY <2>2, <2>5, <2>6, GoroutineOf DEF OrderOf, LateReportLoses
  <2>10. RowsFresh(table, floor')
    <3>1. \A p \in Processes : p = 1 \/ p = 2
      BY DEF Processes
    <3>2. \A p \in Processes : \A d \in Watched[p] : d \in Databases
      BY DEF Databases
    <3>3. \A d \in Databases : table[d] # None => table[d].state \in Nat
      BY <1>0 DEF TypesOf, StateRows
    <3> QED
      BY <1>0, <2>2, <3>1, <3>2, <3>3 DEF OrderOf, RowsFresh
  <2>11. OrderOf(r2, table, state', floor')
    BY <2>5, <2>8, <2>9, <2>10 DEF OrderOf
  <2>12. /\ TypesOf(report', table') /\ Numbered(report', table')
         /\ OrderOf(report', table', state', floor')
    BY <2>1, <2>5, <2>11, RenumberedInv
  <2> QED
    BY <2>2, <2>12 DEF ReportsInv
<1>7. CASE UNCHANGED reportVars
  BY <1>0, <1>7 DEF reportVars, ReportsInv
<1> QED
  BY <1>1, <1>2, <1>3, <1>4, <1>5, <1>6, <1>7 DEF NextReports

\* The inductive invariant holds in every reachable state.
THEOREM ReportsInvariant == ReportsSpec => []ReportsInv
<1>1. InitReports => ReportsInv
  BY InitReportsInv
<1>2. ReportsInv /\ [NextReports]_reportVars => ReportsInv'
  BY StepReportsInv
<1> QED
  BY <1>1, <1>2, PTL DEF ReportsSpec

\* The table of connection states is never older than a report it has taken in.
THEOREM TableStaysFresh == ReportsSpec => []TableFresh
<1>1. ReportsInv => TableFresh
  <2>1. ASSUME ReportsInv, NEW p \in Processes, NEW d \in Watched[p],
               Has(d), table[d].process = p
        PROVE  table[d].state >= floor[p][d]
    <3>1. floor[p][d] <= table[d].state /\ d \in Databases
      BY <2>1 DEF ReportsInv, OrderOf, RowsFresh, Has, Databases
    <3>2. table[d].state \in Nat /\ floor[p][d] \in Nat
      BY <2>1, <3>1 DEF ReportsInv, TypesOf, StateRows, Floors, Has
    <3> QED
      BY <3>1, <3>2
  <2> QED
    BY <2>1 DEF TableFresh
<1> QED
  BY <1>1, ReportsInvariant, PTL
=============================================================================
