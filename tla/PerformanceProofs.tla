-------------------------- MODULE PerformanceProofs --------------------------
(***************************************************************************)
(* Theorems about the performance samples: about ActivityWatermark, for    *)
(* any databases, instances and times, and about SQLConsumers, for any     *)
(* finite set of cursors and any number of executions.                     *)
(***************************************************************************)
EXTENDS ActivityWatermark, SQLConsumers, FiniteSetTheorems, WellFoundedInduction, TLAPS

Smaller == {ss \in Nat \X Nat : ss[1] < ss[2]}

\* Natural numbers do not decrease for ever.
LEMMA SmallerWellFounded == IsWellFoundedOn(Smaller, Nat)
  BY NatLessThanWellFounded DEF OpToRel, Smaller

-----------------------------------------------------------------------------
(* Activity sampling.                                                      *)

\* Nothing is from the future, and a sample becomes visible within MaxLag.
Clock ==
    \A d \in Databases :
        /\ \A r \in ash[d] \union unseen[d] \union fetched[d] \union stored[d] : r.time <= now
        /\ \A r \in unseen[d] : now <= r.time + MaxLag

\* The local variables of a pass.
Locals ==
    \A d \in Databases :
        /\ outcome[d] # "ok" => fetched[d] = {}
        /\ pc = "idle" => outcome[d] = "wait"
        /\ pc = "written" => fetched[d] \subseteq stored[d]
        /\ outcome[d] = "ok" /\ watermark[d] # NoMark => since[d] = watermark[d] - Interval

\* What a query did not see lies less than an interval before what it saw.
Fetched ==
    \A d \in Databases : \A r \in ash[d] \union unseen[d] : \A f \in fetched[d] :
        (MaxLag < Interval /\ r \notin fetched[d] /\ r.time > since[d])
            => r.time > f.time - Interval

\* The inductive invariant.
IInv ==
    /\ TypeOK
    /\ Clock
    /\ Locals
    /\ Fetched
    /\ WatermarkStored
    /\ NoRowSkipped

\* A non-empty set of times has a largest member.
LEMMA Latest ==
    ASSUME NEW S, S \subseteq Times, S # {}
    PROVE  \E t \in S : \A u \in S : u <= t
<1> DEFINE T == {n \in Nat : \E t \in S : n = MaxTime - t}
<1>1. \A u \in S : u \in Int /\ MaxTime - u \in T
  BY WatermarkAssumption DEF Times
<1>2. T \subseteq Nat /\ T # {}
  BY <1>1
<1>3. PICK x \in T : \A y \in T : ~(<<y, x>> \in Smaller)
  <2> HIDE DEF T
  <2> QED
    BY <1>2, SmallerWellFounded, WFMin
<1>4. \A y \in T : x <= y
  <2> HIDE DEF T
  <2>1. \A a, b \in Nat : a < b => <<a, b>> \in Smaller
    BY Zenon DEF Smaller
  <2>2. \A y \in T : x \in Nat /\ y \in Nat /\ ~(y < x)
    BY <1>2, <1>3, <2>1
  <2> QED
    BY <2>2
<1>5. PICK t \in S : x = MaxTime - t
  OBVIOUS
<1>6. \A u \in S : u <= t
  <2> HIDE DEF T
  <2> QED
    BY <1>1, <1>4, <1>5, WatermarkAssumption
<1> QED
  BY <1>6

\* latestASH is the time of a row of the batch, and no row is newer.
LEMMA LatestASHCorrect ==
    ASSUME TypeOK, NEW d \in Databases, fetched[d] # {}
    PROVE  /\ LatestASH(d) \in Times
           /\ \E r \in fetched[d] : r.time = LatestASH(d)
           /\ \A r \in fetched[d] : r.time <= LatestASH(d)
<1> DEFINE S == {r.time : r \in fetched[d]}
<1>1. S \subseteq Times /\ S # {}
  BY DEF TypeOK, Rows
<1>2. PICK t \in S : \A u \in S : u <= t
  BY <1>1, Latest
<1>3. /\ t \in Times
      /\ \E r \in fetched[d] : r.time = t
      /\ \A r \in fetched[d] : r.time <= t
  BY <1>1, <1>2
<1> QED
  BY <1>3 DEF LatestASH

\* The initial states satisfy the inductive invariant.
LEMMA InitIInv == ASSUME Init PROVE IInv
BY WatermarkAssumption
   DEF Init, IInv, TypeOK, Clock, Locals, Fetched, WatermarkStored, NoRowSkipped,
       Times, NoMark

\* Every action preserves the inductive invariant.
LEMMA StepIInv == ASSUME IInv, [Next]_vars PROVE IInv'
<1> USE WatermarkAssumption DEF Times, NoMark, Rows, oracle, pass, marks, Since
<1>1. CASE Tick
  BY <1>1 DEF Tick, IInv, TypeOK, Clock, Locals, Fetched, WatermarkStored, NoRowSkipped
<1>2. ASSUME NEW d \in Databases, NEW i \in OracleInsts, Sampled(d, i) PROVE IInv'
  <2> DEFINE r == [inst |-> i, time |-> now]
  <2>1. /\ TypeOK' /\ Clock' /\ Locals' /\ WatermarkStored'
    BY <1>2 DEF Sampled, IInv, TypeOK, Clock, Locals, WatermarkStored
  <2>2. Fetched'
    BY <1>2 DEF Sampled, IInv, TypeOK, Clock, Fetched
  <2>3. NoRowSkipped'
    BY <1>2 DEF Sampled, IInv, TypeOK, Clock, WatermarkStored, NoRowSkipped
  <2> QED
    BY <2>1, <2>2, <2>3 DEF IInv
<1>3. ASSUME NEW d \in Databases, NEW r \in unseen[d], Appears(d, r) PROVE IInv'
  BY <1>3 DEF Appears, IInv, TypeOK, Clock, Locals, Fetched, WatermarkStored, NoRowSkipped
<1>4. ASSUME NEW d \in Databases, NEW r \in ash[d], Disappears(d, r) PROVE IInv'
  BY <1>4 DEF Disappears, IInv, TypeOK, Clock, Locals, Fetched, WatermarkStored, NoRowSkipped
<1>5. ASSUME NEW d \in Databases, Unavailable(d) PROVE IInv'
  BY <1>5 DEF Unavailable, IInv, TypeOK, Clock, Locals, Fetched, WatermarkStored, NoRowSkipped
<1>6. ASSUME NEW d \in Databases, Fetch(d) PROVE IInv'
  <2>1. /\ TypeOK' /\ Clock' /\ Locals' /\ WatermarkStored'
    BY <1>6 DEF Fetch, IInv, TypeOK, Clock, Locals, WatermarkStored
  <2>2. Fetched'
    BY <1>6 DEF Fetch, IInv, TypeOK, Clock, Fetched
  <2>3. NoRowSkipped'
    BY <1>6 DEF Fetch, IInv, TypeOK, NoRowSkipped
  <2> QED
    BY <2>1, <2>2, <2>3 DEF IInv
<1>7. CASE StartPass
  BY <1>7 DEF StartPass, IInv, TypeOK, Clock, Locals, Fetched, WatermarkStored, NoRowSkipped
<1>8. CASE WriteCommits
  BY <1>8 DEF WriteCommits, Collected, Insert, IInv, TypeOK, Clock, Locals, Fetched,
              WatermarkStored, NoRowSkipped
<1>9. CASE WriteFails
  BY <1>9 DEF WriteFails, Collected, Insert, Return, IInv, TypeOK, Clock, Locals, Fetched,
              WatermarkStored, NoRowSkipped
<1>10. CASE MoveWatermarks
  <2> USE <1>10 DEF MoveWatermarks, Return
  <2>1. TypeOK'
    BY LatestASHCorrect DEF IInv, TypeOK
  <2>2. /\ Clock' /\ Locals' /\ Fetched'
    BY DEF IInv, TypeOK, Clock, Locals, Fetched
  <2>3. WatermarkStored'
    BY LatestASHCorrect DEF IInv, TypeOK, Locals, WatermarkStored
  <2>4. ASSUME MaxLag < Interval, NEW d \in Databases,
               NEW r \in ash[d] \union unseen[d],
               watermark'[d] # NoMark, r.time > from'[d], r \notin stored[d]
        PROVE  r.time > watermark'[d] - Interval
    <3>1. CASE fetched[d] = {}
      BY <2>4, <3>1 DEF IInv, TypeOK, NoRowSkipped
    <3>2. CASE fetched[d] # {}
      <4>1. PICK f \in fetched[d] : f.time = LatestASH(d)
        BY <3>2, LatestASHCorrect DEF IInv
      <4>2. r \notin fetched[d] /\ outcome[d] = "ok"
        BY <2>4, <3>2 DEF IInv, Locals
      <4>3. r.time > since[d]
        BY <2>4, <3>2, <4>2 DEF IInv, TypeOK, Locals, NoRowSkipped
      <4> QED
        BY <2>4, <3>2, <4>1, <4>2, <4>3 DEF IInv, TypeOK, Fetched
    <3> QED
      BY <3>1, <3>2
  <2>5. NoRowSkipped'
    BY <2>4 DEF NoRowSkipped
  <2> QED
    BY <2>1, <2>2, <2>3, <2>5 DEF IInv
<1>11. CASE Restart
  BY <1>11 DEF Restart, Return, IInv, TypeOK, Clock, Locals, Fetched, WatermarkStored, NoRowSkipped
<1>12. CASE UNCHANGED vars
  BY <1>12 DEF vars, IInv, TypeOK, Clock, Locals, Fetched, WatermarkStored, NoRowSkipped
<1> QED
  BY <1>1, <1>2, <1>3, <1>4, <1>5, <1>6, <1>7, <1>8, <1>9, <1>10, <1>11, <1>12 DEF Next

\* The inductive invariant holds in every reachable state.
THEOREM WatermarkInvariant == Spec => []IInv
<1>1. Init => IInv
  BY InitIInv
<1>2. IInv /\ [Next]_vars => IInv'
  BY StepIInv
<1> QED
  BY <1>1, <1>2, PTL DEF Spec

\* Type correctness of the activity pass.
THEOREM WatermarkTypeCorrect == Spec => []TypeOK
<1>1. IInv => TypeOK
  BY DEF IInv
<1> QED
  BY <1>1, WatermarkInvariant, PTL

\* sampleActivity never skips a sample between two of its queries.
THEOREM NothingSkipped == Spec => []NoRowSkipped
<1>1. IInv => NoRowSkipped
  BY DEF IInv
<1> QED
  BY <1>1, WatermarkInvariant, PTL

\* activityWatermarks never runs ahead of the activity table.
THEOREM WatermarkBehindTable == Spec => []WatermarkStored
<1>1. IInv => WatermarkStored
  BY DEF IInv
<1> QED
  BY <1>1, WatermarkInvariant, PTL

-----------------------------------------------------------------------------
(* Sums over finite sets.  The library states no theorem about its folds;  *)
(* a property of all finite sets is shown at a smallest set without it.    *)

\* The member that a fold takes next.
AnyOf(S) == CHOOSE x \in S : TRUE
\* The recursion that a sum unfolds to.
IsFold(f, S, fold) ==
    fold = [T \in SUBSET S |-> IF T = {} THEN 0 ELSE f[AnyOf(T)] + fold[T \ {AnyOf(T)}]]

\* Among finite sets there is one with the fewest members.
LEMMA SmallestSet ==
    ASSUME NEW B, B # {}, \A S \in B : IsFiniteSet(S)
    PROVE  \E S \in B : \A T \in B : Cardinality(S) <= Cardinality(T)
<1> DEFINE N == {Cardinality(S) : S \in B}
<1>1. N \subseteq Nat /\ N # {}
  BY FS_CardinalityType
<1>2. PICK n \in N : \A m \in N : ~(<<m, n>> \in Smaller)
  <2> HIDE DEF N
  <2> QED
    BY <1>1, SmallerWellFounded, WFMin
<1>3. \A m \in N : n <= m
  <2> HIDE DEF N
  <2>1. \A a, b \in Nat : a < b => <<a, b>> \in Smaller
    BY Zenon DEF Smaller
  <2>2. \A m \in N : n \in Nat /\ m \in Nat /\ ~(m < n)
    BY <1>1, <1>2, <2>1
  <2> QED
    BY <2>2
<1>4. PICK S \in B : n = Cardinality(S)
  OBVIOUS
<1>5. \A T \in B : Cardinality(S) <= Cardinality(T)
  BY <1>3, <1>4
<1> QED
  BY <1>5

\* SumFunctionOnSet is the value of that recursion.
LEMMA SumUnfolded ==
    ASSUME NEW f, NEW S
    PROVE  SumFunctionOnSet(f, S) = (CHOOSE fold : IsFold(f, S, fold))[S]
BY DEF SumFunctionOnSet, FoldFunctionOnSet, MapThenFoldSet, IsFold, AnyOf

\* A finite set loses one member with the one that the recursion takes out.
LEMMA WithoutOne ==
    ASSUME NEW S, IsFiniteSet(S), S # {}, NEW x \in S
    PROVE  /\ IsFiniteSet(S \ {x})
           /\ Cardinality(S \ {x}) < Cardinality(S)
           /\ S \ {x} \subseteq S
<1>1. Cardinality(S) \in Nat
  BY FS_CardinalityType
<1>2. IsFiniteSet(S \ {x}) /\ Cardinality(S \ {x}) = Cardinality(S) - 1
  BY FS_RemoveElement
<1> QED
  BY <1>1, <1>2

\* The member is one.
LEMMA AnyOfMember == ASSUME NEW S, S # {} PROVE AnyOf(S) \in S
BY DEF AnyOf

\* One step of the recursion.
LEMMA FoldStep ==
    ASSUME NEW f, NEW S, NEW fold, IsFold(f, S, fold), NEW T, T \subseteq S
    PROVE  fold[T] = IF T = {} THEN 0 ELSE f[AnyOf(T)] + fold[T \ {AnyOf(T)}]
<1>1. T \in SUBSET S
  OBVIOUS
<1>2. fold = [U \in SUBSET S |-> IF U = {} THEN 0 ELSE f[AnyOf(U)] + fold[U \ {AnyOf(U)}]]
  BY DEF IsFold
<1> QED
  BY <1>1, <1>2, Zenon

\* Two solutions agree wherever both are defined.
LEMMA FoldsAgree ==
    ASSUME NEW f, NEW S, NEW T, NEW g, NEW h, IsFold(f, S, g), IsFold(f, T, h),
           NEW U, IsFiniteSet(U), U \subseteq S, U \subseteq T
    PROVE  g[U] = h[U]
<1> DEFINE B == {V \in SUBSET U : g[V] # h[V]}
<1>1. SUFFICES ASSUME B # {} PROVE FALSE
  BY Zenon
<1>2. PICK V \in B : \A W \in B : Cardinality(V) <= Cardinality(W)
  <2>1. \A W \in B : IsFiniteSet(W)
    BY FS_Subset
  <2> HIDE DEF B
  <2> QED
    BY <1>1, <2>1, SmallestSet
<1> DEFINE W == V \ {AnyOf(V)}
<1>3. /\ V \subseteq S /\ V \subseteq T /\ IsFiniteSet(V)
  BY FS_Subset
<1>4. /\ g[V] = IF V = {} THEN 0 ELSE f[AnyOf(V)] + g[W]
      /\ h[V] = IF V = {} THEN 0 ELSE f[AnyOf(V)] + h[W]
  BY <1>3, FoldStep
<1>5. V # {} /\ g[W] # h[W]
  BY <1>4
<1>6. W \in B
  BY <1>5
<1>7. Cardinality(W) < Cardinality(V) /\ Cardinality(V) \in Nat /\ Cardinality(W) \in Nat
  BY <1>3, <1>5, AnyOfMember, WithoutOne, FS_CardinalityType
<1> QED
  <2> HIDE DEF B, W
  <2> QED
    BY <1>2, <1>6, <1>7

\* On a finite set the recursion has a solution.
LEMMA FoldExists ==
    ASSUME NEW f, NEW S, IsFiniteSet(S)
    PROVE  \E fold : IsFold(f, S, fold)
<1> DEFINE B == {T \in SUBSET S : ~\E fold : IsFold(f, T, fold)}
           Fold(T) == CHOOSE fold : IsFold(f, T, fold)
<1>1. SUFFICES ASSUME B # {} PROVE FALSE
  BY Zenon
<1>2. PICK T \in B : \A U \in B : Cardinality(T) <= Cardinality(U)
  <2>1. \A U \in B : IsFiniteSet(U)
    BY FS_Subset
  <2> HIDE DEF B
  <2> QED
    BY <1>1, <2>1, SmallestSet
<1>3. T \subseteq S /\ IsFiniteSet(T)
  BY FS_Subset
<1>4. ASSUME NEW U, U \subseteq T, U # {}
      PROVE  LET V == U \ {AnyOf(U)}
             IN  V \subseteq T /\ IsFiniteSet(V) /\ IsFold(f, V, Fold(V))
  <2> DEFINE V == U \ {AnyOf(U)}
  <2>1. IsFiniteSet(U) /\ Cardinality(U) <= Cardinality(T)
    BY <1>3, <1>4, FS_Subset
  <2>2. IsFiniteSet(V) /\ Cardinality(V) < Cardinality(U) /\ V \subseteq T
    BY <1>4, <2>1, AnyOfMember, WithoutOne
  <2>3. Cardinality(V) \in Nat /\ Cardinality(U) \in Nat /\ Cardinality(T) \in Nat
    BY <1>3, <2>1, <2>2, FS_CardinalityType
  <2>4. V \notin B
    <3> HIDE DEF B, V
    <3> QED
      BY <1>2, <2>1, <2>2, <2>3
  <2>5. \E fold : IsFold(f, V, fold)
    BY <1>3, <2>2, <2>4
  <2>6. IsFold(f, V, Fold(V))
    BY <2>5, Zenon
  <2> QED
    BY <2>2, <2>6
<1> DEFINE After(U) == U \ {AnyOf(U)}
           fold == [U \in SUBSET T |->
                      IF U = {} THEN 0 ELSE f[AnyOf(U)] + Fold(After(U))[After(U)]]
<1> HIDE DEF Fold
<1>5. ASSUME NEW U, U \subseteq T, U # {}
      PROVE  fold[After(U)] = Fold(After(U))[After(U)]
  <2> DEFINE V == After(U)
  <2>1. V \subseteq T /\ IsFiniteSet(V) /\ IsFold(f, V, Fold(V))
    BY <1>4, <1>5
  <2>2. fold[V] = IF V = {} THEN 0 ELSE f[AnyOf(V)] + Fold(After(V))[After(V)]
    BY <2>1
  <2>3. Fold(V)[V] = IF V = {} THEN 0 ELSE f[AnyOf(V)] + Fold(V)[After(V)]
    <3>1. ASSUME NEW W, IsFold(f, W, Fold(W))
          PROVE  Fold(W)[W] = IF W = {} THEN 0 ELSE f[AnyOf(W)] + Fold(W)[W \ {AnyOf(W)}]
      BY <3>1, FoldStep
    <3> QED
      BY <2>1, <3>1, Zenon
  <2>4. ASSUME V # {} PROVE Fold(After(V))[After(V)] = Fold(V)[After(V)]
    <3>1. IsFiniteSet(After(V)) /\ IsFold(f, After(V), Fold(After(V)))
      BY <1>4, <2>1, <2>4
    <3>2. After(V) \subseteq V
      OBVIOUS
    <3> HIDE DEF fold, After, V
    <3> QED
      BY <2>1, <3>1, <3>2, FoldsAgree
  <2> HIDE DEF fold, After
  <2> QED
    BY <2>2, <2>3, <2>4
<1>6. \A U \in SUBSET T : fold[U] = IF U = {} THEN 0 ELSE f[AnyOf(U)] + fold[After(U)]
  BY <1>5
<1>7. IsFold(f, T, fold)
  <2>1. fold = [U \in SUBSET T |-> fold[U]]
    OBVIOUS
  <2> HIDE DEF fold
  <2> QED
    BY <1>6, <2>1 DEF IsFold
<1> HIDE DEF fold
<1> QED
  BY <1>2, <1>7

\* A sum is taken apart member by member.
LEMMA SumStep ==
    ASSUME NEW f, NEW S, IsFiniteSet(S)
    PROVE  SumFunctionOnSet(f, S) =
             IF S = {} THEN 0 ELSE f[AnyOf(S)] + SumFunctionOnSet(f, S \ {AnyOf(S)})
<1> DEFINE Fold(T) == CHOOSE fold : IsFold(f, T, fold)
           V == S \ {AnyOf(S)}
<1>1. IsFold(f, S, Fold(S))
  BY FoldExists, Zenon
<1>2. Fold(S)[S] = IF S = {} THEN 0 ELSE f[AnyOf(S)] + Fold(S)[V]
  <2> HIDE DEF Fold
  <2> QED
    BY <1>1, FoldStep
<1>3. IsFiniteSet(V) /\ V \subseteq S
  BY FS_RemoveElement
<1>4. IsFold(f, V, Fold(V))
  BY <1>3, FoldExists, Zenon
<1>5. Fold(S)[V] = Fold(V)[V]
  <2> HIDE DEF Fold, V
  <2> QED
    BY <1>1, <1>3, <1>4, FoldsAgree
<1>6. SumFunctionOnSet(f, S) = Fold(S)[S] /\ SumFunctionOnSet(f, V) = Fold(V)[V]
  BY SumUnfolded, Zenon
<1> HIDE DEF Fold
<1> QED
  BY <1>2, <1>5, <1>6

\* A sum of natural numbers is one.
LEMMA SumType ==
    ASSUME NEW S, IsFiniteSet(S), NEW f, \A x \in S : f[x] \in Nat
    PROVE  SumFunctionOnSet(f, S) \in Nat
<1> DEFINE B == {T \in SUBSET S : SumFunctionOnSet(f, T) \notin Nat}
<1>1. SUFFICES ASSUME B # {} PROVE FALSE
  BY Zenon
<1>2. PICK T \in B : \A U \in B : Cardinality(T) <= Cardinality(U)
  <2>1. \A U \in B : IsFiniteSet(U)
    BY FS_Subset
  <2> HIDE DEF B
  <2> QED
    BY <1>1, <2>1, SmallestSet
<1> DEFINE U == T \ {AnyOf(T)}
<1>3. T \subseteq S /\ IsFiniteSet(T)
  BY FS_Subset
<1>4. SumFunctionOnSet(f, T) = IF T = {} THEN 0 ELSE f[AnyOf(T)] + SumFunctionOnSet(f, U)
  BY <1>3, SumStep
<1>5. T # {}
  BY <1>4
<1>6. AnyOf(T) \in T /\ IsFiniteSet(U) /\ Cardinality(U) < Cardinality(T) /\ U \subseteq S
  BY <1>3, <1>5, AnyOfMember, WithoutOne
<1>7. Cardinality(U) \in Nat /\ Cardinality(T) \in Nat
  BY <1>3, <1>6, FS_CardinalityType
<1>8. SumFunctionOnSet(f, U) \in Nat
  <2>1. U \notin B
    <3> HIDE DEF B, U
    <3> QED
      BY <1>2, <1>6, <1>7
  <2> QED
    BY <1>6, <2>1
<1> QED
  <2> HIDE DEF U
  <2> QED
    BY <1>3, <1>4, <1>5, <1>6, <1>8

\* Which member is taken out first does not matter.
LEMMA SumWithout ==
    ASSUME NEW S, IsFiniteSet(S), NEW f, \A y \in S : f[y] \in Nat, NEW x \in S
    PROVE  SumFunctionOnSet(f, S) = f[x] + SumFunctionOnSet(f, S \ {x})
<1> DEFINE B == {T \in SUBSET S : \E z \in T :
                   SumFunctionOnSet(f, T) # f[z] + SumFunctionOnSet(f, T \ {z})}
<1>1. SUFFICES ASSUME B # {} PROVE FALSE
  BY Zenon
<1>2. PICK T \in B : \A U \in B : Cardinality(T) <= Cardinality(U)
  <2>1. \A U \in B : IsFiniteSet(U)
    BY FS_Subset
  <2> HIDE DEF B
  <2> QED
    BY <1>1, <2>1, SmallestSet
<1>3. PICK z \in T : SumFunctionOnSet(f, T) # f[z] + SumFunctionOnSet(f, T \ {z})
  BY Zenon
<1> DEFINE y == AnyOf(T)
<1>4. T \subseteq S /\ IsFiniteSet(T) /\ T # {} /\ Cardinality(T) \in Nat
  BY <1>3, FS_Subset, FS_CardinalityType
<1>5. y \in T /\ SumFunctionOnSet(f, T) = f[y] + SumFunctionOnSet(f, T \ {y})
  BY <1>4, SumStep, AnyOfMember
<1> HIDE DEF y
<1>6. y # z
  BY <1>3, <1>5
<1>7. ASSUME NEW w \in T
      PROVE  \A v \in T \ {w} :
               SumFunctionOnSet(f, T \ {w}) = f[v] + SumFunctionOnSet(f, (T \ {w}) \ {v})
  <2>1. IsFiniteSet(T \ {w}) /\ Cardinality(T \ {w}) < Cardinality(T) /\ T \ {w} \subseteq S
    BY <1>4, WithoutOne
  <2>2. Cardinality(T \ {w}) \in Nat
    BY <2>1, FS_CardinalityType
  <2>3. T \ {w} \notin B
    <3> HIDE DEF B
    <3> QED
      BY <1>2, <1>4, <2>1, <2>2
  <2> QED
    BY <2>1, <2>3, Zenon
<1>8. /\ SumFunctionOnSet(f, T \ {y}) = f[z] + SumFunctionOnSet(f, (T \ {y}) \ {z})
      /\ SumFunctionOnSet(f, T \ {z}) = f[y] + SumFunctionOnSet(f, (T \ {z}) \ {y})
  BY <1>3, <1>5, <1>6, <1>7, Zenon
<1>9. (T \ {y}) \ {z} = (T \ {z}) \ {y}
  OBVIOUS
<1> DEFINE rest == SumFunctionOnSet(f, (T \ {z}) \ {y})
<1>10. rest \in Nat /\ f[y] \in Nat /\ f[z] \in Nat
  <2>1. IsFiniteSet((T \ {z}) \ {y})
    BY <1>4, FS_RemoveElement
  <2>2. \A v \in (T \ {z}) \ {y} : f[v] \in Nat
    BY <1>4
  <2> QED
    BY <1>3, <1>4, <1>5, <2>1, <2>2, SumType
<1>11. /\ SumFunctionOnSet(f, T) = f[y] + (f[z] + rest)
       /\ SumFunctionOnSet(f, T \ {z}) = f[y] + rest
  BY <1>5, <1>8, <1>9, Zenon
<1> QED
  <2> HIDE DEF rest
  <2> QED
    BY <1>3, <1>10, <1>11

\* The sum depends on the values at the members only.
LEMMA SumOfSame ==
    ASSUME NEW S, IsFiniteSet(S), NEW f, NEW g, \A x \in S : f[x] = g[x]
    PROVE  SumFunctionOnSet(f, S) = SumFunctionOnSet(g, S)
<1> DEFINE B == {T \in SUBSET S : SumFunctionOnSet(f, T) # SumFunctionOnSet(g, T)}
<1>1. SUFFICES ASSUME B # {} PROVE FALSE
  BY Zenon
<1>2. PICK T \in B : \A U \in B : Cardinality(T) <= Cardinality(U)
  <2>1. \A U \in B : IsFiniteSet(U)
    BY FS_Subset
  <2> HIDE DEF B
  <2> QED
    BY <1>1, <2>1, SmallestSet
<1> DEFINE U == T \ {AnyOf(T)}
<1>3. T \subseteq S /\ IsFiniteSet(T)
  BY FS_Subset
<1>4. /\ SumFunctionOnSet(f, T) = IF T = {} THEN 0 ELSE f[AnyOf(T)] + SumFunctionOnSet(f, U)
      /\ SumFunctionOnSet(g, T) = IF T = {} THEN 0 ELSE g[AnyOf(T)] + SumFunctionOnSet(g, U)
  BY <1>3, SumStep
<1>5. T # {}
  BY <1>4
<1>6. AnyOf(T) \in T /\ IsFiniteSet(U) /\ Cardinality(U) < Cardinality(T) /\ U \subseteq S
  BY <1>3, <1>5, AnyOfMember, WithoutOne
<1>7. Cardinality(U) \in Nat /\ Cardinality(T) \in Nat
  BY <1>3, <1>6, FS_CardinalityType
<1>8. SumFunctionOnSet(f, U) = SumFunctionOnSet(g, U)
  <2>1. U \notin B
    <3> HIDE DEF B, U
    <3> QED
      BY <1>2, <1>6, <1>7
  <2> QED
    BY <1>6, <2>1
<1>9. f[AnyOf(T)] = g[AnyOf(T)]
  BY <1>3, <1>6
<1>10. SumFunctionOnSet(f, T) # SumFunctionOnSet(g, T)
  BY Zenon
<1> QED
  <2> HIDE DEF U, B
  <2> QED
    BY <1>4, <1>8, <1>9, <1>10

\* Members whose value is zero can be left out.
LEMMA SumOfRest ==
    ASSUME NEW S, IsFiniteSet(S), NEW f, \A x \in S : f[x] \in Nat,
           NEW T, T \subseteq S, \A x \in S \ T : f[x] = 0
    PROVE  SumFunctionOnSet(f, S) = SumFunctionOnSet(f, T)
<1> DEFINE Sum(U) == SumFunctionOnSet(f, U)
           B == {U \in SUBSET S : T \subseteq U /\ Sum(U) # Sum(T)}
<1>1. SUFFICES ASSUME B # {} PROVE FALSE
  BY Zenon
<1>2. PICK U \in B : \A V \in B : Cardinality(U) <= Cardinality(V)
  <2>1. \A V \in B : IsFiniteSet(V)
    BY FS_Subset
  <2> HIDE DEF B
  <2> QED
    BY <1>1, <2>1, SmallestSet
<1>3. U \subseteq S /\ T \subseteq U /\ IsFiniteSet(U) /\ U # T /\ Sum(U) # Sum(T)
  BY FS_Subset
<1> HIDE DEF Sum
<1>4. PICK x \in U : x \notin T
  BY <1>3
<1>5. IsFiniteSet(U \ {x}) /\ Cardinality(U \ {x}) < Cardinality(U) /\ f[x] = 0
  BY <1>3, <1>4, WithoutOne
<1>6. Cardinality(U \ {x}) \in Nat /\ Cardinality(U) \in Nat
  BY <1>3, <1>5, FS_CardinalityType
<1>7. Sum(U \ {x}) = Sum(T)
  <2>1. U \ {x} \notin B
    <3> HIDE DEF B
    <3> QED
      BY <1>2, <1>5, <1>6
  <2> QED
    BY <1>3, <1>4, <2>1
<1>8. Sum(U) = f[x] + Sum(U \ {x}) /\ Sum(U \ {x}) \in Nat
  <2>1. \A y \in U \ {x} : f[y] \in Nat
    BY <1>3
  <2> QED
    BY <1>3, <1>4, <1>5, <2>1, SumWithout, SumType DEF Sum
<1> QED
  BY <1>3, <1>5, <1>7, <1>8

\* The sums of two functions that differ at one member.
LEMMA SumChangedAt ==
    ASSUME NEW S, IsFiniteSet(S), NEW f, NEW g,
           \A y \in S : f[y] \in Nat /\ g[y] \in Nat,
           NEW x \in S, \A y \in S \ {x} : f[y] = g[y]
    PROVE  /\ SumFunctionOnSet(f, S) \in Nat /\ SumFunctionOnSet(g, S) \in Nat
           /\ SumFunctionOnSet(g, S) + f[x] = SumFunctionOnSet(f, S) + g[x]
<1>1. IsFiniteSet(S \ {x}) /\ \A y \in S \ {x} : f[y] \in Nat
  BY FS_RemoveElement
<1>2. SumFunctionOnSet(f, S \ {x}) = SumFunctionOnSet(g, S \ {x})
  BY <1>1, SumOfSame
<1>3. SumFunctionOnSet(f, S \ {x}) \in Nat
  BY <1>1, SumType
<1>4. SumFunctionOnSet(f, S) = f[x] + SumFunctionOnSet(f, S \ {x})
  BY SumWithout
<1>5. SumFunctionOnSet(g, S) = g[x] + SumFunctionOnSet(g, S \ {x})
  BY SumWithout
<1>6. SumFunctionOnSet(f, S) \in Nat /\ SumFunctionOnSet(g, S) \in Nat
  BY SumType
<1> QED
  BY <1>2, <1>3, <1>4, <1>5, <1>6

-----------------------------------------------------------------------------
(* SQL consumers and plans.                                                *)

Steps == {"idle", "sampled", "details", "plans", "write"}

\* Every variable keeps its type.
ConsumersType ==
    /\ total \in [Keys -> Nat] /\ recent \subseteq Keys /\ executions \in Nat
    /\ snapshot \in [Keys -> Nat] /\ initialized \in BOOLEAN
    /\ deltas \in [SQLs -> Nat] /\ fresh \in [SQLs -> Nat] /\ credited \in [SQLs -> Nat]
    /\ aged \subseteq SQLs /\ idled \subseteq SQLs /\ unwritten \subseteq Keys
    /\ step \in Steps /\ due \in BOOLEAN /\ consumers \subseteq SQLs
    /\ candidates \subseteq Keys /\ known \subseteq Keys
    /\ plans \in [Keys -> PlanStates] /\ storedPlans \in [Keys -> PlanStates]

\* What the next pass would add for a SQL if it saw all of its cursors.
Pending(s) == SumFunctionOnSet([k \in Keys |-> Delta(k)], CursorsOf(s))

\* Cursors of a SQL that has not been idle are all sampled.
CursorsSeen == \A k \in Keys : total[k] > 0 /\ k.sql \notin idled => k \in recent

\* A counter is below its snapshot only after it has been lost.
CountersGrow == \A k \in Keys : k.sql \notin aged => snapshot[k] <= total[k]

\* What is pending is what has been executed since the snapshot, or less.
PendingExecuted ==
    initialized => \A s \in SQLs \ idled :
        /\ Pending(s) <= fresh[s]
        /\ s \notin aged => Pending(s) = fresh[s]

\* A known plan is stored or on its way.
PlansKept ==
    /\ step # "write" => plans = NoPlans
    /\ \A k \in known \ unwritten : "whole" \in {plans[k], storedPlans[k]}

\* The inductive invariant.
ConsumersInv ==
    /\ ConsumersType
    /\ CursorsSeen
    /\ CountersGrow
    /\ PendingExecuted
    /\ NoManufacturedWorkload
    /\ WorkAttributed
    /\ PlansKept

\* The cursors of a SQL are finitely many.
LEMMA CursorsFinite == ASSUME NEW s PROVE IsFiniteSet(CursorsOf(s)) /\ CursorsOf(s) \subseteq Keys
BY FS_Subset, ConsumersAssumption DEF CursorsOf

\* The difference of two counters is a natural number.
LEMMA DeltaType ==
    ASSUME ConsumersType, NEW k \in Keys
    PROVE  Delta(k) \in Nat /\ (total[k] = 0 => Delta(k) = 0)
BY DEF ConsumersType, Delta, MonotonicDelta

\* So is what is pending.
LEMMA PendingType == ASSUME ConsumersType, NEW s PROVE Pending(s) \in Nat
<1> DEFINE f == [k \in Keys |-> Delta(k)]
<1>1. \A k \in CursorsOf(s) : f[k] \in Nat
  BY CursorsFinite, DeltaType
<1> HIDE DEF f
<1>2. SumFunctionOnSet(f, CursorsOf(s)) \in Nat
  BY <1>1, CursorsFinite, SumType
<1> QED
  BY <1>2 DEF Pending, f

\* recordSQLConsumerDeltas misses nothing of a SQL that has not been idle.
LEMMA NewDeltasPending ==
    ASSUME ConsumersType, CursorsSeen, NEW s \in SQLs \ idled
    PROVE  NewDeltas(s) = Pending(s)
<1> DEFINE f == [k \in Keys |-> Delta(k)]
           S == CursorsOf(s)
           T == SampledCursors \intersect S
<1>1. \A k \in S : f[k] \in Nat
  BY CursorsFinite, DeltaType
<1>2. \A k \in S \ T : f[k] = 0
  <2>1. ASSUME NEW k \in S \ T PROVE Delta(k) = 0
    <3>1. k \in Keys /\ total[k] = 0
      BY DEF CursorsOf, SampledCursors, CursorsSeen, ConsumersType
    <3> QED
      BY <3>1, DeltaType
  <2> QED
    BY <2>1, CursorsFinite
<1>3. IsFiniteSet(S) /\ T \subseteq S
  BY CursorsFinite
<1>4. SumFunctionOnSet(f, S) = SumFunctionOnSet(f, T)
  <2> HIDE DEF f, S, T
  <2> QED
    BY <1>1, <1>2, <1>3, SumOfRest
<1> QED
  BY <1>4 DEF NewDeltas, Pending

\* Nothing is pending when every cursor of the SQL stands at its snapshot.
LEMMA NothingPending ==
    ASSUME NEW s, ConsumersType', \A k \in CursorsOf(s) : Delta(k)' = 0
    PROVE  Pending(s)' = 0
<1> DEFINE f == [k \in Keys |-> Delta(k)']
           S == CursorsOf(s)
<1>1. IsFiniteSet(S) /\ \A k \in S : f[k] \in Nat /\ f[k] = 0
  BY CursorsFinite
<1>2. SumFunctionOnSet(f, S) = SumFunctionOnSet(f, {})
  <2> HIDE DEF f, S
  <2> QED
    BY <1>1, SumOfRest
<1>3. SumFunctionOnSet(f, {}) = 0
  BY FS_EmptySet, SumStep
<1> QED
  BY <1>2, <1>3 DEF Pending, CursorsOf

\* What is pending for a SQL changes with its cursors only, and by as much.
LEMMA PendingChangedAt ==
    ASSUME ConsumersType, ConsumersType', NEW k \in Keys,
           \A l \in Keys \ {k} : Delta(l)' = Delta(l)
    PROVE  /\ Pending(k.sql)' \in Nat
           /\ Pending(k.sql)' + Delta(k) = Pending(k.sql) + Delta(k)'
           /\ \A s \in SQLs \ {k.sql} : Pending(s)' = Pending(s)
<1> DEFINE f == [l \in Keys |-> Delta(l)]
           g == [l \in Keys |-> Delta(l)']
<1>1. \A l \in Keys : f[l] \in Nat /\ g[l] \in Nat
  BY DEF ConsumersType, Delta, MonotonicDelta
<1>2. \A l \in Keys \ {k} : f[l] = g[l]
  OBVIOUS
<1>3. f[k] = Delta(k) /\ g[k] = Delta(k)'
  OBVIOUS
<1>4. \A s : Pending(s) = SumFunctionOnSet(f, CursorsOf(s))
  BY DEF Pending
<1>5. \A s : Pending(s)' = SumFunctionOnSet(g, CursorsOf(s))
  BY DEF Pending, CursorsOf
<1> HIDE DEF f, g
<1>6. k \in CursorsOf(k.sql)
  BY DEF CursorsOf
<1>7. /\ SumFunctionOnSet(g, CursorsOf(k.sql)) \in Nat
      /\ SumFunctionOnSet(g, CursorsOf(k.sql)) + f[k] = SumFunctionOnSet(f, CursorsOf(k.sql)) + g[k]
  <2> DEFINE S == CursorsOf(k.sql)
  <2>1. IsFiniteSet(S) /\ k \in S /\ \A l \in S : f[l] \in Nat /\ g[l] \in Nat
    BY <1>1, <1>6, CursorsFinite
  <2>2. \A l \in S \ {k} : f[l] = g[l]
    BY <1>2, CursorsFinite
  <2> HIDE DEF S
  <2>3. /\ SumFunctionOnSet(g, S) \in Nat
        /\ SumFunctionOnSet(g, S) + f[k] = SumFunctionOnSet(f, S) + g[k]
    BY <2>1, <2>2, SumChangedAt
  <2> QED
    BY <2>3 DEF S
<1>8. ASSUME NEW s \in SQLs \ {k.sql}
      PROVE  SumFunctionOnSet(f, CursorsOf(s)) = SumFunctionOnSet(g, CursorsOf(s))
  <2>1. \A l \in CursorsOf(s) : f[l] = g[l]
    BY <1>2 DEF CursorsOf
  <2> QED
    BY <2>1, CursorsFinite, SumOfSame
<1> QED
  BY <1>3, <1>4, <1>5, <1>7, <1>8

\* What is pending depends on the counters and their snapshot.
LEMMA PendingSame ==
    ASSUME UNCHANGED <<total, snapshot>>
    PROVE  \A s : Pending(s)' = Pending(s)
BY DEF Pending, Delta, MonotonicDelta, CursorsOf

\* The part of the invariant that is about the counters.
WorkInv ==
    /\ CursorsSeen
    /\ CountersGrow
    /\ PendingExecuted
    /\ NoManufacturedWorkload
    /\ WorkAttributed

\* The steps of a pass that take and write SQL details leave the counters alone.
LEMMA WorkUntouched ==
    ASSUME WorkInv, UNCHANGED <<total, recent, snapshot, initialized, fresh, aged, idled>>,
           \/ UNCHANGED <<deltas, credited>>
           \/ deltas' = [s \in SQLs |-> 0] /\ credited' = [s \in SQLs |-> 0]
    PROVE  WorkInv'
<1>1. CursorsSeen' /\ CountersGrow'
  BY DEF WorkInv, CursorsSeen, CountersGrow
<1>2. PendingExecuted'
  BY PendingSame DEF WorkInv, PendingExecuted
<1>3. NoManufacturedWorkload' /\ WorkAttributed'
  BY DEF WorkInv, NoManufacturedWorkload, WorkAttributed
<1> QED
  BY <1>1, <1>2, <1>3 DEF WorkInv

\* The initial states satisfy the inductive invariant.
LEMMA InitConsumersInv == ASSUME InitConsumers PROVE ConsumersInv
<1>1. ConsumersType
  BY DEF InitConsumers, ConsumersType, NoPlans, PlanStates, Steps
<1>2. CursorsSeen /\ CountersGrow /\ PendingExecuted
  BY DEF InitConsumers, CursorsSeen, CountersGrow, PendingExecuted
<1>3. NoManufacturedWorkload /\ WorkAttributed /\ PlansKept
  BY DEF InitConsumers, NoManufacturedWorkload, WorkAttributed, PlansKept
<1> QED
  BY <1>1, <1>2, <1>3 DEF ConsumersInv

\* A cursor executes.
LEMMA ExecuteInv == ASSUME ConsumersInv, NEW k \in Keys, Execute(k) PROVE ConsumersInv'
<1>1. ConsumersType /\ k.sql \in SQLs
  BY DEF ConsumersInv, SQLs
<1>2. ConsumersType'
  BY <1>1 DEF Execute, ConsumersType, counters, details
<1>3. CursorsSeen' /\ CountersGrow'
  BY <1>1 DEF ConsumersInv, ConsumersType, Execute, CursorsSeen, CountersGrow, counters
<1>4. PendingExecuted'
  <2>1. \A l \in Keys \ {k} : Delta(l)' = Delta(l)
    BY <1>1 DEF Execute, ConsumersType, Delta, MonotonicDelta, counters
  <2>2. /\ Delta(k)' <= Delta(k) + 1
        /\ k.sql \notin aged => Delta(k)' = Delta(k) + 1
        /\ Delta(k) \in Nat /\ Delta(k)' \in Nat
    BY <1>1 DEF Execute, ConsumersInv, ConsumersType, CountersGrow, Delta, MonotonicDelta, counters
  <2>3. /\ Pending(k.sql)' \in Nat
        /\ Pending(k.sql)' + Delta(k) = Pending(k.sql) + Delta(k)'
        /\ \A o \in SQLs \ {k.sql} : Pending(o)' = Pending(o)
    BY <1>1, <1>2, <2>1, PendingChangedAt
  <2>4. \A o \in SQLs : Pending(o) \in Nat /\ fresh[o] \in Nat
    BY <1>1, PendingType DEF ConsumersType
  <2>5. /\ fresh'[k.sql] = fresh[k.sql] + 1
        /\ \A o \in SQLs \ {k.sql} : fresh'[o] = fresh[o]
        /\ UNCHANGED <<initialized, idled, aged>>
    BY <1>1 DEF Execute, ConsumersType, counters
  <2>6. PendingExecuted
    BY DEF ConsumersInv
  <2> QED
    BY <1>1, <2>2, <2>3, <2>4, <2>5, <2>6 DEF PendingExecuted
<1>5. NoManufacturedWorkload' /\ WorkAttributed' /\ PlansKept'
  BY DEF Execute, ConsumersInv, NoManufacturedWorkload, WorkAttributed, PlansKept, counters, details
<1> QED
  BY <1>2, <1>3, <1>4, <1>5 DEF ConsumersInv

\* A cursor loses counters.
LEMMA AgesOutInv ==
    ASSUME ConsumersInv, NEW k \in Keys, NEW left \in 0 .. MaxWork, AgesOut(k, left)
    PROVE  ConsumersInv'
<1>1. ConsumersType /\ k.sql \in SQLs
  BY DEF ConsumersInv, SQLs
<1>2. ConsumersType'
  BY <1>1, ConsumersAssumption DEF AgesOut, ConsumersType, counters, details
<1>3. CursorsSeen' /\ CountersGrow'
  BY <1>1 DEF ConsumersInv, ConsumersType, AgesOut, CursorsSeen, CountersGrow, counters
<1>4. PendingExecuted'
  <2>1. \A l \in Keys \ {k} : Delta(l)' = Delta(l)
    BY <1>1 DEF AgesOut, ConsumersType, Delta, MonotonicDelta, counters
  <2>2. Delta(k)' <= Delta(k) /\ Delta(k) \in Nat /\ Delta(k)' \in Nat
    BY <1>1, ConsumersAssumption
       DEF AgesOut, ConsumersType, Delta, MonotonicDelta, counters
  <2>3. /\ Pending(k.sql)' \in Nat
        /\ Pending(k.sql)' + Delta(k) = Pending(k.sql) + Delta(k)'
        /\ \A o \in SQLs \ {k.sql} : Pending(o)' = Pending(o)
    BY <1>1, <1>2, <2>1, PendingChangedAt
  <2>4. \A o \in SQLs : Pending(o) \in Nat /\ fresh[o] \in Nat
    BY <1>1, PendingType DEF ConsumersType
  <2>5. UNCHANGED <<fresh, initialized, idled>> /\ aged' = aged \union {k.sql}
    BY DEF AgesOut, counters
  <2>6. PendingExecuted
    BY DEF ConsumersInv
  <2> QED
    BY <1>1, <2>2, <2>3, <2>4, <2>5, <2>6 DEF PendingExecuted
<1>5. NoManufacturedWorkload' /\ WorkAttributed' /\ PlansKept'
  BY DEF AgesOut, ConsumersInv, NoManufacturedWorkload, WorkAttributed, PlansKept, counters, details
<1> QED
  BY <1>2, <1>3, <1>4, <1>5 DEF ConsumersInv

\* recordSQLConsumerDeltas takes over what is pending and begins anew.
LEMMA RecordDeltasInv == ASSUME ConsumersInv, RecordDeltas PROVE ConsumersInv'
<1>1. ConsumersType /\ CursorsSeen
  BY DEF ConsumersInv
<1> DEFINE f == [k \in Keys |-> Delta(k)]
<1>2. \A s \in SQLs : NewDeltas(s) \in Nat
  <2>1. ASSUME NEW s \in SQLs
        PROVE  SumFunctionOnSet(f, SampledCursors \intersect CursorsOf(s)) \in Nat
    <3> DEFINE T == SampledCursors \intersect CursorsOf(s)
    <3>1. IsFiniteSet(T)
      BY CursorsFinite, FS_Subset
    <3>2. \A k \in T : f[k] \in Nat
      BY <1>1, CursorsFinite, DeltaType
    <3> HIDE DEF f, T
    <3>3. SumFunctionOnSet(f, T) \in Nat
      BY <3>1, <3>2, SumType
    <3> QED
      BY <3>3 DEF T
  <2> QED
    BY <2>1 DEF NewDeltas
<1> HIDE DEF f
<1>3. ConsumersType'
  BY <1>1, <1>2
     DEF RecordDeltas, ConsumersType, sharedPool, details, SampledCursors, Steps
<1>4. CursorsSeen' /\ CountersGrow'
  BY <1>1 DEF ConsumersInv, ConsumersType, RecordDeltas, CursorsSeen, CountersGrow, sharedPool
<1>5. PendingExecuted'
  <2>1. ASSUME NEW s \in SQLs, s \notin idled PROVE Pending(s)' = 0
    <3>1. ASSUME NEW k \in CursorsOf(s) PROVE Delta(k)' = 0
      <4>1. k \in Keys /\ k.sql = s
        BY DEF CursorsOf
      <4>2. total' = total /\ snapshot'[k] = total[k] /\ total[k] \in Nat
        BY <1>1, <2>1, <4>1
           DEF RecordDeltas, ConsumersType, CursorsSeen, SampledCursors, sharedPool
      <4> QED
        BY <4>2 DEF Delta, MonotonicDelta
    <3> QED
      BY <1>3, <3>1, NothingPending
  <2>2. \A s \in SQLs : fresh'[s] = 0 /\ idled' = idled
    BY DEF RecordDeltas
  <2> QED
    BY <2>1, <2>2 DEF PendingExecuted
<1>6. NoManufacturedWorkload' /\ WorkAttributed'
  <2>1. CASE ~initialized
    BY <2>1 DEF RecordDeltas, ConsumersInv, NoManufacturedWorkload, WorkAttributed
  <2>2. CASE initialized
    <3>1. \A s \in SQLs : /\ deltas'[s] = deltas[s] + NewDeltas(s)
                          /\ credited'[s] = credited[s] + fresh[s]
                          /\ deltas[s] \in Nat /\ credited[s] \in Nat /\ fresh[s] \in Nat
      BY <1>1, <2>2 DEF RecordDeltas, ConsumersType
    <3>2. \A s \in SQLs \ idled : NewDeltas(s) = Pending(s)
      BY <1>1, NewDeltasPending
    <3>3. \A s \in SQLs \ idled : /\ NewDeltas(s) <= fresh[s]
                                  /\ s \notin aged => NewDeltas(s) = fresh[s]
      BY <2>2, <3>2 DEF ConsumersInv, PendingExecuted
    <3>4. idled' = idled /\ aged' = aged
      BY DEF RecordDeltas
    <3>5. NoManufacturedWorkload /\ WorkAttributed
      BY DEF ConsumersInv
    <3> QED
      BY <1>2, <3>1, <3>3, <3>4, <3>5 DEF NoManufacturedWorkload, WorkAttributed
  <2> QED
    BY <1>1, <2>1, <2>2 DEF ConsumersType
<1>7. PlansKept'
  BY DEF RecordDeltas, ConsumersInv, PlansKept, details
<1> QED
  BY <1>3, <1>4, <1>5, <1>6, <1>7 DEF ConsumersInv

\* Every action preserves the inductive invariant.
LEMMA StepConsumersInv == ASSUME ConsumersInv, [NextConsumers]_consumerVars PROVE ConsumersInv'
<1> USE DEF sharedPool, counters, ghosts, details
<1>0. /\ ConsumersType /\ WorkInv /\ PlansKept
      /\ ConsumersInv' <=> ConsumersType' /\ WorkInv' /\ PlansKept'
  BY DEF ConsumersInv, WorkInv
<1>1. ASSUME NEW k \in Keys, Idle(k) PROVE ConsumersInv'
  <2>1. ConsumersType' /\ PlansKept'
    BY <1>0, <1>1 DEF Idle, ConsumersType, SQLs, PlansKept
  <2>2. CursorsSeen' /\ CountersGrow' /\ NoManufacturedWorkload' /\ WorkAttributed'
    BY <1>0, <1>1 DEF Idle, WorkInv, CursorsSeen, CountersGrow,
                           NoManufacturedWorkload, WorkAttributed
  <2>3. PendingExecuted'
    <3>1. \A s : Pending(s)' = Pending(s)
      BY <1>1, PendingSame DEF Idle
    <3> QED
      BY <1>0, <1>1, <3>1 DEF Idle, WorkInv, PendingExecuted
  <2> QED
    BY <1>0, <2>1, <2>2, <2>3 DEF WorkInv
<1>2. CASE SQLQueryFails
  BY <1>0, <1>2, WorkUntouched DEF SQLQueryFails, ConsumersType, Steps, PlansKept
<1>3. CASE IntervalPasses
  BY <1>0, <1>3, WorkUntouched DEF IntervalPasses, ConsumersType, PlansKept
<1>4. CASE NotDue
  BY <1>0, <1>4, WorkUntouched DEF NotDue, ConsumersType, Steps, PlansKept
<1>5. ASSUME NEW top \in SUBSET SQLs, TakeTopConsumers(top) PROVE ConsumersInv'
  BY <1>0, <1>5, WorkUntouched DEF TakeTopConsumers, ConsumersType, Steps, PlansKept
<1>6. ASSUME NEW read \in SUBSET Keys, ReadDetails(read) PROVE ConsumersInv'
  BY <1>0, <1>6, WorkUntouched DEF ReadDetails, ConsumersType, Steps, PlansKept
<1>7. ASSUME NEW read \in SUBSET candidates, ReadPlans(read) PROVE ConsumersInv'
  <2>1. WorkInv'
    BY <1>0, <1>7, WorkUntouched DEF ReadPlans
  <2>2. ConsumersType'
    BY <1>0, <1>7 DEF ReadPlans, ConsumersType, Steps, PlanStates
  <2>3. PlansKept'
    BY <1>0, <1>7 DEF ReadPlans, ConsumersType, PlansKept, NoPlans
  <2> QED
    BY <1>0, <2>1, <2>2, <2>3
<1>8. ASSUME NEW whole \in SUBSET candidates, NEW part \in SUBSET candidates,
             PlanQueryFails(whole, part)
      PROVE  ConsumersInv'
  <2>1. WorkInv'
    BY <1>0, <1>8, WorkUntouched DEF PlanQueryFails
  <2>2. ConsumersType'
    BY <1>0, <1>8 DEF PlanQueryFails, ConsumersType, Steps, PlanStates
  <2>3. PlansKept'
    BY <1>0, <1>8 DEF PlanQueryFails, ConsumersType, PlansKept, NoPlans
  <2> QED
    BY <1>0, <2>1, <2>2, <2>3
<1>9. CASE PlansCommitted
  <2>1. WorkInv'
    BY <1>0, <1>9, WorkUntouched DEF PlansCommitted, EndPass
  <2>2. ConsumersType'
    BY <1>0, <1>9 DEF PlansCommitted, EndPass, ConsumersType, Steps, PlanStates, NoPlans
  <2>3. PlansKept'
    BY <1>0, <1>9 DEF PlansCommitted, EndPass, ConsumersType, PlansKept, NoPlans
  <2> QED
    BY <1>0, <2>1, <2>2, <2>3
<1>10. CASE PlansNotWritten
  <2>1. WorkInv'
    BY <1>0, <1>10, WorkUntouched DEF PlansNotWritten, EndPass
  <2>2. ConsumersType'
    BY <1>0, <1>10 DEF PlansNotWritten, EndPass, ConsumersType, Steps, PlanStates, NoPlans
  <2>3. PlansKept'
    BY <1>0, <1>10 DEF PlansNotWritten, EndPass, ConsumersType, PlansKept, NoPlans
  <2> QED
    BY <1>0, <2>1, <2>2, <2>3
<1>11. CASE ScraperRestarts
  <2>1. ConsumersType'
    BY <1>0, <1>11 DEF ScraperRestarts, EndPass, ConsumersType, Steps, PlanStates, NoPlans, SQLs
  <2>2. WorkInv'
    BY <1>0, <1>11 DEF ScraperRestarts, ConsumersType, WorkInv, CursorsSeen, CountersGrow,
                       PendingExecuted, NoManufacturedWorkload, WorkAttributed
  <2>3. PlansKept'
    BY <1>11 DEF ScraperRestarts, EndPass, PlansKept
  <2> QED
    BY <1>0, <2>1, <2>2, <2>3
<1>12. CASE UNCHANGED consumerVars
  BY <1>0, <1>12, WorkUntouched DEF consumerVars, ConsumersType, PlansKept
<1> QED
  BY <1>1, <1>2, <1>3, <1>4, <1>5, <1>6, <1>7, <1>8, <1>9, <1>10, <1>11, <1>12,
     ExecuteInv, AgesOutInv, RecordDeltasInv DEF NextConsumers

\* The inductive invariant holds in every reachable state.
THEOREM ConsumersInvariant == ConsumersSpec => []ConsumersInv
<1>1. InitConsumers => ConsumersInv
  BY InitConsumersInv
<1>2. ConsumersInv /\ [NextConsumers]_consumerVars => ConsumersInv'
  BY StepConsumersInv
<1> QED
  BY <1>1, <1>2, PTL DEF ConsumersSpec

\* recordSQLConsumerDeltas never credits a SQL with more than it has executed.
THEOREM WorkloadNotManufactured == ConsumersSpec => []NoManufacturedWorkload
<1>1. ConsumersInv => NoManufacturedWorkload
  BY DEF ConsumersInv
<1> QED
  BY <1>1, ConsumersInvariant, PTL

\* It credits exactly that while the counters stay in the shared pool.
THEOREM WorkAttributedExactly == ConsumersSpec => []WorkAttributed
<1>1. ConsumersInv => WorkAttributed
  BY DEF ConsumersInv
<1> QED
  BY <1>1, ConsumersInvariant, PTL

\* Every plan in knownPlans is in PostgreSQL between passes.
THEOREM KnownPlansInTable == ConsumersSpec => []KnownPlansStored
<1>1. ConsumersInv => KnownPlansStored
  BY DEF ConsumersInv, ConsumersType, PlansKept, NoPlans, KnownPlansStored
<1> QED
  BY <1>1, ConsumersInvariant, PTL
=============================================================================
