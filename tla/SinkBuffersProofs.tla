-------------------------- MODULE SinkBuffersProofs --------------------------
(***************************************************************************)
(* Theorems about SinkBuffers, for any number of writers, any size of the  *)
(* telemetry buffer and any number of samples and rows.                    *)
(***************************************************************************)
EXTENDS SinkBuffers, SequenceTheorems, FiniteSetTheorems, WellFoundedInduction, TLAPS

-----------------------------------------------------------------------------
(* Sequences as sets.                                                      *)

\* No element occurs twice in a queue.
NoRepeat(queue) == \A i, j \in 1 .. Len(queue) : queue[i] = queue[j] => i = j

\* An element of a queue has a position in it.
LEMMA InToSet ==
    ASSUME NEW S, NEW queue \in Seq(S), NEW x
    PROVE  x \in ToSet(queue) <=> \E i \in 1 .. Len(queue) : queue[i] = x
BY LenProperties DEF ToSet

\* The elements of a queue are those of its type.
LEMMA ToSetType ==
    ASSUME NEW S, NEW queue \in Seq(S)
    PROVE  ToSet(queue) \subseteq S
BY InToSet, ElementOfSeq

\* The empty queue.
LEMMA EmptyQueue == ToSet(<<>>) = {} /\ NoRepeat(<<>>)
BY DEF ToSet, NoRepeat

\* queueRuntime adds one element at the end.
LEMMA AppendedQueue ==
    ASSUME NEW S, NEW queue \in Seq(S), NEW e \in S
    PROVE  /\ Append(queue, e) \in Seq(S)
           /\ ToSet(Append(queue, e)) = ToSet(queue) \union {e}
           /\ NoRepeat(queue) /\ e \notin ToSet(queue) => NoRepeat(Append(queue, e))
<1> DEFINE q == Append(queue, e)
<1>1. /\ q \in Seq(S) /\ Len(q) = Len(queue) + 1 /\ Len(queue) \in Nat
      /\ \A i \in 1 .. Len(queue) : q[i] = queue[i]
      /\ q[Len(queue) + 1] = e
  BY AppendProperties, LenProperties
<1> HIDE DEF q
<1>2. \A x : x \in ToSet(q) <=> x \in ToSet(queue) \union {e}
  <2> TAKE x
  <2>1. x \in ToSet(q) <=> \E i \in 1 .. Len(queue) + 1 : q[i] = x
    BY <1>1, InToSet
  <2>2. x \in ToSet(queue) <=> \E i \in 1 .. Len(queue) : queue[i] = x
    BY InToSet
  <2> QED
    BY <1>1, <2>1, <2>2
<1>3. ASSUME NoRepeat(queue), e \notin ToSet(queue) PROVE NoRepeat(q)
  <2>1. \A i \in 1 .. Len(queue) : queue[i] # e
    BY <1>3, InToSet
  <2> QED
    BY <1>1, <1>3, <2>1 DEF NoRepeat
<1> QED
  BY <1>1, <1>2, <1>3 DEF q

\* requeueRuntime puts a batch in front.
LEMMA JoinedQueues ==
    ASSUME NEW S, NEW front \in Seq(S), NEW queue \in Seq(S)
    PROVE  /\ front \o queue \in Seq(S)
           /\ ToSet(front \o queue) = ToSet(front) \union ToSet(queue)
           /\ /\ NoRepeat(front) /\ NoRepeat(queue)
              /\ ToSet(front) \intersect ToSet(queue) = {}
              => NoRepeat(front \o queue)
<1> DEFINE q == front \o queue
<1>1. /\ q \in Seq(S) /\ Len(q) = Len(front) + Len(queue)
      /\ Len(front) \in Nat /\ Len(queue) \in Nat
      /\ \A i \in 1 .. Len(front) : q[i] = front[i]
      /\ \A i \in 1 .. Len(queue) : q[Len(front) + i] = queue[i]
      /\ \A i \in Len(front) + 1 .. Len(q) : q[i] = queue[i - Len(front)]
  BY ConcatProperties, LenProperties
<1> HIDE DEF q
<1>2. \A x : x \in ToSet(q) <=> x \in ToSet(front) \union ToSet(queue)
  <2> TAKE x
  <2>1. /\ x \in ToSet(q) <=> \E i \in 1 .. Len(q) : q[i] = x
        /\ x \in ToSet(front) <=> \E i \in 1 .. Len(front) : front[i] = x
        /\ x \in ToSet(queue) <=> \E i \in 1 .. Len(queue) : queue[i] = x
    <3>1. q \in Seq(S)
      BY <1>1
    <3> QED
      BY <3>1, InToSet, Zenon
  <2>2. ASSUME NEW i \in 1 .. Len(q), q[i] = x PROVE x \in ToSet(front) \union ToSet(queue)
    <3>1. CASE i <= Len(front)
      BY <1>1, <2>1, <2>2, <3>1
    <3>2. CASE i > Len(front)
      <4>1. i - Len(front) \in 1 .. Len(queue) /\ queue[i - Len(front)] = x
        BY <1>1, <2>2, <3>2
      <4> QED
        BY <2>1, <4>1
    <3> QED
      BY <1>1, <3>1, <3>2
  <2>3. ASSUME NEW i \in 1 .. Len(front), front[i] = x PROVE x \in ToSet(q)
    BY <1>1, <2>1, <2>3
  <2>4. ASSUME NEW i \in 1 .. Len(queue), queue[i] = x PROVE x \in ToSet(q)
    <3>1. Len(front) + i \in 1 .. Len(q)
      BY <1>1
    <3> QED
      BY <1>1, <2>1, <2>4, <3>1
  <2> QED
    BY <2>1, <2>2, <2>3, <2>4
<1>3. ASSUME NoRepeat(front), NoRepeat(queue), ToSet(front) \intersect ToSet(queue) = {},
             NEW i \in 1 .. Len(q), NEW j \in 1 .. Len(q), q[i] = q[j]
      PROVE  i = j
  <2>1. /\ \A n \in 1 .. Len(front) : front[n] \in ToSet(front)
        /\ \A n \in 1 .. Len(queue) : queue[n] \in ToSet(queue)
    BY InToSet
  <2>2. CASE i <= Len(front) /\ j <= Len(front)
    BY <1>1, <1>3, <2>2 DEF NoRepeat
  <2>3. CASE i > Len(front) /\ j > Len(front)
    <3>1. i - Len(front) \in 1 .. Len(queue) /\ j - Len(front) \in 1 .. Len(queue)
      BY <1>1, <2>3
    <3>2. i - Len(front) = j - Len(front)
      BY <1>1, <1>3, <2>3, <3>1 DEF NoRepeat
    <3> QED
      BY <1>1, <3>2
  <2>4. CASE i <= Len(front) /\ j > Len(front)
    <3>1. i \in 1 .. Len(front) /\ j - Len(front) \in 1 .. Len(queue)
      BY <1>1, <2>4
    <3>2. q[i] = front[i] /\ q[j] = queue[j - Len(front)]
      BY <1>1, <2>4, <3>1
    <3>3. q[i] \in ToSet(front) /\ q[j] \in ToSet(queue)
      BY <2>1, <3>1, <3>2
    <3> QED
      BY <1>3, <3>3
  <2>5. CASE i > Len(front) /\ j <= Len(front)
    <3>1. j \in 1 .. Len(front) /\ i - Len(front) \in 1 .. Len(queue)
      BY <1>1, <2>5
    <3>2. q[j] = front[j] /\ q[i] = queue[i - Len(front)]
      BY <1>1, <2>5, <3>1
    <3>3. q[j] \in ToSet(front) /\ q[i] \in ToSet(queue)
      BY <2>1, <3>1, <3>2
    <3> QED
      BY <1>3, <3>3
  <2> QED
    BY <1>1, <2>2, <2>3, <2>4, <2>5
<1>4. /\ NoRepeat(front) /\ NoRepeat(queue)
      /\ ToSet(front) \intersect ToSet(queue) = {}
      => NoRepeat(q)
  BY <1>3 DEF NoRepeat
<1> QED
  BY <1>1, <1>2, <1>4 DEF q

\* A buffer that is cut keeps its end, at most MaxPending samples, and what is
\* cut off is reported as dropped.
LEMMA CutQueue ==
    ASSUME NEW S, NEW queue \in Seq(S)
    PROVE  /\ Kept(queue) \in Seq(S)
           /\ Len(Kept(queue)) <= MaxPending
           /\ Cut(queue) # {} => Len(Kept(queue)) = MaxPending
           /\ queue # <<>> => queue[Len(queue)] \in ToSet(Kept(queue))
           /\ ToSet(Kept(queue)) \union Cut(queue) = ToSet(queue)
           /\ NoRepeat(queue) => /\ NoRepeat(Kept(queue))
                                 /\ ToSet(Kept(queue)) \intersect Cut(queue) = {}
<1> DEFINE n == Overflow(queue)
           k == SubSeq(queue, n + 1, Len(queue))
           c == SubSeq(queue, 1, n)
<1>1. /\ Len(queue) \in Nat /\ n \in Nat /\ n <= Len(queue)
      /\ Len(queue) - n <= MaxPending
      /\ n # 0 => Len(queue) - n = MaxPending
      /\ queue # <<>> => Len(queue) - n > 0
  BY LenProperties, EmptySeq, SinkAssumption DEF Overflow
<1> HIDE DEF n
<1>2. \A i \in 1 .. Len(queue) : queue[i] \in S
  BY ElementOfSeq
<1>3. /\ k \in Seq(S) /\ Len(k) = Len(queue) - n
      /\ \A i \in 1 .. Len(queue) - n : k[i] = queue[n + i]
  <2>1. /\ k \in Seq(S)
        /\ Len(k) = IF n + 1 <= Len(queue) THEN Len(queue) - (n + 1) + 1 ELSE 0
        /\ \A i \in 1 .. Len(queue) - (n + 1) + 1 : k[i] = queue[n + 1 + i - 1]
    BY <1>1, <1>2, SubSeqProperties
  <2> HIDE DEF k
  <2>2. \A i \in 1 .. Len(queue) - n : n + 1 + i - 1 = n + i
    BY <1>1
  <2>3. Len(queue) - (n + 1) + 1 = Len(queue) - n
    BY <1>1
  <2>4. Len(k) = Len(queue) - n
    BY <1>1, <2>1
  <2>5. ASSUME NEW i \in 1 .. Len(queue) - n PROVE k[i] = queue[n + i]
    BY <2>1, <2>2, <2>3, Zenon
  <2> QED
    BY <2>1, <2>4, <2>5
<1>4. /\ c \in Seq(S) /\ Len(c) = n
      /\ \A i \in 1 .. n : c[i] = queue[i]
  <2>1. /\ c \in Seq(S)
        /\ Len(c) = IF 1 <= n THEN n - 1 + 1 ELSE 0
        /\ \A i \in 1 .. n - 1 + 1 : c[i] = queue[1 + i - 1]
    <3>1. \A i \in 1 .. n : queue[i] \in S
      BY <1>1, <1>2
    <3> QED
      BY <1>1, <3>1, SubSeqProperties
  <2> HIDE DEF c
  <2>2. \A i \in 1 .. n : 1 + i - 1 = i
    BY <1>1
  <2> QED
    BY <1>1, <2>1, <2>2
<1>5. Kept(queue) = k /\ Cut(queue) = ToSet(c)
  BY DEF Kept, Cut, n
<1> HIDE DEF k, c
<1>6. \A x : /\ x \in ToSet(k) <=> \E i \in 1 .. Len(queue) - n : k[i] = x
             /\ x \in ToSet(c) <=> \E i \in 1 .. n : c[i] = x
             /\ x \in ToSet(queue) <=> \E i \in 1 .. Len(queue) : queue[i] = x
  BY <1>3, <1>4, InToSet
<1>7. ASSUME NEW x PROVE x \in ToSet(k) \union ToSet(c) <=> x \in ToSet(queue)
  <2>1. ASSUME x \in ToSet(k) PROVE x \in ToSet(queue)
    <3>1. PICK i \in 1 .. Len(queue) - n : k[i] = x
      BY <1>6, <2>1
    <3>2. n + i \in 1 .. Len(queue) /\ queue[n + i] = x
      BY <1>1, <1>3, <3>1
    <3> QED
      BY <1>6, <3>2
  <2>2. ASSUME x \in ToSet(c) PROVE x \in ToSet(queue)
    BY <1>1, <1>4, <1>6, <2>2
  <2>3. ASSUME NEW i \in 1 .. Len(queue), queue[i] = x PROVE x \in ToSet(k) \union ToSet(c)
    <3>1. CASE i <= n
      BY <1>1, <1>4, <1>6, <2>3, <3>1
    <3>2. CASE i > n
      <4>1. i - n \in 1 .. Len(queue) - n /\ n + (i - n) = i
        BY <1>1, <3>2
      <4>2. k[i - n] = x
        BY <1>3, <2>3, <4>1
      <4> QED
        BY <1>6, <4>1, <4>2
    <3> QED
      BY <1>1, <3>1, <3>2
  <2> QED
    BY <1>6, <2>1, <2>2, <2>3
<1>8. ASSUME NoRepeat(queue) PROVE NoRepeat(k) /\ ToSet(k) \intersect ToSet(c) = {}
  <2>1. ASSUME NEW i \in 1 .. Len(k), NEW j \in 1 .. Len(k), k[i] = k[j] PROVE i = j
    <3>1. /\ n + i \in 1 .. Len(queue) /\ n + j \in 1 .. Len(queue)
          /\ queue[n + i] = queue[n + j]
      BY <1>1, <1>3, <2>1
    <3>2. n + i = n + j
      BY <1>8, <3>1 DEF NoRepeat
    <3> QED
      BY <1>1, <3>2
  <2>2. ASSUME NEW i \in 1 .. Len(queue) - n, NEW j \in 1 .. n, k[i] = c[j] PROVE FALSE
    <3>1. /\ n + i \in 1 .. Len(queue) /\ j \in 1 .. Len(queue)
          /\ queue[n + i] = queue[j]
      BY <1>1, <1>3, <1>4, <2>2
    <3>2. n + i = j
      BY <1>8, <3>1 DEF NoRepeat
    <3> QED
      BY <1>1, <3>2
  <2> QED
    BY <1>6, <2>1, <2>2 DEF NoRepeat
<1>9. ToSet(c) # {} => Len(k) = MaxPending
  BY <1>1, <1>3, <1>6
<1>10. ASSUME queue # <<>> PROVE queue[Len(queue)] \in ToSet(k)
  <2>1. Len(queue) - n \in 1 .. Len(queue) - n /\ n + (Len(queue) - n) = Len(queue)
    BY <1>1, <1>10
  <2>2. k[Len(queue) - n] = queue[Len(queue)]
    BY <1>3, <2>1
  <2> QED
    BY <1>6, <2>1, <2>2
<1> QED
  BY <1>1, <1>3, <1>5, <1>7, <1>8, <1>9, <1>10

-----------------------------------------------------------------------------
(* The newest sample.                                                      *)

Earlier == {ss \in Nat \X Nat : ss[1] < ss[2]}

\* Times do not decrease for ever.
LEMMA EarlierWellFounded == IsWellFoundedOn(Earlier, Nat)
BY NatLessThanWellFounded DEF OpToRel, Earlier

\* A non-empty set of observation times has a largest member.
LEMMA LatestTime ==
    ASSUME NEW T, T \subseteq 1 .. MaxSamples, T # {}
    PROVE  \E t \in T : \A u \in T : u <= t
<1> DEFINE D == {n \in Nat : \E t \in T : n = MaxSamples - t}
<1>1. \A u \in T : u \in Int /\ MaxSamples - u \in D
  BY SinkAssumption
<1>2. D \subseteq Nat /\ D # {}
  BY <1>1
<1>3. PICK x \in D : \A y \in D : ~(<<y, x>> \in Earlier)
  <2> HIDE DEF D
  <2> QED
    BY <1>2, EarlierWellFounded, WFMin
<1>4. \A y \in D : x <= y
  <2> HIDE DEF D
  <2>1. \A a, b \in Nat : a < b => <<a, b>> \in Earlier
    BY Zenon DEF Earlier
  <2>2. \A y \in D : x \in Nat /\ y \in Nat /\ ~(y < x)
    BY <1>2, <1>3, <2>1
  <2> QED
    BY <2>2
<1>5. PICK t \in T : x = MaxSamples - t
  OBVIOUS
<1>6. \A u \in T : u <= t
  <2> HIDE DEF D
  <2> QED
    BY <1>1, <1>4, <1>5, SinkAssumption
<1> QED
  BY <1>6

\* Newest is 0 without a sample of the scheduler, and else its latest time.
LEMMA NewestCorrect ==
    ASSUME NEW X \in SUBSET Samples, NEW w \in Writers
    PROVE  /\ Newest(X, w) \in 0 .. MaxSamples
           /\ \A s \in X : s.scheduler = w => s.observed <= Newest(X, w)
           /\ Newest(X, w) # 0 => \E s \in X : s.scheduler = w /\ s.observed = Newest(X, w)
<1> DEFINE T == {s.observed : s \in {x \in X : x.scheduler = w}}
<1>1. T \subseteq 1 .. MaxSamples /\ \A t \in T : \E s \in X : s.scheduler = w /\ s.observed = t
  BY DEF Samples
<1>2. \A s \in X : s.scheduler = w => s.observed \in T
  OBVIOUS
<1>3. Newest(X, w) = IF T = {} THEN 0 ELSE CHOOSE t \in T : \A u \in T : u <= t
  BY DEF Newest
<1> HIDE DEF T
<1>4. CASE T = {}
  BY <1>2, <1>3, <1>4, SinkAssumption
<1>5. CASE T # {}
  <2>1. Newest(X, w) \in T /\ \A u \in T : u <= Newest(X, w)
    BY <1>1, <1>3, <1>5, LatestTime
  <2>2. Newest(X, w) \in 1 .. MaxSamples
    BY <1>1, <2>1
  <2>3. Newest(X, w) \in 0 .. MaxSamples
    BY <2>2, SinkAssumption
  <2>4. \A s \in X : s.scheduler = w => s.observed <= Newest(X, w)
    BY <1>2, <2>1
  <2>5. \E s \in X : s.scheduler = w /\ s.observed = Newest(X, w)
    BY <1>1, <2>1
  <2> QED
    BY <2>3, <2>4, <2>5
<1> QED
  BY <1>4, <1>5

\* The newest of two sets is the newer of both.
LEMMA NewestOfBoth ==
    ASSUME NEW X \in SUBSET Samples, NEW Y \in SUBSET Samples, NEW w \in Writers
    PROVE  Newest(X \union Y, w) =
               IF Newest(Y, w) > Newest(X, w) THEN Newest(Y, w) ELSE Newest(X, w)
<1> DEFINE Z == X \union Y
<1>1. Z \in SUBSET Samples /\ \A s \in Z : s \in X \/ s \in Y
  OBVIOUS
<1>2. /\ Newest(X, w) \in Nat /\ Newest(Y, w) \in Nat /\ Newest(Z, w) \in Nat
      /\ \A s \in Samples : s.observed \in Nat \ {0}
  <2> HIDE DEF Z
  <2> QED
    BY <1>1, NewestCorrect, SinkAssumption DEF Samples
<1>3. /\ Newest(X, w) <= Newest(Z, w)
      /\ Newest(Y, w) <= Newest(Z, w)
  BY <1>1, <1>2, NewestCorrect
<1>4. Newest(Z, w) # 0 => Newest(Z, w) <= Newest(X, w) \/ Newest(Z, w) <= Newest(Y, w)
  <2> SUFFICES ASSUME Newest(Z, w) # 0
               PROVE  Newest(Z, w) <= Newest(X, w) \/ Newest(Z, w) <= Newest(Y, w)
    OBVIOUS
  <2>1. PICK s \in Z : s.scheduler = w /\ s.observed = Newest(Z, w)
    BY <1>1, NewestCorrect
  <2> QED
    BY <2>1, NewestCorrect
<1> QED
  BY <1>2, <1>3, <1>4

-----------------------------------------------------------------------------
(* The inductive invariant.                                                *)

TypeOK ==
    /\ mode \in {"open", "closing", "closed"}
    /\ pc \in [Writers -> WriteSteps]
    /\ closer \in CloseSteps
    /\ pendingRuntime \in Seq(Samples)
    /\ taken \in [Writers -> Seq(Samples)]
    /\ closerTaken \in Seq(Samples)
    /\ recorded \in 0 .. MaxSamples
    /\ stored \in SUBSET Samples
    /\ duplicated \in SUBSET Samples
    /\ latest \in [Writers -> 0 .. MaxSamples]
    /\ dropped \in SUBSET Samples
    /\ pendingIngest \in Nat
    /\ flusher \in Writers \union {Nobody, "closer"}
    /\ inFlush \in Nat
    /\ ingestTable \in Nat
    /\ committed \in Nat
    /\ unheard \in Nat
    /\ overlap \in BOOLEAN
    /\ closeFailed \in BOOLEAN

\* Telemetry is taken out of the buffer only for the time of a transaction.
Holding ==
    /\ \A w \in Writers : pc[w] \notin {"writing", "failed"} => taken[w] = <<>>
    /\ closer # "writing" => closerTaken = <<>>

\* Nothing is older than the clock of the samples.
Recorded == \A s \in InMemory \union stored \union dropped : s.observed <= recorded

\* A sample in memory is in one place there, and none that was dropped.
OneHolder ==
    /\ NoRepeat(pendingRuntime) /\ NoRepeat(closerTaken)
    /\ \A w \in Writers : NoRepeat(taken[w])
    /\ ToSet(pendingRuntime) \intersect (ToSet(closerTaken) \union dropped) = {}
    /\ ToSet(closerTaken) \intersect dropped = {}
    /\ \A w \in Writers :
         ToSet(taken[w]) \intersect (ToSet(pendingRuntime) \union ToSet(closerTaken)
                                       \union dropped) = {}
    /\ \A v, w \in Writers : v # w => ToSet(taken[v]) \intersect ToSet(taken[w]) = {}

\* As long as the outcome of a commit is known, what is stored is nowhere else.
StoredApart ==
    unheard = 0 =>
        /\ stored \intersect (ToSet(pendingRuntime) \union ToSet(closerTaken)
                                \union dropped) = {}
        /\ \A w \in Writers : stored \intersect ToSet(taken[w]) = {}
        /\ duplicated = {}

OnePlace == OneHolder /\ StoredApart

\* ingestFlushMu protects the rows of a flush.
FlushOwned ==
    /\ flusher = Nobody => inFlush = 0
    /\ \A w \in Writers : pc[w] = "flushing" => flusher = w
    /\ closer = "flushing" => flusher = "closer"

\* How far sink.Close() has got, and what it leaves behind if nobody disturbs it.
Closing ==
    /\ mode = "closing" <=> closer # "none"
    /\ mode # "open" /\ ~overlap => \A w \in Writers : pc[w] = "idle"
    /\ mode # "open" /\ ~overlap /\ ~closeFailed =>
         /\ closer # "flushRuntime" => pendingRuntime = <<>>
         /\ closer \in {"flushing", "pool", "none"} => pendingIngest = 0

RuntimeInv ==
    Holding /\ Recorded /\ OnePlace /\ NoSampleLost /\ LatestIsNewest /\ BufferBounded
IngestInv == FlushOwned /\ RowsAccounted
IInv == TypeOK /\ RuntimeInv /\ IngestInv /\ Closing

-----------------------------------------------------------------------------
(* What writing and buffering do.                                          *)

\* writeRuntimeSamples keeps the latest statuses right.
LEMMA WritesLatest ==
    ASSUME TypeOK, LatestIsNewest, NEW batch \in Seq(Samples), WriteRuntimeSamples(batch)
    PROVE  /\ stored' = stored \union ToSet(batch)
           /\ duplicated' = duplicated \union (stored \intersect ToSet(batch))
           /\ stored' \in SUBSET Samples /\ duplicated' \in SUBSET Samples
           /\ latest' \in [Writers -> 0 .. MaxSamples]
           /\ LatestIsNewest'
<1>1. ToSet(batch) \in SUBSET Samples
  BY ToSetType
<1>2. /\ stored' = stored \union ToSet(batch)
      /\ duplicated' = duplicated \union (stored \intersect ToSet(batch))
      /\ stored' \in SUBSET Samples /\ duplicated' \in SUBSET Samples
  BY <1>1 DEF WriteRuntimeSamples, TypeOK
<1>3. ASSUME NEW w \in Writers
      PROVE  latest'[w] = Newest(stored', w) /\ latest'[w] \in 0 .. MaxSamples
  <2>1. latest'[w] = IF Newest(ToSet(batch), w) > latest[w] THEN Newest(ToSet(batch), w)
                                                            ELSE latest[w]
    BY DEF WriteRuntimeSamples, NewestInBatch
  <2>2. latest[w] = Newest(stored, w) /\ stored \in SUBSET Samples
    BY DEF LatestIsNewest, TypeOK
  <2>3. latest'[w] = Newest(stored', w)
    BY <1>1, <1>2, <2>1, <2>2, NewestOfBoth
  <2> QED
    BY <1>2, <2>3, NewestCorrect
<1>4. latest' \in [Writers -> 0 .. MaxSamples]
  BY <1>3 DEF WriteRuntimeSamples
<1> QED
  BY <1>2, <1>3, <1>4 DEF LatestIsNewest

\* The buffer is cut; what it held is in it or dropped, and in one of them only.
LEMMA Buffers ==
    ASSUME TypeOK, NEW queue \in Seq(Samples), Buffer(queue)
    PROVE  /\ pendingRuntime' \in Seq(Samples)
           /\ dropped' \in SUBSET Samples
           /\ BufferBounded'
           /\ ToSet(pendingRuntime') \union Cut(queue) = ToSet(queue)
           /\ dropped' = dropped \union Cut(queue)
           /\ NoRepeat(queue) => /\ NoRepeat(pendingRuntime')
                                 /\ ToSet(pendingRuntime') \intersect Cut(queue) = {}
<1>1. pendingRuntime' = Kept(queue) /\ dropped' = dropped \union Cut(queue)
  BY DEF Buffer
<1>2. Cut(queue) \subseteq Samples
  BY CutQueue, ToSetType
<1> QED
  BY <1>1, <1>2, CutQueue DEF BufferBounded, TypeOK

\* What is in memory, place by place.
LEMMA InMemoryIs ==
    ASSUME NEW x
    PROVE  x \in InMemory <=> \/ x \in ToSet(pendingRuntime)
                              \/ x \in ToSet(closerTaken)
                              \/ \E w \in Writers : x \in ToSet(taken[w])
BY DEF InMemory

-----------------------------------------------------------------------------
\* The initial states satisfy the inductive invariant.
LEMMA InitIInv == ASSUME Init PROVE IInv
<1> USE SinkAssumption DEF Init
<1>1. TypeOK
  <2>1. <<>> \in Seq(Samples)
    BY EmptySeq
  <2>2. taken \in [Writers -> Seq(Samples)] /\ latest \in [Writers -> 0 .. MaxSamples]
    BY <2>1
  <2>3. /\ pc \in [Writers -> WriteSteps]
        /\ overlap \in BOOLEAN /\ closeFailed \in BOOLEAN
    BY DEF WriteSteps
  <2>4. recorded \in 0 .. MaxSamples
    OBVIOUS
  <2> QED
    BY <2>1, <2>2, <2>3, <2>4 DEF TypeOK, CloseSteps
<1>2. Holding /\ OnePlace /\ BufferBounded
  BY EmptyQueue, EmptySeq DEF Holding, OnePlace, OneHolder, StoredApart, BufferBounded
<1>3. Recorded /\ NoSampleLost
  BY EmptyQueue, InMemoryIs DEF Recorded, NoSampleLost
<1>4. LatestIsNewest
  BY DEF LatestIsNewest, Newest
<1>5. FlushOwned /\ RowsAccounted
  <2>1. {w \in Writers : pc[w] = "committed"} = {}
    OBVIOUS
  <2> QED
    BY <2>1, FS_EmptySet DEF FlushOwned, RowsAccounted, Uncounted
<1>6. Closing
  BY DEF Closing
<1> QED
  BY <1>1, <1>2, <1>3, <1>4, <1>5, <1>6 DEF IInv, RuntimeInv, IngestInv

\* Every action keeps the types.
LEMMA TypeStep == ASSUME TypeOK, LatestIsNewest, [Next]_vars PROVE TypeOK'
<1> USE SinkAssumption DEF WriteSteps, CloseSteps, runtimeVars, ingestVars, closeVars
<1>0. <<>> \in Seq(Samples)
  BY EmptySeq
<1>1. ASSUME NEW w \in Writers, TakeRuntime(w) PROVE TypeOK'
  <2>1. overlap' \in BOOLEAN /\ pc' \in [Writers -> WriteSteps]
    BY <1>1 DEF TypeOK, TakeRuntime
  <2>2. pendingRuntime' \in Seq(Samples) /\ taken' \in [Writers -> Seq(Samples)]
    <3>1. pendingRuntime \in Seq(Samples) /\ taken \in [Writers -> Seq(Samples)]
      BY DEF TypeOK
    <3>2. \/ taken' = [taken EXCEPT ![w] = pendingRuntime] /\ pendingRuntime' = <<>>
          \/ taken' = taken /\ pendingRuntime' = pendingRuntime
      BY <1>1 DEF TakeRuntime
    <3> QED
      BY <1>0, <3>1, <3>2
  <2> QED
    BY <1>1, <2>1, <2>2 DEF TypeOK, TakeRuntime
<1>2. ASSUME NEW w \in Writers, WriteFails(w) PROVE TypeOK'
  BY <1>2 DEF TypeOK, WriteFails
<1>3. ASSUME NEW w \in Writers, WriteCommits(w) PROVE TypeOK'
  <2>1. taken[w] \in Seq(Samples) /\ WriteRuntimeSamples(taken[w])
    BY <1>3 DEF TypeOK, WriteCommits
  <2>2. /\ stored' \in SUBSET Samples /\ duplicated' \in SUBSET Samples
        /\ latest' \in [Writers -> 0 .. MaxSamples]
    BY <2>1, WritesLatest
  <2> QED
    <3>1. /\ taken' \in [Writers -> Seq(Samples)] /\ pc' \in [Writers -> WriteSteps]
          /\ committed' \in Nat
      BY <1>0, <1>3 DEF TypeOK, WriteCommits
    <3> QED
      BY <1>3, <2>2, <3>1 DEF TypeOK, WriteCommits
<1>4. ASSUME NEW w \in Writers, WriteOutcomeUnknown(w) PROVE TypeOK'
  <2>1. taken[w] \in Seq(Samples) /\ WriteRuntimeSamples(taken[w])
    BY <1>4 DEF TypeOK, WriteOutcomeUnknown
  <2>2. /\ stored' \in SUBSET Samples /\ duplicated' \in SUBSET Samples
        /\ latest' \in [Writers -> 0 .. MaxSamples]
    BY <2>1, WritesLatest
  <2> QED
    <3>1. pc' \in [Writers -> WriteSteps] /\ committed' \in Nat /\ unheard' \in Nat
      BY <1>4 DEF TypeOK, WriteOutcomeUnknown, Unheard
    <3> QED
      BY <1>4, <2>2, <3>1 DEF TypeOK, WriteOutcomeUnknown
<1>5. ASSUME NEW w \in Writers, Requeue(w) PROVE TypeOK'
  <2> DEFINE queue == RequeueRuntime(pendingRuntime, taken[w])
  <2>1. queue \in Seq(Samples)
    BY JoinedQueues DEF TypeOK, RequeueRuntime
  <2>2. pendingRuntime' \in Seq(Samples) /\ dropped' \in SUBSET Samples
    BY <1>5, <2>1, Buffers DEF Requeue
  <2> QED
    BY <1>0, <1>5, <2>2 DEF TypeOK, Requeue
<1>6. ASSUME NEW w \in Writers, RecordRuntimeResult(w) PROVE TypeOK'
  <2> DEFINE s == [scheduler |-> w, observed |-> recorded + 1]
             queue == QueueRuntime(pendingRuntime, s)
  <2>1. s \in Samples
    BY <1>6 DEF TypeOK, Samples, RecordRuntimeResult
  <2>2. queue \in Seq(Samples)
    BY <2>1, AppendedQueue DEF TypeOK, QueueRuntime
  <2>3. pendingRuntime' \in Seq(Samples) /\ dropped' \in SUBSET Samples
    BY <1>6, <2>2, Buffers DEF RecordRuntimeResult
  <2> QED
    BY <1>6, <2>3 DEF TypeOK, RecordRuntimeResult
<1>7. ASSUME NEW w \in Writers, NoRuntimeResult(w) PROVE TypeOK'
  BY <1>7 DEF TypeOK, NoRuntimeResult
<1>8. ASSUME NEW w \in Writers, RecordIngest(w) PROVE TypeOK'
  BY <1>8 DEF TypeOK, RecordIngest
<1>9. ASSUME NEW w \in Writers, FlushNotDue(w) PROVE TypeOK'
  BY <1>9 DEF TypeOK, FlushNotDue
<1>10. ASSUME NEW w \in Writers, FlushBegins(w) PROVE TypeOK'
  BY <1>10 DEF TypeOK, FlushBegins, TakeIngest
<1>11. ASSUME NEW w \in Writers, FlushEnds(w) PROVE TypeOK'
  <2>1. /\ pendingIngest' \in Nat /\ inFlush' \in Nat /\ ingestTable' \in Nat
        /\ unheard' \in Nat /\ flusher' \in Writers \union {Nobody, "closer"}
    <3>1. /\ pendingIngest + inFlush \in Nat /\ ingestTable + inFlush \in Nat
          /\ unheard + 1 \in Nat
      BY DEF TypeOK
    <3>2. CASE IngestWritten /\ UNCHANGED unheard
      BY <3>1, <3>2 DEF TypeOK, IngestWritten
    <3>3. CASE IngestPutBack /\ UNCHANGED unheard
      BY <3>1, <3>3 DEF TypeOK, IngestPutBack
    <3>4. CASE IngestOutcomeUnknown
      BY <3>1, <3>4 DEF TypeOK, IngestOutcomeUnknown, Unheard
    <3> QED
      BY <1>11, <3>2, <3>3, <3>4 DEF FlushEnds
  <2> QED
    BY <1>11, <2>1 DEF TypeOK, FlushEnds
<1>12. CASE CloseBegins
  BY <1>12 DEF TypeOK, CloseBegins
<1>13. CASE CloseTakesRuntime
  BY <1>0, <1>13 DEF TypeOK, CloseTakesRuntime
<1>14. CASE CloseWritesRuntime
  <2>1. /\ stored' \in SUBSET Samples /\ duplicated' \in SUBSET Samples
        /\ latest' \in [Writers -> 0 .. MaxSamples]
    <3>1. closerTaken \in Seq(Samples) /\ WriteRuntimeSamples(closerTaken)
      BY <1>14 DEF TypeOK, CloseWritesRuntime
    <3> QED
      BY <3>1, WritesLatest
  <2> QED
    BY <1>0, <1>14, <2>1 DEF TypeOK, CloseWritesRuntime
<1>15. CASE CloseWriteFails
  <2> DEFINE queue == RequeueRuntime(pendingRuntime, closerTaken)
  <2>1. queue \in Seq(Samples)
    BY JoinedQueues DEF TypeOK, RequeueRuntime
  <2>2. pendingRuntime' \in Seq(Samples) /\ dropped' \in SUBSET Samples
    BY <1>15, <2>1, Buffers DEF CloseWriteFails
  <2> QED
    BY <1>0, <1>15, <2>2 DEF TypeOK, CloseWriteFails
<1>16. CASE CloseWriteOutcomeUnknown
  <2> DEFINE queue == RequeueRuntime(pendingRuntime, closerTaken)
  <2>1. queue \in Seq(Samples)
    BY JoinedQueues DEF TypeOK, RequeueRuntime
  <2>2. pendingRuntime' \in Seq(Samples) /\ dropped' \in SUBSET Samples
    BY <1>16, <2>1, Buffers DEF CloseWriteOutcomeUnknown
  <2>3. /\ stored' \in SUBSET Samples /\ duplicated' \in SUBSET Samples
        /\ latest' \in [Writers -> 0 .. MaxSamples]
    <3>1. closerTaken \in Seq(Samples) /\ WriteRuntimeSamples(closerTaken)
      BY <1>16 DEF TypeOK, CloseWriteOutcomeUnknown
    <3> QED
      BY <3>1, WritesLatest
  <2> QED
    BY <1>0, <1>16, <2>2, <2>3 DEF TypeOK, CloseWriteOutcomeUnknown, Unheard
<1>17. CASE CloseFlushBegins
  BY <1>17 DEF TypeOK, CloseFlushBegins, TakeIngest
<1>18. CASE CloseFlushed
  BY <1>18 DEF TypeOK, CloseFlushed, IngestWritten
<1>19. CASE CloseFlushFails
  <2>1. /\ pendingIngest' \in Nat /\ inFlush' \in Nat /\ ingestTable' \in Nat
        /\ unheard' \in Nat /\ flusher' \in Writers \union {Nobody, "closer"}
    <3>1. /\ pendingIngest \in Nat /\ inFlush \in Nat /\ ingestTable \in Nat
          /\ unheard \in Nat
      BY DEF TypeOK
    <3>2. /\ pendingIngest' = pendingIngest + inFlush /\ inFlush' = 0 /\ flusher' = Nobody
          /\ ingestTable' \in {ingestTable, ingestTable + inFlush}
          /\ unheard' \in {unheard, unheard + 1}
      BY <1>19 DEF CloseFlushFails, IngestPutBack, IngestOutcomeUnknown, Unheard
    <3> QED
      BY <3>1, <3>2
  <2> QED
    BY <1>19, <2>1 DEF TypeOK, CloseFlushFails
<1>20. CASE CloseEnds
  BY <1>20 DEF TypeOK, CloseEnds
<1>21. CASE UNCHANGED vars
  BY <1>21 DEF TypeOK, vars
<1> QED
  BY <1>1, <1>2, <1>3, <1>4, <1>5, <1>6, <1>7, <1>8, <1>9, <1>10, <1>11, <1>12, <1>13, <1>14,
     <1>15, <1>16, <1>17, <1>18, <1>19, <1>20, <1>21 DEF Next, WriteSamples, Close

-----------------------------------------------------------------------------
(* The telemetry buffer.                                                   *)

\* The samples that are somewhere.
Known == InMemory \union stored \union dropped

\* A step that moves samples from place to place loses none and invents none.
LEMMA SamplesMoved ==
    ASSUME Recorded, NoSampleLost, \A x : x \in Known' <=> x \in Known, recorded' = recorded
    PROVE  Recorded' /\ NoSampleLost'
<1>1. Known' = Known
  OBVIOUS
<1>2. /\ Recorded <=> \A s \in Known : s.observed <= recorded
      /\ NoSampleLost <=> \A t \in 1 .. recorded : \E s \in Known : s.observed = t
  BY DEF Recorded, NoSampleLost, Known
<1>3. /\ Recorded' <=> \A s \in Known' : s.observed <= recorded'
      /\ NoSampleLost' <=> \A t \in 1 .. recorded' : \E s \in Known' : s.observed = t
  BY DEF Recorded, NoSampleLost, Known
<1> QED
  BY <1>1, <1>2, <1>3

\* A known sample, place by place.
LEMMA KnownIs ==
    ASSUME NEW x
    PROVE  x \in Known <=> \/ x \in ToSet(pendingRuntime)
                           \/ x \in ToSet(closerTaken)
                           \/ \E w \in Writers : x \in ToSet(taken[w])
                           \/ x \in stored
                           \/ x \in dropped
BY InMemoryIs DEF Known

\* The same after a step.
LEMMA KnownNextIs ==
    ASSUME NEW x
    PROVE  x \in Known' <=> \/ x \in ToSet(pendingRuntime')
                            \/ x \in ToSet(closerTaken')
                            \/ \E w \in Writers : x \in ToSet(taken'[w])
                            \/ x \in stored'
                            \/ x \in dropped'
BY DEF Known, InMemory

\* Steps that do not touch the telemetry.
LEMMA RuntimeUntouched ==
    ASSUME RuntimeInv, UNCHANGED runtimeVars, unheard' = 0 => unheard = 0, Holding'
    PROVE  RuntimeInv'
<1> USE DEF RuntimeInv, runtimeVars
<1>1. Recorded' /\ NoSampleLost'
  BY KnownIs, KnownNextIs, SamplesMoved
<1>2. OnePlace'
  BY DEF OnePlace, OneHolder, StoredApart
<1>3. LatestIsNewest' /\ BufferBounded'
  BY DEF LatestIsNewest, BufferBounded
<1> QED
  BY <1>1, <1>2, <1>3

\* takePendingRuntime moves the buffer into the transaction of a writer.
LEMMA TakeKeepsRuntime ==
    ASSUME TypeOK, RuntimeInv, NEW w \in Writers, TakeRuntime(w)
    PROVE  RuntimeInv'
<1> USE DEF RuntimeInv
<1>0. Holding'
  BY DEF TypeOK, Holding, TakeRuntime
<1>1. CASE UNCHANGED <<taken, pendingRuntime>>
  <2>1. UNCHANGED runtimeVars /\ UNCHANGED unheard
    BY <1>1 DEF TakeRuntime, runtimeVars
  <2> QED
    BY <1>0, <2>1, RuntimeUntouched
<1>2. CASE taken' = [taken EXCEPT ![w] = pendingRuntime] /\ pendingRuntime' = <<>>
  <2>1. /\ taken[w] = <<>>
        /\ taken'[w] = pendingRuntime
        /\ \A v \in Writers : v # w => taken'[v] = taken[v]
        /\ UNCHANGED <<closerTaken, recorded, stored, duplicated, latest, dropped, unheard>>
    BY <1>2 DEF TypeOK, Holding, TakeRuntime
  <2>2. ToSet(taken[w]) = {} /\ ToSet(pendingRuntime') = {} /\ NoRepeat(pendingRuntime')
    BY <1>2, <2>1, EmptyQueue
  <2>3. \A x : x \in Known' <=> x \in Known
    BY <2>1, <2>2, KnownIs, KnownNextIs
  <2>4. OnePlace'
    BY <2>1, <2>2 DEF OnePlace, OneHolder, StoredApart
  <2>5. LatestIsNewest'
    BY <2>1 DEF LatestIsNewest
  <2>6. BufferBounded'
    BY <1>2, EmptySeq, SinkAssumption DEF BufferBounded
  <2> QED
    BY <1>0, <2>1, <2>3, <2>4, <2>5, <2>6, SamplesMoved
<1> QED
  BY <1>1, <1>2 DEF TakeRuntime

\* The transaction of a writer commits, and its telemetry with it.
LEMMA CommitKeepsRuntime ==
    ASSUME TypeOK, RuntimeInv, NEW w \in Writers, WriteCommits(w)
    PROVE  RuntimeInv'
<1> USE DEF RuntimeInv
<1>1. /\ taken[w] \in Seq(Samples) /\ WriteRuntimeSamples(taken[w])
      /\ taken'[w] = <<>>
      /\ \A v \in Writers : v # w => taken'[v] = taken[v]
      /\ UNCHANGED <<pendingRuntime, closerTaken, recorded, dropped, unheard>>
  BY DEF TypeOK, WriteCommits, closeVars
<1>2. /\ stored' = stored \union ToSet(taken[w])
      /\ duplicated' = duplicated \union (stored \intersect ToSet(taken[w]))
      /\ LatestIsNewest'
  BY <1>1, WritesLatest
<1>3. ToSet(taken'[w]) = {} /\ NoRepeat(taken'[w])
  BY <1>1, EmptyQueue
<1>4. \A x : x \in Known' <=> x \in Known
  BY <1>1, <1>2, <1>3, KnownIs, KnownNextIs
<1>5. OnePlace'
  BY <1>1, <1>2, <1>3 DEF OnePlace, OneHolder, StoredApart
<1>6. Holding'
  BY DEF TypeOK, Holding, WriteCommits, closeVars
<1>7. BufferBounded'
  BY <1>1 DEF BufferBounded
<1> QED
  BY <1>1, <1>2, <1>4, <1>5, <1>6, <1>7, SamplesMoved

\* The transaction of a writer commits and nobody hears of it.
LEMMA UnknownCommitKeepsRuntime ==
    ASSUME TypeOK, RuntimeInv, NEW w \in Writers, WriteOutcomeUnknown(w)
    PROVE  RuntimeInv'
<1> USE DEF RuntimeInv
<1>1. /\ taken[w] \in Seq(Samples) /\ WriteRuntimeSamples(taken[w])
      /\ UNCHANGED <<pendingRuntime, taken, closerTaken, recorded, dropped>>
  BY DEF TypeOK, WriteOutcomeUnknown
<1>2. stored' = stored \union ToSet(taken[w]) /\ LatestIsNewest'
  BY <1>1, WritesLatest
<1>3. \A x : x \in Known' <=> x \in Known
  BY <1>1, <1>2, KnownIs, KnownNextIs
<1>4. OnePlace'
  <2>1. unheard' # 0
    BY DEF TypeOK, WriteOutcomeUnknown, Unheard
  <2> QED
    BY <1>1, <2>1 DEF OnePlace, OneHolder, StoredApart
<1>5. Holding'
  BY DEF TypeOK, Holding, WriteOutcomeUnknown, closeVars
<1>6. BufferBounded'
  BY <1>1 DEF BufferBounded
<1> QED
  BY <1>1, <1>2, <1>3, <1>4, <1>5, <1>6, SamplesMoved

\* requeueRuntime puts the telemetry of a failed transaction back.
LEMMA RequeueKeepsRuntime ==
    ASSUME TypeOK, RuntimeInv, NEW w \in Writers, Requeue(w)
    PROVE  RuntimeInv'
<1> USE DEF RuntimeInv
<1> DEFINE queue == RequeueRuntime(pendingRuntime, taken[w])
<1>1. /\ taken[w] \in Seq(Samples) /\ pendingRuntime \in Seq(Samples)
      /\ Buffer(queue)
      /\ taken'[w] = <<>>
      /\ \A v \in Writers : v # w => taken'[v] = taken[v]
      /\ UNCHANGED <<closerTaken, recorded, stored, duplicated, latest, unheard>>
  BY DEF TypeOK, Requeue
<1>2. /\ queue \in Seq(Samples)
      /\ ToSet(queue) = ToSet(taken[w]) \union ToSet(pendingRuntime)
      /\ /\ NoRepeat(taken[w]) /\ NoRepeat(pendingRuntime)
         /\ ToSet(taken[w]) \intersect ToSet(pendingRuntime) = {}
         => NoRepeat(queue)
  BY <1>1, JoinedQueues DEF RequeueRuntime
<1> HIDE DEF queue
<1>3. /\ BufferBounded'
      /\ ToSet(pendingRuntime') \union Cut(queue) = ToSet(queue)
      /\ dropped' = dropped \union Cut(queue)
      /\ NoRepeat(queue) => /\ NoRepeat(pendingRuntime')
                            /\ ToSet(pendingRuntime') \intersect Cut(queue) = {}
  BY <1>1, <1>2, Buffers
<1>4. ToSet(taken'[w]) = {} /\ NoRepeat(taken'[w])
  BY <1>1, EmptyQueue
<1>5. \A x : x \in Known' <=> x \in Known
  BY <1>1, <1>2, <1>3, <1>4, KnownIs, KnownNextIs
<1>6. OnePlace'
  <2>1. NoRepeat(queue)
    BY <1>2 DEF OnePlace, OneHolder
  <2>2. ASSUME NEW x, x \in ToSet(queue)
        PROVE  /\ x \notin ToSet(closerTaken) \union dropped
               /\ \A v \in Writers : v # w => x \notin ToSet(taken[v])
               /\ unheard = 0 => x \notin stored
    BY <1>2, <2>2 DEF OnePlace, OneHolder, StoredApart
  <2>3. OneHolder'
    BY <1>1, <1>3, <1>4, <2>1, <2>2 DEF OnePlace, OneHolder
  <2>4. StoredApart'
    BY <1>1, <1>3, <1>4, <2>2 DEF OnePlace, StoredApart
  <2> QED
    BY <2>3, <2>4 DEF OnePlace
<1>7. Holding'
  BY DEF TypeOK, Holding, Requeue, closeVars
<1>8. LatestIsNewest'
  BY <1>1 DEF LatestIsNewest
<1> QED
  BY <1>1, <1>3, <1>5, <1>6, <1>7, <1>8, SamplesMoved

\* recordRuntimeResult buffers a sample that is newer than all others.
LEMMA RecordKeepsRuntime ==
    ASSUME TypeOK, RuntimeInv, NEW w \in Writers, RecordRuntimeResult(w)
    PROVE  RuntimeInv'
<1> USE DEF RuntimeInv
<1> DEFINE s == [scheduler |-> w, observed |-> recorded + 1]
           queue == QueueRuntime(pendingRuntime, s)
<1>1. /\ pendingRuntime \in Seq(Samples) /\ recorded \in Nat /\ s \in Samples
      /\ Buffer(queue)
      /\ recorded' = recorded + 1
      /\ UNCHANGED <<taken, closerTaken, stored, duplicated, latest, unheard>>
  BY SinkAssumption DEF TypeOK, RecordRuntimeResult, Samples
<1>2. s.observed = recorded + 1
  OBVIOUS
<1>3. /\ queue \in Seq(Samples)
      /\ ToSet(queue) = ToSet(pendingRuntime) \union {s}
      /\ NoRepeat(pendingRuntime) /\ s \notin ToSet(pendingRuntime) => NoRepeat(queue)
  BY <1>1, AppendedQueue DEF QueueRuntime
<1> HIDE DEF queue, s
<1>4. /\ BufferBounded'
      /\ ToSet(pendingRuntime') \union Cut(queue) = ToSet(queue)
      /\ dropped' = dropped \union Cut(queue)
      /\ NoRepeat(queue) => /\ NoRepeat(pendingRuntime')
                            /\ ToSet(pendingRuntime') \intersect Cut(queue) = {}
  BY <1>1, <1>3, Buffers
<1>5. /\ \A x \in Known : x.observed <= recorded
      /\ \A t \in 1 .. recorded : \E x \in Known : x.observed = t
  BY DEF Recorded, NoSampleLost, Known
<1>6. s \notin Known
  BY <1>1, <1>2, <1>5
<1>7. \A x : x \in Known' <=> x \in Known \/ x = s
  BY <1>1, <1>3, <1>4, KnownIs, KnownNextIs
<1>8. ASSUME NEW x \in Known' PROVE x.observed <= recorded'
  <2>1. CASE x \in Known
    <3>1. /\ x.observed \in Int /\ recorded \in Nat
      <4>1. Known \subseteq Samples
        <5>1. /\ ToSet(pendingRuntime) \subseteq Samples /\ ToSet(closerTaken) \subseteq Samples
              /\ \A v \in Writers : ToSet(taken[v]) \subseteq Samples
              /\ stored \subseteq Samples /\ dropped \subseteq Samples
          BY ToSetType DEF TypeOK
        <5> QED
          BY <5>1, KnownIs
      <4> QED
        BY <1>1, <2>1, <4>1 DEF Samples
    <3> QED
      BY <1>1, <1>5, <2>1, <3>1
  <2>2. CASE x = s
    <3>1. x.observed = recorded + 1
      BY <1>2, <2>2
    <3> QED
      BY <1>1, <3>1
  <2> QED
    BY <1>7, <2>1, <2>2
<1>9. ASSUME NEW t \in 1 .. recorded' PROVE \E x \in Known' : x.observed = t
  <2>1. CASE t \in 1 .. recorded
    BY <1>5, <1>7, <2>1
  <2>2. CASE t = recorded + 1
    BY <1>2, <1>7, <2>2
  <2> QED
    BY <1>1, <2>1, <2>2
<1>10. Recorded' /\ NoSampleLost'
  BY <1>8, <1>9 DEF Recorded, NoSampleLost, Known
<1>11. OnePlace'
  <2>1. /\ s \notin ToSet(pendingRuntime) /\ s \notin ToSet(closerTaken)
        /\ s \notin stored /\ s \notin dropped
        /\ \A v \in Writers : s \notin ToSet(taken[v])
    BY <1>6, KnownIs
  <2>2. NoRepeat(pendingRuntime') /\ ToSet(pendingRuntime') \intersect Cut(queue) = {}
    BY <1>3, <1>4, <2>1 DEF OnePlace, OneHolder
  <2>3. \A x : x \in ToSet(pendingRuntime') \/ x \in Cut(queue)
                  => x = s \/ x \in ToSet(pendingRuntime)
    BY <1>3, <1>4
  <2>4. OneHolder'
    <3>1. /\ ToSet(pendingRuntime') \intersect (ToSet(closerTaken) \union dropped') = {}
          /\ ToSet(closerTaken) \intersect dropped' = {}
      BY <1>4, <2>1, <2>2, <2>3 DEF OnePlace, OneHolder
    <3>2. \A v \in Writers : ToSet(taken[v]) \intersect
                (ToSet(pendingRuntime') \union ToSet(closerTaken) \union dropped') = {}
      BY <1>4, <2>1, <2>3 DEF OnePlace, OneHolder
    <3> QED
      BY <1>1, <2>2, <3>1, <3>2 DEF OnePlace, OneHolder
  <2>5. StoredApart'
    BY <1>1, <1>4, <2>1, <2>3 DEF OnePlace, StoredApart
  <2> QED
    BY <2>4, <2>5 DEF OnePlace
<1>12. Holding'
  BY DEF TypeOK, Holding, RecordRuntimeResult, closeVars
<1>13. LatestIsNewest'
  BY <1>1 DEF LatestIsNewest
<1> QED
  BY <1>4, <1>10, <1>11, <1>12, <1>13

\* flushRuntime moves the buffer into the last transaction.
LEMMA CloseTakeKeepsRuntime ==
    ASSUME TypeOK, RuntimeInv, CloseTakesRuntime
    PROVE  RuntimeInv'
<1> USE DEF RuntimeInv
<1>1. /\ closerTaken = <<>> /\ closerTaken' = pendingRuntime /\ pendingRuntime' = <<>>
      /\ UNCHANGED <<taken, recorded, stored, duplicated, latest, dropped, unheard>>
  BY DEF Holding, CloseTakesRuntime
<1>2. ToSet(closerTaken) = {} /\ ToSet(pendingRuntime') = {} /\ NoRepeat(pendingRuntime')
  BY <1>1, EmptyQueue
<1>3. \A x : x \in Known' <=> x \in Known
  BY <1>1, <1>2, KnownIs, KnownNextIs
<1>4. OnePlace'
  BY <1>1, <1>2 DEF OnePlace, OneHolder, StoredApart
<1>5. LatestIsNewest'
  BY <1>1 DEF LatestIsNewest
<1>6. BufferBounded'
  BY <1>1, EmptySeq, SinkAssumption DEF BufferBounded
<1>7. Holding'
  BY DEF Holding, CloseTakesRuntime
<1> QED
  BY <1>1, <1>3, <1>4, <1>5, <1>6, <1>7, SamplesMoved

\* The last transaction commits.
LEMMA CloseWriteKeepsRuntime ==
    ASSUME TypeOK, RuntimeInv, CloseWritesRuntime
    PROVE  RuntimeInv'
<1> USE DEF RuntimeInv
<1>1. /\ closerTaken \in Seq(Samples) /\ WriteRuntimeSamples(closerTaken)
      /\ closerTaken' = <<>>
      /\ UNCHANGED <<pendingRuntime, taken, recorded, dropped, unheard>>
  BY DEF TypeOK, CloseWritesRuntime
<1>2. /\ stored' = stored \union ToSet(closerTaken)
      /\ duplicated' = duplicated \union (stored \intersect ToSet(closerTaken))
      /\ LatestIsNewest'
  BY <1>1, WritesLatest
<1>3. ToSet(closerTaken') = {} /\ NoRepeat(closerTaken')
  BY <1>1, EmptyQueue
<1>4. \A x : x \in Known' <=> x \in Known
  BY <1>1, <1>2, <1>3, KnownIs, KnownNextIs
<1>5. OnePlace'
  BY <1>1, <1>2, <1>3 DEF OnePlace, OneHolder, StoredApart
<1>6. Holding'
  BY DEF Holding, CloseWritesRuntime
<1>7. BufferBounded'
  BY <1>1 DEF BufferBounded
<1> QED
  BY <1>1, <1>2, <1>4, <1>5, <1>6, <1>7, SamplesMoved

\* The last transaction fails, or seems to: its telemetry goes back.
LEMMA CloseFailKeepsRuntime ==
    ASSUME TypeOK, RuntimeInv, CloseWriteFails \/ CloseWriteOutcomeUnknown
    PROVE  RuntimeInv'
<1> USE DEF RuntimeInv
<1> DEFINE queue == RequeueRuntime(pendingRuntime, closerTaken)
<1>1. /\ closerTaken \in Seq(Samples) /\ pendingRuntime \in Seq(Samples)
      /\ Buffer(queue)
      /\ closerTaken' = <<>>
      /\ UNCHANGED <<taken, recorded>>
  BY DEF TypeOK, CloseWriteFails, CloseWriteOutcomeUnknown
<1>2. /\ queue \in Seq(Samples)
      /\ ToSet(queue) = ToSet(closerTaken) \union ToSet(pendingRuntime)
      /\ /\ NoRepeat(closerTaken) /\ NoRepeat(pendingRuntime)
         /\ ToSet(closerTaken) \intersect ToSet(pendingRuntime) = {}
         => NoRepeat(queue)
  BY <1>1, JoinedQueues DEF RequeueRuntime
<1> HIDE DEF queue
<1>3. /\ BufferBounded'
      /\ ToSet(pendingRuntime') \union Cut(queue) = ToSet(queue)
      /\ dropped' = dropped \union Cut(queue)
      /\ NoRepeat(queue) => /\ NoRepeat(pendingRuntime')
                            /\ ToSet(pendingRuntime') \intersect Cut(queue) = {}
  BY <1>1, <1>2, Buffers
<1>4. ToSet(closerTaken') = {} /\ NoRepeat(closerTaken')
  BY <1>1, EmptyQueue
<1>5. Holding'
  BY DEF Holding, CloseWriteFails, CloseWriteOutcomeUnknown
<1>6. CASE CloseWriteFails
  <2>1. UNCHANGED <<stored, duplicated, latest, unheard>>
    BY <1>6 DEF CloseWriteFails
  <2>2. \A x : x \in Known' <=> x \in Known
    BY <1>1, <1>2, <1>3, <1>4, <2>1, KnownIs, KnownNextIs
  <2>3. OnePlace'
    BY <1>1, <1>2, <1>3, <1>4, <2>1 DEF OnePlace, OneHolder, StoredApart
  <2>4. LatestIsNewest'
    BY <2>1 DEF LatestIsNewest
  <2> QED
    BY <1>1, <1>3, <1>5, <2>2, <2>3, <2>4, SamplesMoved
<1>7. CASE CloseWriteOutcomeUnknown
  <2>1. WriteRuntimeSamples(closerTaken)
    BY <1>7 DEF CloseWriteOutcomeUnknown
  <2>2. stored' = stored \union ToSet(closerTaken) /\ LatestIsNewest'
    BY <1>1, <2>1, WritesLatest
  <2>3. \A x : x \in Known' <=> x \in Known
    BY <1>1, <1>2, <1>3, <1>4, <2>2, KnownIs, KnownNextIs
  <2>4. OnePlace'
    <3>1. unheard' # 0
      BY <1>7 DEF TypeOK, CloseWriteOutcomeUnknown, Unheard
    <3> QED
      BY <1>1, <1>2, <1>3, <1>4, <3>1 DEF OnePlace, OneHolder, StoredApart
  <2> QED
    BY <1>1, <1>3, <1>5, <2>2, <2>3, <2>4, SamplesMoved
<1> QED
  BY <1>6, <1>7

\* Every action keeps the account of the telemetry.
LEMMA RuntimeStep == ASSUME TypeOK, RuntimeInv, Closing, [Next]_vars PROVE RuntimeInv'
<1> DEFINE Untouched == /\ UNCHANGED <<runtimeVars>> /\ Holding'
                        /\ unheard' = 0 => unheard = 0
<1>0. ASSUME Untouched PROVE RuntimeInv'
  BY <1>0, RuntimeUntouched
<1>1. ASSUME NEW w \in Writers,
             \/ WriteFails(w) \/ NoRuntimeResult(w) \/ RecordIngest(w)
             \/ FlushNotDue(w) \/ FlushBegins(w)
      PROVE  Untouched
  <2>1. UNCHANGED <<runtimeVars>> /\ UNCHANGED unheard /\ UNCHANGED closer
    BY <1>1 DEF WriteFails, NoRuntimeResult, RecordIngest, FlushNotDue, FlushBegins, closeVars
  <2>2. \A v \in Writers : pc'[v] \notin {"writing", "failed"} => pc[v] \notin {"writing", "failed"}
    BY <1>1 DEF TypeOK, WriteFails, NoRuntimeResult, RecordIngest, FlushNotDue, FlushBegins
  <2> QED
    BY <2>1, <2>2 DEF Holding, RuntimeInv, runtimeVars
<1>2. ASSUME NEW w \in Writers, FlushEnds(w) PROVE Untouched
  <2>1. UNCHANGED <<runtimeVars>> /\ UNCHANGED closer
    BY <1>2 DEF FlushEnds, closeVars
  <2>2. unheard' = 0 => unheard = 0
    BY <1>2 DEF TypeOK, FlushEnds, IngestOutcomeUnknown, Unheard
  <2>3. \A v \in Writers : pc'[v] \notin {"writing", "failed"} => pc[v] \notin {"writing", "failed"}
    BY <1>2 DEF TypeOK, FlushEnds
  <2> QED
    BY <2>1, <2>2, <2>3 DEF Holding, RuntimeInv, runtimeVars
<1>3. CASE CloseBegins \/ CloseFlushBegins \/ CloseFlushed \/ CloseFlushFails \/ CloseEnds
  <2>1. UNCHANGED <<runtimeVars>> /\ UNCHANGED pc
    BY <1>3 DEF CloseBegins, CloseFlushBegins, CloseFlushed, CloseFlushFails, CloseEnds
  <2>2. unheard' = 0 => unheard = 0
    <3>1. unheard' = unheard \/ unheard' = unheard + 1
      BY <1>3 DEF CloseBegins, CloseFlushBegins, CloseFlushed, CloseFlushFails, CloseEnds,
                  IngestOutcomeUnknown, Unheard
    <3> QED
      BY <3>1 DEF TypeOK
  <2>3. closer # "writing"
    BY <1>3 DEF Closing, CloseBegins, CloseFlushBegins, CloseFlushed, CloseFlushFails, CloseEnds
  <2> QED
    BY <1>0, <2>1, <2>2, <2>3 DEF Holding, RuntimeInv, runtimeVars
<1>4. CASE UNCHANGED vars
  BY <1>0, <1>4 DEF vars, Holding, RuntimeInv, runtimeVars, closeVars
<1> HIDE DEF Untouched
<1> QED
  BY <1>0, <1>1, <1>2, <1>3, <1>4, TakeKeepsRuntime, CommitKeepsRuntime,
     UnknownCommitKeepsRuntime, RequeueKeepsRuntime, RecordKeepsRuntime, CloseTakeKeepsRuntime,
     CloseWriteKeepsRuntime, CloseFailKeepsRuntime DEF Next, WriteSamples, Close

-----------------------------------------------------------------------------
(* The row accounts.                                                       *)

Committed == {w \in Writers : pc[w] = "committed"}

\* One more call has committed, or one of them has been counted.
LEMMA CommittedCount ==
    /\ Cardinality(Committed) \in Nat
    /\ \A w \in Writers :
         /\ w \notin Committed /\ Committed' = Committed \union {w}
              => Cardinality(Committed') = Cardinality(Committed) + 1
         /\ w \in Committed /\ Committed' = Committed \ {w}
              => Cardinality(Committed') = Cardinality(Committed) - 1
<1>1. IsFiniteSet(Committed)
  <2>1. Committed \subseteq Writers
    BY DEF Committed
  <2> QED
    BY <2>1, SinkAssumption, FS_Subset
<1> QED
  BY <1>1, FS_CardinalityType, FS_AddElement, FS_RemoveElement

\* Every action keeps the row accounts.
LEMMA IngestStep == ASSUME TypeOK, IngestInv, [Next]_vars PROVE IngestInv'
<1> DEFINE n == Cardinality(Committed)
           Total == n + pendingIngest + inFlush + ingestTable
<1>0. /\ RowsAccounted <=> (unheard = 0 => committed = Total)
      /\ RowsAccounted' <=> (unheard' = 0 => committed' = Total')
      /\ n \in Nat
  BY CommittedCount DEF RowsAccounted, Uncounted, Committed
<1> USE DEF IngestInv
<1>1. ASSUME NEW w \in Writers, WriteCommits(w) PROVE IngestInv'
  <2>1. FlushOwned'
    BY <1>1 DEF TypeOK, FlushOwned, WriteCommits, closeVars
  <2>2. w \notin Committed /\ Committed' = Committed \union {w}
    BY <1>1 DEF TypeOK, Committed, WriteCommits
  <2>3. Cardinality(Committed') = Cardinality(Committed) + 1
    BY <2>2, CommittedCount
  <2>4. /\ committed' = committed + 1
        /\ UNCHANGED <<pendingIngest, inFlush, ingestTable, unheard>>
    BY <1>1 DEF WriteCommits
  <2>5. Total' = Total + 1
    BY <1>0, <2>3, <2>4 DEF TypeOK
  <2> QED
    BY <1>0, <2>1, <2>4, <2>5
<1>2. ASSUME NEW w \in Writers, WriteOutcomeUnknown(w) PROVE IngestInv'
  <2>1. FlushOwned'
    BY <1>2 DEF TypeOK, FlushOwned, WriteOutcomeUnknown, closeVars
  <2> QED
    BY <1>0, <1>2, <2>1 DEF TypeOK, WriteOutcomeUnknown, Unheard
<1>3. ASSUME NEW w \in Writers, RecordIngest(w) PROVE IngestInv'
  <2>1. FlushOwned'
    BY <1>3 DEF TypeOK, FlushOwned, RecordIngest, closeVars
  <2>2. w \in Committed /\ Committed' = Committed \ {w}
    BY <1>3 DEF TypeOK, Committed, RecordIngest
  <2>3. Cardinality(Committed') = Cardinality(Committed) - 1
    BY <2>2, CommittedCount
  <2>4. /\ pendingIngest' = pendingIngest + 1
        /\ UNCHANGED <<committed, inFlush, ingestTable, unheard>>
    BY <1>3 DEF RecordIngest
  <2> QED
    BY <1>0, <2>1, <2>3, <2>4 DEF TypeOK
<1>4. ASSUME Committed' = Committed,
             UNCHANGED <<committed, pendingIngest, inFlush, ingestTable, unheard>>
      PROVE  RowsAccounted'
  BY <1>0, <1>4
<1>5. ASSUME NEW w \in Writers,
             \/ TakeRuntime(w) \/ WriteFails(w) \/ Requeue(w) \/ RecordRuntimeResult(w)
             \/ NoRuntimeResult(w) \/ FlushNotDue(w)
      PROVE  IngestInv'
  <2>1. UNCHANGED <<ingestVars, unheard, closer>>
    BY <1>5 DEF TakeRuntime, WriteFails, Requeue, RecordRuntimeResult, NoRuntimeResult,
                FlushNotDue, closeVars
  <2>2. \A v \in Writers : /\ pc'[v] = "committed" <=> pc[v] = "committed"
                           /\ pc'[v] = "flushing" <=> pc[v] = "flushing"
    BY <1>5 DEF TypeOK, TakeRuntime, WriteFails, Requeue, RecordRuntimeResult, NoRuntimeResult,
                FlushNotDue
  <2> QED
    BY <1>4, <2>1, <2>2 DEF Committed, FlushOwned, ingestVars
<1>6. ASSUME NEW w \in Writers, FlushBegins(w) PROVE IngestInv'
  <2>1. FlushOwned'
    BY <1>6, SinkAssumption DEF TypeOK, FlushOwned, FlushBegins, TakeIngest, closeVars
  <2>2. Committed' = Committed
    BY <1>6 DEF TypeOK, Committed, FlushBegins
  <2>3. /\ inFlush = 0 /\ inFlush' = pendingIngest /\ pendingIngest' = 0
        /\ UNCHANGED <<committed, ingestTable, unheard>>
    BY <1>6 DEF FlushOwned, FlushBegins, TakeIngest
  <2> QED
    BY <1>0, <2>1, <2>2, <2>3 DEF TypeOK
<1>7. ASSUME Committed' = Committed, committed' = committed,
             \/ (IngestWritten \/ IngestPutBack) /\ UNCHANGED unheard
             \/ IngestOutcomeUnknown
      PROVE  RowsAccounted'
  <2>1. CASE IngestWritten /\ UNCHANGED unheard
    BY <1>0, <1>7, <2>1 DEF TypeOK, IngestWritten
  <2>2. CASE IngestPutBack /\ UNCHANGED unheard
    BY <1>0, <1>7, <2>2 DEF TypeOK, IngestPutBack
  <2>3. CASE IngestOutcomeUnknown
    BY <1>0, <1>7, <2>3 DEF TypeOK, IngestOutcomeUnknown, Unheard
  <2> QED
    BY <1>7, <2>1, <2>2, <2>3
<1>8. ASSUME NEW w \in Writers, FlushEnds(w) PROVE IngestInv'
  <2>1. inFlush' = 0 /\ flusher = w /\ UNCHANGED closer
    BY <1>8 DEF FlushOwned, FlushEnds, IngestWritten, IngestPutBack, IngestOutcomeUnknown, closeVars
  <2>2. \A v \in Writers : pc'[v] = "flushing" => pc[v] = "flushing" /\ v # w
    BY <1>8 DEF TypeOK, FlushEnds
  <2>3. FlushOwned'
    BY <2>1, <2>2, SinkAssumption DEF FlushOwned
  <2>4. Committed' = Committed
    BY <1>8 DEF TypeOK, Committed, FlushEnds
  <2> QED
    BY <1>7, <1>8, <2>3, <2>4 DEF FlushEnds
<1>9. CASE \/ CloseBegins \/ CloseTakesRuntime \/ CloseWritesRuntime \/ CloseWriteFails
           \/ CloseEnds
  <2>1. /\ UNCHANGED <<pc, ingestVars, unheard>> /\ closer' # "flushing"
    BY <1>9 DEF CloseBegins, CloseTakesRuntime, CloseWritesRuntime, CloseWriteFails, CloseEnds
  <2> QED
    BY <1>4, <2>1 DEF Committed, FlushOwned, ingestVars
<1>10. CASE CloseWriteOutcomeUnknown
  <2>1. /\ UNCHANGED <<pc, ingestVars>> /\ closer' # "flushing" /\ unheard' = unheard + 1
    BY <1>10 DEF CloseWriteOutcomeUnknown, Unheard
  <2> QED
    BY <1>0, <2>1 DEF TypeOK, FlushOwned, ingestVars
<1>11. CASE CloseFlushBegins
  <2>1. FlushOwned'
    BY <1>11, SinkAssumption DEF FlushOwned, CloseFlushBegins, TakeIngest
  <2>2. Committed' = Committed
    BY <1>11 DEF Committed, CloseFlushBegins
  <2>3. /\ inFlush = 0 /\ inFlush' = pendingIngest /\ pendingIngest' = 0
        /\ UNCHANGED <<committed, ingestTable, unheard>>
    BY <1>11 DEF FlushOwned, CloseFlushBegins, TakeIngest
  <2> QED
    BY <1>0, <2>1, <2>2, <2>3 DEF TypeOK
<1>12. CASE CloseFlushed \/ CloseFlushFails
  <2>1. /\ inFlush' = 0 /\ flusher = "closer" /\ UNCHANGED pc /\ closer' = "pool"
    BY <1>12 DEF FlushOwned, CloseFlushed, CloseFlushFails, IngestWritten, IngestPutBack,
                 IngestOutcomeUnknown
  <2>2. FlushOwned'
    BY <2>1, SinkAssumption DEF FlushOwned
  <2>3. Committed' = Committed
    BY <2>1 DEF Committed
  <2> QED
    BY <1>7, <1>12, <2>2, <2>3 DEF CloseFlushed, CloseFlushFails
<1>13. CASE UNCHANGED vars
  BY <1>4, <1>13 DEF vars, ingestVars, closeVars, Committed, FlushOwned
<1> QED
  BY <1>1, <1>2, <1>3, <1>5, <1>6, <1>8, <1>9, <1>10, <1>11, <1>12, <1>13
     DEF Next, WriteSamples, Close

-----------------------------------------------------------------------------
(* sink.Close().                                                           *)

\* Every action keeps what is known of sink.Close().
LEMMA CloseStep == ASSUME TypeOK, RuntimeInv, IngestInv, Closing, [Next]_vars PROVE Closing'
<1> DEFINE Alone == mode # "open" /\ ~overlap
<1>1. ASSUME NEW w \in Writers, WriteSamples(w) PROVE Closing'
  <2>1. CASE TakeRuntime(w)
    <3>1. UNCHANGED <<mode, closer, closeFailed>> /\ mode # "closed"
          /\ overlap' = (overlap \/ mode = "closing")
      BY <2>1 DEF TakeRuntime
    <3>2. ~(mode' # "open" /\ ~overlap')
      BY <3>1 DEF TypeOK
    <3> QED
      BY <3>1, <3>2 DEF Closing
  <2>2. CASE ~TakeRuntime(w)
    <3>1. pc[w] # "idle"
      BY <1>1, <2>2 DEF WriteSamples, WriteFails, WriteCommits, WriteOutcomeUnknown, Requeue,
            RecordRuntimeResult, NoRuntimeResult, RecordIngest, FlushNotDue, FlushBegins, FlushEnds
    <3>2. UNCHANGED <<mode, closer, overlap, closeFailed>>
      BY <1>1, <2>2 DEF WriteSamples, WriteFails, WriteCommits, WriteOutcomeUnknown, Requeue,
            RecordRuntimeResult, NoRuntimeResult, RecordIngest, FlushNotDue, FlushBegins, FlushEnds,
            closeVars
    <3>3. ~Alone
      BY <3>1 DEF Closing
    <3> QED
      BY <3>2, <3>3 DEF Closing
  <2> QED
    BY <2>1, <2>2
<1>2. CASE CloseBegins
  BY <1>2 DEF Closing, CloseBegins
<1>3. CASE CloseTakesRuntime
  BY <1>3 DEF Closing, CloseTakesRuntime
<1>4. CASE CloseWritesRuntime
  BY <1>4 DEF Closing, CloseWritesRuntime
<1>5. CASE CloseWriteFails \/ CloseWriteOutcomeUnknown
  BY <1>5 DEF Closing, CloseWriteFails, CloseWriteOutcomeUnknown
<1>6. CASE CloseFlushBegins
  BY <1>6 DEF Closing, CloseFlushBegins, TakeIngest, runtimeVars
<1>7. CASE CloseFlushed
  BY <1>7 DEF Closing, CloseFlushed, IngestWritten, runtimeVars
<1>8. CASE CloseFlushFails
  BY <1>8 DEF Closing, CloseFlushFails
<1>9. CASE CloseEnds
  BY <1>9 DEF Closing, CloseEnds, runtimeVars, ingestVars
<1>10. CASE UNCHANGED vars
  BY <1>10 DEF Closing, vars, runtimeVars, ingestVars, closeVars
<1> QED
  BY <1>1, <1>2, <1>3, <1>4, <1>5, <1>6, <1>7, <1>8, <1>9, <1>10 DEF Next, Close

-----------------------------------------------------------------------------
(* The sink implements the telemetry log.                                  *)

\* A queue without repetitions has as many elements as places.
LEMMA QueueCardinality ==
    ASSUME NEW S, NEW queue \in Seq(S), NoRepeat(queue)
    PROVE  Cardinality(ToSet(queue)) = Len(queue)
<1>1. Len(queue) \in Nat /\ queue \in [1 .. Len(queue) -> S]
  BY LenProperties
<1>2. queue \in Bijection(1 .. Len(queue), ToSet(queue))
  <2>1. \A x : x \in ToSet(queue) <=> \E i \in 1 .. Len(queue) : queue[i] = x
    BY InToSet
  <2>2. queue \in [1 .. Len(queue) -> ToSet(queue)]
    BY <1>1, <2>1
  <2> QED
    BY <2>1, <2>2 DEF NoRepeat, Bijection, Injection, Surjection, IsInjective
<1> QED
  BY <1>1, <1>2, FS_CountingElements DEF ExistsBijection

\* The telemetry log counts as this module does.
LEMMA SameCardinality == \A S : Log!Cardinality(S) = Cardinality(S)
BY DEF Cardinality, Log!Cardinality, IsFiniteSet, Log!IsFiniteSet

\* A buffer that had to be cut is full.
LEMMA CutLeavesLimit ==
    ASSUME NEW queue \in Seq(Samples), NoRepeat(queue), Buffer(queue),
           ToSet(pendingRuntime') \subseteq InMemory', Cut(queue) # {}
    PROVE  \E kept \in SUBSET InMemory' : Log!Cardinality(kept) = MaxPending
<1>1. /\ pendingRuntime' \in Seq(Samples) /\ NoRepeat(pendingRuntime')
      /\ Len(pendingRuntime') = MaxPending
  BY CutQueue DEF Buffer
<1>2. Log!Cardinality(ToSet(pendingRuntime')) = MaxPending
  BY <1>1, QueueCardinality, SameCardinality
<1> QED
  BY <1>2

\* What is in memory after a step, place by place.
LEMMA InMemoryNextIs ==
    ASSUME NEW x
    PROVE  x \in InMemory' <=> \/ x \in ToSet(pendingRuntime')
                               \/ x \in ToSet(closerTaken')
                               \/ \E w \in Writers : x \in ToSet(taken'[w])
BY DEF InMemory

\* The variables of the telemetry log.
logVars == <<InMemory, stored, dropped, unheard>>

\* Steps that leave the telemetry alone, or lose the answer to another commit.
LEMMA UntouchedRefines ==
    ASSUME UNCHANGED runtimeVars, unheard' = unheard \/ unheard' = unheard + 1
    PROVE  [Log!Next]_logVars
<1>1. InMemory' = InMemory /\ stored' = stored /\ dropped' = dropped
  BY DEF runtimeVars, InMemory
<1>2. CASE unheard' = unheard
  BY <1>1, <1>2 DEF logVars
<1>3. CASE unheard' = unheard + 1
  <2>1. Log!StoreUnheard({}, {})
    BY <1>1, <1>3 DEF Log!StoreUnheard, Log!GiveUp
  <2> QED
    BY <2>1 DEF Log!Next
<1> QED
  BY <1>2, <1>3

\* takePendingRuntime only moves samples.
LEMMA TakeRefines ==
    ASSUME TypeOK, RuntimeInv, NEW w \in Writers, TakeRuntime(w)
    PROVE  UNCHANGED logVars
<1>1. CASE UNCHANGED <<taken, pendingRuntime>>
  BY <1>1 DEF TakeRuntime, InMemory, logVars
<1>2. CASE taken' = [taken EXCEPT ![w] = pendingRuntime] /\ pendingRuntime' = <<>>
  <2>1. /\ taken[w] = <<>>
        /\ taken'[w] = pendingRuntime
        /\ \A v \in Writers : v # w => taken'[v] = taken[v]
        /\ UNCHANGED <<closerTaken, stored, dropped, unheard>>
    BY <1>2 DEF TypeOK, RuntimeInv, Holding, TakeRuntime
  <2>2. ToSet(taken[w]) = {} /\ ToSet(pendingRuntime') = {}
    BY <1>2, <2>1, EmptyQueue
  <2>3. \A x : x \in InMemory' <=> x \in InMemory
    BY <2>1, <2>2, InMemoryIs, InMemoryNextIs
  <2>4. InMemory' = InMemory
    BY <2>3
  <2> QED
    BY <2>1, <2>4 DEF logVars
<1> QED
  BY <1>1, <1>2 DEF TakeRuntime

\* A commit of WriteSamples stores its batch.
LEMMA CommitRefines ==
    ASSUME TypeOK, RuntimeInv, NEW w \in Writers, WriteCommits(w)
    PROVE  Log!Store(ToSet(taken[w])) /\ ToSet(taken[w]) \subseteq InMemory
<1>1. /\ taken'[w] = <<>>
      /\ \A v \in Writers : v # w => taken'[v] = taken[v]
      /\ stored' = stored \union ToSet(taken[w])
      /\ UNCHANGED <<pendingRuntime, closerTaken, dropped, unheard>>
  BY DEF TypeOK, WriteCommits, WriteRuntimeSamples
<1>2. ToSet(taken'[w]) = {}
  BY <1>1, EmptyQueue
<1>3. \A x : x \in InMemory' <=> x \in InMemory /\ x \notin ToSet(taken[w])
  BY <1>1, <1>2, InMemoryIs, InMemoryNextIs DEF RuntimeInv, OnePlace, OneHolder
<1>4. InMemory' = InMemory \ ToSet(taken[w]) /\ ToSet(taken[w]) \subseteq InMemory
  BY <1>3, InMemoryIs
<1> QED
  BY <1>1, <1>4 DEF Log!Store

\* A commit nobody hears of stores its batch, and the process holds it still.
LEMMA UnknownCommitRefines ==
    ASSUME NEW w \in Writers, WriteOutcomeUnknown(w)
    PROVE  Log!StoreUnheard(ToSet(taken[w]), {}) /\ ToSet(taken[w]) \subseteq InMemory
<1>1. /\ stored' = stored \union ToSet(taken[w]) /\ unheard' = unheard + 1
      /\ UNCHANGED <<pendingRuntime, taken, closerTaken, dropped>>
  BY DEF WriteOutcomeUnknown, WriteRuntimeSamples, Unheard
<1>2. InMemory' = InMemory
  BY <1>1 DEF InMemory
<1>3. ToSet(taken[w]) \subseteq InMemory
  BY InMemoryIs
<1> QED
  BY <1>1, <1>2, <1>3 DEF Log!StoreUnheard, Log!GiveUp

\* requeueRuntime drops what the buffer cannot take, and holds the rest.
LEMMA RequeueRefines ==
    ASSUME TypeOK, RuntimeInv, NEW w \in Writers, Requeue(w)
    PROVE  \E lost \in SUBSET InMemory : Log!Drop(lost)
<1> DEFINE queue == RequeueRuntime(pendingRuntime, taken[w])
<1>1. /\ taken[w] \in Seq(Samples) /\ pendingRuntime \in Seq(Samples)
      /\ Buffer(queue)
      /\ taken'[w] = <<>>
      /\ \A v \in Writers : v # w => taken'[v] = taken[v]
      /\ UNCHANGED <<closerTaken, stored, unheard>>
  BY DEF TypeOK, Requeue
<1>2. /\ queue \in Seq(Samples) /\ NoRepeat(queue)
      /\ ToSet(queue) = ToSet(taken[w]) \union ToSet(pendingRuntime)
  BY <1>1, JoinedQueues DEF RequeueRuntime, RuntimeInv, OnePlace, OneHolder
<1> HIDE DEF queue
<1>3. /\ ToSet(pendingRuntime') \union Cut(queue) = ToSet(queue)
      /\ ToSet(pendingRuntime') \intersect Cut(queue) = {}
      /\ dropped' = dropped \union Cut(queue)
  BY <1>1, <1>2, Buffers
<1>4. ToSet(taken'[w]) = {}
  BY <1>1, EmptyQueue
<1>5. ASSUME NEW x PROVE x \in InMemory' <=> x \in InMemory /\ x \notin Cut(queue)
  <2>1. x \in Cut(queue) => /\ x \notin ToSet(closerTaken)
                            /\ \A v \in Writers : v # w => x \notin ToSet(taken[v])
    BY <1>2, <1>3 DEF RuntimeInv, OnePlace, OneHolder
  <2> QED
    BY <1>1, <1>2, <1>3, <1>4, <2>1, InMemoryIs, InMemoryNextIs
<1>6. InMemory' = InMemory \ Cut(queue) /\ Cut(queue) \subseteq InMemory
  BY <1>2, <1>3, <1>5, InMemoryIs
<1>7. ToSet(pendingRuntime') \subseteq InMemory'
  BY InMemoryNextIs
<1>8. Log!GiveUp(Cut(queue))
  BY <1>1, <1>2, <1>3, <1>7, CutLeavesLimit DEF Log!GiveUp
<1>9. Log!Drop(Cut(queue))
  BY <1>1, <1>6, <1>8 DEF Log!Drop
<1> QED
  BY <1>6, <1>9

\* recordRuntimeResult records a sample that nobody has seen before.
LEMMA RecordRefines ==
    ASSUME TypeOK, RuntimeInv, NEW w \in Writers, RecordRuntimeResult(w)
    PROVE  \E s \in Samples, lost \in SUBSET InMemory : Log!Record(s, lost)
<1> DEFINE s == [scheduler |-> w, observed |-> recorded + 1]
           queue == QueueRuntime(pendingRuntime, s)
<1>1. /\ pendingRuntime \in Seq(Samples) /\ recorded \in Nat /\ s \in Samples
      /\ Buffer(queue)
      /\ UNCHANGED <<taken, closerTaken, stored, unheard>>
  BY SinkAssumption DEF TypeOK, RecordRuntimeResult, Samples
<1>2. s \notin Known
  <2>1. s.observed = recorded + 1
    OBVIOUS
  <2>2. \A x \in Known : x.observed <= recorded
    BY DEF RuntimeInv, Recorded, Known
  <2> QED
    BY <1>1, <2>1, <2>2
<1>3. /\ s \notin ToSet(pendingRuntime) /\ s \notin ToSet(closerTaken)
      /\ \A v \in Writers : s \notin ToSet(taken[v])
      /\ s \notin InMemory \union stored \union dropped
  BY <1>2, KnownIs DEF Known
<1>4. /\ queue \in Seq(Samples) /\ NoRepeat(queue)
      /\ ToSet(queue) = ToSet(pendingRuntime) \union {s}
      /\ queue # <<>> /\ queue[Len(queue)] = s
  <2>1. /\ queue \in Seq(Samples) /\ NoRepeat(queue)
        /\ ToSet(queue) = ToSet(pendingRuntime) \union {s}
    BY <1>1, <1>3, AppendedQueue DEF QueueRuntime, RuntimeInv, OnePlace, OneHolder
  <2>2. Len(queue) = Len(pendingRuntime) + 1 /\ queue[Len(pendingRuntime) + 1] = s
    BY <1>1, AppendProperties DEF QueueRuntime
  <2>3. queue # <<>>
    BY <2>1, EmptyQueue
  <2> QED
    BY <2>1, <2>2, <2>3
<1> HIDE DEF queue, s
<1>5. /\ ToSet(pendingRuntime') \union Cut(queue) = ToSet(queue)
      /\ ToSet(pendingRuntime') \intersect Cut(queue) = {}
      /\ dropped' = dropped \union Cut(queue)
      /\ s \in ToSet(pendingRuntime')
  BY <1>1, <1>4, Buffers, CutQueue DEF Buffer
<1>6. \A x : x \in InMemory' <=> x = s \/ (x \in InMemory /\ x \notin Cut(queue))
  <2>1. Cut(queue) \subseteq ToSet(pendingRuntime)
    BY <1>4, <1>5
  <2>2. ASSUME NEW x, x \in Cut(queue)
        PROVE  x \notin ToSet(closerTaken) /\ \A v \in Writers : x \notin ToSet(taken[v])
    BY <2>1, <2>2 DEF RuntimeInv, OnePlace, OneHolder
  <2> QED
    BY <1>1, <1>4, <1>5, <2>2, InMemoryIs, InMemoryNextIs
<1>7. InMemory' = (InMemory \ Cut(queue)) \union {s} /\ Cut(queue) \subseteq InMemory
  BY <1>4, <1>5, <1>6, InMemoryIs
<1>8. ToSet(pendingRuntime') \subseteq InMemory'
  BY InMemoryNextIs
<1>9. Log!GiveUp(Cut(queue))
  BY <1>1, <1>4, <1>5, <1>8, CutLeavesLimit DEF Log!GiveUp
<1>10. Log!Record(s, Cut(queue))
  BY <1>1, <1>3, <1>7, <1>9 DEF Log!Record
<1> QED
  BY <1>1, <1>7, <1>10

\* flushRuntime takes, stores and puts back as a writer does.
LEMMA CloseRefines ==
    ASSUME TypeOK, RuntimeInv,
           \/ CloseTakesRuntime \/ CloseWritesRuntime
           \/ CloseWriteFails \/ CloseWriteOutcomeUnknown
    PROVE  [Log!Next]_logVars
<1>1. CASE CloseTakesRuntime
  <2>1. /\ closerTaken = <<>> /\ closerTaken' = pendingRuntime /\ pendingRuntime' = <<>>
        /\ UNCHANGED <<taken, stored, dropped, unheard>>
    BY <1>1 DEF RuntimeInv, Holding, CloseTakesRuntime
  <2>2. ToSet(closerTaken) = {} /\ ToSet(pendingRuntime') = {}
    BY <2>1, EmptyQueue
  <2>3. \A x : x \in InMemory' <=> x \in InMemory
    BY <2>1, <2>2, InMemoryIs, InMemoryNextIs
  <2>4. InMemory' = InMemory
    BY <2>3
  <2> QED
    BY <2>1, <2>4 DEF logVars
<1>2. CASE CloseWritesRuntime
  <2>1. /\ closerTaken' = <<>>
        /\ stored' = stored \union ToSet(closerTaken)
        /\ UNCHANGED <<pendingRuntime, taken, dropped, unheard>>
    BY <1>2 DEF CloseWritesRuntime, WriteRuntimeSamples
  <2>2. ToSet(closerTaken') = {}
    BY <2>1, EmptyQueue
  <2>3. \A x : x \in InMemory' <=> x \in InMemory /\ x \notin ToSet(closerTaken)
    BY <2>1, <2>2, InMemoryIs, InMemoryNextIs DEF RuntimeInv, OnePlace, OneHolder
  <2>4. InMemory' = InMemory \ ToSet(closerTaken) /\ ToSet(closerTaken) \subseteq InMemory
    BY <2>3, InMemoryIs
  <2>5. Log!Store(ToSet(closerTaken))
    BY <2>1, <2>4 DEF Log!Store
  <2> QED
    BY <2>4, <2>5 DEF Log!Next
<1>3. CASE CloseWriteFails \/ CloseWriteOutcomeUnknown
  <2> DEFINE queue == RequeueRuntime(pendingRuntime, closerTaken)
  <2>1. /\ closerTaken \in Seq(Samples) /\ pendingRuntime \in Seq(Samples)
        /\ Buffer(queue)
        /\ closerTaken' = <<>>
        /\ UNCHANGED taken
    BY <1>3 DEF TypeOK, CloseWriteFails, CloseWriteOutcomeUnknown
  <2>2. /\ queue \in Seq(Samples) /\ NoRepeat(queue)
        /\ ToSet(queue) = ToSet(closerTaken) \union ToSet(pendingRuntime)
    BY <2>1, JoinedQueues DEF RequeueRuntime, RuntimeInv, OnePlace, OneHolder
  <2> HIDE DEF queue
  <2>3. /\ ToSet(pendingRuntime') \union Cut(queue) = ToSet(queue)
        /\ ToSet(pendingRuntime') \intersect Cut(queue) = {}
        /\ dropped' = dropped \union Cut(queue)
    BY <2>1, <2>2, Buffers
  <2>4. ToSet(closerTaken') = {}
    BY <2>1, EmptyQueue
  <2>5. \A x : x \in InMemory' <=> x \in InMemory /\ x \notin Cut(queue)
    BY <2>1, <2>2, <2>3, <2>4, InMemoryIs, InMemoryNextIs DEF RuntimeInv, OnePlace, OneHolder
  <2>6. InMemory' = InMemory \ Cut(queue) /\ Cut(queue) \subseteq InMemory
    BY <2>2, <2>3, <2>5, InMemoryIs
  <2>7. ToSet(pendingRuntime') \subseteq InMemory'
    BY InMemoryNextIs
  <2>8. Log!GiveUp(Cut(queue))
    BY <2>1, <2>2, <2>3, <2>7, CutLeavesLimit DEF Log!GiveUp
  <2>9. CASE CloseWriteFails
    <3>1. Log!Drop(Cut(queue))
      BY <2>6, <2>8, <2>9 DEF CloseWriteFails, Log!Drop
    <3> QED
      BY <2>6, <3>1 DEF Log!Next
  <2>10. CASE CloseWriteOutcomeUnknown
    <3>1. ToSet(closerTaken) \subseteq InMemory
      BY InMemoryIs
    <3>2. stored' = stored \union ToSet(closerTaken) /\ unheard' = unheard + 1
      BY <2>10 DEF CloseWriteOutcomeUnknown, WriteRuntimeSamples, Unheard
    <3>3. Log!StoreUnheard(ToSet(closerTaken), Cut(queue))
      BY <2>6, <2>8, <3>2 DEF Log!StoreUnheard
    <3> QED
      BY <2>6, <3>1, <3>3 DEF Log!Next
  <2> QED
    BY <1>3, <2>9, <2>10
<1> QED
  BY <1>1, <1>2, <1>3

\* Every step of the sink is a step of the telemetry log, or none.
LEMMA SinkStepRefines ==
    ASSUME TypeOK, RuntimeInv, [Next]_vars
    PROVE  [Log!Next]_logVars
<1>1. ASSUME NEW w \in Writers, WriteSamples(w) PROVE [Log!Next]_logVars
  <2>1. CASE TakeRuntime(w)
    BY <2>1, TakeRefines
  <2>2. CASE WriteCommits(w)
    BY <2>2, CommitRefines DEF Log!Next
  <2>3. CASE WriteOutcomeUnknown(w)
    <3>1. {} \in SUBSET InMemory
      OBVIOUS
    <3> QED
      BY <2>3, <3>1, UnknownCommitRefines DEF Log!Next
  <2>4. CASE Requeue(w)
    BY <2>4, RequeueRefines DEF Log!Next
  <2>5. CASE RecordRuntimeResult(w)
    BY <2>5, RecordRefines DEF Log!Next
  <2>6. CASE \/ WriteFails(w) \/ NoRuntimeResult(w) \/ RecordIngest(w)
             \/ FlushNotDue(w) \/ FlushBegins(w) \/ FlushEnds(w)
    <3>1. UNCHANGED <<runtimeVars>> /\ (unheard' = unheard \/ unheard' = unheard + 1)
      BY <2>6 DEF WriteFails, NoRuntimeResult, RecordIngest, FlushNotDue, FlushBegins,
                  FlushEnds, IngestOutcomeUnknown, Unheard
    <3> QED
      BY <3>1, UntouchedRefines
  <2> QED
    BY <1>1, <2>1, <2>2, <2>3, <2>4, <2>5, <2>6 DEF WriteSamples
<1>2. CASE CloseBegins \/ CloseFlushBegins \/ CloseFlushed \/ CloseFlushFails \/ CloseEnds
  <2>1. UNCHANGED <<runtimeVars>> /\ (unheard' = unheard \/ unheard' = unheard + 1)
    BY <1>2 DEF CloseBegins, CloseFlushBegins, CloseFlushed, CloseFlushFails, CloseEnds,
                IngestOutcomeUnknown, Unheard
  <2> QED
    BY <2>1, UntouchedRefines
<1>3. CASE UNCHANGED vars
  BY <1>3, UntouchedRefines DEF vars
<1> QED
  BY <1>1, <1>2, <1>3, CloseRefines DEF Next, Close

-----------------------------------------------------------------------------
(* The theorems.                                                           *)

\* The inductive invariant holds in every behaviour of the sink.
THEOREM SinkInvariant == Spec => []IInv
<1>1. Init => IInv
  BY InitIInv
<1>2. IInv /\ [Next]_vars => IInv'
  BY TypeStep, RuntimeStep, IngestStep, CloseStep DEF IInv, RuntimeInv
<1> QED
  BY <1>1, <1>2, PTL DEF Spec

\* The telemetry buffer never outgrows maxPendingRuntimeSamples, whatever
\* requeueRuntime and queueRuntime put into it.
THEOREM SinkBufferBounded == Spec => []BufferBounded
<1>1. IInv => BufferBounded
  BY DEF IInv, RuntimeInv
<1> QED
  BY <1>1, SinkInvariant, PTL

\* Every sample that recordRuntimeResult ever recorded is buffered, in a
\* transaction, stored, or was dropped because the buffer was full.
THEOREM SinkNoSampleLost == Spec => []NoSampleLost
<1>1. IInv => NoSampleLost
  BY DEF IInv, RuntimeInv
<1> QED
  BY <1>1, SinkInvariant, PTL

\* While the outcome of every commit is known, no sample is stored twice and
\* none is both stored and reported as dropped.
THEOREM SinkStoredOnce == Spec => []StoredOnce
<1>1. IInv => StoredOnce
  BY DEF IInv, RuntimeInv, OnePlace, StoredApart, StoredOnce
<1> QED
  BY <1>1, SinkInvariant, PTL

\* The latest status of a scheduler is its newest stored sample, in whatever
\* order writeRuntimeSamples commits the batches.
THEOREM SinkLatestIsNewest == Spec => []LatestIsNewest
<1>1. IInv => LatestIsNewest
  BY DEF IInv, RuntimeInv
<1> QED
  BY <1>1, SinkInvariant, PTL

\* While the outcome of every commit is known, every row committed is counted
\* exactly once by recordRepositoryIngest and flushRepositoryIngest.
THEOREM SinkRowsAccounted == Spec => []RowsAccounted
<1>1. IInv => RowsAccounted
  BY DEF IInv, IngestInv
<1> QED
  BY <1>1, SinkInvariant, PTL

\* sink.Close() leaves nothing in the buffers when no WriteSamples call
\* overlaps it and none of its flushes fails.
THEOREM SinkCloseLeavesNothing == Spec => []CloseLeavesNothing
<1>1. IInv => CloseLeavesNothing
  BY DEF IInv, Closing, CloseLeavesNothing
<1> QED
  BY <1>1, SinkInvariant, PTL

\* The buffer, the transactions of the writers and the flush of sink.Close()
\* implement the telemetry log: each sample is recorded once, and stored or dropped
\* once, except that a commit whose answer is lost leaves it in memory too.
THEOREM RefinesTelemetryLog == Spec => ImplementsTelemetryLog
<1>1. Init => Log!Init
  <2>1. ASSUME Init PROVE InMemory = {}
    BY <2>1, EmptyQueue, InMemoryIs DEF Init
  <2> QED
    BY <2>1 DEF Init, Log!Init
<1>2. IInv /\ [Next]_vars => [Log!Next]_logVars
  BY SinkStepRefines DEF IInv
<1> QED
  BY <1>1, <1>2, SinkInvariant, PTL DEF Spec, Log!Spec, ImplementsTelemetryLog, logVars
=============================================================================
