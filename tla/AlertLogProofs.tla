--------------------------- MODULE AlertLogProofs ---------------------------
(***************************************************************************)
(* Theorems about AlertLog, for any number of databases, with one file for *)
(* all of them or one for each, any number of entries and of entries with  *)
(* the same timestamp, and any torn lines, failures, removed files and     *)
(* restarts.  The backoff has no part in them: it only decides when a call *)
(* begins.                                                                 *)
(***************************************************************************)
EXTENDS AlertLog, WellFoundedInduction, TLAPS

-----------------------------------------------------------------------------
(* The inductive invariant.                                                *)

TypeOK ==
    /\ entries \in [Databases -> SUBSET Entries]
    /\ files \in [Files -> Seq(Lines) \union {Missing}]
    /\ pc \in {"idle", "asking", "opening", "writing"}
    /\ current \in Databases \union {NoDatabase}
    /\ since \in Nat
    /\ pending \subseteq Entries
    /\ detached \in BOOLEAN

\* The entries of a database are its own.
OwnEntries == \A d \in Databases : \A e \in entries[d] : e.db = d

\* The entries in a file.
Content(file) == UNION {file[i].of : i \in DOMAIN file}

\* A line that can be parsed holds one record.
OneRecord(file) ==
    \A i \in DOMAIN file : file[i].kind \in {"whole", "unterminated"} => \E e \in Entries : file[i].of = {e}

\* The records of a database are in the order of their timestamps, and none is
\* there twice.
Sorted(file) ==
    \A i, j \in DOMAIN file : i < j =>
        \A a \in file[i].of, b \in file[j].of : a.db = b.db => a.time <= b.time /\ a # b

\* A file has entries of the databases that write to it.
Genuine(f) == \A o \in Content(files[f]) : o \in entries[o.db] /\ FileOf(o.db) = f

\* The timestamp of an entry is in a file.
TimeIn(e, file) == \E o \in Content(file) : o.db = e.db /\ o.time = e.time

\* Whatever is in a file, every earlier timestamp of its database is there too.
NoGap(f) ==
    \A o \in Content(files[f]) : \A e \in entries[o.db] : e.time < o.time => TimeIn(e, files[f])

FilesOK ==
    \A f \in Files : files[f] # Missing =>
        OneRecord(files[f]) /\ Sorted(files[f]) /\ Genuine(f) /\ NoGap(f)

TornEnd(file) == file # <<>> /\ file[Len(file)].kind = "torn"

\* The call, while the file it has looked at is still there.
AskingOK(file) ==
    /\ \A o \in Content(file) : o.db = current => o.time <= since
    /\ since = DefaultTime \/ \E o \in Content(file) : o.db = current /\ o.time = since
    /\ \A e \in entries[current] : e.time <= since => TimeIn(e, file)
RowsOK(file) ==
    \A p \in pending :
        /\ \A o \in Content(file) : o.db = current => o.time <= p.time /\ o # p
        /\ \A e \in entries[current] : e.time < p.time => e \in pending \/ TimeIn(e, file)

CallOK ==
    /\ pc = "idle" <=> current = NoDatabase
    /\ pc # "writing" => ~detached
    /\ pc = "writing" => (detached <=> files[FileOf(current)] = Missing)
    /\ pc \in {"opening", "writing"} => pending \subseteq entries[current]
    /\ pc # "idle" /\ files[FileOf(current)] # Missing =>
         LET file == files[FileOf(current)]
         IN /\ ~TornEnd(file)
            /\ pc = "asking" => AskingOK(file)
            /\ pc \in {"opening", "writing"} => RowsOK(file)

IInv == TypeOK /\ OwnEntries /\ FilesOK /\ CallOK

-----------------------------------------------------------------------------
(* Sets of positions and lines.                                            *)

\* A set of positions has a greatest.
LEMMA Greatest ==
    ASSUME NEW n \in Nat, NEW S \in SUBSET (1 .. n), S # {}
    PROVE  Max(S) \in S /\ \A y \in S : y <= Max(S)
<1> DEFINE R == {ss \in Nat \X Nat : ss[1] < ss[2]}
           T == {m \in Nat : \E x \in S : m = n - x}
<1>1. IsWellFoundedOn(R, Nat)
  BY NatLessThanWellFounded DEF OpToRel
<1>2. T \subseteq Nat /\ T # {}
  <2>1. PICK x \in S : TRUE
    OBVIOUS
  <2>2. n - x \in T
    BY <2>1
  <2> QED
    BY <2>2
<1>3. \E m \in T : \A k \in T : ~ (<<k, m>> \in R)
  <2> HIDE DEF R, T
  <2> QED
    BY <1>1, <1>2, WFMin
<1>4. PICK m \in T : \A k \in T : m <= k
  <2>1. \A k, m \in Nat : k < m => <<k, m>> \in R
    OBVIOUS
  <2> HIDE DEF R
  <2>2. \A k, m \in T : ~(<<k, m>> \in R) => m <= k
    BY <2>1
  <2> HIDE DEF T
  <2> QED
    BY <1>3, <2>2
<1>5. PICK x \in S : m = n - x
  BY <1>4
<1>6. \A y \in S : x >= y
  <2> TAKE y \in S
  <2>1. n - y \in T
    OBVIOUS
  <2> QED
    BY <1>4, <1>5, <2>1
<1> QED
  BY <1>6 DEF Max

\* What AppendLine does to a file: all but the last of its lines are those of the
\* file before, and the last is the new line, or the one without a newline that
\* the new line has been added to.
LEMMA Appended ==
    ASSUME NEW s \in Seq(Lines), NEW line \in Lines, NEW t, t = AppendLine(s, line)
    PROVE  /\ t \in Seq(Lines) /\ Len(t) \in Nat \ {0} /\ t # <<>>
           /\ \A i \in 1 .. Len(t) - 1 : i \in 1 .. Len(s) /\ t[i] = s[i]
           /\ \/ Len(t) = Len(s) + 1 /\ t[Len(t)] = line
              \/ /\ Len(t) = Len(s)
                 /\ t[Len(t)] = [of |-> s[Len(s)].of \union line.of,
                                 kind |-> IF line.kind = "whole" THEN "glued" ELSE "torn"]
<1>1. CASE s # <<>> /\ s[Len(s)].kind \in {"unterminated", "torn"}
  <2> DEFINE n == Len(s)
             new == [of |-> s[n].of \union line.of,
                     kind |-> IF line.kind = "whole" THEN "glued" ELSE "torn"]
  <2>1. n \in Nat \ {0} /\ s[n] \in Lines
    BY <1>1
  <2>2. new \in Lines
    BY <2>1 DEF Lines
  <2>3. t = [s EXCEPT ![n] = new]
    BY <1>1, <2>1 DEF AppendLine
  <2> HIDE DEF new
  <2>4. t \in Seq(Lines) /\ Len(t) = n /\ t[n] = new /\ \A i \in 1 .. n - 1 : t[i] = s[i]
    BY <2>1, <2>2, <2>3
  <2>5. t # <<>>
    BY <2>1, <2>4
  <2> QED
    BY <2>1, <2>4, <2>5 DEF new
<1>2. CASE ~(s # <<>> /\ s[Len(s)].kind \in {"unterminated", "torn"})
  <2>1. t = Append(s, line)
    BY <1>2 DEF AppendLine
  <2>2. t \in Seq(Lines) /\ Len(t) = Len(s) + 1 /\ t[Len(t)] = line /\ Len(s) \in Nat
        /\ \A i \in 1 .. Len(s) : t[i] = s[i]
    BY <2>1
  <2>3. t # <<>>
    BY <2>2
  <2> QED
    BY <2>2, <2>3
<1> QED
  BY <1>1, <1>2

\* A write at the end of a file keeps its order, if what is written is not older
\* than what the file has of the database, and not in it.
LEMMA AppendKeeps ==
    ASSUME NEW s \in Seq(Lines), OneRecord(s), Sorted(s),
           NEW line \in Lines, NEW t, t = AppendLine(s, line),
           line.kind \in {"whole", "unterminated"} => \E e \in Entries : line.of = {e},
           \A e \in line.of, o \in Content(s) : o.db = e.db => o.time <= e.time /\ o # e
    PROVE  /\ t \in Seq(Lines) /\ OneRecord(t) /\ Sorted(t)
           /\ Content(t) = Content(s) \union line.of
           /\ line.kind = "whole" => ~TornEnd(t)
<1>a. /\ t \in Seq(Lines) /\ Len(t) \in Nat \ {0} /\ t # <<>>
      /\ \A i \in 1 .. Len(t) - 1 : i \in 1 .. Len(s) /\ t[i] = s[i]
      /\ \/ Len(t) = Len(s) + 1 /\ t[Len(t)] = line
         \/ /\ Len(t) = Len(s)
            /\ t[Len(t)] = [of |-> s[Len(s)].of \union line.of,
                            kind |-> IF line.kind = "whole" THEN "glued" ELSE "torn"]
  BY Appended
<1>b. Len(s) \in Nat /\ DOMAIN s = 1 .. Len(s) /\ DOMAIN t = 1 .. Len(t)
  BY <1>a
<1>c. PICK n \in Nat \ {0} : n = Len(t)
  BY <1>a
<1>1. \/ n = Len(s) + 1 /\ t[n] = line
      \/ /\ n = Len(s)
         /\ t[n].of = s[n].of \union line.of
         /\ t[n].kind = IF line.kind = "whole" THEN "glued" ELSE "torn"
  <2>1. CASE Len(t) = Len(s) + 1 /\ t[Len(t)] = line
    BY <1>c, <2>1
  <2>2. CASE /\ Len(t) = Len(s)
             /\ t[Len(t)] = [of |-> s[Len(s)].of \union line.of,
                             kind |-> IF line.kind = "whole" THEN "glued" ELSE "torn"]
    BY <1>c, <2>2
  <2> QED
    BY <1>a, <2>1, <2>2
<1>2. DOMAIN s = 1 .. Len(s) /\ DOMAIN t = 1 .. n /\ Len(s) \in Nat
  BY <1>b, <1>c
<1>3. \A i \in DOMAIN t : i # n => i \in DOMAIN s /\ t[i] = s[i] /\ i < n
  <2> SUFFICES ASSUME NEW i \in DOMAIN t, i # n PROVE i \in DOMAIN s /\ t[i] = s[i] /\ i < n
    OBVIOUS
  <2>1. i \in 1 .. Len(t) - 1 /\ i < n
    BY <1>2, <1>c
  <2> QED
    BY <1>a, <1>b, <2>1
<1>4. OneRecord(t)
  <2> SUFFICES ASSUME NEW i \in DOMAIN t, t[i].kind \in {"whole", "unterminated"}
               PROVE  \E e \in Entries : t[i].of = {e}
    BY DEF OneRecord
  <2>1. CASE i # n
    BY <1>3, <2>1 DEF OneRecord
  <2>2. CASE i = n
    BY <1>1, <2>2
  <2> QED
    BY <2>1, <2>2
<1>5. ASSUME NEW b \in t[n].of
      PROVE  \/ b \in line.of
             \/ n \in DOMAIN s /\ b \in s[n].of
  <2>1. CASE n = Len(s) + 1 /\ t[n] = line
    BY <1>5, <2>1
  <2>2. CASE n = Len(s) /\ t[n].of = s[n].of \union line.of
    <3>1. n \in DOMAIN s
      BY <1>2, <2>2
    <3> QED
      BY <1>5, <2>2, <3>1
  <2> QED
    BY <1>1, <2>1, <2>2
<1>6. Sorted(t)
  <2> SUFFICES ASSUME NEW i \in DOMAIN t, NEW j \in DOMAIN t, i < j,
                      NEW a \in t[i].of, NEW b \in t[j].of, a.db = b.db
               PROVE  a.time <= b.time /\ a # b
    BY DEF Sorted
  <2>1. i # n /\ i \in DOMAIN s /\ a \in s[i].of /\ a \in Content(s)
    <3>1. i # n
      <4>1. i \in 1 .. n /\ j \in 1 .. n
        BY <1>2
      <4> QED
        BY <4>1
    <3> QED
      BY <1>3, <3>1 DEF Content
  <2>2. CASE j # n
    BY <1>3, <2>1, <2>2 DEF Sorted
  <2>3. CASE j = n
    <3>1. CASE b \in line.of
      BY <2>1, <3>1
    <3>2. CASE n \in DOMAIN s /\ b \in s[n].of
      BY <2>1, <2>3, <3>2 DEF Sorted
    <3> QED
      BY <1>5, <2>3, <3>1, <3>2
  <2> QED
    BY <2>2, <2>3
<1>7. Content(t) = Content(s) \union line.of
  <2>1. ASSUME NEW o \in Content(t) PROVE o \in Content(s) \union line.of
    <3>1. PICK i \in DOMAIN t : o \in t[i].of
      BY DEF Content
    <3>2. CASE i # n
      BY <1>3, <3>1, <3>2 DEF Content
    <3>3. CASE i = n
      BY <1>5, <3>1, <3>3 DEF Content
    <3> QED
      BY <3>2, <3>3
  <2>2. ASSUME NEW o \in line.of PROVE o \in Content(t)
    <3>1. n \in DOMAIN t
      BY <1>2
    <3>2. o \in t[n].of
      BY <1>1, <2>2
    <3> QED
      BY <3>1, <3>2 DEF Content
  <2>3. ASSUME NEW o \in Content(s) PROVE o \in Content(t)
    <3>1. PICK i \in DOMAIN s : o \in s[i].of
      BY DEF Content
    <3>2. i \in DOMAIN t /\ o \in t[i].of
      <4> DEFINE k == Len(s)
      <4>k. k \in Nat /\ i \in 1 .. k /\ DOMAIN t = 1 .. n
        BY <1>2
      <4>a. n = k + 1 \/ n = k
        BY <1>1
      <4> HIDE DEF k
      <4>b. i \in DOMAIN t
        BY <4>a, <4>k
      <4>1. CASE i = n
        <5>1. n = k /\ n # k + 1
          BY <4>a, <4>k, <4>1
        <5>2. t[n].of = s[n].of \union line.of
          BY <1>1, <5>1 DEF k
        <5> QED
          BY <3>1, <4>1, <4>b, <5>2
      <4>2. CASE i # n
        BY <1>3, <3>1, <4>2, <4>b
      <4> QED
        BY <4>1, <4>2
    <3> QED
      BY <3>2 DEF Content
  <2> QED
    BY <2>1, <2>2, <2>3
<1>8. line.kind = "whole" => ~TornEnd(t)
  BY <1>1, <1>c DEF TornEnd
<1> QED
  BY <1>a, <1>4, <1>6, <1>7, <1>8

-----------------------------------------------------------------------------
(* readLastMatchingLogRecord.                                              *)

\* The files of the model.
LEMMA FileOfDatabase ==
    ASSUME NEW d \in Databases
    PROVE  FileOf(d) \in Files
BY DEF Files

\* The contents of a file, and those of one that does not exist.
LEMMA ContentsOf ==
    ASSUME TypeOK, FilesOK, NEW d \in Databases
    PROVE  /\ Contents(d) \in Seq(Lines) /\ OneRecord(Contents(d)) /\ Sorted(Contents(d))
           /\ \A o \in Content(Contents(d)) : o \in entries[o.db] /\ FileOf(o.db) = FileOf(d)
           /\ \A o \in Content(Contents(d)) : \A e \in entries[o.db] :
                e.time < o.time => TimeIn(e, Contents(d))
<1>1. FileOf(d) \in Files
  BY FileOfDatabase
<1>2. CASE files[FileOf(d)] = Missing
  BY <1>2 DEF Contents, OneRecord, Sorted, Content
<1>3. CASE files[FileOf(d)] # Missing
  BY <1>1, <1>3 DEF Contents, TypeOK, FilesOK, Genuine, NoGap
<1> QED
  BY <1>2, <1>3

\* Of a database's own file, or of a file for all: what has the database in it.
LEMMA MatchingRecord ==
    ASSUME TypeOK, FilesOK, NEW d \in Databases, NEW i \in DOMAIN Contents(d)
    PROVE  /\ Matches(Contents(d)[i], d) =>
                \E e \in Entries : Contents(d)[i].of = {e} /\ e.db = d
           /\ (\E e \in Contents(d)[i].of : e.db = d) => i \in Stops(d)
<1>1. /\ Contents(d)[i] \in Lines
      /\ OneRecord(Contents(d))
      /\ \A o \in Contents(d)[i].of : FileOf(o.db) = FileOf(d)
  BY ContentsOf DEF Content
<1>2. ASSUME Matches(Contents(d)[i], d)
      PROVE  \E e \in Entries : Contents(d)[i].of = {e} /\ e.db = d
  <2>1. Contents(d)[i].kind \in {"whole", "unterminated"}
    BY <1>1, <1>2 DEF Matches, Unparsable, Lines
  <2>2. PICK e \in Entries : Contents(d)[i].of = {e}
    BY <1>1, <2>1 DEF OneRecord
  <2>3. e.db = d
    <3>1. CASE PerDatabaseFiles
      BY <1>1, <2>2, <3>1 DEF FileOf
    <3>2. CASE ~PerDatabaseFiles
      BY <1>2, <2>2, <3>2 DEF Matches
    <3> QED
      BY <3>1, <3>2
  <2> QED
    BY <2>2, <2>3
<1>3. ASSUME \E e \in Contents(d)[i].of : e.db = d
      PROVE  i \in Stops(d)
  BY <1>3 DEF Stops, Matches
<1> QED
  BY <1>2, <1>3

\* The time that a call starts from: that of a record of the database, and the
\* latest of them; and the file does not end with a part of a record.
LEMMA LastRecord ==
    ASSUME TypeOK, FilesOK, NEW d \in Databases, Readable(d)
    PROVE  /\ LastTime(d) \in Nat
           /\ \/ LastTime(d) = DefaultTime
              \/ \E o \in Content(Contents(d)) : o.db = d /\ o.time = LastTime(d)
           /\ \A o \in Content(Contents(d)) : o.db = d => o.time <= LastTime(d)
           /\ ~TornEnd(Contents(d))
<1> DEFINE file == Contents(d)
           stops == {i \in Stops(d) : Matches(Contents(d)[i], d)}
<1>1. file \in Seq(Lines) /\ Sorted(file) /\ DOMAIN file = 1 .. Len(file) /\ Len(file) \in Nat
  BY ContentsOf
<1>2. Stops(d) \in SUBSET (1 .. Len(file))
  BY <1>1 DEF Stops
<1>3. CASE Stops(d) = {}
  <2>1. stops = {}
    BY <1>3
  <2>2. LastTime(d) = DefaultTime
    BY <2>1 DEF LastTime
  <2>3. \A o \in Content(file) : o.db # d
    BY <1>3, MatchingRecord DEF Content
  <2>4. ~TornEnd(file)
    <3> SUFFICES ASSUME TornEnd(file) PROVE FALSE
      OBVIOUS
    <3>1. Len(file) \in DOMAIN file /\ file[Len(file)].kind = "torn"
      BY <1>1 DEF TornEnd
    <3> QED
      BY <1>3, <3>1 DEF Stops, Unparsable
  <2> QED
    BY <2>2, <2>3, <2>4 DEF DefaultTime
<1>4. CASE Stops(d) # {}
  <2> DEFINE m == Max(Stops(d))
  <2>1. m \in Stops(d) /\ \A i \in Stops(d) : i <= m
    BY <1>1, <1>2, <1>4, Greatest
  <2>2. Matches(file[m], d) /\ m \in stops
    BY <1>4, <2>1 DEF Readable
  <2>3. Max(stops) = m
    <3>1. Max(stops) \in stops /\ \A i \in stops : i <= Max(stops)
      <4>1. stops \in SUBSET (1 .. Len(file)) /\ stops # {}
        BY <1>2, <2>2
      <4> HIDE DEF stops
      <4> QED
        BY <1>1, <4>1, Greatest
    <3>2. Max(stops) <= m /\ m <= Max(stops) /\ m \in Nat /\ Max(stops) \in Nat
      <4>1. Max(stops) \in Stops(d)
        BY <3>1
      <4>2. m <= Max(stops)
        BY <2>2, <3>1
      <4> QED
        BY <1>1, <1>2, <2>1, <4>1, <4>2
    <3> HIDE DEF stops, m
    <3> QED
      BY <3>2
  <2>4. m \in DOMAIN file
    BY <2>1 DEF Stops
  <2>5. PICK e \in Entries : file[m].of = {e} /\ e.db = d
    BY <2>2, <2>4, MatchingRecord
  <2>6. LastTime(d) = e.time
    <3>1. stops # {} /\ (CHOOSE x \in file[m].of : TRUE) = e
      BY <2>2, <2>5
    <3> QED
      BY <2>3, <3>1 DEF LastTime
  <2> HIDE DEF m
  <2>7. e \in Content(file) /\ e.time \in Nat
    BY <2>4, <2>5 DEF Content, Entries
  <2>8. ASSUME NEW o \in Content(file), o.db = d PROVE o.time <= e.time
    <3>1. PICK i \in DOMAIN file : o \in file[i].of
      BY DEF Content
    <3>2. i \in Stops(d) /\ i <= m
      BY <2>1, <2>8, <3>1, MatchingRecord
    <3>3. CASE i = m
      BY <2>5, <2>7, <3>1, <3>3
    <3>4. CASE i < m
      BY <1>1, <2>4, <2>5, <2>8, <3>1, <3>4 DEF Sorted
    <3> QED
      BY <1>1, <2>4, <3>2, <3>3, <3>4
  <2>9. ~TornEnd(file)
    <3> SUFFICES ASSUME TornEnd(file) PROVE FALSE
      OBVIOUS
    <3>1. Len(file) \in DOMAIN file /\ file[Len(file)].kind = "torn"
      BY <1>1 DEF TornEnd
    <3>2. Len(file) \in Stops(d)
      BY <3>1 DEF Stops, Unparsable
    <3>3. m = Len(file)
      BY <1>1, <2>1, <2>4, <3>2
    <3> QED
      BY <2>2, <3>1, <3>3 DEF Matches, Unparsable
  <2> QED
    BY <2>5, <2>6, <2>7, <2>8, <2>9
<1> QED
  BY <1>3, <1>4

-----------------------------------------------------------------------------
(* The steps.                                                              *)

\* A line that a call writes for a row.
RowLine(e, line) ==
    \/ \E kind \in {"whole", "unterminated"} : line = [of |-> {e}, kind |-> kind]
    \/ line = [of |-> {}, kind |-> "torn"]

\* Writing a row to the file keeps the files in order.
LEMMA WriteKeeps ==
    ASSUME IInv, pc = "writing", ~detached, NEW e \in pending, NextRow(e),
           NEW line, RowLine(e, line),
           files' = [files EXCEPT ![FileOf(current)] = AppendLine(@, line)],
           entries' = entries
    PROVE  /\ files' \in [Files -> Seq(Lines) \union {Missing}] /\ FilesOK'
           /\ files[FileOf(current)] # Missing /\ files'[FileOf(current)] # Missing
           /\ Content(files'[FileOf(current)]) = Content(files[FileOf(current)]) \union line.of
           /\ line.kind = "whole" => ~TornEnd(files'[FileOf(current)])
<1>0. PICK f : f = FileOf(current)
  OBVIOUS
<1> DEFINE s == files[f]
           t == files'[f]
<1>1. current \in Databases /\ f \in Files /\ e \in Entries /\ e \in entries[current] /\ e.db = current
  <2>1. current \in Databases
    BY DEF IInv, TypeOK, CallOK
  <2>2. e \in entries[current]
    BY DEF IInv, CallOK
  <2> QED
    BY <1>0, <2>1, <2>2, FileOfDatabase DEF IInv, TypeOK, OwnEntries
<1>2. s # Missing /\ s \in Seq(Lines) /\ RowsOK(s)
  <2>1. s # Missing
    BY <1>0 DEF IInv, CallOK
  <2> QED
    BY <1>0, <1>1, <2>1 DEF IInv, TypeOK, CallOK
<1>3. OneRecord(s) /\ Sorted(s) /\ Genuine(f) /\ NoGap(f)
  BY <1>1, <1>2 DEF IInv, FilesOK
<1>4. t = AppendLine(s, line) /\ \A g \in Files : g # f => files'[g] = files[g]
  BY <1>0, <1>1 DEF IInv, TypeOK
<1>5. /\ line \in Lines /\ line.of \subseteq {e}
      /\ line.kind \in {"whole", "unterminated"} => \E x \in Entries : line.of = {x}
  BY <1>1 DEF RowLine, Lines
<1>6. \A x \in line.of, o \in Content(s) : o.db = x.db => o.time <= x.time /\ o # x
  BY <1>1, <1>2, <1>5 DEF RowsOK
<1> HIDE DEF s, t
<1>7. /\ t \in Seq(Lines) /\ OneRecord(t) /\ Sorted(t)
      /\ Content(t) = Content(s) \union line.of
      /\ line.kind = "whole" => ~TornEnd(t)
  BY <1>2, <1>3, <1>4, <1>5, <1>6, AppendKeeps
<1>8. t # Missing
  BY <1>7, MissingAssumption
<1>9. files' \in [Files -> Seq(Lines) \union {Missing}]
  BY <1>0, <1>1, <1>7 DEF IInv, TypeOK, t
<1>10. Genuine(f)'
  <2>1. \A o \in Content(s) : o \in entries[o.db] /\ FileOf(o.db) = f
    BY <1>3 DEF Genuine, s
  <2>2. \A o \in line.of : o \in entries[o.db] /\ FileOf(o.db) = f
    BY <1>0, <1>1, <1>5
  <2>3. \A o \in Content(t) : o \in entries[o.db] /\ FileOf(o.db) = f
    BY <1>7, <2>1, <2>2
  <2> QED
    BY <2>3 DEF Genuine, t
<1>11. \A o \in Content(t) : \A x \in entries[o.db] : x.time < o.time => TimeIn(x, t)
  <2> SUFFICES ASSUME NEW o \in Content(t), NEW x \in entries[o.db], x.time < o.time
               PROVE  TimeIn(x, t)
    OBVIOUS
  <2>1. CASE o \in Content(s)
    <3>1. TimeIn(x, s)
      BY <1>3, <2>1 DEF NoGap, s
    <3> QED
      BY <1>7, <3>1 DEF TimeIn
  <2>2. CASE o \in line.of
    <3>1. o = e /\ x \in entries[current]
      BY <1>1, <1>5, <2>2
    <3>2. x \notin pending
      <4>1. x \in pending => e.time <= x.time
        BY DEF NextRow
      <4>2. e.time \in Nat /\ x.time \in Nat
        BY <1>1, <3>1 DEF IInv, TypeOK, Entries
      <4> QED
        BY <3>1, <4>1, <4>2
    <3>3. TimeIn(x, s)
      BY <1>2, <3>1, <3>2 DEF RowsOK
    <3> QED
      BY <1>7, <3>3 DEF TimeIn
  <2> QED
    BY <1>7, <2>1, <2>2
<1>12. NoGap(f)'
  BY <1>11 DEF NoGap, t
<1>13. FilesOK'
  <2> SUFFICES ASSUME NEW g \in Files, files'[g] # Missing
               PROVE  OneRecord(files'[g]) /\ Sorted(files'[g]) /\ Genuine(g)' /\ NoGap(g)'
    BY DEF FilesOK
  <2>1. CASE g = f
    BY <1>7, <1>10, <1>12, <2>1 DEF t
  <2>2. CASE g # f
    <3>1. files'[g] = files[g] /\ OneRecord(files[g]) /\ Sorted(files[g]) /\ Genuine(g) /\ NoGap(g)
      BY <1>4, <2>2 DEF IInv, FilesOK
    <3> QED
      BY <3>1 DEF Genuine, NoGap
  <2> QED
    BY <2>1, <2>2
<1> QED
  BY <1>0, <1>2, <1>7, <1>8, <1>9, <1>13 DEF s, t

\* Where entries and files stay, the files stay in order.
LEMMA FilesStay ==
    ASSUME IInv, UNCHANGED <<entries, files>>
    PROVE  OwnEntries' /\ FilesOK' /\ files' \in [Files -> Seq(Lines) \union {Missing}]
           /\ entries' \in [Databases -> SUBSET Entries]
BY DEF IInv, TypeOK, OwnEntries, FilesOK, Genuine, NoGap

\* A call that returns leaves nothing behind but the files.
LEMMA ReturnKeeps ==
    ASSUME IInv, Return, entries' = entries, FilesOK',
           files' \in [Files -> Seq(Lines) \union {Missing}]
    PROVE  IInv'
<1>1. TypeOK' /\ OwnEntries'
  BY DEF IInv, TypeOK, OwnEntries, Return, DefaultTime
<1>2. CallOK'
  BY DEF CallOK, Return
<1> QED
  BY <1>1, <1>2 DEF IInv

\* What a failed write leaves behind keeps the files in order.
LEMMA PartlyWrittenKeeps ==
    ASSUME IInv, pc = "writing", NEW e \in pending, NextRow(e), PartlyWritten(e), entries' = entries
    PROVE  FilesOK' /\ files' \in [Files -> Seq(Lines) \union {Missing}]
<1>1. CASE files' = files
  BY <1>1, FilesStay
<1>2. CASE ~detached /\ \E line : RowLine(e, line) /\
             files' = [files EXCEPT ![FileOf(current)] = AppendLine(@, line)]
  BY <1>2, WriteKeeps
<1> QED
  BY <1>1, <1>2 DEF PartlyWritten, Put, RowLine

\* The beginning of a call: the file is created if need be, and its last record
\* tells what to ask for.
LEMMA BeginKeeps ==
    ASSUME IInv, NEW d \in Databases, Begin(d)
    PROVE  IInv'
<1>1. /\ pc = "idle" /\ Readable(d) /\ pc' = "asking" /\ current' = d
      /\ files' = [files EXCEPT ![FileOf(d)] = Contents(d)]
      /\ since' = LastTime(d)
      /\ UNCHANGED <<entries, pending, detached>>
  BY DEF Begin
<1>2. PICK f \in Files : f = FileOf(d)
  BY FileOfDatabase
<1> DEFINE file == Contents(d)
<1>3. files'[f] = file /\ \A g \in Files : g # f => files'[g] = files[g]
  BY <1>1, <1>2 DEF IInv, TypeOK
<1>4. /\ file \in Seq(Lines) /\ OneRecord(file) /\ Sorted(file)
      /\ \A o \in Content(file) : o \in entries[o.db] /\ FileOf(o.db) = f
      /\ \A o \in Content(file) : \A e \in entries[o.db] : e.time < o.time => TimeIn(e, file)
  BY <1>2, ContentsOf DEF IInv
<1>5. /\ LastTime(d) \in Nat
      /\ \/ LastTime(d) = DefaultTime
         \/ \E o \in Content(file) : o.db = d /\ o.time = LastTime(d)
      /\ \A o \in Content(file) : o.db = d => o.time <= LastTime(d)
      /\ ~TornEnd(file)
  BY <1>1, LastRecord DEF IInv
<1> HIDE DEF file
<1>6. TypeOK' /\ OwnEntries'
  <2>1. files' \in [Files -> Seq(Lines) \union {Missing}]
    BY <1>1, <1>2, <1>4 DEF IInv, TypeOK, file
  <2> QED
    BY <1>1, <1>5, <2>1 DEF IInv, TypeOK, OwnEntries
<1>7. FilesOK'
  <2> SUFFICES ASSUME NEW g \in Files, files'[g] # Missing
               PROVE  OneRecord(files'[g]) /\ Sorted(files'[g]) /\ Genuine(g)' /\ NoGap(g)'
    BY DEF FilesOK
  <2>1. CASE g = f
    BY <1>1, <1>3, <1>4, <2>1 DEF Genuine, NoGap
  <2>2. CASE g # f
    <3>1. files'[g] = files[g] /\ OneRecord(files[g]) /\ Sorted(files[g]) /\ Genuine(g) /\ NoGap(g)
      BY <1>3, <2>2 DEF IInv, FilesOK
    <3> QED
      BY <1>1, <3>1 DEF Genuine, NoGap
  <2> QED
    BY <2>1, <2>2
<1>8. ASSUME NEW e \in entries[d], e.time <= LastTime(d) PROVE TimeIn(e, file)
  <2>1. e.time \in Nat \ {0} /\ e.db = d
    BY DEF IInv, TypeOK, OwnEntries, Entries
  <2>2. PICK o \in Content(file) : o.db = d /\ o.time = LastTime(d)
    BY <1>5, <1>8, <2>1 DEF DefaultTime
  <2>3. CASE e.time = o.time
    BY <2>1, <2>2, <2>3 DEF TimeIn
  <2>4. CASE e.time < o.time
    BY <1>4, <2>2, <2>4
  <2> QED
    BY <1>5, <1>8, <2>1, <2>2, <2>3, <2>4
<1>9. AskingOK(files[FileOf(current)])'
  BY <1>1, <1>2, <1>3, <1>5, <1>8 DEF AskingOK
<1>10. CallOK'
  <2>1. d # NoDatabase
    BY AlertLogAssumption
  <2>2. files'[FileOf(current')] = file
    BY <1>1, <1>2, <1>3
  <2> QED
    BY <1>1, <1>5, <1>9, <2>1, <2>2 DEF IInv, CallOK
<1> QED
  BY <1>6, <1>7, <1>10 DEF IInv

\* The query: what it returns is what is newer than the last record.
LEMMA QueryKeeps ==
    ASSUME IInv, Query
    PROVE  IInv'
<1>1. /\ pc = "asking" /\ pc' = "opening"
      /\ pending' = {e \in entries[current] : e.time > since}
      /\ UNCHANGED <<entries, files, current, since, detached>>
  BY DEF Query
<1>2. current \in Databases /\ entries[current] \subseteq Entries
  BY <1>1 DEF IInv, TypeOK, CallOK
<1>3. TypeOK' /\ OwnEntries' /\ FilesOK'
  BY <1>1, <1>2, FilesStay DEF IInv, TypeOK
<1>4. ASSUME files[FileOf(current)] # Missing
      PROVE  RowsOK(files[FileOf(current)])'
  <2> DEFINE file == files[FileOf(current)]
  <2>1. AskingOK(file)
    BY <1>1, <1>4 DEF IInv, CallOK
  <2> HIDE DEF file
  <2>2. ASSUME NEW p \in pending'
        PROVE  /\ p \in entries[current] /\ p.time > since /\ p.time \in Nat /\ since \in Nat
               /\ \A e \in entries[current] : e.time \in Nat
    BY <1>1, <1>2 DEF IInv, TypeOK, Entries
  <2>3. ASSUME NEW p \in pending', NEW o \in Content(file), o.db = current
        PROVE  o.time <= p.time /\ o # p
    <3>1. o.time <= since /\ o \in entries[current]
      <4>1. FileOf(current) \in Files
        BY <1>2, FileOfDatabase
      <4>2. o \in entries[o.db]
        BY <1>4, <4>1 DEF IInv, FilesOK, Genuine, file
      <4> QED
        BY <2>1, <2>3, <4>2 DEF AskingOK
    <3> QED
      BY <2>2, <3>1
  <2>4. ASSUME NEW p \in pending', NEW e \in entries[current], e.time < p.time
        PROVE  e \in pending' \/ TimeIn(e, file)
    <3>1. CASE e.time <= since
      BY <2>1, <3>1 DEF AskingOK
    <3>2. CASE e.time > since
      BY <1>1, <3>2
    <3> QED
      BY <2>2, <3>1, <3>2
  <2>5. file' = file
    BY <1>1 DEF file
  <2>6. RowsOK(file)'
    BY <1>1, <2>3, <2>4, <2>5 DEF RowsOK
  <2> QED
    BY <2>6 DEF file
<1>5. CallOK'
  <2>1. pending' \subseteq entries'[current']
    BY <1>1
  <2>2. files'[FileOf(current')] = files[FileOf(current)]
    BY <1>1
  <2> QED
    BY <1>1, <1>4, <2>1, <2>2 DEF IInv, CallOK
<1> QED
  BY <1>3, <1>5 DEF IInv

\* Writing a record.
LEMMA RecordKeeps ==
    ASSUME IInv, NEW e \in pending, WriteRecord(e)
    PROVE  IInv'
<1>1. /\ pc = "writing" /\ NextRow(e) /\ pending' = pending \ {e}
      /\ Put([of |-> {e}, kind |-> "whole"])
      /\ UNCHANGED <<entries, pc, current, since, detached>>
  BY DEF WriteRecord
<1>2. CASE detached
  <2>1. UNCHANGED <<entries, files>>
    BY <1>1, <1>2 DEF Put
  <2>2. TypeOK' /\ OwnEntries' /\ FilesOK'
    BY <1>1, <2>1, FilesStay DEF IInv, TypeOK
  <2>3. files[FileOf(current)] = Missing
    BY <1>1, <1>2 DEF IInv, CallOK
  <2>4. CallOK'
    BY <1>1, <1>2, <2>1, <2>3 DEF IInv, CallOK
  <2> QED
    BY <2>2, <2>4 DEF IInv
<1>3. CASE ~detached
  <2> DEFINE line == [of |-> {e}, kind |-> "whole"]
             f == FileOf(current)
             s == files[f]
             t == files'[f]
  <2>1. files' = [files EXCEPT ![FileOf(current)] = AppendLine(@, line)]
    BY <1>1, <1>3 DEF Put
  <2>2. RowLine(e, line) /\ line.of = {e} /\ line.kind = "whole"
    BY DEF RowLine
  <2> HIDE DEF line
  <2>3. /\ files' \in [Files -> Seq(Lines) \union {Missing}] /\ FilesOK'
        /\ s # Missing /\ t # Missing
        /\ Content(t) = Content(s) \union {e}
        /\ ~TornEnd(t)
    BY <1>1, <1>3, <2>1, <2>2, WriteKeeps
  <2>4. TypeOK' /\ OwnEntries'
    BY <1>1, <2>3 DEF IInv, TypeOK, OwnEntries
  <2>5. RowsOK(s) /\ current \in Databases /\ pending \subseteq entries[current]
    BY <1>1, <2>3 DEF IInv, TypeOK, CallOK
  <2>6. ASSUME NEW p \in pending'
        PROVE  /\ \A o \in Content(t) : o.db = current => o.time <= p.time /\ o # p
               /\ \A x \in entries[current] : x.time < p.time => x \in pending' \/ TimeIn(x, t)
    <3>1. p \in pending /\ p # e /\ e.time <= p.time
      BY <1>1 DEF NextRow
    <3>2. ASSUME NEW o \in Content(t), o.db = current PROVE o.time <= p.time /\ o # p
      <4>1. CASE o = e
        BY <3>1, <4>1
      <4>2. CASE o \in Content(s)
        BY <2>5, <3>1, <3>2, <4>2 DEF RowsOK
      <4> QED
        BY <2>3, <4>1, <4>2
    <3>3. ASSUME NEW x \in entries[current], x.time < p.time PROVE x \in pending' \/ TimeIn(x, t)
      <4>1. CASE x = e
        BY <2>3, <4>1 DEF TimeIn
      <4>2. CASE x \in pending /\ x # e
        BY <1>1, <4>2
      <4>3. CASE TimeIn(x, s)
        BY <2>3, <4>3 DEF TimeIn
      <4> QED
        BY <2>5, <3>1, <3>3, <4>1, <4>2, <4>3 DEF RowsOK
    <3> QED
      BY <3>2, <3>3
  <2>7. files'[FileOf(current')] = t
    BY <1>1
  <2> HIDE DEF s, t
  <2>8. RowsOK(files[FileOf(current)])'
    BY <1>1, <2>6, <2>7 DEF RowsOK
  <2>9. CallOK'
    <3>1. pending' \subseteq entries'[current']
      BY <1>1, <2>5
    <3>2. files'[FileOf(current')] # Missing /\ ~TornEnd(files'[FileOf(current')])
      BY <2>3, <2>7
    <3> QED
      BY <1>1, <1>3, <2>5, <2>8, <3>1, <3>2 DEF IInv, CallOK
  <2> QED
    BY <2>3, <2>4, <2>9 DEF IInv
<1> QED
  BY <1>2, <1>3

\* Oracle logs an entry: it is the latest of its database.
LEMMA LoggedKeeps ==
    ASSUME IInv, NEW e \in Entries, Logged(e)
    PROVE  IInv'
<1>1. /\ \A o \in entries[e.db] : o.time <= e.time
      /\ entries' = [entries EXCEPT ![e.db] = @ \union {e}]
      /\ UNCHANGED <<files, pc, current, since, pending, detached>>
  BY DEF Logged, call
<1>2. e.db \in Databases /\ e.time \in Nat /\ e.time # 0
  BY DEF Entries
<1>3. \A d \in Databases : entries'[d] = IF d = e.db THEN entries[d] \union {e} ELSE entries[d]
  BY <1>1, <1>2 DEF IInv, TypeOK
<1>4. TypeOK' /\ OwnEntries'
  <2>1. TypeOK'
    BY <1>1, <1>2 DEF IInv, TypeOK
  <2>2. OwnEntries'
    BY <1>3 DEF IInv, OwnEntries
  <2> QED
    BY <2>1, <2>2
<1>5. FilesOK'
  <2> SUFFICES ASSUME NEW f \in Files, files[f] # Missing
               PROVE  OneRecord(files[f]) /\ Sorted(files[f]) /\ Genuine(f)' /\ NoGap(f)'
    BY <1>1 DEF FilesOK
  <2>1. OneRecord(files[f]) /\ Sorted(files[f]) /\ Genuine(f) /\ NoGap(f) /\ files[f] \in Seq(Lines)
    BY DEF IInv, FilesOK, TypeOK
  <2>2. \A o \in Content(files[f]) : o \in Entries /\ o.db \in Databases /\ o.time \in Nat
    <3> SUFFICES ASSUME NEW o \in Content(files[f]) PROVE o \in Entries
      BY DEF Entries
    <3>1. PICK i \in DOMAIN files[f] : o \in files[f][i].of
      BY DEF Content
    <3>2. files[f][i] \in Lines
      BY <2>1
    <3> QED
      BY <3>1, <3>2 DEF Lines
  <2>3. Genuine(f)'
    <3>1. \A o \in Content(files[f]) : o \in entries'[o.db] /\ FileOf(o.db) = f
      BY <1>3, <2>1, <2>2 DEF Genuine
    <3> QED
      BY <1>1, <3>1 DEF Genuine
  <2>4. ASSUME NEW o \in Content(files[f]), NEW x \in entries'[o.db], x.time < o.time
        PROVE  TimeIn(x, files[f])
    <3>1. o \in entries[o.db]
      BY <2>1 DEF Genuine
    <3>2. x \in entries[o.db]
      <4> SUFFICES ASSUME x \notin entries[o.db] PROVE FALSE
        OBVIOUS
      <4>1. x = e /\ o.db = e.db
        BY <1>3, <2>2
      <4>2. o.time <= e.time
        BY <1>1, <3>1, <4>1
      <4> QED
        BY <1>2, <2>2, <2>4, <4>1, <4>2
    <3> QED
      BY <2>1, <2>4, <3>2 DEF NoGap
  <2>5. NoGap(f)'
    BY <1>1, <2>4 DEF NoGap
  <2> QED
    BY <2>1, <2>3, <2>5
<1>6. CASE pc = "idle"
  BY <1>1, <1>4, <1>5, <1>6 DEF IInv, CallOK
<1>7. CASE pc # "idle"
  <2> DEFINE file == files[FileOf(current)]
  <2>1. current \in Databases /\ FileOf(current) \in Files /\ entries[current] \subseteq entries'[current]
    <3>1. current \in Databases
      BY <1>7 DEF IInv, TypeOK, CallOK
    <3> QED
      BY <1>3, <3>1, FileOfDatabase
  <2>2. ASSUME NEW x \in entries'[current], x \notin entries[current]
        PROVE  x = e /\ e.db = current /\ \A o \in entries[current] : o.time <= e.time
    BY <1>1, <1>3, <2>1, <2>2
  <2>3. ASSUME file # Missing, pc = "asking" PROVE AskingOK(file)'
    <3>1. AskingOK(file) /\ Genuine(FileOf(current))
      BY <2>1, <2>3 DEF IInv, CallOK, FilesOK
    <3>2. ASSUME NEW x \in entries'[current], x.time <= since PROVE TimeIn(x, file)
      <4>1. CASE x \in entries[current]
        BY <3>1, <3>2, <4>1 DEF AskingOK
      <4>2. CASE x \notin entries[current]
        <5>1. x = e /\ e.db = current /\ \A o \in entries[current] : o.time <= e.time
          BY <2>2, <4>2
        <5>2. PICK o \in Content(file) : o.db = current /\ o.time = since
          BY <1>2, <3>1, <3>2, <5>1 DEF AskingOK, DefaultTime
        <5>3. o \in entries[current]
          BY <3>1, <5>2 DEF Genuine
        <5>4. o.time = e.time
          <6>1. o.time <= e.time /\ e.time <= o.time
            BY <3>2, <5>1, <5>2, <5>3
          <6> QED
            BY <1>2, <5>2, <6>1 DEF IInv, TypeOK
        <5> QED
          BY <5>1, <5>2, <5>4 DEF TimeIn
      <4> QED
        BY <4>1, <4>2
    <3> HIDE DEF file
    <3>3. file' = file
      BY <1>1 DEF file
    <3> QED
      BY <1>1, <3>1, <3>2, <3>3 DEF AskingOK
  <2>4. ASSUME file # Missing, pc \in {"opening", "writing"} PROVE RowsOK(file)'
    <3>1. RowsOK(file) /\ pending \subseteq entries[current]
      BY <2>4 DEF IInv, CallOK
    <3>2. ASSUME NEW p \in pending, NEW x \in entries'[current], x.time < p.time
          PROVE  x \in pending \/ TimeIn(x, file)
      <4>1. x \in entries[current]
        <5> SUFFICES ASSUME x \notin entries[current] PROVE FALSE
          OBVIOUS
        <5>1. x = e /\ p.time <= e.time
          BY <2>2, <3>1
        <5>2. p.time \in Nat
          BY DEF IInv, TypeOK, Entries
        <5> QED
          BY <1>2, <3>2, <5>1, <5>2
      <4> QED
        BY <3>1, <3>2, <4>1 DEF RowsOK
    <3> HIDE DEF file
    <3>3. file' = file
      BY <1>1 DEF file
    <3> QED
      BY <1>1, <3>1, <3>2, <3>3 DEF RowsOK
  <2>5. CallOK'
    <3>1. pc \in {"opening", "writing"} => pending' \subseteq entries'[current']
      BY <1>1, <2>1 DEF IInv, CallOK
    <3>2. files'[FileOf(current')] = file
      BY <1>1
    <3> QED
      BY <1>1, <1>7, <2>3, <2>4, <3>1, <3>2 DEF IInv, CallOK
  <2> QED
    BY <1>4, <1>5, <2>5 DEF IInv
<1> QED
  BY <1>6, <1>7

\* A file is removed.
LEMMA RemovedKeeps ==
    ASSUME IInv, NEW f \in Files, Removed(f)
    PROVE  IInv'
<1>1. /\ files' = [files EXCEPT ![f] = Missing]
      /\ detached' = IF pc = "writing" /\ FileOf(current) = f THEN TRUE ELSE detached
      /\ UNCHANGED <<entries, pc, current, since, pending>>
  BY DEF Removed
<1>2. \A g \in Files : files'[g] = IF g = f THEN Missing ELSE files[g]
  BY <1>1 DEF IInv, TypeOK
<1>3. TypeOK' /\ OwnEntries'
  <2>1. detached' \in BOOLEAN
    BY <1>1 DEF IInv, TypeOK
  <2> QED
    BY <1>1, <2>1 DEF IInv, TypeOK, OwnEntries
<1>4. FilesOK'
  <2> SUFFICES ASSUME NEW g \in Files, files'[g] # Missing
               PROVE  OneRecord(files'[g]) /\ Sorted(files'[g]) /\ Genuine(g)' /\ NoGap(g)'
    BY DEF FilesOK
  <2>1. files'[g] = files[g]
    BY <1>2
  <2>2. OneRecord(files[g]) /\ Sorted(files[g]) /\ Genuine(g) /\ NoGap(g)
    BY <2>1 DEF IInv, FilesOK
  <2> QED
    BY <1>1, <2>1, <2>2 DEF Genuine, NoGap
<1>5. CASE pc = "idle"
  BY <1>1, <1>3, <1>4, <1>5 DEF IInv, CallOK
<1>6. CASE pc # "idle"
  <2>1. current \in Databases /\ FileOf(current) \in Files
    <3>1. current \in Databases
      BY <1>6 DEF IInv, TypeOK, CallOK
    <3> QED
      BY <3>1, FileOfDatabase
  <2>2. CASE FileOf(current) = f
    <3>1. files'[FileOf(current')] = Missing
      BY <1>1, <1>2, <2>1, <2>2
    <3>2. detached' = (pc = "writing")
      BY <1>1, <2>2 DEF IInv, CallOK, TypeOK
    <3> QED
      BY <1>1, <1>3, <1>4, <1>6, <3>1, <3>2 DEF IInv, CallOK
  <2>3. CASE FileOf(current) # f
    <3>1. files'[FileOf(current')] = files[FileOf(current)] /\ detached' = detached
      BY <1>1, <1>2, <2>1, <2>3
    <3> DEFINE file == files[FileOf(current)]
    <3> HIDE DEF file
    <3>a. (AskingOK(file) => AskingOK(file)') /\ (RowsOK(file) => RowsOK(file)')
      <4>1. file' = file
        BY <3>1 DEF file
      <4> QED
        BY <1>1, <4>1 DEF AskingOK, RowsOK
    <3>2. CallOK'
      <4>1. /\ pc' = "idle" <=> current' = NoDatabase
            /\ pc' # "writing" => ~detached'
            /\ pc' = "writing" => (detached' <=> files'[FileOf(current')] = Missing)
            /\ pc' \in {"opening", "writing"} => pending' \subseteq entries'[current']
        <5>1. UNCHANGED <<entries, pc, current, pending, detached>>
          BY <1>1, <3>1
        <5>2. /\ pc = "idle" <=> current = NoDatabase
              /\ pc # "writing" => ~detached
              /\ pc = "writing" => (detached <=> files[FileOf(current)] = Missing)
              /\ pc \in {"opening", "writing"} => pending \subseteq entries[current]
          BY DEF IInv, CallOK
        <5>3. detached' <=> detached
          BY <5>1
        <5> QED
          BY <3>1, <5>1, <5>2, <5>3
      <4>2. ASSUME files'[FileOf(current')] # Missing
            PROVE  /\ ~TornEnd(files'[FileOf(current')])
                   /\ pc' = "asking" => AskingOK(file)'
                   /\ pc' \in {"opening", "writing"} => RowsOK(file)'
        <5>1. /\ ~TornEnd(file)
              /\ pc = "asking" => AskingOK(file)
              /\ pc \in {"opening", "writing"} => RowsOK(file)
          BY <1>6, <3>1, <4>2 DEF IInv, CallOK, file
        <5> QED
          BY <1>1, <3>1, <3>a, <5>1 DEF file
      <4> QED
        BY <4>1, <4>2 DEF CallOK, file
    <3> QED
      BY <1>3, <1>4, <3>2 DEF IInv
  <2> QED
    BY <2>2, <2>3
<1> QED
  BY <1>5, <1>6

\* Every step keeps the invariant.
LEMMA IInvNext ==
    ASSUME IInv, [Next]_vars
    PROVE  IInv'
<1>1. CASE \E d \in Databases : Begin(d)
  BY <1>1, BeginKeeps
<1>2. CASE (\E age \in Ages : QueryFails(age)) \/ OpenFails \/ RowsFail \/ Done
  <2>1. Return /\ UNCHANGED <<entries, files>>
    BY <1>2 DEF QueryFails, OpenFails, RowsFail, Done
  <2> QED
    BY <2>1, FilesStay, ReturnKeeps
<1>3. CASE Query
  BY <1>3, QueryKeeps
<1>4. CASE OpenFile
  <2>1. /\ pc = "opening" /\ pc' = "writing" /\ files[FileOf(current)] # Missing
        /\ UNCHANGED <<entries, files, current, since, pending, detached>>
    BY <1>4 DEF OpenFile
  <2>2. TypeOK' /\ OwnEntries' /\ FilesOK'
    BY <2>1, FilesStay DEF IInv, TypeOK
  <2>3. CallOK'
    BY <2>1 DEF IInv, CallOK, RowsOK
  <2> QED
    BY <2>2, <2>3 DEF IInv
<1>5. CASE \E e \in pending : WriteRecord(e)
  BY <1>5, RecordKeeps
<1>6. CASE \E e \in pending : WriteFails(e)
  <2>1. PICK e \in pending : WriteFails(e)
    BY <1>6
  <2>2. pc = "writing" /\ NextRow(e) /\ PartlyWritten(e) /\ Return /\ entries' = entries
    BY <2>1 DEF WriteFails
  <2>3. FilesOK' /\ files' \in [Files -> Seq(Lines) \union {Missing}]
    BY <2>2, PartlyWrittenKeeps
  <2> QED
    BY <2>2, <2>3, ReturnKeeps
<1>7. CASE \E e \in Entries : Logged(e)
  BY <1>7, LoggedKeeps
<1>8. CASE Tick \/ UNCHANGED vars
  <2>1. UNCHANGED <<entries, files, pc, current, since, pending, detached>>
    BY <1>8 DEF Tick, vars, call
  <2>2. TypeOK' /\ OwnEntries' /\ FilesOK'
    BY <2>1, FilesStay DEF IInv, TypeOK
  <2>3. CallOK'
    BY <2>1 DEF IInv, CallOK, RowsOK, AskingOK
  <2> QED
    BY <2>2, <2>3 DEF IInv
<1>9. CASE \E f \in Files : Removed(f)
  BY <1>9, RemovedKeeps
<1>10. CASE Killed
  <2>1. Return /\ entries' = entries
    BY <1>10 DEF Killed
  <2>2. CASE files' = files
    BY <2>1, <2>2, FilesStay, ReturnKeeps
  <2>3. CASE pc = "writing" /\ \E e \in pending : NextRow(e) /\ PartlyWritten(e)
    <3>1. FilesOK' /\ files' \in [Files -> Seq(Lines) \union {Missing}]
      BY <2>1, <2>3, PartlyWrittenKeeps
    <3> QED
      BY <2>1, <3>1, ReturnKeeps
  <2> QED
    BY <1>10, <2>2, <2>3 DEF Killed
<1> QED
  BY <1>1, <1>2, <1>3, <1>4, <1>5, <1>6, <1>7, <1>8, <1>9, <1>10 DEF Next

\* There is no file, and no entry, at first.
LEMMA IInvInit == Init => IInv
<1> SUFFICES ASSUME Init PROVE IInv
  OBVIOUS
<1>1. TypeOK
  BY DEF Init, TypeOK, DefaultTime
<1>2. OwnEntries /\ FilesOK /\ CallOK
  BY DEF Init, OwnEntries, FilesOK, CallOK
<1> QED
  BY <1>1, <1>2 DEF IInv

-----------------------------------------------------------------------------
(* The theorems.                                                           *)

\* The inductive invariant holds in every state: the records of a database are in
\* its file in order, without a gap in their timestamps, and the UpdateLog call
\* goes by what is in the file as long as that is there.
THEOREM AlertLogInvariant == Spec => []IInv
<1>1. Init => IInv
  BY IInvInit
<1>2. IInv /\ [Next]_vars => IInv'
  BY IInvNext
<1> QED
  BY <1>1, <1>2, PTL DEF Spec

\* The last record that readLastMatchingLogRecord finds is a faithful memory: no
\* timestamp before it is missing in the file.
THEOREM AlertLogNothingPassedOver == Spec => []NothingPassedOver
<1>1. IInv => NothingPassedOver
  <2> SUFFICES ASSUME IInv, NEW d \in Databases, Readable(d), NEW e \in entries[d], e.time < LastTime(d)
               PROVE  Covered(e)
    BY DEF NothingPassedOver
  <2>1. e.db = d /\ e.time \in Nat \ {0}
    BY DEF IInv, OwnEntries, TypeOK, Entries
  <2>2. PICK o \in Content(Contents(d)) : o.db = d /\ o.time = LastTime(d)
    BY <2>1, LastRecord DEF IInv, DefaultTime
  <2>3. TimeIn(e, Contents(d))
    BY <2>2, ContentsOf DEF IInv
  <2> QED
    BY <2>1, <2>3 DEF TimeIn, Covered, Exported, Content
<1> QED
  BY <1>1, AlertLogInvariant, PTL

\* UpdateLog exports no entry to a file twice, whatever ended the calls before.
THEOREM AlertLogWrittenOnce == Spec => []WrittenOnce
<1>1. IInv => WrittenOnce
  <2> SUFFICES ASSUME IInv, NEW d \in Databases, NEW i \in DOMAIN Contents(d), NEW j \in DOMAIN Contents(d),
                      i # j, NEW o \in Contents(d)[i].of, o \in Contents(d)[j].of
               PROVE  FALSE
    BY DEF WrittenOnce
  <2>1. Contents(d) \in Seq(Lines) /\ Sorted(Contents(d))
    BY ContentsOf DEF IInv
  <2>2. i < j \/ j < i
    BY <2>1
  <2> QED
    BY <2>1, <2>2 DEF Sorted
<1> QED
  BY <1>1, AlertLogInvariant, PTL

\* A part of a record at the end of a file stays the last word there: no call gets
\* past readLastMatchingLogRecord to write behind it.
THEOREM AlertLogTornEndsFile == Spec => TornEndsFile
<1>1. ASSUME IInv, [Next]_vars, NEW f \in Files, files[f] # Missing, TornEnd(files[f])
      PROVE  files'[f] \in {files[f], Missing}
  <2>1. CASE files' = files
    BY <2>1
  <2>2. ASSUME NEW d \in Databases, Begin(d) PROVE files'[f] \in {files[f], Missing}
    BY <1>1, <2>2 DEF Begin, Contents, IInv, TypeOK
  <2>3. ASSUME NEW g \in Files, Removed(g) PROVE files'[f] \in {files[f], Missing}
    BY <1>1, <2>3 DEF Removed, IInv, TypeOK
  <2>4. ASSUME pc = "writing", NEW line, Put(line) PROVE files'[f] \in {files[f], Missing}
    <3>1. FileOf(current) # f
      BY <1>1, <2>4 DEF IInv, CallOK
    <3> QED
      BY <1>1, <2>4, <3>1 DEF Put, IInv, TypeOK
  <2>5. CASE pc = "writing" /\ \E line : Put(line)
    BY <2>4, <2>5
  <2>6. files' = files \/ (\E d \in Databases : Begin(d)) \/ (\E g \in Files : Removed(g))
        \/ (pc = "writing" /\ \E line : Put(line))
    BY <1>1 DEF Next, QueryFails, Query, OpenFile, OpenFails, WriteRecord, WriteFails, PartlyWritten,
                RowsFail, Done, Logged, Tick, Killed, vars
  <2> QED
    BY <2>1, <2>2, <2>3, <2>5, <2>6
<1>2. IInv /\ [Next]_vars =>
        [\A f \in Files :
           (files[f] # Missing /\ files[f] # <<>> /\ files[f][Len(files[f])].kind = "torn")
              => files'[f] \in {files[f], Missing}]_vars
  BY <1>1 DEF TornEnd
<1> QED
  BY <1>2, AlertLogInvariant, PTL DEF Spec, TornEndsFile

=============================================================================
