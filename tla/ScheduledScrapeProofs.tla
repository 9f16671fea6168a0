----------------------- MODULE ScheduledScrapeProofs -----------------------
(***************************************************************************)
(* Theorems about ScheduledScrape and the MetricDefinitions in it, for any *)
(* number of databases, files, edits and quarantines by other goroutines.  *)
(***************************************************************************)
EXTENDS ScheduledScrape, FiniteSetTheorems, TLAPS

-----------------------------------------------------------------------------
(* The inductive invariant.                                                *)

Healths == {"valid", "broken", "missing"}

DefinitionTypes ==
    /\ disk \in [Files -> [version : Nat \ {0}, health : Healths]]
    /\ edits \in Nat
    /\ loaded \in [Files -> Nat]
    /\ hashes \in [Files -> Nat]
    /\ collected \in [Files -> Nat]
    /\ raced \in BOOLEAN
    /\ reload = Idle \/ reload \in [step : {"load", "hash"}, file : Files]

\* Nothing in use and no hash is newer than the file, and none is of a file that
\* is missing.
NotNewer ==
    \A f \in Files :
        /\ loaded[f] <= disk[f].version
        /\ hashes[f] <= disk[f].version
        /\ disk[f].health = "missing" => hashes[f] < disk[f].version

\* There is something to reload.
Stale == \E f \in Files : hashes[f] < disk[f].version

\* A reload is under way until there is nothing to reload; without one, what is
\* in use is what the files say, unless an edit was missed.
ReloadPending ==
    /\ reload # Idle => Stale
    /\ reload = Idle => Stale \/ raced \/ \A f \in Files : loaded[f] = disk[f].version

\* What loadMetricsConfig has read so far.
Loading ==
    reload.step = "load" => \A f \in Files : f < reload.file =>
        /\ loaded[f] <= collected[f]
        /\ collected[f] <= disk[f].version
        /\ raced \/ collected[f] = disk[f].version

\* What refreshMetricDefinitionHashes has hashed so far.
Hashing ==
    reload.step = "hash" => \A f \in Files :
        IF f < reload.file
        THEN /\ collected[f] <= disk[f].version
             /\ disk[f].health = "missing" => collected[f] < disk[f].version
             /\ raced \/ (collected[f] = disk[f].version => loaded[f] = disk[f].version)
        ELSE /\ collected[f] = Nothing
             /\ raced \/ loaded[f] = disk[f].version

DefinitionInv == DefinitionTypes /\ NotNewer /\ ReloadPending /\ Loading /\ Hashing

Phases == {"idle", "admit", "metrics", "performance", "operational", "done"}
Running == {"metrics", "performance", "operational"}
LoopSteps == {"check", "reload", "start", "collect", "write", "select", "stopped"}

PassTypes ==
    /\ ready \in [Databases -> BOOLEAN]
    /\ active \in [Databases -> BOOLEAN]
    /\ warming \in [database : Nat \ {0}, step : {"warmup", "request"}]
    /\ requested \in BOOLEAN
    /\ loop \in LoopSteps
    /\ at \in [Databases -> Phases]
    /\ left \in [Databases -> SUBSET Files]
    /\ errors \in [Databases -> BOOLEAN]
    /\ sent \in [Channels -> Nat]
    /\ completion \in [Databases -> Statuses]
    /\ totalErrors \in BOOLEAN
    /\ gap \in [Databases -> BOOLEAN]
    /\ outside \in [Databases -> BOOLEAN]
    /\ outsiders \in Nat
    /\ found \in [Databases -> BOOLEAN]

\* The goroutines of a pass live between its start and its write.
PassPhase ==
    /\ loop \notin {"collect", "write"} =>
         /\ \A d \in Databases : at[d] = "idle" /\ ~gap[d]
         /\ \A ch \in Channels : sent[ch] = 0
    /\ loop = "collect" => \A d \in Databases : at[d] # "idle"
    /\ loop = "write" => \A d \in Databases : at[d] = "done"

\* InitializeDatabases makes one database ready after the other, and a request
\* for each; until a pass has seen the database, a pass or a request is ahead.
WarmedUp ==
    /\ \A d \in Databases :
         ready[d] <=> d < warming.database \/ (d = warming.database /\ warming.step = "request")
    /\ \A d \in Databases : at[d] \in Running => ready[d]
    /\ \A d \in Databases : d < warming.database =>
         \/ found[d] \/ requested
         \/ loop \in {"check", "reload", "start", "stopped"}
         \/ at[d] = "admit"

\* What a goroutine has to report so far.
Trouble ==
    \A d \in Databases :
        /\ at[d] \in {"idle", "admit"} => ~gap[d]
        /\ at[d] \in Running => /\ gap[d] => errors[d]
                                /\ active[d] \/ errors[d] \/ outside[d]
        /\ at[d] = "done" /\ gap[d] => outside[d] \/ completion[d] = "failure"

\* The databases whose goroutine is in one of the phases.
In(phases) == {d \in Databases : at[d] \in phases}
Pinged == In({"metrics", "performance", "operational", "done"})
Measured == In({"performance", "operational", "done"})
Performed == In({"operational", "done"})
Done == In({"done"})
Looked == {p \in Databases \X Files : p[2] \notin left[p[1]]}

\* Every send of a pass is one that a goroutine makes once on its way.
SentOnce ==
    /\ sent["status"] <= Cardinality(Pinged) + Cardinality(Measured)
                           + Cardinality(Performed) + 2 * Cardinality(Done)
    /\ sent["performance"] <= Cardinality(Performed)
    /\ sent["operational"] <= Cardinality(Done)
    /\ sent["sample"] <= Cardinality(Looked)

PassInv == PassTypes /\ PassPhase /\ WarmedUp /\ Trouble
IInv == DefinitionInv /\ PassInv /\ SentOnce

-----------------------------------------------------------------------------
(* The definitions.                                                        *)

\* The definitions are loaded once, without hashes, before the first pass.
LEMMA InitDefinitionInv == ASSUME InitDefinitions PROVE DefinitionInv
<1>1. \A f \in Files : disk[f] \in [version : Nat \ {0}, health : Healths] /\ disk[f].version = 1
  BY DefinitionsAssumption DEF InitDefinitions, Contents, Healths
<1>2. disk \in [Files -> [version : Nat \ {0}, health : Healths]]
  BY <1>1 DEF InitDefinitions
<1>3. /\ loaded \in [Files -> Nat] /\ \A f \in Files : loaded[f] <= disk[f].version
  BY <1>1 DEF InitDefinitions, NoVersions, Nothing
<1>4. /\ hashes \in [Files -> Nat] /\ collected \in [Files -> Nat]
      /\ \A f \in Files : hashes[f] = 0
  BY DEF InitDefinitions, NoVersions, Nothing
<1>5. DefinitionTypes
  BY <1>2, <1>3, <1>4 DEF InitDefinitions, DefinitionTypes
<1>6. NotNewer
  BY <1>1, <1>3, <1>4 DEF NotNewer
<1>7. ReloadPending
  BY <1>1, <1>4 DEF InitDefinitions, ReloadPending, Stale
<1>8. Loading /\ Hashing
  BY DEF InitDefinitions, Loading, Hashing, Idle
<1> QED
  BY <1>5, <1>6, <1>7, <1>8 DEF DefinitionInv

\* An edit makes the definitions stale, and spoils a reload only of a file that
\* has been read and not hashed.
LEMMA EditStep ==
    ASSUME DefinitionInv, NEW g \in Files, NEW health \in Healths, Edit(g, health)
    PROVE  DefinitionInv'
<1> USE DEF DefinitionInv
<1>1. /\ disk' = [disk EXCEPT ![g] = [version |-> disk[g].version + 1, health |-> health]]
      /\ edits' = edits + 1
      /\ raced' = (raced \/ ReadNotHashed(g))
      /\ UNCHANGED <<loaded, hashes, reload, collected>>
  BY DEF Edit
<1>2. /\ \A f \in Files : disk[f] \in [version : Nat \ {0}, health : Healths]
      /\ \A f \in Files : loaded[f] \in Nat /\ hashes[f] \in Nat /\ collected[f] \in Nat
      /\ edits \in Nat
      /\ disk \in [Files -> [version : Nat \ {0}, health : Healths]]
  BY DEF DefinitionTypes
<1>3. /\ disk' \in [Files -> [version : Nat \ {0}, health : Healths]]
      /\ \A f \in Files : disk[f].version \in Nat \ {0}
      /\ disk'[g].version = disk[g].version + 1
      /\ \A f \in Files : f # g => disk'[f] = disk[f]
  BY <1>1, <1>2
<1>4. raced' \in BOOLEAN
  BY <1>1
<1>5. DefinitionTypes'
  BY <1>1, <1>3, <1>4 DEF DefinitionTypes
<1>6. NotNewer'
  BY <1>1, <1>2, <1>3 DEF NotNewer
<1>7. Stale'
  BY <1>1, <1>2, <1>3 DEF NotNewer, Stale
<1>8. ReloadPending'
  BY <1>7 DEF ReloadPending
<1>9. Loading'
  <2> SUFFICES ASSUME reload.step = "load", NEW f \in Files, f < reload.file
               PROVE  /\ loaded[f] <= collected[f] /\ collected[f] <= disk'[f].version
                      /\ raced' \/ collected[f] = disk'[f].version
    BY <1>1 DEF Loading
  <2>1. CASE f = g
    <3>1. ReadNotHashed(g)
      BY <2>1 DEF ReadNotHashed
    <3>2. raced'
      BY <1>1, <3>1
    <3> QED
      BY <1>2, <1>3, <2>1, <3>2 DEF Loading
  <2>2. CASE f # g
    BY <1>1, <1>3, <2>2 DEF Loading
  <2> QED
    BY <2>1, <2>2
<1>10. Hashing'
  <2> SUFFICES ASSUME reload.step = "hash", NEW f \in Files
               PROVE  IF f < reload.file
                      THEN /\ collected[f] <= disk'[f].version
                           /\ disk'[f].health = "missing" => collected[f] < disk'[f].version
                           /\ raced' \/ (collected[f] = disk'[f].version => loaded[f] = disk'[f].version)
                      ELSE /\ collected[f] = Nothing
                           /\ raced' \/ loaded[f] = disk'[f].version
    BY <1>1 DEF Hashing
  <2>0. f \in Int /\ reload.file \in Int
    BY DEF DefinitionTypes, Files, Idle
  <2>1. CASE f = g /\ f < reload.file
    BY <1>2, <1>3, <2>1 DEF Hashing
  <2>2. CASE f = g /\ ~(f < reload.file)
    <3>1. ReadNotHashed(g)
      BY <2>0, <2>2 DEF ReadNotHashed
    <3>2. raced'
      BY <1>1, <3>1
    <3> QED
      BY <2>2, <3>2 DEF Hashing
  <2>3. CASE f # g
    BY <1>1, <1>3, <2>3 DEF Hashing
  <2> QED
    BY <2>1, <2>2, <2>3
<1> QED
  BY <1>5, <1>6, <1>8, <1>9, <1>10

\* A reload begins.
LEMMA BeginStep ==
    ASSUME DefinitionInv, CheckIfMetricsChanged, BeginReload
    PROVE  DefinitionInv'
<1> USE DEF DefinitionInv
<1>1. PICK g \in Files : disk[g].health = "missing" \/ hashes[g] # disk[g].version
  BY DEF CheckIfMetricsChanged
<1>2. hashes[g] < disk[g].version
  <2>1. hashes[g] \in Nat /\ disk[g].version \in Nat
    BY DEF DefinitionTypes
  <2> QED
    BY <1>1, <2>1 DEF NotNewer
<1>3. /\ reload' = [step |-> "load", file |-> 1] /\ collected' = NoVersions /\ raced' = FALSE
      /\ UNCHANGED <<disk, edits, loaded, hashes>>
  BY DEF BeginReload
<1>4. 1 \in Files /\ \A f \in Files : f \in Nat /\ ~(f < 1)
  BY <1>1, DefinitionsAssumption DEF Files
<1>5. collected' \in [Files -> Nat]
  BY <1>3 DEF NoVersions, Nothing
<1>6. reload'.step = "load" /\ reload'.file = 1 /\ reload' # Idle
      /\ reload' \in [step : {"load", "hash"}, file : Files]
  BY <1>3, <1>4 DEF Idle
<1>7. DefinitionTypes'
  BY <1>3, <1>5, <1>6 DEF DefinitionTypes
<1>8. NotNewer'
  BY <1>3 DEF NotNewer
<1>9. ReloadPending'
  BY <1>2, <1>3, <1>6 DEF ReloadPending, Stale
<1>10. Loading' /\ Hashing'
  BY <1>4, <1>6 DEF Loading, Hashing
<1> QED
  BY <1>7, <1>8, <1>9, <1>10

\* A file is read; after the last one the definitions are put to use.  None of
\* them is older than the one it replaces.
LEMMA LoadStep ==
    ASSUME DefinitionInv, LoadFile
    PROVE  DefinitionInv' /\ \A f \in Files : loaded'[f] >= loaded[f]
<1> USE DEF DefinitionInv
<1> DEFINE g == reload.file
<1>1. /\ reload.step = "load" /\ UNCHANGED <<disk, edits, hashes, raced>>
  BY DEF LoadFile
<1>2. reload \in [step : {"load", "hash"}, file : Files] /\ g \in Files /\ reload # Idle
  BY <1>1 DEF DefinitionTypes, Idle
<1>3. /\ \A f \in Files : f \in Nat /\ 1 <= f /\ f <= NumFiles
      /\ NumFiles \in Nat
  BY DefinitionsAssumption DEF Files
<1>4. /\ \A f \in Files : disk[f].version \in Nat \ {0}
      /\ \A f \in Files : loaded[f] \in Nat /\ hashes[f] \in Nat /\ collected[f] \in Nat
      /\ collected \in [Files -> Nat] /\ loaded \in [Files -> Nat]
  BY DEF DefinitionTypes
<1>5. NotNewer /\ Stale /\ Stale'
  BY <1>1, <1>2 DEF ReloadPending, Stale
<1> DEFINE read == [collected EXCEPT ![g] = disk[g].version]
<1>6. /\ read \in [Files -> Nat]
      /\ \A f \in Files : f <= g =>
           /\ loaded[f] <= read[f] /\ read[f] <= disk[f].version
           /\ raced \/ read[f] = disk[f].version
  <2>1. read \in [Files -> Nat]
    BY <1>2, <1>4
  <2>2. ASSUME NEW f \in Files, f <= g
        PROVE  /\ loaded[f] <= read[f] /\ read[f] <= disk[f].version
               /\ raced \/ read[f] = disk[f].version
    <3>1. CASE f = g
      BY <1>4, <3>1 DEF NotNewer
    <3>2. CASE f < g
      BY <1>1, <1>2, <1>3, <1>4, <3>2 DEF Loading
    <3> QED
      BY <1>2, <1>3, <2>2, <3>1, <3>2
  <2> QED
    BY <2>1, <2>2
<1> HIDE DEF read
<1>7. CASE g < NumFiles
  <2>1. /\ reload' = [reload EXCEPT !.file = g + 1] /\ collected' = read /\ UNCHANGED loaded
    BY <1>7 DEF LoadFile, read
  <2>2. g + 1 \in Files /\ \A f \in Files : f < g + 1 => f <= g
    BY <1>2, <1>3, <1>7 DEF Files
  <2>3. /\ reload' \in [step : {"load", "hash"}, file : Files]
        /\ reload'.step = "load" /\ reload'.file = g + 1 /\ reload' # Idle
    BY <1>1, <1>2, <2>1, <2>2 DEF Idle
  <2>4. DefinitionTypes'
    BY <1>1, <1>6, <2>1, <2>3 DEF DefinitionTypes
  <2>5. NotNewer' /\ ReloadPending'
    BY <1>1, <1>5, <2>1, <2>3 DEF NotNewer, ReloadPending
  <2>6. Loading' /\ Hashing'
    BY <1>1, <1>6, <2>1, <2>2, <2>3 DEF Loading, Hashing
  <2> QED
    BY <1>4, <2>1, <2>4, <2>5, <2>6
<1>8. CASE ~(g < NumFiles)
  <2>1. /\ reload' = [step |-> "hash", file |-> 1] /\ loaded' = read /\ collected' = NoVersions
    BY <1>8 DEF LoadFile, read
  <2>2. 1 \in Files /\ \A f \in Files : f <= g /\ ~(f < 1)
    BY <1>2, <1>3, <1>8 DEF Files
  <2>3. /\ reload' \in [step : {"load", "hash"}, file : Files]
        /\ reload'.step = "hash" /\ reload'.file = 1 /\ reload' # Idle
    BY <2>1, <2>2 DEF Idle
  <2>4. collected' \in [Files -> Nat] /\ \A f \in Files : collected'[f] = Nothing
    BY <2>1 DEF NoVersions, Nothing
  <2>5. DefinitionTypes'
    BY <1>1, <1>6, <2>1, <2>3, <2>4 DEF DefinitionTypes
  <2>6. NotNewer' /\ ReloadPending'
    BY <1>1, <1>5, <1>6, <2>1, <2>2, <2>3 DEF NotNewer, ReloadPending
  <2>7. Loading' /\ Hashing'
    BY <1>1, <1>6, <2>1, <2>2, <2>3, <2>4 DEF Loading, Hashing
  <2>8. \A f \in Files : loaded'[f] >= loaded[f]
    BY <1>4, <1>6, <2>1, <2>2
  <2> QED
    BY <2>5, <2>6, <2>7, <2>8
<1> QED
  BY <1>7, <1>8

\* A failed reload leaves everything as it was, and something to reload.
LEMMA LoadFailsStep ==
    ASSUME DefinitionInv, LoadFails
    PROVE  DefinitionInv'
<1> USE DEF DefinitionInv
<1>1. /\ reload.step = "load" /\ reload' = Idle
      /\ UNCHANGED <<disk, edits, loaded, hashes, collected, raced>>
  BY DEF LoadFails
<1>2. reload # Idle /\ reload'.step = "idle"
  BY <1>1 DEF Idle
<1>3. DefinitionTypes' /\ NotNewer'
  BY <1>1 DEF DefinitionTypes, NotNewer
<1>4. ReloadPending'
  BY <1>1, <1>2 DEF ReloadPending, Stale
<1> QED
  BY <1>2, <1>3, <1>4 DEF Loading, Hashing

\* A file is hashed; after the last one the hashes replace the old ones.
LEMMA HashStep ==
    ASSUME DefinitionInv, HashFile
    PROVE  DefinitionInv'
<1> USE DEF DefinitionInv
<1> DEFINE g == reload.file
           sums == IF disk[g].health = "missing" THEN collected
                   ELSE [collected EXCEPT ![g] = disk[g].version]
<1>1. /\ reload.step = "hash" /\ UNCHANGED <<disk, edits, loaded, raced>>
  BY DEF HashFile
<1>2. reload \in [step : {"load", "hash"}, file : Files] /\ g \in Files /\ reload # Idle
  BY <1>1 DEF DefinitionTypes, Idle
<1>3. /\ \A f \in Files : f \in Nat /\ 1 <= f /\ f <= NumFiles
      /\ NumFiles \in Nat
  BY DefinitionsAssumption DEF Files
<1>4. /\ \A f \in Files : disk[f].version \in Nat \ {0}
      /\ \A f \in Files : loaded[f] \in Nat /\ hashes[f] \in Nat /\ collected[f] \in Nat
      /\ collected \in [Files -> Nat]
  BY DEF DefinitionTypes
<1>5. /\ sums \in [Files -> Nat]
      /\ \A f \in Files : f # g => sums[f] = collected[f]
      /\ sums[g] = IF disk[g].health = "missing" THEN Nothing ELSE disk[g].version
  <2>1. collected[g] = Nothing
    BY <1>1, <1>2, <1>3 DEF Hashing
  <2> QED
    BY <1>2, <1>4, <2>1
<1> HIDE DEF sums
<1>6. ASSUME NEW f \in Files, f <= g
      PROVE  /\ sums[f] <= disk[f].version
             /\ disk[f].health = "missing" => sums[f] < disk[f].version
             /\ raced \/ (sums[f] = disk[f].version => loaded[f] = disk[f].version)
  <2>1. CASE f = g
    <3>1. raced \/ loaded[f] = disk[f].version
      BY <1>1, <1>2, <1>3, <2>1 DEF Hashing
    <3> QED
      BY <1>4, <1>5, <2>1, <3>1 DEF Nothing
  <2>2. CASE f < g
    <3>1. f # g
      BY <1>2, <1>3, <2>2
    <3> QED
      BY <1>1, <1>5, <2>2, <3>1 DEF Hashing
  <2> QED
    BY <1>2, <1>3, <1>6, <2>1, <2>2
<1>7. CASE g < NumFiles
  <2>1. /\ reload' = [reload EXCEPT !.file = g + 1] /\ collected' = sums /\ UNCHANGED hashes
    BY <1>7 DEF HashFile, sums
  <2>2. g + 1 \in Files /\ \A f \in Files : f < g + 1 <=> f <= g
    BY <1>2, <1>3, <1>7 DEF Files
  <2>3. /\ reload' \in [step : {"load", "hash"}, file : Files]
        /\ reload'.step = "hash" /\ reload'.file = g + 1 /\ reload' # Idle
    BY <1>1, <1>2, <2>1, <2>2 DEF Idle
  <2>4. DefinitionTypes'
    BY <1>1, <1>5, <2>1, <2>3 DEF DefinitionTypes
  <2>5. NotNewer' /\ ReloadPending'
    BY <1>1, <1>2, <2>1, <2>3 DEF NotNewer, ReloadPending, Stale
  <2>6. Loading'
    BY <2>3 DEF Loading
  <2>7. Hashing'
    <3>1. ASSUME NEW f \in Files, ~(f <= g)
          PROVE  sums[f] = Nothing /\ (raced \/ loaded[f] = disk[f].version)
      <4>1. f # g /\ ~(f < g)
        BY <1>2, <1>3, <3>1
      <4> QED
        BY <1>1, <1>5, <4>1 DEF Hashing
    <3> QED
      BY <1>1, <1>6, <2>1, <2>2, <2>3, <3>1 DEF Hashing
  <2> QED
    BY <2>4, <2>5, <2>6, <2>7
<1>8. CASE ~(g < NumFiles)
  <2>1. /\ reload' = Idle /\ hashes' = sums /\ collected' = NoVersions
    BY <1>8 DEF HashFile, sums
  <2>2. \A f \in Files : f <= g
    BY <1>2, <1>3, <1>8
  <2>3. DefinitionTypes'
    <3>1. collected' \in [Files -> Nat]
      BY <2>1 DEF NoVersions, Nothing
    <3> QED
      BY <1>1, <1>5, <2>1, <3>1 DEF DefinitionTypes
  <2>4. NotNewer'
    BY <1>1, <1>6, <2>1, <2>2 DEF NotNewer
  <2>5. ReloadPending'
    <3>1. \A f \in Files : sums[f] \in Nat /\ disk[f].version \in Nat
      BY <1>4, <1>5
    <3>2. CASE \A f \in Files : sums[f] = disk[f].version
      BY <1>1, <1>6, <2>1, <2>2, <3>2 DEF ReloadPending
    <3>3. CASE \E f \in Files : sums[f] # disk[f].version
      <4>1. Stale'
        BY <1>1, <1>6, <2>1, <2>2, <3>1, <3>3 DEF Stale
      <4> QED
        BY <4>1 DEF ReloadPending
    <3> QED
      BY <3>2, <3>3
  <2>6. Loading' /\ Hashing'
    BY <2>1 DEF Loading, Hashing, Idle
  <2> QED
    BY <2>3, <2>4, <2>5, <2>6
<1> QED
  BY <1>7, <1>8

\* Steps that leave the definitions alone.
LEMMA DefinitionsUntouched ==
    ASSUME DefinitionInv, UNCHANGED definitionVars
    PROVE  DefinitionInv' /\ loaded' = loaded
BY DEF definitionVars, DefinitionInv, DefinitionTypes, NotNewer, ReloadPending, Stale, Loading,
       Hashing

\* Every step of the loop, of a goroutine and of an editor keeps the definitions'
\* part of the invariant, and none takes a definition away.
LEMMA DefinitionStep ==
    ASSUME DefinitionInv, [Next]_vars
    PROVE  DefinitionInv' /\ \A f \in Files : loaded'[f] >= loaded[f]
<1>0. ASSUME UNCHANGED loaded PROVE \A f \in Files : loaded'[f] >= loaded[f]
  BY <1>0 DEF DefinitionInv, DefinitionTypes
<1>1. CASE MetricsChanged
  <2>1. CheckIfMetricsChanged /\ BeginReload /\ UNCHANGED loaded
    BY <1>1 DEF MetricsChanged, BeginReload
  <2> QED
    BY <1>0, <2>1, BeginStep
<1>2. CASE Reload
  <2>1. LoadFails => UNCHANGED loaded
    BY DEF LoadFails
  <2>2. HashFile => UNCHANGED loaded
    BY DEF HashFile
  <2> QED
    BY <1>0, <1>2, <2>1, <2>2, LoadStep, LoadFailsStep, HashStep DEF Reload
<1>3. CASE Edited
  <2>1. PICK f \in Files, health \in Healths : Edit(f, health)
    BY <1>3 DEF Edited, Healths
  <2>2. UNCHANGED loaded
    BY <2>1 DEF Edit
  <2> QED
    BY <1>0, <2>1, <2>2, EditStep
<1>4. CASE UNCHANGED definitionVars
  BY <1>0, <1>4, DefinitionsUntouched
<1>5. Initialize => UNCHANGED definitionVars
  BY DEF Initialize, Warmup, RequestScheduledScrape
<1>6. \A d \in Databases :
         ScrapeDatabase(d) \/ QuarantinedOutside(d) \/ Restored(d) => UNCHANGED definitionVars
  <2> TAKE d \in Databases
  <2>1. ScrapeDatabase(d) => PassRest
    BY DEF ScrapeDatabase, NotReady, NotActive, PingFails, PingSucceeds, MetricDone, MetricFails,
           MetricsEnd, NoLongerActive, OperationalNotDue, Performance, Operational,
           PerformanceFails, OperationalFails
  <2> QED
    BY <2>1 DEF PassRest, QuarantinedOutside, Restored
<1>7. \/ Ticks \/ Requested \/ Stops \/ MetricsUnchanged \/ StartPass \/ Collected \/ Written
      \/ UNCHANGED vars
      => UNCHANGED definitionVars
  BY DEF Ticks, Requested, Stops, MetricsUnchanged, StartPass, Collected, Written, vars
<1> QED
  BY <1>1, <1>2, <1>3, <1>4, <1>5, <1>6, <1>7 DEF Next, Loop

-----------------------------------------------------------------------------
(* The channels.                                                           *)

\* A send of statuses only.
LEMMA SendsStatus ==
    ASSUME PassTypes, NEW n \in Nat, Send([status |-> n])
    PROVE  /\ sent' \in [Channels -> Nat]
           /\ sent'["status"] = sent["status"] + n
           /\ \A ch \in Channels \ {"status"} : sent'[ch] = sent[ch]
<1>1. DOMAIN [status |-> n] = {"status"} /\ [status |-> n].status = n
  OBVIOUS
<1> QED
  BY <1>1 DEF PassTypes, Send, Channels

\* A send of the samples of a metric.
LEMMA SendsSample ==
    ASSUME PassTypes, Send([sample |-> 1])
    PROVE  /\ sent' \in [Channels -> Nat]
           /\ sent'["sample"] = sent["sample"] + 1
           /\ \A ch \in Channels \ {"sample"} : sent'[ch] = sent[ch]
<1>1. DOMAIN [sample |-> 1] = {"sample"} /\ [sample |-> 1].sample = 1
  OBVIOUS
<1> QED
  BY <1>1 DEF PassTypes, Send, Channels

\* A send of performance samples with a status.
LEMMA SendsPerformance ==
    ASSUME PassTypes, NEW k \in Nat, NEW n \in Nat, Send([performance |-> k, status |-> n])
    PROVE  /\ sent' \in [Channels -> Nat]
           /\ sent'["performance"] = sent["performance"] + k
           /\ sent'["status"] = sent["status"] + n
           /\ \A ch \in Channels \ {"performance", "status"} : sent'[ch] = sent[ch]
<1> DEFINE m == [performance |-> k, status |-> n]
<1>1. DOMAIN m = {"performance", "status"} /\ m["performance"] = k /\ m["status"] = n
  OBVIOUS
<1> HIDE DEF m
<1>2. sent' = [ch \in Channels |-> IF ch \in DOMAIN m THEN sent[ch] + m[ch] ELSE sent[ch]]
  BY DEF Send, m
<1> QED
  BY <1>1, <1>2 DEF PassTypes, Channels

\* A send of operational samples with statuses.
LEMMA SendsOperational ==
    ASSUME PassTypes, NEW k \in Nat, NEW n \in Nat, Send([operational |-> k, status |-> n])
    PROVE  /\ sent' \in [Channels -> Nat]
           /\ sent'["operational"] = sent["operational"] + k
           /\ sent'["status"] = sent["status"] + n
           /\ \A ch \in Channels \ {"operational", "status"} : sent'[ch] = sent[ch]
<1> DEFINE m == [operational |-> k, status |-> n]
<1>1. DOMAIN m = {"operational", "status"} /\ m["operational"] = k /\ m["status"] = n
  OBVIOUS
<1> HIDE DEF m
<1>2. sent' = [ch \in Channels |-> IF ch \in DOMAIN m THEN sent[ch] + m[ch] ELSE sent[ch]]
  BY DEF Send, m
<1> QED
  BY <1>1, <1>2 DEF PassTypes, Channels

-----------------------------------------------------------------------------
(* The goroutines of a pass.                                               *)

\* What a step of the goroutine of d leaves alone.
Others(d) ==
    /\ \A e \in Databases : e # d =>
         /\ at'[e] = at[e] /\ left'[e] = left[e] /\ errors'[e] = errors[e]
         /\ completion'[e] = completion[e] /\ gap'[e] = gap[e]
         /\ active'[e] = active[e] /\ found'[e] = found[e]
    /\ UNCHANGED <<ready, warming, requested, loop, outside, outsiders>>

\* What it does for d: it goes on, reports what goes wrong, and notes that it has
\* found the database ready.
Own(d) ==
    /\ at[d] \in Running \union {"admit"} /\ at'[d] \in Running \union {"done"}
    /\ found[d] \/ (at[d] = "admit" /\ ready[d]) => found'[d]
    /\ at'[d] \in Running => ready[d]
    /\ at'[d] \in Running => /\ gap'[d] => errors'[d]
                             /\ active'[d] \/ errors'[d] \/ outside[d]
    /\ at'[d] = "done" /\ gap'[d] => outside[d] \/ completion'[d] = "failure"

\* How many messages a goroutine may have sent in a phase.
StatusesIn(phase) == IF phase = "done" THEN 5 ELSE IF phase = "operational" THEN 3
                     ELSE IF phase = "performance" THEN 2 ELSE IF phase = "metrics" THEN 1 ELSE 0
PerformanceIn(phase) == IF phase \in {"operational", "done"} THEN 1 ELSE 0
OperationalIn(phase) == IF phase = "done" THEN 1 ELSE 0

\* A step goes on to a later phase or stays, and sends no more than that allows.
Sends(d) ==
    /\ StatusesIn(at[d]) <= StatusesIn(at'[d])
    /\ sent'["status"] - sent["status"] <= StatusesIn(at'[d]) - StatusesIn(at[d])
    /\ sent'["performance"] - sent["performance"] <= PerformanceIn(at'[d]) - PerformanceIn(at[d])
    /\ sent'["operational"] - sent["operational"] <= OperationalIn(at'[d]) - OperationalIn(at[d])
    /\ left'[d] \subseteq left[d]
    /\ \/ sent'["sample"] = sent["sample"]
       \/ \E m \in left[d] : sent'["sample"] = sent["sample"] + 1 /\ left'[d] = left[d] \ {m}

PassStepOf(d) == PassTypes' /\ Others(d) /\ Own(d) /\ Sends(d)

\* A step of a goroutine keeps the invariant of the pass.
LEMMA GoroutineKeeps ==
    ASSUME PassInv, NEW d \in Databases, PassStepOf(d)
    PROVE  PassInv'
<1> USE DEF PassInv, PassStepOf
<1>1. loop = "collect" /\ loop' = "collect"
  BY DEF PassTypes, LoopSteps, PassPhase, Own, Others, Running
<1>2. \A e \in Databases : at'[e] # "idle"
  BY <1>1 DEF PassPhase, Own, Others, Running
<1>3. PassPhase'
  BY <1>1, <1>2 DEF PassPhase
<1>4. WarmedUp'
  <2>1. \A e \in Databases : ready'[e] <=>
           e < warming'.database \/ (e = warming'.database /\ warming'.step = "request")
    BY DEF WarmedUp, Others
  <2>2. \A e \in Databases : at'[e] \in Running => ready'[e]
    BY DEF WarmedUp, Others, Own
  <2>3. ASSUME NEW e \in Databases, e < warming'.database
        PROVE  found'[e] \/ requested' \/ at'[e] = "admit"
    <3>1. e < warming.database /\ requested' = requested
      BY <2>3 DEF Others
    <3>2. ready[e]
      BY <3>1 DEF WarmedUp
    <3>3. found[e] \/ requested \/ at[e] = "admit"
      BY <1>1, <3>1 DEF WarmedUp
    <3>4. CASE e = d
      BY <3>1, <3>2, <3>3, <3>4 DEF Own
    <3>5. CASE e # d
      BY <3>1, <3>3, <3>5 DEF Others
    <3> QED
      BY <3>4, <3>5
  <2> QED
    BY <2>1, <2>2, <2>3 DEF WarmedUp
<1>5. Trouble'
  <2>1. UNCHANGED outside
    BY DEF Others
  <2>2. ASSUME NEW e \in Databases
        PROVE  /\ at'[e] \in {"idle", "admit"} => ~gap'[e]
               /\ at'[e] \in Running => /\ gap'[e] => errors'[e]
                                        /\ active'[e] \/ errors'[e] \/ outside'[e]
               /\ at'[e] = "done" /\ gap'[e] => outside'[e] \/ completion'[e] = "failure"
    <3>1. CASE e = d
      BY <2>1, <3>1 DEF Own, Running
    <3>2. CASE e # d
      BY <2>1, <3>2 DEF Others, Trouble
    <3> QED
      BY <3>1, <3>2
  <2> QED
    BY <2>2 DEF Trouble
<1> QED
  BY <1>3, <1>4, <1>5

\* The early returns of scrapeDatabaseSamples.
LEMMA EarlyReturnSteps ==
    ASSUME PassInv, NEW d \in Databases, NotReady(d) \/ NotActive(d) \/ PingFails(d)
    PROVE  PassStepOf(d)
<1> USE DEF PassInv, NotReady, NotActive, PingFails, EarlyReturn, PassRest, startVars
<1>1. /\ at[d] = "admit" /\ at' = [at EXCEPT ![d] = "done"]
      /\ completion' = [completion EXCEPT ![d] = "failure"]
      /\ Send([status |-> 1])
      /\ UNCHANGED <<ready, warming, requested, loop, outside, outsiders, left, errors>>
  OBVIOUS
<1>2. /\ sent' \in [Channels -> Nat] /\ sent'["status"] = sent["status"] + 1
      /\ \A ch \in Channels \ {"status"} : sent'[ch] = sent[ch]
  BY <1>1, SendsStatus
<1>3. /\ gap' = [gap EXCEPT ![d] = TRUE]
      /\ active' = active \/ active' = [active EXCEPT ![d] = FALSE]
      /\ found' = [found EXCEPT ![d] = TRUE] \/ (found' = found /\ ~ready[d])
  OBVIOUS
<1>4. totalErrors' \in BOOLEAN
  BY DEF PassTypes
<1> HIDE DEF NotReady, NotActive, PingFails
<1>5. /\ gap' \in [Databases -> BOOLEAN] /\ active' \in [Databases -> BOOLEAN]
      /\ found' \in [Databases -> BOOLEAN]
      /\ at' \in [Databases -> Phases] /\ completion' \in [Databases -> Statuses]
  BY <1>1, <1>3 DEF PassTypes, Phases, Statuses
<1>6. PassTypes'
  BY <1>1, <1>2, <1>4, <1>5 DEF PassTypes
<1>7. Others(d)
  BY <1>1, <1>3 DEF PassTypes, Others
<1>8. Own(d)
  BY <1>1, <1>3 DEF PassTypes, Own, Running
<1>9. Sends(d)
  BY <1>1, <1>2 DEF PassTypes, Sends, StatusesIn, PerformanceIn, OperationalIn, Channels
<1> QED
  BY <1>6, <1>7, <1>8, <1>9 DEF PassStepOf

\* The database answers.
LEMMA PingStep ==
    ASSUME PassInv, NEW d \in Databases, PingSucceeds(d)
    PROVE  PassStepOf(d)
<1>1. /\ at[d] = "admit" /\ ready[d] /\ active[d]
      /\ at' = [at EXCEPT ![d] = "metrics"]
      /\ found' = [found EXCEPT ![d] = TRUE]
      /\ Send([status |-> 1])
      /\ UNCHANGED <<ready, warming, requested, loop, outside, outsiders, left, errors,
                     active, completion, totalErrors, gap>>
  BY DEF PingSucceeds, PassRest, startVars
<1>2. /\ sent' \in [Channels -> Nat] /\ sent'["status"] = sent["status"] + 1
      /\ \A ch \in Channels \ {"status"} : sent'[ch] = sent[ch]
  BY <1>1, SendsStatus DEF PassInv
<1>3. PassTypes'
  BY <1>1, <1>2 DEF PassInv, PassTypes, Phases
<1>4. Others(d)
  BY <1>1 DEF PassInv, PassTypes, Others
<1>5. Own(d)
  BY <1>1 DEF PassInv, PassTypes, Own, Running, Trouble
<1>6. Sends(d)
  BY <1>1, <1>2 DEF PassInv, PassTypes, Sends, StatusesIn, PerformanceIn, OperationalIn, Channels
<1> QED
  BY <1>3, <1>4, <1>5, <1>6 DEF PassStepOf

\* A metric is done.
LEMMA MetricDoneStep ==
    ASSUME PassInv, NEW d \in Databases, NEW m \in left[d], MetricDone(d, m)
    PROVE  PassStepOf(d)
<1>1. /\ at[d] = "metrics"
      /\ left' = [left EXCEPT ![d] = left[d] \ {m}]
      /\ sent' = sent \/ Send([sample |-> 1])
      /\ UNCHANGED <<ready, warming, requested, loop, outside, outsiders, at, errors,
                     active, completion, totalErrors, gap, found>>
  BY DEF MetricDone, PassRest, startVars
<1>2. /\ sent' \in [Channels -> Nat]
      /\ sent'["sample"] = sent["sample"] \/ sent'["sample"] = sent["sample"] + 1
      /\ \A ch \in Channels \ {"sample"} : sent'[ch] = sent[ch]
  BY <1>1, SendsSample DEF PassInv, PassTypes
<1>3. PassTypes'
  BY <1>1, <1>2 DEF PassInv, PassTypes
<1>4. Others(d)
  BY <1>1 DEF PassInv, PassTypes, Others
<1>5. Own(d)
  BY <1>1 DEF PassInv, PassTypes, WarmedUp, Own, Running, Trouble
<1>6. Sends(d)
  BY <1>1, <1>2 DEF PassInv, PassTypes, Sends, StatusesIn, PerformanceIn, OperationalIn, Channels
<1> QED
  BY <1>3, <1>4, <1>5, <1>6 DEF PassStepOf

\* A metric fails; a connection failure leaves out the others.
LEMMA MetricFailsStep ==
    ASSUME PassInv, NEW d \in Databases, NEW m \in left[d], NEW connection \in BOOLEAN,
           MetricFails(d, m, connection)
    PROVE  PassStepOf(d)
<1>1. /\ at[d] = "metrics"
      /\ left' = [left EXCEPT ![d] = IF connection THEN {} ELSE left[d] \ {m}]
      /\ active' = [active EXCEPT ![d] = active[d] /\ ~connection]
      /\ errors' = [errors EXCEPT ![d] = TRUE]
      /\ gap' = [gap EXCEPT ![d] = TRUE]
      /\ totalErrors' = TRUE
      /\ UNCHANGED <<ready, warming, requested, loop, outside, outsiders, at, sent, completion, found>>
  BY DEF MetricFails, PassRest, startVars
<1>2. active' \in [Databases -> BOOLEAN]
  BY <1>1 DEF PassInv, PassTypes
<1>3. left' \in [Databases -> SUBSET Files] /\ left'[d] \subseteq left[d]
  BY <1>1 DEF PassInv, PassTypes
<1>4. PassTypes'
  BY <1>1, <1>2, <1>3 DEF PassInv, PassTypes
<1>5. Others(d)
  BY <1>1 DEF PassInv, PassTypes, Others
<1>6. Own(d)
  BY <1>1 DEF PassInv, PassTypes, WarmedUp, Own, Running
<1>7. Sends(d)
  BY <1>1, <1>3 DEF PassInv, PassTypes, Sends, Channels, StatusesIn, PerformanceIn, OperationalIn
<1> QED
  BY <1>4, <1>5, <1>6, <1>7 DEF PassStepOf

\* The metrics are done.
LEMMA MetricsEndStep ==
    ASSUME PassInv, NEW d \in Databases, MetricsEnd(d)
    PROVE  PassStepOf(d)
<1>1. /\ at[d] = "metrics"
      /\ at' = [at EXCEPT ![d] = "performance"]
      /\ sent' = sent \/ Send([status |-> 1])
      /\ UNCHANGED <<ready, warming, requested, loop, outside, outsiders, left, errors,
                     active, completion, totalErrors, gap, found>>
  BY DEF MetricsEnd, PassRest, startVars
<1>2. /\ sent' \in [Channels -> Nat]
      /\ sent'["status"] = sent["status"] \/ sent'["status"] = sent["status"] + 1
      /\ \A ch \in Channels \ {"status"} : sent'[ch] = sent[ch]
  BY <1>1, SendsStatus DEF PassInv, PassTypes
<1>3. PassTypes'
  BY <1>1, <1>2 DEF PassInv, PassTypes, Phases
<1>4. Others(d)
  BY <1>1 DEF PassInv, PassTypes, Others
<1>5. Own(d)
  BY <1>1 DEF PassInv, PassTypes, WarmedUp, Own, Running, Trouble
<1>6. Sends(d)
  BY <1>1, <1>2 DEF PassInv, PassTypes, Sends, StatusesIn, PerformanceIn, OperationalIn, Channels
<1> QED
  BY <1>3, <1>4, <1>5, <1>6 DEF PassStepOf

\* The pass of the database ends early: either an error is known, or somebody else
\* has quarantined it.
LEMMA NoLongerActiveStep ==
    ASSUME PassInv, NEW d \in Databases, NoLongerActive(d)
    PROVE  PassStepOf(d)
<1>1. /\ at[d] \in {"performance", "operational"} /\ ~active[d]
      /\ at' = [at EXCEPT ![d] = "done"]
      /\ completion' = [completion EXCEPT ![d] = IF errors[d] THEN "failure" ELSE "success"]
      /\ Send([status |-> 1])
      /\ gap' = [gap EXCEPT ![d] = TRUE]
      /\ UNCHANGED <<ready, warming, requested, loop, outside, outsiders, left, errors,
                     active, totalErrors, found>>
  BY DEF NoLongerActive, Finish, PassRest, startVars
<1>2. /\ sent' \in [Channels -> Nat] /\ sent'["status"] = sent["status"] + 1
      /\ \A ch \in Channels \ {"status"} : sent'[ch] = sent[ch]
  BY <1>1, SendsStatus DEF PassInv
<1>3. PassTypes'
  <2>1. completion' \in [Databases -> Statuses]
    BY <1>1 DEF PassInv, PassTypes, Statuses
  <2> QED
    BY <1>1, <1>2, <2>1 DEF PassInv, PassTypes, Phases
<1>4. Others(d)
  BY <1>1 DEF PassInv, PassTypes, Others
<1>5. Own(d)
  <2>1. errors[d] \/ outside[d]
    BY <1>1 DEF PassInv, Trouble, Running
  <2>2. errors[d] => completion'[d] = "failure"
    BY <1>1 DEF PassInv, PassTypes
  <2> QED
    BY <1>1, <2>1, <2>2 DEF PassInv, PassTypes, Own, Running
<1>6. Sends(d)
  BY <1>1, <1>2 DEF PassInv, PassTypes, Sends, StatusesIn, PerformanceIn, OperationalIn, Channels
<1> QED
  BY <1>3, <1>4, <1>5, <1>6 DEF PassStepOf

\* The performance samples, with or without an error.
LEMMA PerformanceSteps ==
    ASSUME PassInv, NEW d \in Databases, NEW samples \in 0 .. 1,
           \/ Performance(d, samples)
           \/ \E connection \in BOOLEAN : PerformanceFails(d, samples, connection)
    PROVE  PassStepOf(d)
<1>1. /\ at[d] = "performance" /\ active[d]
      /\ at' = [at EXCEPT ![d] = "operational"]
      /\ Send([performance |-> samples, status |-> 1])
      /\ UNCHANGED <<ready, warming, requested, loop, outside, outsiders, left, completion, found>>
  BY DEF Performance, PerformanceFails, PassRest, startVars
<1>2. /\ sent' \in [Channels -> Nat] /\ sent'["status"] = sent["status"] + 1
      /\ sent'["performance"] = sent["performance"] + samples
      /\ \A ch \in Channels \ {"performance", "status"} : sent'[ch] = sent[ch]
  BY <1>1, SendsPerformance DEF PassInv
<1>3. Sends(d)
  BY <1>1, <1>2 DEF PassInv, PassTypes, Sends, StatusesIn, PerformanceIn, OperationalIn, Channels
<1>4. CASE Performance(d, samples)
  <2>1. UNCHANGED <<active, errors, totalErrors, gap>>
    BY <1>4 DEF Performance
  <2>2. PassTypes'
    BY <1>1, <1>2, <2>1 DEF PassInv, PassTypes, Phases
  <2>3. Others(d)
    BY <1>1, <2>1 DEF PassInv, PassTypes, Others
  <2>4. Own(d)
    BY <1>1, <2>1 DEF PassInv, PassTypes, WarmedUp, Own, Running, Trouble
  <2> QED
    BY <1>3, <2>2, <2>3, <2>4 DEF PassStepOf
<1>5. ASSUME NEW connection \in BOOLEAN, PerformanceFails(d, samples, connection)
      PROVE  PassStepOf(d)
  <2>1. /\ active' = [active EXCEPT ![d] = active[d] /\ ~connection]
        /\ errors' = [errors EXCEPT ![d] = TRUE]
        /\ gap' = [gap EXCEPT ![d] = TRUE]
        /\ totalErrors' = TRUE
    BY <1>5 DEF PerformanceFails
  <2>2. PassTypes'
    <3>1. active' \in [Databases -> BOOLEAN]
      BY <2>1 DEF PassInv, PassTypes
    <3> QED
      BY <1>1, <1>2, <2>1, <3>1 DEF PassInv, PassTypes, Phases
  <2>3. Others(d)
    BY <1>1, <2>1 DEF PassInv, PassTypes, Others
  <2>4. Own(d)
    BY <1>1, <2>1 DEF PassInv, PassTypes, WarmedUp, Own, Running
  <2> QED
    BY <1>3, <2>2, <2>3, <2>4 DEF PassStepOf
<1> QED
  BY <1>4, <1>5

\* The operational samples, if they are due, with or without an error.
LEMMA OperationalSteps ==
    ASSUME PassInv, NEW d \in Databases, NEW samples \in 0 .. 1,
           \/ OperationalNotDue(d) \/ Operational(d, samples)
           \/ \E connection \in BOOLEAN : OperationalFails(d, samples, connection)
    PROVE  PassStepOf(d)
<1>1. /\ at[d] = "operational" /\ active[d]
      /\ at' = [at EXCEPT ![d] = "done"]
      /\ UNCHANGED <<ready, warming, requested, loop, outside, outsiders, left, found>>
  BY DEF OperationalNotDue, Operational, OperationalFails, Finish, PassRest, startVars
<1>2. Send([status |-> 1]) \/ Send([operational |-> samples, status |-> 2])
  BY DEF OperationalNotDue, Operational, OperationalFails
<1>3. /\ sent' \in [Channels -> Nat] /\ sent'["status"] - sent["status"] <= 2
      /\ sent'["operational"] - sent["operational"] <= 1
      /\ \A ch \in Channels \ {"operational", "status"} : sent'[ch] = sent[ch]
  <2>1. CASE Send([status |-> 1])
    BY <2>1, SendsStatus DEF PassInv, PassTypes, Channels
  <2>2. CASE Send([operational |-> samples, status |-> 2])
    BY <2>2, SendsOperational DEF PassInv, PassTypes, Channels
  <2> QED
    BY <1>2, <2>1, <2>2
<1>4. Sends(d)
  BY <1>1, <1>3 DEF PassInv, PassTypes, Sends, StatusesIn, PerformanceIn, OperationalIn, Channels
<1>5. CASE OperationalNotDue(d) \/ Operational(d, samples)
  <2>1. /\ completion' = [completion EXCEPT ![d] = IF errors[d] THEN "failure" ELSE "success"]
        /\ UNCHANGED <<active, errors, totalErrors, gap>>
    BY <1>5 DEF OperationalNotDue, Operational, Finish
  <2>2. PassTypes'
    <3>1. completion' \in [Databases -> Statuses]
      BY <2>1 DEF PassInv, PassTypes, Statuses
    <3> QED
      BY <1>1, <1>3, <2>1, <3>1 DEF PassInv, PassTypes, Phases
  <2>3. Others(d)
    BY <1>1, <2>1 DEF PassInv, PassTypes, Others
  <2>4. Own(d)
    <3>1. gap[d] => errors[d]
      BY <1>1 DEF PassInv, Trouble, Running
    <3>2. errors[d] => completion'[d] = "failure"
      BY <2>1 DEF PassInv, PassTypes
    <3> QED
      BY <1>1, <2>1, <3>1, <3>2 DEF PassInv, PassTypes, Own, Running
  <2> QED
    BY <1>4, <2>2, <2>3, <2>4 DEF PassStepOf
<1>6. ASSUME NEW connection \in BOOLEAN, OperationalFails(d, samples, connection)
      PROVE  PassStepOf(d)
  <2>1. /\ active' = [active EXCEPT ![d] = active[d] /\ ~connection]
        /\ errors' = [errors EXCEPT ![d] = TRUE]
        /\ gap' = [gap EXCEPT ![d] = TRUE]
        /\ totalErrors' = TRUE
        /\ completion' = [completion EXCEPT ![d] = "failure"]
    BY <1>6 DEF OperationalFails, Finish
  <2>2. PassTypes'
    <3>1. active' \in [Databases -> BOOLEAN] /\ completion' \in [Databases -> Statuses]
      BY <2>1 DEF PassInv, PassTypes, Statuses
    <3> QED
      BY <1>1, <1>3, <2>1, <3>1 DEF PassInv, PassTypes, Phases
  <2>3. Others(d)
    BY <1>1, <2>1 DEF PassInv, PassTypes, Others
  <2>4. Own(d)
    BY <1>1, <2>1 DEF PassInv, PassTypes, Own, Running
  <2> QED
    BY <1>4, <2>2, <2>3, <2>4 DEF PassStepOf
<1> QED
  BY <1>5, <1>6

\* Every step of scrapeDatabaseSamples.
LEMMA ScrapeStep ==
    ASSUME PassInv, NEW d \in Databases, ScrapeDatabase(d)
    PROVE  PassStepOf(d)
<1>1. OperationalNotDue(d) => PassStepOf(d)
  <2>1. 0 \in 0 .. 1
    OBVIOUS
  <2> QED
    BY <2>1, OperationalSteps
<1> QED
  BY <1>1, EarlyReturnSteps, PingStep, MetricDoneStep, MetricFailsStep, MetricsEndStep,
     NoLongerActiveStep, PerformanceSteps, OperationalSteps DEF ScrapeDatabase

-----------------------------------------------------------------------------
(* The loop, the warmup and the other goroutines.                          *)

\* A warmup makes one more database ready, which no pass has used before.
LEMMA WarmupStep ==
    ASSUME PassInv, NEW up \in BOOLEAN, Warmup(up)
    PROVE  PassInv'
<1> USE DEF PassInv
<1> DEFINE w == warming.database
<1>1. /\ warming.step = "warmup" /\ w \in Databases
      /\ ready' = [ready EXCEPT ![w] = TRUE]
      /\ active' = [active EXCEPT ![w] = up]
      /\ warming' = [warming EXCEPT !.step = "request"]
      /\ UNCHANGED <<requested, loop, at, left, errors, sent, completion, totalErrors, gap, outside,
                     outsiders, found>>
  BY DEF Warmup, passVars, ghosts
<1>2. /\ warming'.database = w /\ warming'.step = "request"
      /\ warming' \in [database : Nat \ {0}, step : {"warmup", "request"}]
  BY <1>1 DEF PassTypes
<1>3. PassTypes'
  BY <1>1, <1>2 DEF PassTypes
<1>4. PassPhase'
  BY <1>1 DEF PassPhase
<1>5. ~ready[w] /\ at[w] \notin Running
  BY <1>1, ScheduledAssumption DEF WarmedUp, Databases
<1>6. WarmedUp'
  <2>1. ASSUME NEW d \in Databases PROVE ready'[d] <=> d < w \/ d = w
    BY <1>1 DEF PassTypes, WarmedUp
  <2> QED
    BY <1>1, <1>2, <1>5, <2>1 DEF WarmedUp, PassTypes
<1>7. Trouble'
  BY <1>1, <1>5 DEF PassTypes, Trouble
<1> QED
  BY <1>3, <1>4, <1>6, <1>7

\* After its warmup a database has a request of its own.
LEMMA RequestStep ==
    ASSUME PassInv, RequestScheduledScrape
    PROVE  PassInv'
<1> USE DEF PassInv
<1>1. /\ warming.step = "request" /\ requested' = TRUE
      /\ warming' = [database |-> warming.database + 1, step |-> "warmup"]
      /\ UNCHANGED <<ready, active, loop, at, left, errors, sent, completion, totalErrors, gap,
                     outside, outsiders, found>>
  BY DEF RequestScheduledScrape, passVars, ghosts
<1>2. /\ warming.database \in Nat
      /\ warming'.database = warming.database + 1 /\ warming'.step = "warmup"
      /\ warming' \in [database : Nat \ {0}, step : {"warmup", "request"}]
  BY <1>1 DEF PassTypes
<1>3. PassTypes'
  BY <1>1, <1>2 DEF PassTypes
<1>4. PassPhase'
  BY <1>1 DEF PassPhase
<1>5. \A d \in Databases : d < warming.database + 1 <=> d < warming.database \/ d = warming.database
  BY <1>2, ScheduledAssumption DEF Databases
<1>6. WarmedUp'
  BY <1>1, <1>2, <1>5 DEF WarmedUp
<1>7. Trouble'
  BY <1>1 DEF Trouble
<1> QED
  BY <1>3, <1>4, <1>6, <1>7

\* The loop outside a pass.
LEMMA LoopStep ==
    ASSUME PassInv, \/ Ticks \/ Requested \/ Stops \/ MetricsChanged \/ Reload \/ MetricsUnchanged
    PROVE  PassInv'
<1> USE DEF PassInv
<1>1. /\ UNCHANGED <<ready, active, warming, at, left, errors, sent, completion, totalErrors, gap,
                     outside, outsiders, found>>
      /\ loop \in {"check", "reload", "select"}
      /\ loop' \in {"check", "reload", "start", "stopped"}
  BY DEF Ticks, Requested, Stops, MetricsChanged, Reload, MetricsUnchanged, startVars, passVars,
         ghosts
<1>2. requested' \in BOOLEAN
  BY DEF Ticks, Requested, Stops, MetricsChanged, Reload, MetricsUnchanged, startVars, PassTypes
<1>3. PassTypes'
  BY <1>1, <1>2 DEF PassTypes, LoopSteps
<1>4. PassPhase' /\ Trouble'
  BY <1>1 DEF PassPhase, Trouble
<1>5. WarmedUp'
  BY <1>1 DEF WarmedUp
<1> QED
  BY <1>3, <1>4, <1>5

\* A pass begins with all of its goroutines.
LEMMA StartStep ==
    ASSUME PassInv, DefinitionInv, StartPass
    PROVE  PassInv'
<1> USE DEF PassInv
<1>1. /\ loop = "start" /\ loop' = "collect"
      /\ at' = [d \in Databases |-> "admit"] /\ left' = [d \in Databases |-> Metrics]
      /\ UNCHANGED <<ready, active, warming, requested, errors, sent, completion, totalErrors, gap,
                     outside, outsiders, found>>
  BY DEF StartPass, startVars, ghosts
<1>2. PassTypes'
  <2>1. Metrics \subseteq Files
    BY DEF Metrics
  <2> QED
    BY <1>1, <2>1 DEF PassTypes, LoopSteps, Phases
<1>3. PassPhase'
  BY <1>1 DEF PassPhase
<1>4. WarmedUp'
  BY <1>1 DEF WarmedUp, Running
<1>5. Trouble'
  BY <1>1 DEF PassPhase, Trouble, Running
<1> QED
  BY <1>2, <1>3, <1>4, <1>5

\* A pass ends when all of its goroutines have.
LEMMA CollectedStep ==
    ASSUME PassInv, Collected
    PROVE  PassInv'
<1> USE DEF PassInv
<1>1. /\ loop = "collect" /\ loop' = "write" /\ \A d \in Databases : at[d] = "done"
      /\ UNCHANGED <<ready, active, warming, requested, at, left, errors, sent, completion,
                     totalErrors, gap, outside, outsiders, found>>
  BY DEF Collected, startVars, passVars, ghosts
<1>2. PassTypes' /\ PassPhase' /\ Trouble'
  BY <1>1 DEF PassTypes, LoopSteps, PassPhase, Trouble
<1>3. WarmedUp'
  BY <1>1 DEF WarmedUp
<1> QED
  BY <1>2, <1>3

\* The pass is written, and nothing of it is left.
LEMMA WrittenStep ==
    ASSUME PassInv, Written
    PROVE  PassInv'
<1> USE DEF PassInv
<1>1. /\ loop = "write" /\ loop' = "select"
      /\ at' = [d \in Databases |-> "idle"] /\ left' = [d \in Databases |-> {}]
      /\ errors' = [d \in Databases |-> FALSE] /\ sent' = [ch \in Channels |-> 0]
      /\ completion' = [d \in Databases |-> "none"] /\ totalErrors' = FALSE
      /\ gap' = [d \in Databases |-> FALSE] /\ outside' = [d \in Databases |-> FALSE]
      /\ UNCHANGED <<ready, active, warming, requested, outsiders, found>>
  BY DEF Written, NoPass, startVars
<1>2. PassTypes'
  BY <1>1 DEF PassTypes, LoopSteps, Phases, Statuses
<1>3. PassPhase' /\ Trouble'
  BY <1>1 DEF PassPhase, Trouble, Running
<1>4. WarmedUp'
  <2>1. \A d \in Databases : at[d] # "admit"
    BY <1>1 DEF PassPhase
  <2> QED
    BY <1>1, <2>1 DEF WarmedUp, Running
<1> QED
  BY <1>2, <1>3, <1>4

\* Other goroutines quarantine and restore databases.
LEMMA OutsideStep ==
    ASSUME PassInv, NEW d \in Databases, QuarantinedOutside(d) \/ Restored(d)
    PROVE  PassInv'
<1> USE DEF PassInv
<1>1. /\ UNCHANGED <<ready, warming, requested, loop, at, left, errors, sent, completion,
                     totalErrors, gap, found>>
      /\ \E a \in BOOLEAN : active' = [active EXCEPT ![d] = a]
  BY DEF QuarantinedOutside, Restored, startVars, passVars, ghosts
<1>2. /\ outsiders' \in Nat /\ outside' \in [Databases -> BOOLEAN]
      /\ \A e \in Databases : outside[e] => outside'[e]
      /\ at[d] \in Running => active'[d] \/ outside'[d]
      /\ \A e \in Databases : e # d => active'[e] = active[e]
  <2>1. CASE QuarantinedOutside(d)
    <3>1. /\ outside' = [outside EXCEPT ![d] = outside[d] \/ at[d] \notin {"idle", "done"}]
          /\ outsiders' = outsiders + 1
      BY <2>1 DEF QuarantinedOutside
    <3>2. /\ outside' \in [Databases -> BOOLEAN] /\ \A e \in Databases : outside[e] => outside'[e]
      BY <3>1 DEF PassTypes
    <3>3. at[d] \in Running => outside'[d]
      BY <3>1 DEF PassTypes, Running
    <3> QED
      BY <1>1, <3>1, <3>2, <3>3 DEF PassTypes
  <2>2. CASE Restored(d)
    BY <2>2 DEF Restored, PassTypes, ghosts
  <2> QED
    BY <2>1, <2>2
<1>3. PassTypes'
  <2>1. active' \in [Databases -> BOOLEAN]
    BY <1>1 DEF PassTypes
  <2> QED
    BY <1>1, <1>2, <2>1 DEF PassTypes
<1>4. PassPhase' /\ WarmedUp'
  BY <1>1 DEF PassPhase, WarmedUp
<1>5. Trouble'
  BY <1>1, <1>2 DEF Trouble
<1> QED
  BY <1>3, <1>4, <1>5

\* Steps that change nothing of a pass.
LEMMA PassUntouched ==
    ASSUME PassInv, Edited \/ UNCHANGED vars
    PROVE  PassInv'
<1>1. UNCHANGED <<ready, active, warming, requested, loop, at, left, errors, sent, completion,
                  totalErrors, gap, outside, outsiders, found>>
  BY DEF Edited, vars, startVars, passVars, ghosts
<1> QED
  BY <1>1 DEF PassInv, PassTypes, PassPhase, WarmedUp, Trouble

\* Every step keeps the invariant of the pass.
LEMMA PassStep == ASSUME PassInv, DefinitionInv, [Next]_vars PROVE PassInv'
BY ScrapeStep, GoroutineKeeps, WarmupStep, RequestStep, LoopStep, StartStep, CollectedStep,
   WrittenStep, OutsideStep, PassUntouched DEF Next, Initialize, Loop

-----------------------------------------------------------------------------
(* The messages of a pass.                                                 *)

\* The databases and the pairs of databases and files are finitely many.
LEMMA FiniteCounts ==
    /\ IsFiniteSet(Databases) /\ Cardinality(Databases) = NumDatabases
    /\ IsFiniteSet(Databases \X Files)
    /\ Cardinality(Databases \X Files) = NumDatabases * NumFiles
<1>1. IsFiniteSet(Databases) /\ Cardinality(Databases) = NumDatabases
  BY ScheduledAssumption, FS_Interval DEF Databases
<1>2. IsFiniteSet(Files) /\ Cardinality(Files) = NumFiles
  BY DefinitionsAssumption, FS_Interval DEF Files
<1> QED
  BY <1>1, <1>2, FS_Product

\* The databases in some phases: fewer than all if one is in none of them.
LEMMA InCount ==
    ASSUME NEW phases
    PROVE  /\ IsFiniteSet(In(phases))
           /\ Cardinality(In(phases)) \in 0 .. NumDatabases
           /\ (\E d \in Databases : at[d] \notin phases) => Cardinality(In(phases)) < NumDatabases
<1>1. In(phases) \in SUBSET Databases
  BY DEF In
<1>2. /\ IsFiniteSet(In(phases)) /\ Cardinality(In(phases)) <= NumDatabases
      /\ Cardinality(In(phases)) = NumDatabases => In(phases) = Databases
  BY <1>1, FiniteCounts, FS_Subset
<1>3. Cardinality(In(phases)) \in Nat
  BY <1>2, FS_CardinalityType
<1>4. (\E d \in Databases : at[d] \notin phases) => In(phases) # Databases
  BY DEF In
<1> QED
  BY <1>2, <1>3, <1>4, ScheduledAssumption

\* A database that goes into the phases makes one more.
LEMMA InMoves ==
    ASSUME NEW phases, NEW d \in Databases,
           \A e \in Databases : e # d => at'[e] = at[e],
           at[d] \in phases => at'[d] \in phases
    PROVE  Cardinality(In(phases)') =
             IF at'[d] \in phases /\ at[d] \notin phases THEN Cardinality(In(phases)) + 1
                                                         ELSE Cardinality(In(phases))
<1>1. CASE at'[d] \in phases /\ at[d] \notin phases
  <2>1. In(phases)' = In(phases) \union {d} /\ d \notin In(phases)
    BY <1>1 DEF In
  <2> QED
    BY <1>1, <2>1, InCount, FS_AddElement
<1>2. CASE ~(at'[d] \in phases /\ at[d] \notin phases)
  <2>1. In(phases)' = In(phases)
    BY <1>2 DEF In
  <2> QED
    BY <1>2, <2>1
<1> QED
  BY <1>1, <1>2

\* A metric that has been looked at makes one more, and none is unlooked at.
LEMMA LookedMoves ==
    ASSUME NEW d \in Databases, \A e \in Databases : e # d => left'[e] = left[e],
           left'[d] \subseteq left[d], left[d] \subseteq Files
    PROVE  /\ Cardinality(Looked) \in Nat /\ Cardinality(Looked') \in Nat
           /\ Cardinality(Looked) <= Cardinality(Looked')
           /\ \A m \in left[d] : left'[d] = left[d] \ {m}
                => Cardinality(Looked') = Cardinality(Looked) + 1
<1>1. /\ Looked \in SUBSET (Databases \X Files) /\ Looked' \in SUBSET (Databases \X Files)
      /\ Looked \in SUBSET Looked'
  BY DEF Looked
<1>2. IsFiniteSet(Looked) /\ IsFiniteSet(Looked')
  BY <1>1, FiniteCounts, FS_Subset
<1>3. /\ Cardinality(Looked) \in Nat /\ Cardinality(Looked') \in Nat
      /\ Cardinality(Looked) <= Cardinality(Looked')
  BY <1>1, <1>2, FS_CardinalityType, FS_Subset
<1>4. ASSUME NEW m \in left[d], left'[d] = left[d] \ {m}
      PROVE  Cardinality(Looked') = Cardinality(Looked) + 1
  <2>1. <<d, m>> \notin Looked
    BY DEF Looked
  <2>2. Looked' = Looked \union {<<d, m>>}
    BY <1>4 DEF Looked
  <2> QED
    BY <1>2, <2>1, <2>2, FS_AddElement
<1> QED
  BY <1>3, <1>4

\* Every step keeps the account of the messages.
LEMMA SentStep == ASSUME PassInv, SentOnce, [Next]_vars PROVE SentOnce'
<1> DEFINE P == Cardinality(Pinged)
           M == Cardinality(Measured)
           F == Cardinality(Performed)
           D == Cardinality(Done)
           L == Cardinality(Looked)
<1>0. P \in Nat /\ M \in Nat /\ F \in Nat /\ D \in Nat
  BY InCount, ScheduledAssumption DEF Pinged, Measured, Performed, Done
<1>1. ASSUME NEW d \in Databases, PassStepOf(d) PROVE SentOnce'
  <2>1. /\ at[d] \in {"admit", "metrics", "performance", "operational"}
        /\ at'[d] \in {"metrics", "performance", "operational", "done"}
        /\ \A e \in Databases : e # d => at'[e] = at[e] /\ left'[e] = left[e]
        /\ sent \in [Channels -> Nat] /\ sent' \in [Channels -> Nat]
    BY <1>1 DEF PassStepOf, Own, Others, Running, PassInv, PassTypes
  <2>2. StatusesIn(at[d]) <= StatusesIn(at'[d])
    BY <1>1 DEF PassStepOf, Sends
  <2>3. /\ P' = IF at[d] = "admit" THEN P + 1 ELSE P
        /\ M' = IF at[d] \in {"admit", "metrics"} /\ at'[d] # "metrics" THEN M + 1 ELSE M
        /\ F' = IF /\ at[d] \in {"admit", "metrics", "performance"}
                   /\ at'[d] \notin {"metrics", "performance"} THEN F + 1 ELSE F
        /\ D' = IF at'[d] = "done" THEN D + 1 ELSE D
    <3>1. P' = IF at[d] = "admit" THEN P + 1 ELSE P
      BY <2>1, InMoves DEF Pinged
    <3>2. M' = IF at[d] \in {"admit", "metrics"} /\ at'[d] # "metrics" THEN M + 1 ELSE M
      <4>1. at[d] \in {"performance", "operational", "done"}
              => at'[d] \in {"performance", "operational", "done"}
        BY <2>1, <2>2 DEF StatusesIn
      <4> QED
        BY <2>1, <4>1, InMoves DEF Measured
    <3>3. F' = IF /\ at[d] \in {"admit", "metrics", "performance"}
                  /\ at'[d] \notin {"metrics", "performance"} THEN F + 1 ELSE F
      <4>1. at[d] \in {"operational", "done"} => at'[d] \in {"operational", "done"}
        BY <2>1, <2>2 DEF StatusesIn
      <4> QED
        BY <2>1, <4>1, InMoves DEF Performed
    <3>4. D' = IF at'[d] = "done" THEN D + 1 ELSE D
      BY <2>1, InMoves DEF Done
    <3> QED
      BY <3>1, <3>2, <3>3, <3>4
  <2> HIDE DEF P, M, F, D, L
  <2>4. /\ sent["status"] \in Nat /\ sent'["status"] \in Nat
        /\ sent["performance"] \in Nat /\ sent'["performance"] \in Nat
        /\ sent["operational"] \in Nat /\ sent'["operational"] \in Nat
        /\ sent["sample"] \in Nat /\ sent'["sample"] \in Nat
    BY <2>1 DEF Channels
  <2>5. /\ sent["status"] <= P + M + F + 2 * D
        /\ sent["performance"] <= F /\ sent["operational"] <= D /\ sent["sample"] <= L
    BY DEF SentOnce, P, M, F, D, L
  <2>6. /\ sent'["status"] - sent["status"] <= StatusesIn(at'[d]) - StatusesIn(at[d])
        /\ sent'["performance"] - sent["performance"] <= PerformanceIn(at'[d]) - PerformanceIn(at[d])
        /\ sent'["operational"] - sent["operational"] <= OperationalIn(at'[d]) - OperationalIn(at[d])
    BY <1>1 DEF PassStepOf, Sends
  <2>7. sent'["status"] <= P' + M' + F' + 2 * D'
    <3>1. P' + M' + F' + 2 * D' - (P + M + F + 2 * D) = StatusesIn(at'[d]) - StatusesIn(at[d])
      BY <1>0, <2>1, <2>2, <2>3 DEF StatusesIn
    <3>2. P' \in Nat /\ M' \in Nat /\ F' \in Nat /\ D' \in Nat
      BY <1>0, <2>3
    <3>3. StatusesIn(at'[d]) \in Nat /\ StatusesIn(at[d]) \in Nat
      BY DEF StatusesIn
    <3> QED
      BY <1>0, <2>4, <2>5, <2>6, <3>1, <3>2, <3>3
  <2>8. sent'["performance"] <= F'
    BY <1>0, <2>1, <2>2, <2>3, <2>4, <2>5, <2>6 DEF PerformanceIn, StatusesIn
  <2>9. sent'["operational"] <= D'
    BY <1>0, <2>1, <2>3, <2>4, <2>5, <2>6 DEF OperationalIn
  <2>10. sent'["sample"] <= L'
    <3>1. left'[d] \subseteq left[d] /\ left[d] \subseteq Files
      BY <1>1 DEF PassStepOf, Sends, PassInv, PassTypes
    <3>2. /\ L \in Nat /\ L' \in Nat /\ L <= L'
          /\ \A m \in left[d] : left'[d] = left[d] \ {m} => L' = L + 1
      BY <2>1, <3>1, LookedMoves DEF L
    <3>3. \/ sent'["sample"] = sent["sample"]
          \/ sent'["sample"] = sent["sample"] + 1 /\ L' = L + 1
      BY <1>1, <3>2 DEF PassStepOf, Sends
    <3> QED
      BY <2>4, <2>5, <3>2, <3>3
  <2> QED
    BY <2>7, <2>8, <2>9, <2>10 DEF SentOnce, P, M, F, D, L
<1>2. ASSUME UNCHANGED <<at, left, sent>> PROVE SentOnce'
  BY <1>2 DEF SentOnce, Pinged, Measured, Performed, Done, Looked, In
<1>3. ASSUME \A ch \in Channels : sent'[ch] = 0 PROVE SentOnce'
  <2>1. P' \in Nat /\ M' \in Nat /\ F' \in Nat /\ D' \in Nat
    <3>1. ASSUME NEW phases PROVE Cardinality(In(phases)') \in Nat
      <4>1. In(phases)' \in SUBSET Databases
        BY DEF In
      <4> QED
        BY <4>1, FiniteCounts, FS_Subset, FS_CardinalityType
    <3> QED
      BY <3>1 DEF Pinged, Measured, Performed, Done
  <2>2. L' \in Nat
    <3>1. Looked' \in SUBSET (Databases \X Files)
      BY DEF Looked
    <3> QED
      BY <3>1, FiniteCounts, FS_Subset, FS_CardinalityType
  <2>3. /\ sent'["status"] = 0 /\ sent'["performance"] = 0
        /\ sent'["operational"] = 0 /\ sent'["sample"] = 0
    BY <1>3 DEF Channels
  <2>4. \A p, m, f, e \in Nat : 0 <= p + m + f + 2 * e /\ 0 <= f /\ 0 <= e
    OBVIOUS
  <2>5. 0 <= P' + M' + F' + 2 * D' /\ 0 <= F' /\ 0 <= D'
    BY <2>1, <2>4
  <2>6. 0 <= L'
    BY <2>2
  <2> QED
    BY <2>3, <2>5, <2>6 DEF SentOnce
<1>4. StartPass \/ Written => \A ch \in Channels : sent'[ch] = 0
  BY DEF StartPass, Written, NoPass, PassInv, PassPhase
<1>5. \/ Initialize \/ Ticks \/ Requested \/ Stops \/ MetricsChanged \/ Reload \/ MetricsUnchanged
      \/ Collected \/ Edited \/ UNCHANGED vars
      => UNCHANGED <<at, left, sent>>
  BY DEF Initialize, Warmup, RequestScheduledScrape, Ticks, Requested, Stops, MetricsChanged, Reload,
         MetricsUnchanged, Collected, Edited, vars, passVars
<1>6. \A d \in Databases : QuarantinedOutside(d) \/ Restored(d) => UNCHANGED <<at, left, sent>>
  BY DEF QuarantinedOutside, Restored, passVars
<1> QED
  BY <1>1, <1>2, <1>3, <1>4, <1>5, <1>6, ScrapeStep DEF Next, Loop

-----------------------------------------------------------------------------
(* The theorems.                                                           *)

\* There is room in the channels for whatever the goroutine of d may send next.
RoomToSend ==
    \A d \in Databases :
        /\ at[d] \in {"admit", "metrics", "performance"} => sent["status"] + 1 <= Capacity("status")
        /\ at[d] = "metrics" /\ left[d] # {} => sent["sample"] + 1 <= Capacity("sample")
        /\ at[d] = "performance" => sent["performance"] + 1 <= Capacity("performance")
        /\ at[d] = "operational" => /\ sent["operational"] + 1 <= Capacity("operational")
                                    /\ sent["status"] + 2 <= Capacity("status")

\* The messages a goroutine has yet to send are not yet counted.
LEMMA RoomLemma == ASSUME PassTypes, SentOnce PROVE RoomToSend
<1> SUFFICES ASSUME NEW d \in Databases
             PROVE  /\ at[d] \in {"admit", "metrics", "performance"}
                         => sent["status"] + 1 <= Capacity("status")
                    /\ at[d] = "metrics" /\ left[d] # {} => sent["sample"] + 1 <= Capacity("sample")
                    /\ at[d] = "performance" => sent["performance"] + 1 <= Capacity("performance")
                    /\ at[d] = "operational" => /\ sent["operational"] + 1 <= Capacity("operational")
                                                /\ sent["status"] + 2 <= Capacity("status")
  BY DEF RoomToSend
<1>1. /\ sent["status"] \in Nat /\ sent["performance"] \in Nat
      /\ sent["operational"] \in Nat /\ sent["sample"] \in Nat
  BY DEF PassTypes, Channels
<1>2. /\ Capacity("status") = 12 * NumDatabases /\ Capacity("performance") = NumDatabases
      /\ Capacity("operational") = NumDatabases /\ Capacity("sample") = NumDatabases * NumFiles
  BY DEF Capacity
<1> DEFINE P == Cardinality(Pinged)
           M == Cardinality(Measured)
           F == Cardinality(Performed)
           D == Cardinality(Done)
<1>3. P \in 0 .. NumDatabases /\ M \in 0 .. NumDatabases
      /\ F \in 0 .. NumDatabases /\ D \in 0 .. NumDatabases
  BY InCount DEF Pinged, Measured, Performed, Done
<1>4. /\ at[d] = "performance" => F < NumDatabases
      /\ at[d] = "operational" => D < NumDatabases
  BY InCount DEF Performed, Done
<1>5. /\ sent["status"] <= P + M + F + 2 * D
      /\ sent["performance"] <= F /\ sent["operational"] <= D
  BY DEF SentOnce
<1> HIDE DEF P, M, F, D
<1>6. sent["status"] + 2 <= 12 * NumDatabases
  BY <1>1, <1>3, <1>5, ScheduledAssumption
<1>7. ASSUME at[d] = "metrics", left[d] # {} PROVE sent["sample"] + 1 <= NumDatabases * NumFiles
  <2>1. PICK m \in left[d] : TRUE
    BY <1>7
  <2>2. m \in Files
    BY <2>1 DEF PassTypes
  <2>3. Looked \in SUBSET (Databases \X Files) /\ Looked # Databases \X Files
    <3>1. <<d, m>> \in Databases \X Files /\ <<d, m>> \notin Looked
      BY <2>1, <2>2 DEF Looked
    <3> QED
      BY <3>1 DEF Looked
  <2>4. /\ IsFiniteSet(Looked) /\ Cardinality(Looked) <= NumDatabases * NumFiles
        /\ Cardinality(Looked) # NumDatabases * NumFiles
    BY <2>3, FiniteCounts, FS_Subset
  <2>5. Cardinality(Looked) \in Nat
    BY <2>4, FS_CardinalityType
  <2>6. NumDatabases * NumFiles \in Nat
    BY ScheduledAssumption, DefinitionsAssumption
  <2>7. sent["sample"] <= Cardinality(Looked)
    BY DEF SentOnce
  <2> QED
    BY <1>1, <2>4, <2>5, <2>6, <2>7
<1> QED
  BY <1>1, <1>2, <1>3, <1>4, <1>5, <1>6, <1>7, ScheduledAssumption

\* The initial states satisfy the inductive invariant.
LEMMA InitIInv == ASSUME Init PROVE IInv
<1> USE DEF Init, NoPass
<1>1. DefinitionInv
  BY InitDefinitionInv
<1>2. PassTypes
  <2>1. /\ ready \in [Databases -> BOOLEAN] /\ active \in [Databases -> BOOLEAN]
        /\ errors \in [Databases -> BOOLEAN] /\ gap \in [Databases -> BOOLEAN]
        /\ outside \in [Databases -> BOOLEAN] /\ found \in [Databases -> BOOLEAN]
        /\ requested \in BOOLEAN /\ totalErrors \in BOOLEAN
    OBVIOUS
  <2>2. /\ at \in [Databases -> Phases] /\ left \in [Databases -> SUBSET Files]
        /\ sent \in [Channels -> Nat] /\ completion \in [Databases -> Statuses]
    BY DEF Phases, Statuses
  <2>3. warming \in [database : Nat \ {0}, step : {"warmup", "request"}]
        /\ loop \in LoopSteps /\ outsiders \in Nat
    BY DEF LoopSteps
  <2> QED
    BY <2>1, <2>2, <2>3 DEF PassTypes
<1>3. PassPhase /\ Trouble
  BY DEF PassPhase, Trouble, Running
<1>4. WarmedUp
  <2>1. \A d \in Databases : ~(d < 1)
    BY ScheduledAssumption DEF Databases
  <2> QED
    BY <2>1 DEF WarmedUp, Running
<1>5. SentOnce
  <2>1. /\ Cardinality(Pinged) \in Nat /\ Cardinality(Measured) \in Nat
        /\ Cardinality(Performed) \in Nat /\ Cardinality(Done) \in Nat
    BY InCount, ScheduledAssumption DEF Pinged, Measured, Performed, Done
  <2>2. Cardinality(Looked) \in Nat
    <3>1. Looked \in SUBSET (Databases \X Files)
      BY DEF Looked
    <3> QED
      BY <3>1, FiniteCounts, FS_Subset, FS_CardinalityType
  <2>3. /\ sent["status"] = 0 /\ sent["performance"] = 0
        /\ sent["operational"] = 0 /\ sent["sample"] = 0
    BY DEF Channels
  <2> QED
    BY <2>1, <2>2, <2>3 DEF SentOnce
<1> QED
  BY <1>1, <1>2, <1>3, <1>4, <1>5 DEF IInv, PassInv

\* The inductive invariant holds in every behaviour.
THEOREM ScrapeInvariant == Spec => []IInv
<1>1. Init => IInv
  BY InitIInv
<1>2. IInv /\ [Next]_vars => IInv'
  BY DefinitionStep, PassStep, SentStep DEF IInv
<1> QED
  BY <1>1, <1>2, PTL DEF Spec

\* A scheduled pass that finds the files unchanged works with what they say,
\* unless an edit fell between the reading and the hashing of a file.
THEOREM ScrapeUnchangedIsCurrent == Spec => []UnchangedIsCurrent
<1>1. IInv => UnchangedIsCurrent
  <2> SUFFICES ASSUME DefinitionInv, reload = Idle, ~CheckIfMetricsChanged
               PROVE  raced \/ \A f \in Files : loaded[f] = disk[f].version
    BY DEF IInv, UnchangedIsCurrent
  <2>1. \A f \in Files : hashes[f] = disk[f].version /\ disk[f].version \in Nat
    BY DEF CheckIfMetricsChanged, DefinitionInv, DefinitionTypes
  <2>2. ~Stale
    BY <2>1 DEF Stale
  <2> QED
    BY <2>2 DEF DefinitionInv, ReloadPending
<1> QED
  BY <1>1, ScrapeInvariant, PTL

\* reloadMetrics never takes a definition away or replaces it by an older one,
\* wherever it fails.
THEOREM ScrapeLastGoodKept == Spec => LastGoodKept
<1>1. IInv /\ [Next]_vars => [\A f \in Files : loaded'[f] >= loaded[f]]_loaded
  BY DefinitionStep DEF IInv
<1> QED
  BY <1>1, ScrapeInvariant, PTL DEF Spec, LastGoodKept

\* When the loop waits with no request queued, a pass has found every database
\* whose warmup has made its request.
THEOREM ScrapeWarmupNotOverlooked == Spec => []WarmupNotOverlooked
<1>1. IInv => WarmupNotOverlooked
  BY DEF IInv, PassInv, WarmedUp, PassPhase, WarmupNotOverlooked
<1> QED
  BY <1>1, ScrapeInvariant, PTL

\* A database that a pass has not collected completely is reported as failed and
\* counted as an error, unless another goroutine quarantined it during the pass.
THEOREM ScrapeTroubleReported == Spec => []TroubleReported
<1>1. IInv => TroubleReported
  <2> SUFFICES ASSUME IInv, loop = "write", NEW d \in Databases, gap[d], ~outside[d]
               PROVE  completion[d] = "failure" /\ ErrorCounted
    BY DEF TroubleReported
  <2>1. completion[d] = "failure"
    BY DEF IInv, PassInv, PassPhase, Trouble
  <2> QED
    BY <2>1 DEF ErrorCounted
<1> QED
  BY <1>1, ScrapeInvariant, PTL

\* The channels of scrapeSamples are large enough for every goroutine: the guards
\* of Send hold whenever it wants to send (NoSendBlocks, without its ENABLED).
THEOREM ScrapeRoomToSend == Spec => []RoomToSend
<1>1. IInv => RoomToSend
  BY RoomLemma DEF IInv, PassInv
<1> QED
  BY <1>1, ScrapeInvariant, PTL
=============================================================================
