------------------------- MODULE MetricDefinitions -------------------------
(***************************************************************************)
(* The additional metric definitions of a scraper: the files they are read *)
(* from, the definitions in use and the hashes by which the scheduled pass *)
(* notices that a file has changed (collector/data_loader.go and           *)
(* checkIfMetricsChanged, refreshMetricDefinitionHashes of collector.go).  *)
(*                                                                         *)
(* The contents of a file are a version and whether it can be read and     *)
(* parsed; its hash stands for the version.  A file holds one metric.      *)
(* Files are edited at any moment, also while a reload works through them. *)
(* The steps are put together with those of a pass in ScheduledScrape.     *)
(***************************************************************************)
EXTENDS Naturals

CONSTANTS
    NumFiles,   \* metrics.definitions
    MaxEdits    \* bound: edits of the files

ASSUME DefinitionsAssumption == NumFiles \in Nat /\ MaxEdits \in Nat

VARIABLES
    disk,       \* [file -> its contents]
    edits,      \* edits so far
    loaded,     \* metricsToScrape: [file -> version], Nothing before the first load
    hashes,     \* metricDefinitionHashes: [file -> version], Nothing without an entry
    reload,     \* where reloadMetrics stands
    collected,  \* what it has read or hashed so far
    raced       \* ghost: since the last reload began, a file was edited after it was
                \* read and before it was hashed

definitionVars == <<disk, edits, loaded, hashes, reload, collected, raced>>

Files == 1 .. NumFiles
Nothing == 0
NoVersions == [f \in Files |-> Nothing]
Contents == [version : 1 .. MaxEdits + 1, health : {"valid", "broken", "missing"}]
Idle == [step |-> "idle", file |-> 0]

\* The metrics a pass works through.
Metrics == {f \in Files : loaded[f] # Nothing}

InitDefinitions ==
    /\ disk \in [Files -> {c \in Contents : c.version = 1}]
    /\ edits = 0
    /\ loaded = IF \A f \in Files : disk[f].health = "valid"
                THEN [f \in Files |-> disk[f].version]
                ELSE NoVersions
    /\ hashes = NoVersions
    /\ reload = Idle
    /\ collected = NoVersions
    /\ raced = FALSE

\* The reload has read the file and has yet to hash it.
ReadNotHashed(f) ==
    \/ reload.step = "load" /\ f < reload.file
    \/ reload.step = "hash" /\ f >= reload.file

Edit(f, health) ==
    /\ edits < MaxEdits
    /\ edits' = edits + 1
    /\ disk' = [disk EXCEPT ![f] = [version |-> @.version + 1, health |-> health]]
    /\ raced' = (raced \/ ReadNotHashed(f))
    /\ UNCHANGED <<loaded, hashes, reload, collected>>

\* A file without an entry, or one that cannot be hashed, counts as changed.
CheckIfMetricsChanged ==
    \E f \in Files : disk[f].health = "missing" \/ hashes[f] # disk[f].version

BeginReload ==
    /\ reload = Idle
    /\ reload' = [step |-> "load", file |-> 1]
    /\ collected' = NoVersions
    /\ raced' = FALSE
    /\ UNCHANGED <<disk, edits, loaded, hashes>>

LoadFile ==
    /\ reload.step = "load"
    /\ LET f == reload.file IN
       /\ disk[f].health = "valid"
       /\ IF f < NumFiles
          THEN /\ reload' = [reload EXCEPT !.file = f + 1]
               /\ collected' = [collected EXCEPT ![f] = disk[f].version]
               /\ UNCHANGED loaded
          ELSE /\ reload' = [step |-> "hash", file |-> 1]
               /\ loaded' = [collected EXCEPT ![f] = disk[f].version]
               /\ collected' = NoVersions
    /\ UNCHANGED <<disk, edits, hashes, raced>>

\* Variant: the hashes are refreshed although the reload has failed.
LoadFailsForgettingIt ==
    /\ reload.step = "load"
    /\ disk[reload.file].health # "valid"
    /\ reload' = Idle
    /\ hashes' = [f \in Files |-> disk[f].version]
    /\ UNCHANGED <<disk, edits, loaded, collected, raced>>

\* Variant: what was read before the failure is put to use.
LoadFailsPartly ==
    /\ reload.step = "load"
    /\ disk[reload.file].health # "valid"
    /\ reload' = Idle
    /\ loaded' = collected
    /\ UNCHANGED <<disk, edits, hashes, collected, raced>>

\* A file that cannot be read or parsed ends the reload: the definitions and
\* the hashes stay as they were, so the next pass tries again.
LoadFails ==
    /\ reload.step = "load"
    /\ disk[reload.file].health # "valid"
    /\ reload' = Idle
    /\ UNCHANGED <<disk, edits, loaded, hashes, collected, raced>>

HashFile ==
    /\ reload.step = "hash"
    /\ LET f == reload.file
           sums == IF disk[f].health = "missing" THEN collected
                   ELSE [collected EXCEPT ![f] = disk[f].version]
       IN IF f < NumFiles
          THEN /\ reload' = [reload EXCEPT !.file = f + 1]
               /\ collected' = sums
               /\ UNCHANGED hashes
          ELSE /\ reload' = Idle
               /\ hashes' = sums
               /\ collected' = NoVersions
    /\ UNCHANGED <<disk, edits, loaded, raced>>

-----------------------------------------------------------------------------
\* Definitions that are in use stay in use until a reload has replaced them by
\* newer ones: a reload that fails, wherever it does, takes nothing away.
LastGoodKept ==
    [][\A f \in Files : loaded'[f] >= loaded[f]]_loaded

\* A pass that finds the files unchanged works with what they say, also after
\* failed reloads, files that vanish and come back, and edits in the middle of a
\* reload; only an edit between the reading and the hashing of a file is missed.
UnchangedIsCurrent ==
    reload = Idle /\ ~CheckIfMetricsChanged =>
        raced \/ \A f \in Files : loaded[f] = disk[f].version
=============================================================================
