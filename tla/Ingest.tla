-------------------------------- MODULE Ingest --------------------------------
(***************************************************************************)
(* GoldStandardIngest (src/ingest/gold_standard_ingest.cpp,                *)
(* include/vdb/ingest.hpp): watch passes over a directory again and again  *)
(* and adds the files it has not added yet to a VectorDatabase, whose      *)
(* add_text and add_image may fail.  What has been added is remembered in  *)
(* memory only, while the database outlives the process.                   *)
(***************************************************************************)
EXTENDS Integers, FiniteSets

CONSTANTS Files,
          Unreadable,  \* files whose parsing throws, whatever the database does
          Incremental, \* IngestConfig::incremental
          AutoSync,    \* DatabaseConfig::auto_sync: add_text throws when it has added
          MaxCopies,   \* bound: how often the database has a file, with AutoSync
          MaxRestarts

VARIABLES
          present,   \* the files in the directory
          ingested,  \* ingested_files_
          documents, \* file -> how often the database has it
          phase,     \* of watch
          files,     \* the files of this pass that are still to be looked at
          stats,     \* IngestStats, and how many files the pass has seen
          restarts

vars == <<present, ingested, documents, phase, files, stats, restarts>>

NoStats == [added |-> 0, skipped |-> 0, errors |-> 0, seen |-> 0]

Init == /\ present = {} /\ ingested = {} /\ files = {}
        /\ documents = [f \in Files |-> 0]
        /\ phase = "looking"
        /\ stats = NoStats
        /\ restarts = 0

------------------------------------------------------------------------------
\* Somebody else writes a file, at any time.
Appear(f) == /\ f \notin present
             /\ present' = present \cup {f}
             /\ UNCHANGED <<ingested, documents, phase, files, stats, restarts>>

\* ingest: discover_files.
Discover == /\ phase = "looking"
            /\ phase' = "ingesting"
            /\ files' = present
            /\ stats' = [NoStats EXCEPT !.seen = Cardinality(present)]
            /\ UNCHANGED <<present, ingested, documents, restarts>>

Known(f) == Incremental /\ f \in ingested
Take(f) == phase = "ingesting" /\ f \in files /\ files' = files \ {f}

SkipUncounted(f) ==   \* mutant of Skip: what is skipped is not counted
    /\ Take(f) /\ Known(f)
    /\ UNCHANGED <<present, ingested, documents, phase, stats, restarts>>

Skip(f) == /\ Take(f) /\ Known(f)
           /\ stats' = [stats EXCEPT !.skipped = @ + 1]
           /\ UNCHANGED <<present, ingested, documents, phase, restarts>>

AddForgotten(f) ==   \* mutant of Add: the file is not remembered
    /\ Take(f) /\ ~Known(f) /\ f \notin Unreadable /\ ~AutoSync
    /\ documents' = [documents EXCEPT ![f] = @ + 1]
    /\ stats' = [stats EXCEPT !.added = @ + 1]
    /\ UNCHANGED <<present, ingested, phase, restarts>>

\* ingest_journal, ingest_report or ingest_chart, as the name of the file says.
Add(f) == /\ Take(f) /\ ~Known(f) /\ f \notin Unreadable /\ ~AutoSync
          /\ documents' = [documents EXCEPT ![f] = @ + 1]
          /\ ingested' = ingested \cup {f}
          /\ stats' = [stats EXCEPT !.added = @ + 1]
          /\ UNCHANGED <<present, phase, restarts>>

\* With auto_sync, add_text and add_image lock themselves out after the add
\* (DatabaseThreads); where the lock notices, they throw, which counts as an
\* error of a file that is not remembered.
AddThrows(f) == /\ Take(f) /\ ~Known(f) /\ f \notin Unreadable /\ AutoSync
                /\ documents[f] < MaxCopies
                /\ documents' = [documents EXCEPT ![f] = @ + 1]
                /\ stats' = [stats EXCEPT !.errors = @ + 1]
                /\ UNCHANGED <<present, ingested, phase, restarts>>

FailKnown(f) ==   \* mutant of Fail: the file counts as ingested
    /\ Take(f) /\ ~Known(f)
    /\ ingested' = ingested \cup {f}
    /\ stats' = [stats EXCEPT !.errors = @ + 1]
    /\ UNCHANGED <<present, documents, phase, restarts>>

\* An error or an exception is counted and the pass goes on.
Fail(f) == /\ Take(f) /\ ~Known(f)
           /\ stats' = [stats EXCEPT !.errors = @ + 1]
           /\ UNCHANGED <<present, ingested, documents, phase, restarts>>

EndPassEarly ==   \* mutant of EndPass: the rest of the files is put off
    /\ phase = "ingesting"
    /\ phase' \in {"looking", "stopped"}
    /\ UNCHANGED <<present, ingested, documents, files, stats, restarts>>

\* The end of a pass and, after 30 seconds, the next one, unless should_stop.
EndPass == /\ phase = "ingesting" /\ files = {}
           /\ phase' \in {"looking", "stopped"}
           /\ UNCHANGED <<present, ingested, documents, files, stats, restarts>>

\* A new process, with the same directory and database.
Restart == /\ restarts < MaxRestarts
           /\ restarts' = restarts + 1
           /\ ingested' = {} /\ files' = {} /\ stats' = NoStats /\ phase' = "looking"
           /\ UNCHANGED <<present, documents>>

Pass == Discover \/ EndPass \/ \E f \in Files : Skip(f) \/ Add(f) \/ AddThrows(f) \/ Fail(f)
Next == Pass \/ Restart \/ \E f \in Files : Appear(f)

\* The process runs on, and the database does not refuse a file forever.
Spec == Init /\ [][Next]_vars /\ WF_vars(Pass) /\ \A f \in Files : SF_vars(Add(f))

------------------------------------------------------------------------------
TypeOK == /\ present \subseteq Files /\ ingested \subseteq present /\ files \subseteq present
          /\ phase \in {"looking", "ingesting", "stopped"}
          /\ phase # "ingesting" => files = {}

\* Each file of a pass is accounted for exactly once in its statistics.
StatsAddUp == stats.added + stats.skipped + stats.errors + Cardinality(files) = stats.seen

\* Without auto_sync a file is added at most once by each process, whatever
\* failed in between.
AddedOnce ==
    Incremental /\ ~AutoSync =>
        \A f \in Files : documents[f] <= restarts + 1 /\ (f \in ingested => documents[f] > 0)

\* Every file that can be read is in the database some time, unless watch is
\* told to stop.
EventuallyIngested == \A f \in Files \ Unreadable : f \in present ~> (documents[f] > 0 \/ phase = "stopped")
===============================================================================
