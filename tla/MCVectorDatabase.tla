--------------------------- MODULE MCVectorDatabase ---------------------------
(***************************************************************************)
(* Instances of VectorDatabase for TLC over the same variables, each with  *)
(* the faults under which its properties hold; a behaviour stays in the    *)
(* one it starts in.  "kept" takes its constants from the configuration:   *)
(* nothing fails, but processes die between operations, between the parts  *)
(* of a sync and inside an append.  Faulty is one process whose store and  *)
(* files fail at will.  Torn has both, and deaths inside the rewrite.      *)
(***************************************************************************)
EXTENDS VectorDatabase, TLC

CONSTANTS x, y

VARIABLE instance

MCIds == 1 .. 3
MCTwoIds == 1 .. 2
MCDocs == {x, y}
\* x has the fields an appended line leaves out; without them it is y.
MCAbridged == [doc \in MCDocs |-> y]
\* Neither has them.
MCWhole == [doc \in MCDocs |-> doc]

Faulty == INSTANCE VectorDatabase WITH
    Ids <- MCTwoIds, WriteFaults <- TRUE, TornAppends <- FALSE, TornRewrites <- FALSE, MaxRestarts <- 0, StoreFaults <- TRUE, CrashInSync <- FALSE, SaveFaults <- TRUE
Torn == INSTANCE VectorDatabase WITH
    Ids <- MCTwoIds, WriteFaults <- TRUE, TornAppends <- TRUE, TornRewrites <- TRUE,
    MaxUpdated <- 0, StoreFaults <- TRUE, CrashInSync <- TRUE, SaveFaults <- FALSE

MCInit == \/ instance = "kept" /\ Init
          \/ instance = "faulty" /\ Faulty!Init
          \/ instance = "torn" /\ Torn!Init

MCNext == /\ \/ instance = "kept" /\ Next
             \/ instance = "faulty" /\ Faulty!Next
             \/ instance = "torn" /\ Torn!Next
          /\ UNCHANGED instance

MCSpec == MCInit /\ [][MCNext]_<<vars, instance>>

\* What holds of the metadata where no rewrite of its file fails or is cut
\* short.  AddsAreAtomic and SyncedVectorsSurvive hold in every instance.
MetadataKept == instance = "kept" => TypeOK /\ SyncedMetadataSurvives /\ MetadataFlushed

\* Paired, in that instance.
KeptPaired == instance = "kept" => Paired
===============================================================================
