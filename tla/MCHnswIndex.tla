----------------------------- MODULE MCHnswIndex -----------------------------
(***************************************************************************)
(* Two bounds of HnswIndex for TLC; a behaviour stays in the one it starts *)
(* in.  Small is one process with fewer links and results than vectors, so *)
(* that links are pruned.  Exact saves and restarts between updates of     *)
(* three ids, with a configuration that covers the index.                  *)
(*                                                                         *)
(* Ids lie on a Golomb ruler, so that no two distances are equal and the   *)
(* order of a search is determined.                                        *)
(***************************************************************************)
EXTENDS HnswIndex

VARIABLE instance

MCPosition(id) == CASE id = 1 -> 4 [] id = 2 -> 0 [] id = 3 -> 1 [] id = 4 -> 9 [] OTHER -> 11

SmallConfig == [M |-> 2, efConstruction |-> 2, efSearch |-> 1]
ExactConfig == [M |-> 4, efConstruction |-> 4, efSearch |-> 4]
MCConfigs == {SmallConfig, ExactConfig}

MCInit == /\ Init
          /\ \/ instance = "small" /\ config = SmallConfig /\ maxElements = 1
             \/ instance = "exact" /\ config = ExactConfig /\ maxElements = 4

\* Bounds of the exact instance: three ids and nodes, saved when two ids are there.
ExactBounds == /\ Len(nodes') <= 3 /\ index'[4] = 0
               /\ maxElements' = maxElements
               /\ file' = file \/ count > 1

MCNext == /\ \/ instance = "small" /\ Update
             \/ instance = "exact" /\ Next /\ ExactBounds
          /\ UNCHANGED instance

MCSpec == MCInit /\ [][MCNext]_<<vars, instance>>

\* In one process the bookkeeping is exact (HnswIndex).
SmallIndexExact == instance = "small" => TypeOK /\ IndexExact /\ CountExact
==============================================================================
