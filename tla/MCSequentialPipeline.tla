------------------------ MODULE MCSequentialPipeline ------------------------
(***************************************************************************)
(* Every traced graph with MCN nodes (see MCTopologicalPartition) whose    *)
(* module calls, of targets or not, all call a module to compress, and     *)
(* NumBatches batches with and without prefetching.                        *)
(***************************************************************************)
EXTENDS SequentialPipeline, MCTopologicalPartition

NoNodes == {}

MCNodes == 1 .. MCN

=============================================================================
