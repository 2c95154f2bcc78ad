------------------------- MODULE MCDistributedGPTQ -------------------------
(***************************************************************************)
(* Two ranks, three samples, two subgraphs.  a and c are experts that a    *)
(* sample may miss, of the same size; b and d are reached by all.          *)
(***************************************************************************)
EXTENDS DistributedGPTQ

MCSubgraphs == <<<<"a", "b", "c">>, <<"d">>>>
MCColumns == [m \in {"a", "b", "c", "d"} |-> IF m = "b" THEN 2 ELSE 1]
MCSamples == 1 .. 3
MCRequests == {0, 2, 3}

Loaded(fingerprint, samples) == [fingerprint |-> fingerprint, samples |-> samples]

(* The same data set everywhere, two different ones, one that is empty.    *)
MCDatasets ==
  {[r \in 0 .. 1 |-> Loaded("train", samples)] : samples \in {<<1, 2>>, <<1, 2, 3>>}}
    \cup {(0 :> Loaded("train[0:1]", <<1>>)) @@ (1 :> Loaded("train[1:3]", rest))
             : rest \in {<<2, 3>>, <<1>>, <<>>}}

MCTokensOf == [s \in MCSamples |-> {2 * s - 1, 2 * s}]

(* Tokens of the samples in turn: the ranks meet the experts in either     *)
(* order, one meets both at once and the other in the order in which its   *)
(* samples are drawn, they meet different ones, c gets none.               *)
MCRoutes ==
  {[t \in 1 .. 6 |-> {selected[t]}] :
     selected \in {<<"a", "a", "c", "c", "a", "c">>, <<"c", "c", "a", "c", "a", "a">>,
                   <<"a", "c", "a", "a", "c", "c">>,
                   <<"a", "a", "a", "a", "c", "c">>, <<"a", "a", "a", "a", "a", "a">>}}

Block(routes, all, skips) ==
  [experts |-> <<"a", "c">>, routes |-> routes, all |-> all, skips |-> skips]

(* Where all experts calibrate one routing stands for all, and where each  *)
(* is called for every batch two do.                                       *)
MCBlocks ==
  {Block(routes, FALSE, TRUE) : routes \in MCRoutes}
    \cup {Block([t \in 1 .. 6 |-> {IF t < 5 THEN "a" ELSE "c"}], TRUE, skips) : skips \in BOOLEAN}
    \cup {Block([t \in 1 .. 6 |-> {IF t < n THEN "a" ELSE "c"}], FALSE, FALSE) : n \in {3, 7}}

=============================================================================
