-------------------------- MODULE DistributedGPTQ --------------------------
(***************************************************************************)
(* GPTQ on several ranks (modifiers/gptq/base.py, utils/dist.py): each     *)
(* rank calibrates on its own samples, then, per subgraph, the hessians of *)
(* a module are summed on the rank that compresses it, and the compressed  *)
(* parameters are sent to all ranks.                                       *)
(*                                                                         *)
(* A hessian is the number of times each token was added to it.            *)
(* Collectives pair the k-th operation of each rank, whatever the tensor;  *)
(* one whose kind, root or size differ between ranks never completes.      *)
(***************************************************************************)
EXTENDS CalibrationData, ExpertRouting

CONSTANTS
  WorldSize,
  Subgraphs,    \* per subgraph its target modules in the order they are called
  Columns,      \* per module the number of columns of its hessian
  Samples,      \* all samples of all data sets
  TokensOf,     \* per sample its tokens
  Datasets,     \* per rank [fingerprint, samples]: the data sets passed to oneshot
  Requests,     \* values of num_calibration_samples
  Blocks        \* blocks of experts, see ExpertRouting; their experts are modules

Ranks == 0 .. WorldSize - 1
Modules == UNION {ToSet(Subgraphs[i]) : i \in DOMAIN Subgraphs}
Tokens == UNION {TokensOf[s] : s \in Samples}

ASSUME WorldAssumption == WorldSize \in Nat \ {0}
ASSUME ModelAssumption ==
  /\ Subgraphs \in Seq(Seq(Modules)) \ {<<>>}
  /\ \A i \in DOMAIN Subgraphs : IsInjective(Subgraphs[i])
  /\ \A i, j \in DOMAIN Subgraphs :
       i # j => ToSet(Subgraphs[i]) \cap ToSet(Subgraphs[j]) = {}
  /\ Columns \in [Modules -> Nat \ {0}]
  /\ \A block \in Blocks : /\ block.experts \in Seq(Modules)
                           /\ block.routes \in [Tokens -> SUBSET ToSet(block.experts)]
ASSUME DataAssumption ==
  /\ Requests \subseteq Nat
  /\ \A s \in Samples : TokensOf[s] # {}
  /\ \A datasets \in Datasets, r \in Ranks :
       datasets[r].samples \in Seq(Samples) /\ IsInjective(datasets[r].samples)

VARIABLES
  run,         \* arguments: data sets, requested samples, block, offload_hessians
  pc,
  batches,     \* per rank the samples its dataloader yields
  next,        \* per rank the position of its next batch, and the subgraph
  hessians,    \* per rank _hessians and _num_samples, and since which batch
  weights,     \* per rank the parameters of each module
  issued       \* per rank the collectives it has issued

vars == <<run, pc, batches, next, hessians, weights, issued>>

Empty == [t \in Tokens |-> 0]
Uncompressed == [hessian |-> Empty, num |-> 0]

Init ==
  /\ run \in [datasets : Datasets, num_samples : Requests, block : Blocks,
              offload : BOOLEAN]
  /\ pc = [r \in Ranks |-> "load"]
  /\ batches = [r \in Ranks |-> <<>>]
  /\ next = [r \in Ranks |-> [batch |-> 1, subgraph |-> 1]]
  /\ hessians = [r \in Ranks |-> <<>>]
  /\ weights = [r \in Ranks |-> [m \in Modules |-> Uncompressed]]
  /\ issued = [r \in Ranks |-> <<>>]

-----------------------------------------------------------------------------
(* Collectives.                                                            *)

Agrees(op, other) ==
  op.kind = other.kind /\ op.root = other.root /\ op.size = other.size

(* Nothing rank r has issued is still waiting for another rank.            *)
Complete(r) ==
  \A q \in Ranks : \A k \in DOMAIN issued[r] :
    k \in DOMAIN issued[q] /\ Agrees(issued[r][k], issued[q][k])

Issue(r, ops) == issued' = [issued EXCEPT ![r] = @ \o ops]

Goto(r, where) == pc' = [pc EXCEPT ![r] = where]

-----------------------------------------------------------------------------
(* _make_sampler                                                           *)

Data(r) == run.datasets[r].samples

(* _is_dist_and_same_ds exchanges fingerprints; it asserts that the data   *)
(* set is not empty before it does.                                        *)
Load(r) ==
  /\ pc[r] = "load"
  /\ \/ Data(r) = <<>> /\ Goto(r, "raised") /\ UNCHANGED issued
     \/ /\ Data(r) # <<>>
        /\ Issue(r, <<[kind |-> "all_gather", root |-> 0, size |-> 1, module |-> "none",
                       value |-> run.datasets[r].fingerprint]>>)
        /\ Goto(r, "gather")
  /\ UNCHANGED <<run, batches, next, hessians, weights>>

SameDataset(r) ==
  \A q \in Ranks : issued[q][1].value = run.datasets[r].fingerprint

(* The sequential pipeline takes a first batch to trace the model, which   *)
(* raises if there is none.                                                *)
MakeSampler(r) ==
  /\ pc[r] = "gather" /\ Complete(r)
  /\ LET length == Len(Data(r))
         positions == Positions(run.num_samples, length, SameDataset(r), r, WorldSize)
         n == NumDrawn(Requested(run.num_samples, length), positions)
     IN  \/ /\ ~CanSelect(positions, length) \/ n = 0
            /\ Goto(r, "raised")
            /\ UNCHANGED batches
         \/ /\ CanSelect(positions, length) /\ n # 0
            /\ \E draw \in Draws(positions, n) :
                 batches' = [batches EXCEPT ![r] = [i \in 1 .. n |-> Data(r)[draw[i]]]]
            /\ Goto(r, "forward")
  /\ UNCHANGED <<run, next, hessians, weights, issued>>

-----------------------------------------------------------------------------
(* Calibration.                                                            *)

(* accumulate_hessian; the rows an expert gets count as one sample, and so *)
(* do no rows.                                                             *)
Accumulate_CountsOnce(entry, tokens) ==
  [entry EXCEPT !.hessian = [t \in Tokens |-> IF t \in tokens THEN @[t] + 1 ELSE @[t]],
                !.num = 1]

Accumulate(entry, tokens) ==
  [entry EXCEPT !.hessian = [t \in Tokens |-> IF t \in tokens THEN @[t] + 1 ELSE @[t]],
                !.num = @ + 1]

IsExpert(m) == m \in ToSet(run.block.experts)

Input(m, sample) ==
  IF IsExpert(m) THEN ExpertInput(run.block, m, TokensOf[sample]) ELSE TokensOf[sample]

Subgraph(r) == Subgraphs[next[r].subgraph]

Called(r, sample) ==
  {m \in ToSet(Subgraph(r)) : IsExpert(m) => IsCalled(run.block, m, TokensOf[sample])}

(* The hooks of the modules that are called; a module called for the first *)
(* time gets an empty hessian.                                             *)
CalibrateModules(entries, called, sample, batch) ==
  [m \in DOMAIN entries \cup called |->
     IF m \notin called THEN entries[m]
     ELSE Accumulate(IF m \in DOMAIN entries THEN entries[m]
                     ELSE [hessian |-> Empty, num |-> 0, since |-> batch],
                     Input(m, sample))]

Calibrate(r) ==
  /\ pc[r] = "forward" /\ next[r].batch <= Len(batches[r])
  /\ LET sample == batches[r][next[r].batch]
     IN  hessians' = [hessians EXCEPT ![r] =
                        CalibrateModules(@, Called(r, sample), sample, next[r].batch)]
  /\ next' = [next EXCEPT ![r].batch = @ + 1]
  /\ UNCHANGED <<run, pc, batches, weights, issued>>

-----------------------------------------------------------------------------
(* greedy_bin_packing                                                      *)

(* The dictionary lists modules by the batch they were first called for,   *)
(* those of one batch as the subgraph calls them.                          *)
InsertedBefore(r, m, n) ==
  \/ hessians[r][m].since < hessians[r][n].since
  \/ /\ hessians[r][m].since = hessians[r][n].since
     /\ \E i, j \in DOMAIN Subgraph(r) : i < j /\ Subgraph(r)[i] = m /\ Subgraph(r)[j] = n

(* list.sort, which keeps the order of modules of one size: there is one   *)
(* such list.                                                              *)
SortedByWeight(r) ==
  {list \in Bijection(1 .. Cardinality(DOMAIN hessians[r]), DOMAIN hessians[r]) :
     \A i, j \in DOMAIN list : i < j =>
       \/ Columns[list[i]] > Columns[list[j]]
       \/ Columns[list[i]] = Columns[list[j]] /\ InsertedBefore(r, list[i], list[j])}

BinWeight(items, bins, k, bin) ==
  MapThenSumSet(LAMBDA i : Columns[items[i]], {i \in 1 .. k - 1 : bins[i] = bin})

(* bins has the bin of each item: the first of the lightest when its turn  *)
(* came.                                                                   *)
ItemToBin(items, bins) ==
  \A k \in DOMAIN items, bin \in Ranks :
    LET load == BinWeight(items, bins, k, bins[k])
        other == BinWeight(items, bins, k, bin)
    IN  load < other \/ (load = other /\ bins[k] <= bin)

-----------------------------------------------------------------------------
(* compress_modules, up to the first wait: the hessian and the number of   *)
(* samples of each module, two reductions that are issued together, are    *)
(* sent to the rank of the module, and forgotten by the others.            *)
ReduceHessians(r) ==
  /\ pc[r] = "forward" /\ next[r].batch > Len(batches[r])
  /\ \E list \in SortedByWeight(r) : \E bins \in [DOMAIN list -> Ranks] :
       /\ ItemToBin(list, bins)
       /\ Issue(r, [i \in DOMAIN list |->
                      [kind |-> "reduce", root |-> bins[i], size |-> Columns[list[i]],
                       module |-> list[i], value |-> hessians[r][list[i]]]])
       /\ hessians' = [hessians EXCEPT ![r] =
                         Restrict(@, {list[i] : i \in {j \in DOMAIN list : bins[j] = r}})]
  /\ Goto(r, "reduce")
  /\ UNCHANGED <<run, batches, next, weights>>

(* The k-th operations of all ranks, summed.                               *)
SumOfHessians(k) ==
  [t \in Tokens |-> SumFunction([q \in Ranks |-> issued[q][k].value.hessian[t]])]

SumOfNums(k) == SumFunction([q \in Ranks |-> issued[q][k].value.num])

(* The operations of the current subgraph.                                 *)
Operations_Mine(r, kind) ==
  {k \in DOMAIN issued[r] : /\ issued[r][k].kind = kind /\ issued[r][k].root = r
                            /\ issued[r][k].module \in ToSet(Subgraph(r))}

Operations(r, kind) ==
  {k \in DOMAIN issued[r] : /\ issued[r][k].kind = kind
                            /\ issued[r][k].module \in ToSet(Subgraph(r))}

(* The reductions are complete: the rank compresses its modules and issues *)
(* the broadcasts of the parameters of all, in the same order.  A hessian  *)
(* that is offloaded is copied to the CPU while its reduction may still be *)
(* running; if the copy was early it lacks the other ranks' part.          *)
CompressModules(r) ==
  /\ pc[r] = "reduce" /\ Complete(r)
  /\ LET reductions == Operations(r, "reduce")
         n == Cardinality(reductions)
         mine == {k \in reductions : issued[r][k].root = r}
     IN  \E early \in SUBSET mine :
           /\ early # {} => run.offload
           /\ weights' = [weights EXCEPT ![r] = [m \in Modules |->
                IF \E k \in mine : issued[r][k].module = m
                  THEN LET k == CHOOSE k \in mine : issued[r][k].module = m
                       IN  [hessian |-> IF k \in early THEN issued[r][k].value.hessian
                                                       ELSE SumOfHessians(k),
                            num |-> SumOfNums(k)]
                  ELSE @[m]]]
           /\ Issue(r, [i \in 1 .. n |->
                 LET reduction == issued[r][Len(issued[r]) - n + i]
                 IN  [reduction EXCEPT !.kind = "broadcast",
                                       !.value = weights'[r][reduction.module]]])
  /\ hessians' = [hessians EXCEPT ![r] = <<>>]
  /\ Goto(r, "broadcast")
  /\ UNCHANGED <<run, batches, next>>

(* What rank r has of the k-th operation, a broadcast, when it is complete.*)
Received_Own(r, k) == issued[r][k].value

Received(r, k) == issued[issued[r][k].root][k].value

(* The broadcasts are complete.  The rank goes on with the next subgraph;  *)
(* CALIBRATION_EPOCH_END then finds nothing left to compress.              *)
ReceiveParams(r) ==
  /\ pc[r] = "broadcast" /\ Complete(r)
  /\ LET broadcasts == Operations(r, "broadcast")
     IN  weights' = [weights EXCEPT ![r] = [m \in Modules |->
                       IF \E k \in broadcasts : issued[r][k].module = m
                         THEN LET k == CHOOSE k \in broadcasts : issued[r][k].module = m
                              IN  Received(r, k)
                         ELSE @[m]]]
  /\ \/ /\ next[r].subgraph < Len(Subgraphs)
        /\ next' = [next EXCEPT ![r] = [batch |-> 1, subgraph |-> @.subgraph + 1]]
        /\ Goto(r, "forward")
     \/ next[r].subgraph = Len(Subgraphs) /\ Goto(r, "done") /\ UNCHANGED next
  /\ UNCHANGED <<run, batches, hessians, issued>>

-----------------------------------------------------------------------------
Step(r) ==
  \/ Load(r) \/ MakeSampler(r)
  \/ Calibrate(r) \/ ReduceHessians(r) \/ CompressModules(r) \/ ReceiveParams(r)

Next == \E r \in Ranks : Step(r)

Spec == Init /\ [][Next]_vars

(* Behaviours are finite: that some rank that can proceed does is enough.  *)
DistributedSpec == Spec /\ WF_vars(Next)

-----------------------------------------------------------------------------
(* Properties.                                                             *)

(* A data set that is the same on all ranks is divided among them: no      *)
(* sample is calibrated on twice, and none of those asked for is left out. *)
SharedDatasetIsPartitioned ==
  (\A r, q \in Ranks : run.datasets[r] = run.datasets[q]) =>
    /\ \A r, q \in Ranks : r # q => ToSet(batches[r]) \cap ToSet(batches[q]) = {}
    /\ (\A r \in Ranks : batches[r] # <<>>) =>
         \A i \in 1 .. Requested(run.num_samples, Len(Data(0))) :
           \E r \in Ranks : Data(0)[i] \in ToSet(batches[r])

Reaches(t, m) == IsExpert(m) /\ ~run.block.all => m \in run.block.routes[t]

(* The batches of rank r with the token t, if it reaches m, and those for  *)
(* which m is called.                                                      *)
BatchesWith(r, t, m) ==
  {i \in DOMAIN batches[r] : t \in TokensOf[batches[r][i]] /\ Reaches(t, m)}

BatchesFor(r, m) ==
  {i \in DOMAIN batches[r] :
     IsExpert(m) /\ run.block.skips => \E t \in TokensOf[batches[r][i]] : Reaches(t, m)}

(* The modules of a subgraph that the samples of rank r reach, and the     *)
(* order in which it meets them: that of its batches, then of the calls.   *)
CalledIn(r, i) == {m \in ToSet(Subgraphs[i]) : BatchesFor(r, m) # {}}

FirstBatch(r, m) == Min(BatchesFor(r, m))

MetBefore(r, i, m, n) ==
  \/ FirstBatch(r, m) < FirstBatch(r, n)
  \/ /\ FirstBatch(r, m) = FirstBatch(r, n)
     /\ \E j, k \in DOMAIN Subgraphs[i] :
          j < k /\ Subgraphs[i][j] = m /\ Subgraphs[i][k] = n

(* The samples of all ranks reach the same modules, and those of one size  *)
(* in the same order.  compress_modules relies on it and nothing sees to   *)
(* it: it is so if all experts calibrate (moe_calibrate_all_experts), and  *)
(* need not be if experts are called for the tokens they get.              *)
MetAlike ==
  \A r, q \in Ranks, i \in DOMAIN Subgraphs :
    /\ CalledIn(r, i) = CalledIn(q, i)
    /\ \A m, n \in CalledIn(r, i) :
         Columns[m] = Columns[n] /\ MetBefore(r, i, m, n) => MetBefore(q, i, m, n)

(* What one process would have accumulated for m on the samples of all.    *)
SeenByAll(m) ==
  [hessian |-> [t \in Tokens |->
                 SumFunction([r \in Ranks |-> Cardinality(BatchesWith(r, t, m))])],
   num |-> SumFunction([r \in Ranks |-> Cardinality(BatchesFor(r, m))])]

(* If all ranks meet the modules alike, a compressed module was compressed *)
(* with the tokens of all ranks that the router sends to it, or with all   *)
(* of them, each counted as often as it was seen, whatever rank compressed *)
(* it and however ranks and their collectives interleave.  If they do not, *)
(* compress_modules adds up hessians of different experts (see             *)
(* SameWeights); offloaded hessians are excepted too.                      *)
CompressedOnAllSamples ==
  MetAlike /\ ~run.offload =>
    \A r \in Ranks, m \in Modules :
      weights[r][m].num # 0 => weights[r][m] = SeenByAll(m)

(* What the model computes while it is calibrated is what it computes      *)
(* after: a token gets the outputs of the experts the router selects, each *)
(* once, even if all experts see it.                                       *)
BlockComputesTheSame ==
  \A s \in Samples : \A t \in TokensOf[s] :
    LET experts == run.block.experts
        Routed[k \in 0 .. Len(experts)] ==
          IF k = 0 THEN <<>>
          ELSE IF experts[k] \in run.block.routes[t] THEN Append(Routed[k - 1], experts[k])
          ELSE Routed[k - 1]
    IN  Forward(run.block, TokensOf[s])[t] = Routed[Len(experts)]

Passed(r, i) == pc[r] = "done" \/ next[r].subgraph > i

(* Ranks that have gone past a subgraph have the same parameters in it, as *)
(* compress_modules says of its broadcasts: "broadcast compressed modules  *)
(* to each rank".  It does not hold: ranks that meet different experts of  *)
(* one size, or the same in different order, list them accordingly, and    *)
(* the broadcast of one fills the other on another rank.                   *)
SameWeights ==
  \A r, q \in Ranks, i \in DOMAIN Subgraphs :
    Passed(r, i) /\ Passed(q, i) =>
      \A m \in ToSet(Subgraphs[i]) : weights[r][m] = weights[q][m]

(* It holds if all ranks meet the modules alike, with and without          *)
(* offloading.                                                             *)
SameWeightsEverywhere == MetAlike => SameWeights

(* If all experts calibrate (moe_calibrate_all_experts), or experts are    *)
(* called for no rows, no rank waits for ever for another one, unless one  *)
(* has raised.                                                             *)
RanksFinish ==
  run.block.all \/ ~run.block.skips
    => <>(\/ \A r \in Ranks : pc[r] = "done"
         \/ \E r \in Ranks : pc[r] = "raised")

=============================================================================
