# Formal models of llm-compressor

TLA+ models of the core of llm-compressor (`src/src/llmcompressor`, paths below are
relative to it): how a model is cut into subgraphs and calibrated layer by layer, what the
modifiers of a recipe do to the model and to each other, on one rank or several, how a session
drives them, how a checkpoint is quantized without a model, and how forward methods are
rewritten before tracing. TLC checks the models on small
instances, TLAPS proves theorems about them for all instances.

    tlc -workers 2 -config MCTopologicalPartition.cfg MCTopologicalPartition.tla
    tlapm TopologicalPartitionProofs.tla

`PROJECT.json` lists the runs, the mutants each property must catch, the source lines
behind every definition, the hazards and the theorems.

## Inventory

| Component | State | Operations | What makes it hard | Modelled in |
|---|---|---|---|---|
| Graph partitioning, `pipelines/sequential/helpers.py` | remaining indegrees, queue, partitions, names | `topological_partition`, `partition_graph`, `trace_consumed_names` | ordering of users is arbitrary; `get_attr` nodes are placed late; a name is shared by several subgraphs | `TopologicalPartition` |
| Sequential pipeline, `pipelines/sequential/pipeline.py` | current subgraph, pass and batch; a future | calibrate, compress, propagate | a worker thread fetches while the main thread writes; two passes must see the same inputs; OOM in the middle | `SequentialPipeline` |
| Intermediates cache, `pipelines/cache.py` | per batch, a dictionary of offloaded values | `from_dataloader`, `fetch`, `update`, `delete` | fetch mutates dataclasses; names deleted at the right time | `SequentialPipeline` |
| Lifecycle and session, `core/lifecycle.py`, `core/session.py` | initialized, finalized, recipe, last event, step | `initialize`, `event`, `finalize`, `reset`, `reset_stage` | any modifier may raise half way; calls in any order; reuse of modifier objects | `CompressionLifecycle` |
| Modifier, `modifiers/modifier.py` | four flags | `initialize`, `update_event`, `finalize` and the hooks `on_*` | hooks that set flags before they fail; results that become flags | `CompressionLifecycle` |
| Oneshot and pipelines, `entrypoints/oneshot.py`, `pipelines/{independent,basic,data_free}` | the patched recipe | a run: reset, initialize, calibrate, finalize | failure anywhere, then another run in the same session | `Oneshot` |
| GPTQ, `modifiers/gptq/base.py`, `utils/dist.py` | hessians, sample counts, hooks, pending collectives | `calibrate_module`, `compress_modules`, `on_*` | must see every batch; ranks must issue the same collectives in the same order | `SequentialPipeline`, `DistributedGPTQ`, `ModifierCalibration` |
| Calibration data, `datasets/utils.py` | samplers | partition over ranks, number of samples, draws | data sets that differ between ranks, fewer samples than requested | `CalibrationData` (samplers only) |
| Quantization, `modifiers/quantization` | scheme, status, observers and scales of modules | `initialize_quantization`, `start_calibration`, `end_calibration` | several modifiers on one module; frozen modules | `ModifierCalibration` |
| Observers, `observers` | past minima and maxima | one call per forward pass | which inputs a scale stands for | `ModifierCalibration` (min-max observers) |
| AWQ, `modifiers/awq`; SmoothQuant, `modifiers/transform/smoothquant` | mappings, activation means or scales, cached arguments of parents | hooks, smoothing on epoch ends | weights change under statistics of others; mappings that do not balance all readers | `Smoothing`, `ModifierCalibration` |
| SparseGPT and Wanda, `modifiers/pruning` | hessians or row sums | hooks, pruning on epoch ends | as GPTQ, next to other modifiers; sequential targets of two modifiers | `ModifierCalibration` |
| AutoRound, `modifiers/autoround` | captured inputs of decoding layers | capture, tune per subgraph | tunes whatever has a scheme | `ModifierCalibration` |
| Hooks, `modifiers/utils/hooks.py` | a global disabled flag, handles | `register_hook`, `disable_hooks`, `remove_hooks` | second pass; clean-up after failures | the flag, `SequentialPipeline` |
| MoE context, `modeling/moe_context.py` | replaced modules | replace, restore | failure between the two | `Oneshot` |
| MoE calibration forms, `modeling/*.py` | | routing of tokens to experts | experts no token reaches, on some ranks only | `ExpertRouting`, `DistributedGPTQ` |
| Model-free PTQ, `entrypoints/model_free` | files, index, jobs, writers | reindex, validate, process | sets split over files, pools of workers, saves that fail | `ModelFree` |
| Source rewriting, `pipelines/sequential/ast_utils` | new code, local names, wrapper functions | `visit_*`, `_wrap_stmt`, `_wrap_expr` | variables passed by what the text says, not by what is bound | `AutoWrapper` |
| Recipes, tracing, saving, arguments, constant and magnitude pruning, SpinQuant, QuIP, equalization | | | numerics, text and I/O | not modelled |

How they interact: `oneshot` resets the global session, initializes it with a recipe, lets a
pipeline run and finalizes it. A pipeline calls the model and fires `LifecycleCallbacks`; the
session's lifecycle forwards each event to every modifier of the recipe, which registers hooks
on modules, is called back during forward passes, and compresses. The sequential pipeline in
addition cuts the model with `topological_partition` and keeps activations in the cache.

## Modules

**TopologicalPartition.** A node is its position in the FX graph. State: `graph` (constant
along a behaviour), `remaining` (`remaining_indegrees`), `queue`, `partitions`, and `unplaced`,
the `get_attr` nodes the second loop has still to visit. `Pop` is one iteration of the
`while len(queue)` loop, `PlaceGetAttr` one iteration of the `for` loop over `get_attr` nodes,
which visits them in graph order. The order of `node.users` depends on how the graph was
built: `Orders` leaves it open, so a property holds for all orders. `InputNames`,
`OutputNames`, `ConsumedNames` are what `partition_graph` and `trace_consumed_names` compute
from the final partitions. `IsTraced` is what tracing guarantees and the only assumption.

**SequentialPipeline** extends it and runs the pipeline on the subgraphs. `stage` is where the
main thread is: tracing, calibrating, compressing, propagating, finishing, and the ways to end.
`FetchBatch`, `TakePrefetched` and `Prefetch` are the generator `_get_batches` with its worker
thread; `Calibrate` and `Propagate` are one `subgraph.forward` of each pass with what follows
it; `SequentialEpochEnd` is the event that makes GPTQ compress. A value is reduced to two
bits: `compressed` (all modules that contributed to it had been compressed) and `offloaded`
(matters for dataclasses only). `num_samples` counts, per module and batch, calls of the hook.
`Abort` unwinds the contexts: `disable_hooks` leaves hooks enabled.

**CompressionLifecycle** models a session and its modifiers. `call` is the API call in
progress with the modifiers it has yet to visit: `InitializeModifier`, `UpdateModifier`,
`FinalizeModifier` and `ResetModifier` visit one modifier, and each hook may raise there.
`modifier` holds the four flags of every modifier object, which survive `reset`. `Calibrating`
modifiers start and end in `on_event` (GPTQ, QuantizationModifier and most others); the rest
start and end by the base class. `ReturnsNone` are those whose `on_finalize` has no `return`.
`completed`, `failed`, `delivered` are history, used by properties only; `completed` is capped
at 2, which is enough to tell "once" from "more than once".

**Oneshot** extends it: a run of `apply_recipe_modifiers`, phase by phase, with the events of
the pipelines. Between the calls of a run nothing else uses the session. `NextPass` and
`RestoreModifiers` are `patch_attr(recipe, "modifiers", ...)` of the independent pipeline; a
pipeline for all modifiers is the case of a single pass (the patch then changes nothing).
`EnterMoEContext`, `ReplaceModule`, `ReplaceModuleRaises` and `RestoreModules` are
`moe_calibration_context` around a run: `pending` has the positions of the modules it has not
reached, `converted` the modules in calibration form.

**LayerwiseCompression** is what sequential calibration promises, without partitions, batches,
passes, cache or threads: a group of modules is calibrated when all that their inputs depend
on, outside the group, is compressed, then the group is compressed, once. The refinement
mapping of `SequentialPipeline`: `calibrating` is the set of quantizable modules that have
samples, `compressed` those with at least one compression, `finished` the stages after the
loop over subgraphs. A second sample for a compressed module (hooks on in the second pass), a
module compressed without its group, a module compressed twice or never are steps the abstract
specification has not. What a node depends on (`Ancestors`) is in every set that is closed under
inputs, a definition without recursion, so that the refinement can be proved.

**CalibrationData** has the operators of `_make_sampler`: the part of a shared data set a rank
gets, how many samples it draws, in which orders. **ExpertRouting** is the forward pass of the
blocks of experts used in calibration, as operators over tokens: which experts are called, on
which rows, whose outputs a token gets. The calibration forms differ in whether an expert
without rows is called (Qwen and Llama) or not (DeepSeek, GLM, GPT-OSS); with
`calibrate_all_experts` every expert sees all tokens. `BlockComputesTheSame` compares
`Forward` with the outputs of the experts a token is routed to.

**DistributedGPTQ** composes both on several ranks. A rank loads data (`Load`, `MakeSampler`),
calibrates batch by batch, issues the reductions of a subgraph (`ReduceHessians`, with
`greedy_bin_packing` as the predicate `ItemToBin`), waits for them and compresses its modules
(`CompressModules`), waits for the broadcasts (`ReceiveParams`). A hessian is a
function from tokens to the number of times each was added to it, kept with the batch in which it
was created, which orders the modules for the collectives: by size, then by the order in which the
rank met them, so that ranks with other batches may list them otherwise. Ranks only interact through `issued`, their sequences of
collectives: the k-th ones of all ranks belong together, and one whose kind, root or size
differs between ranks never completes. A hessian that is offloaded may be copied to the CPU
before its reduction has arrived.

**Smoothing** says what scales are on weights: a module's weight has `mul`, the scales its
inputs must have been divided by, and `div`, those its outputs are divided by; `Smoothed`
divides the smooth layer of a mapping and multiplies the balance layers. `AWQResolved` and
`SmoothQuantResolved` decide which mappings a modifier takes, `Parent` and `AWQHook` which
modules it observes, `IsCalled` whether a container is still called as a module when the graph
is cut inside it. `AccumulateMean` is the running mean with its 0/0.

**ModifierCalibration** is one recipe on one model: modifiers of the kinds `awq`,
`smoothquant`, `gptq`, `quantization`, `pruning` and `autoround`, events delivered one modifier
at a time, forward passes one batch at a time, in the sequential, basic or independent pipeline
(which picks one per modifier). `InitializeModifier`, `StartModifier`, `EndSubgraph`,
`EndCalibration`, `FinalizeModifier` are one modifier's handler of one event; `Calibrate` is a
pass with hooks, `Propagate` the second pass. `quantization` has what `QuantizationMixin` keeps
on a module, `inputs` being the calls that the scale of its inputs stands for, which depends on
its observer. `log` is the history of what each modifier smoothed or compressed, from which
statistics, and whether these fitted the model at that time. A mapping whose masks leave no token
to compare makes the grid search of AWQ raise (`NoFiniteLoss`).

**ModelFree** is a checkpoint, `reindex_fused_weights` (`ReindexFile` is one iteration of its
loop, with the tensors carried over to later files; `WriterSaves` a job of its writer pool),
then `model_free_ptq`: validation of the index, a round of jobs that validates the files, one
that processes and saves them, the new index. `MatchNamesSetEager` groups names in natural
order; a save may fail (bounded by `MaxFailures`).

**PythonCode** is the syntax of forward methods as far as rewriting tells it apart, and an
interpreter for it: values are terms over what expressions read, tests and loops are decided
from outside, names are resolved as python does it (a name a function stores anywhere is its
variable; reading it unbound is an error). **NameAnalysis** is `NameAnalyzer` and
`ControlFlowAnalyzer`. **AutoWrapper** is the visitor: `VisitStatement` visits one statement of
the body with all it contains, `Define` is `_wrap_stmt`, `Visit` the `visit_*` methods,
`Original` and `Wrapped` run both methods. `sequential` tracing runs on the rewritten one.

## Runs

| Run | Instance | Checks |
|---|---|---|
| `partition` | all traced graphs of 5 nodes without dead calls, 89,864 states | partitions are runnable in order (`InputsComputedFirst`), complete and disjoint (`AssignedOnce`), separated at targets (`TargetClosesPartition`); cached names are there when read and gone when not needed (`NamesAvailable`, `NothingLeaks`); `GetAttrDelayed`; both loops end (`Terminates`) |
| `pipeline` | all graphs of 4 nodes whose calls may call a target, another module or neither; 3 batches; prefetching or not; 65,248 states | no missing input or name (`NeverRaises`), inputs come from compressed modules, every batch is seen, the whole implements `LayerwiseCompression`, exact contents of the cache, no write while the worker reads, calibration ends |
| `lifecycle` | 2 modifiers, 4 recipes, any call at any time, any failure, 614,664 states | hooks run once, `finalized` tells the truth, accepted events reach initialized modifiers, batch events stay in order |
| `oneshot` | 2 calibrating modifiers, 4 recipes, 2 MoE modules, up to 2 subgraphs, any number of runs, 370,277 states | nothing is abandoned by a failing run, a run that returns applied everything, replaced MoE modules get their form back (`ExpertsRestored`), every run ends |
| `distributed` | 2 ranks, 3 samples of 2 tokens, 4 modules of which 2 are experts, in 2 subgraphs; equal, different and empty data sets; 9 blocks; 27,402 states | a shared data set is divided without loss or repetition; if all ranks meet the modules alike, a module is compressed with what one process would have accumulated (`CompressedOnAllSamples`) and ranks end with the same weights (`SameWeightsEverywhere`); showing all tokens to all experts does not change what a block returns, ranks finish |
| `calibration` | 13 recipes of 1 or 2 modifiers on 5 models of 6 to 9 layers, 3 pipelines, 3 batches, any of them masked, experts reached or not; 157,157 states | smoothing is offset at any time (`ModelIsPreserved`), passes run on what the model computes now (`ActivationsMatchModel`), mappings are applied once from complete statistics, hessians and searches fit the weights they are used for, final scales fit the weights and inputs, no observer is missed |
| `model_free` | 3 layers and 7 tensors, or 6 of them, cut into at most 3 files by a writer that sorts the layers numerically or alphabetically; 2 workers, 1 failing save; 74,402 states | fused weights share their scale (`FusedSetsShareScale`), no tensor is lost but those of writers that failed, nothing is written unless all is valid |
| `shared_target` | 5 nodes, one layer called several times | **violated**: "each target belongs to exactly one partition" |
| `dataclass` | 3 nodes, values are dataclasses | **violated**: the cache supports dataclass instances |
| `wrap` | 27,378 bodies of up to 3 statements and a return, over a parameter, a variable, a loop variable and a global; 300,332 states | the rewritten forward method returns what the original returns, after the same tests (`ForwardIsPreserved`) |
| `mixed_experts` | the instance of `distributed` | **violated**: "broadcast compressed modules to each rank" |
| `router` | AWQ with its default MoE mappings, one layer of 2 experts | **violated**: balance layers offset the smoothing |

The bounds. Five nodes allow two targets in sequence or in parallel with an input, a
`get_attr` shared by two partitions, a value that skips a subgraph, and every diamond; the
theorems below remove the bound for the walk itself. Three batches are needed for a batch that
has a predecessor and a successor: the worker then fetches batch 3 while batch 2 runs and
batch 1 has been updated. Two modifiers are a first and a later one, so that a call can fail
after some success. In `lifecycle` the two modifiers are of the two kinds of the code, one
also reports nothing from `on_finalize`. Events at any time make the run of the lifecycle
unbounded in length; only `completed` needs the cap.

Two ranks are a root and another one; with three samples one rank can have more batches than
the other, meet the experts in another order, or meet experts the other never meets (five of
the blocks have experts that are called for their tokens only), and modules of sizes 1, 2, 1, 1 give `greedy_bin_packing` ties and a module that fills a bin alone.
Two subgraphs make the collectives of one follow those of another. In `calibration`, two
modifiers are enough for every pair the properties relate (one that changes weights, one that
has statistics of them), three batches for a first, a middle and a last one, of which one is
masked or does not reach an expert. The dense model is cut in three ways: by decoder layers,
where the layers of a mapping share a subgraph; at attention and MLP, where a mapping's layers
are in one subgraph but their parent is not called any more; at every linear layer, where
mappings cross subgraphs. `MappingsAppliedInFull` and `ActivationsMatchModel` say which of these
they need (`IsSearchable`, `Aligned`), because the code itself skips the others. In
`model_free` three files allow a set split over two files with one in between, and layer 10
sorts before layer 2 by alphabet only. In `wrap` three statements are one that binds a name, a
block, and code to wrap that uses it; every branch of an `if` may assign, read then assign,
assign twice, nest another `if` or return. The same bodies, written as python and given to the
real `AutoWrapper`, get the arguments, returned names and local names of the model, and where
`ForwardIsPreserved` applies both methods were run and agree.

Exceptions that properties make are the code's own losses, stated as such: ranks that do not meet
the modules alike (`CompressedOnAllSamples` and `SameWeightsEverywhere` have `MetAlike` as
precondition: the samples of all ranks reach the same modules, and those of one size in the same
order; the run `mixed_experts` and finding 4 are about what happens otherwise), offloaded hessians
(`CompressedOnAllSamples`), ranks that wait for each other because their experts differ
(`RanksFinish`), modules replaced before `moe_calibration_context` raises on entry
(`ExpertsRestored`), tensors of failed writers (`NothingLost`), means whose first batch is all
masked (`MappingsAppliedInFull`), recipes whose modifiers share one pipeline
(`StatisticsFitTheWeights`, `ScalesFitTheModel`, `ObserversPresent` speak of the independent
pipeline, which `oneshot` uses unless told otherwise).

Dead calls, calls whose result nobody reads, are left out of the instances: FX lists them
wherever they were recorded, and if they come after the output node, the compiled function
returns before them. The hazard is listed in `PROJECT.json`.

### Fairness

`FairSpec` of the partition is weak fairness of `Next`: the loops are sequential code.
`FairPipelineSpec` has weak fairness of the main thread and of the worker separately: the
interpreter schedules both, and `future.result()` blocks until the worker is done. Running out
of memory is not fair, it may happen. `FairOneshotSpec` has weak fairness of `GoOn`, the code of a
run; starting another run is up to the user. `DistributedSpec` has weak fairness of `Next`, that
is, some rank that can proceed does: behaviours are finite and ranks only wait for each other, so
this is enough and no rank's scheduling is assumed.

### Deadlock

`partition`, `pipeline` and the violation runs on them set `CHECK_DEADLOCK FALSE`: calibration
ends. The liveness properties say that it ends where it should. In `lifecycle` and `oneshot` a
new call or run is always possible, and deadlock is checked. `distributed` sets it (as
`mixed_experts` does, on the same module) because ranks end, and because ranks whose data reached
different experts really wait for each other for ever when `moe_calibrate_all_experts` is off and
experts without rows are not called (`RanksFinish` says when they do not); `calibration`, `router`, `model_free` and `wrap` because
the programs end or raise.

## Findings

1. A target module that the model calls twice is in two partitions
   (`pipelines/sequential/helpers.py:298`), against the docstring at 265.
2. Fetching a dataclass from the cache overwrites the cached fields
   (`pipelines/cache.py:225-229`); a second fetch fails. Line 39 says dataclasses are supported.
3. AWQ's default MoE mappings (`modifiers/awq/mappings.py:59`) smooth
   `post_attention_layernorm` and balance the experts but not the router, which reads the same
   layernorm; the smoothed model routes tokens differently. Lines 21-22 say that
   balance layers are those that "must be balanced to offset the smoothing".
4. Ranks list the modules of a subgraph in the order in which their own batches first called them
   (`modifiers/gptq/base.py:285`; the sort by size in `utils/dist.py:29` is stable). If experts are
   called for the tokens they get and ranks meet two of one size in different order, their
   reductions and broadcasts pair different modules of equal shape and complete: hessians and
   weights are mixed without an error. The comment at 296 says "broadcast compressed modules to
   each rank".

Smaller observations, modelled as the code has them: `CompressionLifecycle.event` drops
`global_step` when it builds the event (`core/lifecycle.py:198-201`), so that `start` and `end`
steps are compared with 0 (`EventStep`), though `modifier.py:29` documents "the start step for the
modifier"; `QuantizationModifier.on_finalize` returns
nothing (`modifiers/quantization/quantization/base.py:111-113`), so the modifier never counts as
finalized and `reset` finalizes it again, though `modifier.py:96` means to refuse that
(`FinalizesOnceWhenReported` excepts it); `on_initialize` that returns False
still triggers `on_start` (`StartsAndEndsOnce` excludes those modifiers), and a
`LOSS_CALCULATED` without a loss is rejected after it was recorded as the last event; with
`offload_hessians` the sum may be lost on the target rank; AWQ divides by zero in `on_finalize`
when all its mappings were skipped; where an expert is called without rows GPTQ has a hessian of
zeros, so all columns are dead and the weight is zeroed (`gptq_quantize.py:154-156`);
`moe_calibration_context` restores modules, as its docstring says, unless entering it raises.

`ForwardIsPreserved` excepts what the rewriting gets wrong, and the instance has code for which
each exception is needed. Wrapped code must not

- augment a name: `NameAnalyzer` sees `x += 1` store `x`, not read it, so a wrapper whose branches
  both augment `x` is not passed it (the test of self assignments has `x = x + 1` only);
- have comprehensions, whose variables are returned or passed like variables of the method, or
  delete a name, which is returned like an assigned one;
- mention names first assigned in a block that stays: an `if` with `return`, `break` or
  `continue` is not visited, so its names are not recorded; those of static branches and loops
  are passed though the block may not have run; a name first assigned under a wrapped `if` in a
  loop comes back as `None` from every later round in which the `if` does not assign it;
- mention the variable of a loop, or contain a loop, that runs zero times.

And no variable may be named like a global or builtin: it is taken for the global.

Others met while reading, that no run shows: the docstring of `reindex_fused_weights.py:49-50`
relies on alphabetical sorting, `match_names_set_eager` sorts naturally and raises when a
role comes twice; `AutoRoundModifier.start_calibration` uses `targets`, not the targets of
`config_groups` (`autoround/base.py:188`, 192); `model_free/validate.py:40` sets an observer,
`static_mse`, that is not registered; the Qwen forms squeeze the expert mask and unpack two
indices, which needs `top_k >= 2`; `SpinQuantModifier.on_initialize` replaces the
`mappings` and `norm_mappings` it was given, and with a `transform_config` returns before it has
any, which `on_start` then reads (`modifiers/transform/spinquant/base.py:128-132`, 162-163).

## Proofs

TLC checks small instances; eight modules prove the following for every value of the constants:
any model, graph, recipe, data set, number of batches, ranks, files or workers. They assume the
named assumptions of the modules they extend, which TLC evaluates on every run, and the hypotheses
the tables name, which restrict the models, recipes or graphs; each is true of the instance of the
passing run. `tlapm M.tla` checks a module.

In every component the properties alone are not inductive. The invariants that are have a part
for each thing the properties do not say: where the program is, what it has done so far, and
which of its data agree with which. A step then has a lemma of its own, with one part per conjunct
it can disturb.

**`TopologicalPartitionProofs`** - any finite set of traced graphs, any targets, any order of
users:

| theorem | states | for |
|---|---|---|
| `TypeCorrect` | the walk's data are well typed; no indegree becomes negative | all graphs |
| `PartitionsExecuteInOrder` | every node's inputs are computed earlier | all graphs |
| `TargetsAreDisjoint` | every partition but the last ends with its one target | all graphs |
| `WalkAssignsOnce` | nothing is placed twice, nothing but unread get_attr nodes is left out | all graphs |
| `GetAttrsWaitForTheirUsers` | a get_attr is placed where its first user is, not before | all graphs |
| `ReturnedValuesAreConsumed` | what is returned is deleted by the last subgraph that reads it | all graphs |
| `ReadValuesAreAvailable` | what a subgraph reads has been returned and not deleted | `NoDeadCalls` |

`IndInv` ties queue and counters together: the indegree of a node is the number of its
pending inputs, those neither placed nor get_attr (`Indegrees`); the queue holds, once each,
exactly the nodes that are not placed and have nothing pending (`QueueIsReady`,
`QueueDistinct`); a placed node has nothing pending (`PlacedWasReady`); no get_attr node is
placed while the queue is not empty (`GetAttrsLast`). A step of the walk changes the
pending inputs of the users of one node and of nobody else, which is what `PopStep` shows part
by part; `WalkIsComplete` then argues that an empty queue leaves no node pending, by taking the
least one. With a dead call in the last partition a value may be returned that the compiled
function never computes: hence `NoDeadCalls`.

**`SequentialPipelineProofs`** - on top of `IndInv`, any number of batches, prefetching or not,
any interleaving with the worker thread, any moment to run out of memory:

| theorem | states | for |
|---|---|---|
| `PipelineTypeCorrect` | indices stay within subgraphs and batches, the cache holds dictionaries | all graphs |
| `CacheStaysExact` | between passes a batch's dictionary has exactly what later subgraphs read | all graphs |
| `EveryBatchIsCounted` | a subgraph is compressed after each call of its modules on each batch | all graphs |
| `CalibrationSeesCompressedInputs` | both passes run on what compressed modules computed | all graphs |
| `WorkerReadsAlone` | no dictionary is written while the worker reads it (`NoWriteWhileFetching`) | all graphs |
| `PipelineNeverRaises` | no argument and no name to delete is missing | `NoDeadCalls` |
| `PipelineRefinesLayerwise` | the pipeline implements `LayerwiseCompression` | `OneCallEach` |

`PipelineInv` makes what is held a function of stage, subgraph and batch: `PassBounds` and `Fetched`
say that the worker is one batch ahead and what both fetched; `HooksFollowStage`, `SamplesSoFar`,
`CompressedSoFar` what hooks and GPTQ have done; `CacheHoldsLiveValues` what each batch has, which
depends on whether the batch is before or behind the current one; `ValuesCompressed` that nothing
computed by an uncompressed module is kept. The refinement maps each action to a step or
a stutter of `LayerwiseCompression`: the first batch of a subgraph is `Calibrate`, whose inputs are
compressed because ancestors are in earlier subgraphs or the same, `SequentialEpochEnd` is
`Compress`. `OneCallEach` (no module to compress is called by two nodes) is needed: finding 1 is
about a module that is, and it is calibrated and compressed again.

**`CompressionLifecycleProofs`** - any modifiers, recipes of any length (a modifier may occur
twice in one), `start` and `end` fields and any sequence of calls with any hooks raising:

| theorem | states |
|---|---|
| `TypeCorrect` | flags, counters, call and events keep their types |
| `HooksRunOnce` | no modifier is started or ended twice |
| `ReportedFinalizationIsOnce` | no modifier that reports its finalization is finalized twice |
| `FinalizedIsFinal` | a finalized lifecycle has finalized its whole recipe |
| `DeliveryIsOrdered` | batch events reach the modifiers in order |
| `AcceptedEventsArrive` | an accepted event is refused by no modifier, unless one has failed |

`IndInv` has four parts besides the types. `HooksOnce` ties the history of
hooks to the flags on which the code bases its decisions (a hook that ran has set the flag that
prevents it from running again, also when a later hook raised). `Visited` is the loop invariant
of `finalize`: `call.rest` is a suffix of the recipe and everything before it is finished.
`FinalizedIsTrue` carries that over to the flag of the lifecycle, through events that raise,
repeated `finalize` calls and `reset_stage`. `DeliveredFirst` says the event last delivered is
not later than the one last recorded, although a refused `loss_calculated` is recorded and not
delivered. `DeliveryInv` is the same idea for `initialize`: of the part of the recipe it has visited,
all can take events if none has failed, and no modifier occurs in it twice (the second visit would
have been refused).

**`OneshotProofs`** - on top of that, runs in any number, each with any recipe, ending anywhere:

| theorem | states | for |
|---|---|---|
| `RunsKeepTheLifecycle` | patching the recipe breaks none of the lifecycle's promises | all recipes |
| `MoEModulesAreRestored` | modules are in calibration form during a run and only then, as far as entering succeeds | all recipes |
| `ResetReachesAllModifiers` | an initialized modifier is finalized, failed to, or will be visited by reset | all recipes |
| `RecipesAreApplied` | a run that returns has started, ended and finalized its calibrating modifiers once | `NoneStartsEarly` |

`RunInv` says which call may be in progress and what the session looks like in each phase; the
lifecycle's `IndInv` is kept because the recipe is only written between calls of a session that is
not finalized. `ReplacedInv`, `HandedOver` and `CalibratedInv` are one invariant per theorem: where
replaced modules are known, where initialized modifiers are listed (also while the recipe is
patched), how far each modifier of the run is (`Progress`). `NoneStartsEarly` excludes calibrating
modifiers whose `start` field makes `initialize` start them: one whose `on_initialize` then
returns False is started again by the next run.

**`ModifierCalibrationProofs`** - any model, mappings, recipe, pipeline, overlap of targets, masks
and experts reached:

| theorem | states | for |
|---|---|---|
| `ObserversAreNeverMissed` | no hook or handler misses an observer (`ObserversPresent`) | all models |
| `SmoothingIsOffset` | the model computes what it did, after every handler (`ModelIsPreserved`) | `Balanced` |
| `PassesMatchTheModel` | modules run on what the modules before them return now (`ActivationsMatchModel`) | `Balanced`, `HooksMeetMappings` |
| `StatisticsAreOfTheWeights` | statistics are of the weights they are used for (`StatisticsFitTheWeights`) | `WellMapped` |
| `QuantizedModulesEndFrozen` | modules with a scheme end up frozen, without observers (`QuantizationIsFrozen`) | all models |
| `WeightScalesAreOfTheWeights` | the scale of a weight is that of the weight saved (`WeightScalesFit`) | `WellScaled` |
| `SavedScalesFit` | so all scales that are saved fit (`ScalesFitTheModel`) | `Balanced`, `HooksMeetMappings`, `WellScaled`, `WellWatched` |
| `MappingsAreApplied` | each mapping that is reached is applied once, from each batch that reaches it (`MappingsAppliedInFull`) | `ParentsRunAsOne`, no data-free pipeline |

`Inv` says whose turn it is and that nobody holds statistics between passes (`Turns`, `Holding`),
and that the modifier whose turn it is has its observers (`ObserversAttached`), which needs that
another one's `end_calibration` cannot come in between. Handlers that smooth are loops over
mappings: `SmoothedSoFar` is their invariant, with the tags of the mappings done. `Matching` adds
that what is kept of finished modules is what they return now (`OutputsKnown`): a mapping
smooths layers of the subgraph that just ended, before the second pass computes its outputs.
`Fitting` adds that what a modifier holds has the current scales (`HeldFits`). `Balanced` says the
balance layers of a mapping are all readers of its smooth layer; finding 3 is a mapping that is
not, and the property fails there. `HooksMeetMappings` says the observed module has a layer of the
mapping, `WellMapped` also that the inputs of a parent are not balanced by an earlier mapping.

The three theorems after it follow one module through the turns of all modifiers. `StepsOfTurn` lists
what a step can be when each modifier has a pipeline of its own (`TurnStep`), so that the
invariants after it need not look at the delivery of events again. `FrozenModule` says who may
hold a module unfrozen: nobody but the modifier whose turn it is, or one that comes before that
which configured it. `ScaledModule` says that a scale fits from the moment the modifier whose turn
it is has ended the module's subgraph, or if it did before and this modifier leaves the weight
alone; it needs that hessians are there for each module a batch has reached by then
(`HessiansCollected`). `ObservedModule` counts the batches whose inputs have been observed
(`PassedBatches`) through both passes of every subgraph. The hypotheses are about recipes and
state what a user has to see to, because the code does not check it: `WellScaled`, that no modifier
smooths or prunes a weight after its scale was taken for the last time, and `WellWatched`, that
inputs quantized statically are observed, and neither smoothed nor reset afterwards.

`MappingsAreApplied` holds for every pipeline with data, also when modifiers share one. Its invariant
`Applying` follows one mapping of one modifier: until the event after the pass that runs what is
hooked for it (`Past`), the log has no entry of it, and the statistics are those of the batches that
have passed (`HasCollected`, `OneMoreBatch`); from then on the log has one, taken from all of them
(`SmoothedOnce`). It needs that every modifier is called in every pass (`Attending`), that smoothing
appends an entry for each mapping it applies and other handlers none that could be taken for one
(`SmoothedLog`, `UpdatedLog`), and that the arguments of the parent are kept in the pass in which the
hook runs. That is `ParentsRunAsOne`: a parent that subgraphs call is one node of the traced
graph, so it runs in one subgraph, and the hooked module, which is looked up from it, with it.
Without it statistics would be there and outputs not, and the mapping would be skipped. A data-free
pipeline over the whole recipe, which the hypothesis excludes, runs no batch and applies nothing.

All models and recipes of the run `calibration` meet the hypotheses of all eight theorems, and its
invariants include the properties they imply.

**`DistributedGPTQProofs`** - any number of ranks, data sets, subgraphs and order of steps:

| theorem | states | for |
|---|---|---|
| `RanksDivideTheData` | a shared data set is divided without loss or repetition | all data sets |
| `ModulesSeeAllSamples` | a module is compressed with the sums over the samples of all ranks | `MetAlike`, hessians not offloaded |
| `RanksEndAlike` | ranks that are past a subgraph have the same weights in it | `MetAlike` |
| `CalibratingAllExpertsIsInvisible` | showing all tokens to all experts does not change what a block returns | all blocks |

`MetAlike` is about the samples of the ranks and where the router sends them, not about how the
ranks proceed. It is true of ranks that have data if all experts calibrate. Without it the conclusion of `RanksEndAlike` is
false, which the run `mixed_experts` shows.

`Inv` has, per rank, what it has loaded (`Gathered`, `Divided`), counted (`Counted`, `Forgotten`) and
issued (`Issued`: every reduction has all the rank has seen of its module; `ReductionsLast`: those a
rank waits for are the last it issued), and across ranks that a reduction adds up what all have
seen (`Joined`, `SumsRight`) and that received parameters are those of the root (`NotYet`,
`FromRoots`). These hold as long as collectives that are paired are for the same module. That
they are is proved from the data: `OnCourse` says that what a rank issues follows its course
(`Course`), which its batches determine, by the order in which they meet the modules and the
stable sort (`SortedOnce`), however ranks interleave; ranks that meet the modules alike have courses
for the same modules (`AlikeAgree`). Which rank gets which module is left open, so the theorems hold for any bin packing.
The last one is an induction over the experts of a block, for both ways to call them.

**`ModelFreeProofs`** - any checkpoint, names, writer's order, numbers of files, workers and failing
saves:

| theorem | states |
|---|---|
| `ValidationGuardsWrites` | nothing is written unless every file is usable and no fused set is incomplete |
| `TensorsAreStoredOnce` | a quantized checkpoint has each tensor once, where its index says |
| `NothingIsLost` | and all of its tensors: only sets that are incomplete are left over (`NothingLost`) |
| `FusedScalesAreShared` | fused weights that are quantized share their scale (`FusedSetsShareScale`) |

`FilesInv` follows the tensors: `Split` and `Writing` say that each is in the index of
`reindex_fused_weights`, carried over to later files, or with a writer; `Stored` that files are
what the index says, `Rounds` what the jobs of a round know. `StoredOnce` is the first half of
`NothingLost`.

The other two theorems rest on what `match_names_set_eager` finds, which groups names by nothing but
their order. It is right about a list of names in natural order that is cut in one place (`IsCut`):
all sets are whole but those of at most one layer, as they are where one file ends and the
next begins. `MatchedSoFar` is the loop invariant, name by name (`MatchName`): the sets found are those
whose names have all been seen, and the set that is open is the cut layer's or the current one's.
`Grouped` follows that through reindexing: what has been read so far and is carried over are
the tensors of sets of which the files read have a part only, so nothing complete is left over at
the end. `ValidFilesAreGrouped` is the other way a checkpoint gets to the writers, unchanged:
validation rejects a file in which a set is cut, so in what is quantized all groups are the
fused sets. The assumptions are that names are finitely many pairs of a layer and a role
(`NamesAssumption`) and that no role is fused in two ways.

**`CountingInduction`** has one lemma, induction over `0 .. n` for a set of numbers, from which the
loops above that are recursive functions or folds are proved.

### Only model-checked

- Liveness: `Terminates`, `CalibrationEnds`, `RunsEnd`, `RanksFinish`. TLAPS does not reason about
  fairness and ENABLED.
- `ForwardIsPreserved`: the interpreter and the visitor are RECURSIVE over programs, which TLAPS
  does not support. The violation runs are counterexamples, nothing to prove.

## Plan

Models: magnitude pruning driven by training events, the offload handling of the cache with equal
devices, AutoRound with `config_groups`, resolution of targets and recipes. Every invariant of a
passing run that can be stated without RECURSIVE operators is proved.

No module but `PythonCode`, `NameAnalysis` and `AutoWrapper` declares a RECURSIVE operator, so
all others can be proved about.

## Not modelled

- Numerics: hessians, rounding, grid searches and optimisers, MSE observers, per-channel scales,
  rotations (SpinQuant, QuIP) and equalization, the OWL profile of sparsity, masks; AWQ's skip of a
  mapping whose parent returns NaN, SmoothQuant's errors for shapes that do not match. Models
  keep what they are computed from.
- Keys of the data loader that are not inputs of the graph (`loss_mask`): they stay in the cache
  until the end. `restore()` of a MoE module raising: no registered class does.
- Constant and magnitude pruning: they act at training steps, which events do not carry.
- Quantization of outputs, attention and key-value caches, global scales, the resolution of
  schemes, targets and mappings from text; AutoRound with `config_groups`.
- Source rewriting of while, with, try and nested functions, of assignment expressions in code
  that cannot be traced, and of loops left or restarted before an assignment inside wrapped code
  (which counts as made); the tracer itself, compiling and patching methods.
- Text and I/O: recipes, loading and tokenising data sets, checkpoints, `update_config`, arguments, logging. A traced graph, a recipe as a list of
  modifiers and a data set as a sequence are inputs.
- The packing of experts into one tensor, Granite's linear form, shared experts: weights only.
- The cache's sharing of offloaded tensors and the aliasing when offload and onload device are
  the same; nested `disable_hooks` and its `keep`, which only the OWL profile uses; sessions
  created with `create_session`, which `oneshot` does not use.
