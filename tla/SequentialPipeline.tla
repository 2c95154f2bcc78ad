------------------------- MODULE SequentialPipeline -------------------------
(***************************************************************************)
(* Layer-by-layer calibration (pipelines/sequential/pipeline.py): the      *)
(* model is cut into subgraphs by TopologicalPartition, then every         *)
(* calibration batch goes through each subgraph twice.  The first pass     *)
(* triggers the calibration hooks; then the modules that were calibrated   *)
(* are compressed; the second pass, with hooks disabled, computes the      *)
(* inputs of the next subgraphs with the compressed modules.  Values live  *)
(* in the IntermediatesCache (pipelines/cache.py) between subgraphs, and   *)
(* a worker thread may fetch the next batch while the main thread runs     *)
(* the current one.  The modifier is GPTQ (modifiers/gptq/base.py) on one  *)
(* process: its hook counts samples, the epoch end compresses.             *)
(*                                                                         *)
(* A value is abstracted to two facts: was it computed by compressed       *)
(* modules only, and are its tensors offloaded.                            *)
(***************************************************************************)
EXTENDS TopologicalPartition

CONSTANTS
  NumBatches,   \* length of the dataloader
  Quantizable,  \* modules GPTQ hooks and compresses
  Dataclasses,  \* nodes whose value is a dataclass instance
  NoInputs,     \* a fetch has not returned yet
  NoFuture      \* no prefetch was submitted

ASSUME NumBatchesAssumption == NumBatches \in Nat \ {0}
ASSUME QuantizableAssumption == Quantizable \subseteq Modules
ASSUME DataclassesAssumption == Dataclasses \subseteq Node

Batches == 1 .. NumBatches

Value == [compressed : BOOLEAN, offloaded : BOOLEAN]

(* Dictionaries from names to values.                                      *)
Values == UNION {[names -> Value] : names \in SUBSET Node}

(* A fetch in the worker thread; it has inputs when it is done.            *)
Futures == [batch : Batches, status : {"pending", "failed", "done"},
            inputs : Values \cup {NoInputs}]

ASSUME NullsAssumption == NoInputs \notin Values /\ NoFuture \notin Futures

VARIABLES
  stage,          \* where the main thread is
  prefetch,       \* dataset_args.sequential_prefetch
  subgraph,       \* index of the current subgraph
  batch,          \* index of the current batch
  inputs,         \* what was fetched for the current batch
  future,         \* the prefetch the worker thread has to do or has done
  activations,    \* the cache: per batch, a dictionary
  num_samples,    \* per module and batch, times the calibration hook ran
  compressions,   \* times each module was compressed
  hooks_disabled  \* HooksMixin._HOOKS_DISABLED

pipeline == <<stage, prefetch, subgraph, batch, inputs, future, activations,
              num_samples, compressions, hooks_disabled>>

LastSubgraph == Len(partitions)

(* Modules with a hook that run in subgraph p, and how often.              *)
Calls(m, p) == Cardinality({n \in NodesOf(p) : graph.module[n] = m})

Hooked(p) == {m \in Quantizable : Calls(m, p) > 0}

-----------------------------------------------------------------------------
(* The cache.                                                              *)

Held(b) == DOMAIN activations[b]

FetchedNames(b) == Held(b) \cap InputNames(subgraph)

(* Onloading a dataclass writes its onloaded fields into the cached        *)
(* instance, so that it cannot be onloaded again.                          *)
FetchFails(b) ==
  \E m \in FetchedNames(b) \cap Dataclasses : ~activations[b][m].offloaded

FetchedValues(b) == [m \in FetchedNames(b) |-> activations[b][m]]

AfterFetch(b) ==
  [activations EXCEPT ![b] =
     [m \in Held(b) |-> IF m \in FetchedNames(b) \cap Dataclasses
                          THEN [activations[b][m] EXCEPT !.offloaded = FALSE]
                          ELSE activations[b][m]]]

(* `update` with the subgraph's outputs, then `delete` of what it was the  *)
(* last to read.                                                           *)
Updated(b, outputs) ==
  [m \in Held(b) \cup DOMAIN outputs |->
     IF m \in DOMAIN outputs THEN outputs[m] ELSE activations[b][m]]

Deleted(values, names) == [m \in DOMAIN values \ names |-> values[m]]

-----------------------------------------------------------------------------
PipelineInit ==
  /\ Init
  /\ stage = "tracing"
  /\ prefetch \in BOOLEAN
  /\ subgraph = 1
  /\ batch = 1
  /\ inputs = NoInputs
  /\ future = NoFuture
  /\ activations = [b \in Batches |-> [m \in {} |-> [compressed |-> TRUE, offloaded |-> TRUE]]]
  /\ num_samples = [m \in Quantizable |-> [b \in Batches |-> 0]]
  /\ compressions = [m \in Quantizable |-> 0]
  /\ hooks_disabled = FALSE

Trace == Next /\ UNCHANGED pipeline

(* CALIBRATION_EPOCH_START has hooked the modules; from_dataloader fills   *)
(* the cache with the model's inputs.  It stores every key of a batch:     *)
(* those that are not inputs of the graph, as a loss_mask, stay there      *)
(* unread and are left out.                                                *)
PrepareCache ==
  /\ stage = "tracing" /\ Done
  /\ stage' = "calibrating"
  /\ activations' =
       [b \in Batches |-> [m \in {n \in Node : graph.op[n] = "placeholder"} |->
                             [compressed |-> TRUE, offloaded |-> TRUE]]]
  /\ UNCHANGED <<vars, prefetch, subgraph, batch, inputs, future, num_samples,
                 compressions, hooks_disabled>>

-----------------------------------------------------------------------------
(* _get_batches                                                            *)

Future(b, status, values) == [batch |-> b, status |-> status, inputs |-> values]

Submitted_SameBatch ==
  IF prefetch THEN Future(batch, "pending", NoInputs) ELSE NoFuture

(* The generator submits the fetch of the next batch, if there is one,     *)
(* before it yields this one.                                              *)
Submitted ==
  IF prefetch /\ batch < NumBatches
    THEN Future(batch + 1, "pending", NoInputs)
    ELSE NoFuture

InPass == stage \in {"calibrating", "propagating"}

FetchBatch ==
  /\ InPass /\ inputs = NoInputs /\ future = NoFuture
  /\ \/ /\ FetchFails(batch)
        /\ stage' = "fetch_failed"
        /\ UNCHANGED <<inputs, future, activations>>
     \/ /\ ~FetchFails(batch)
        /\ inputs' = FetchedValues(batch)
        /\ activations' = AfterFetch(batch)
        /\ future' = Submitted
        /\ UNCHANGED stage
  /\ UNCHANGED <<vars, prefetch, subgraph, batch, num_samples, compressions, hooks_disabled>>

(* The worker thread; an exception is kept for who asks for the result.    *)
Prefetch ==
  /\ future # NoFuture /\ future.status = "pending"
  /\ \/ /\ FetchFails(future.batch)
        /\ future' = Future(future.batch, "failed", NoInputs)
        /\ UNCHANGED activations
     \/ /\ ~FetchFails(future.batch)
        /\ future' = Future(future.batch, "done", FetchedValues(future.batch))
        /\ activations' = AfterFetch(future.batch)
  /\ UNCHANGED <<vars, stage, prefetch, subgraph, batch, inputs, num_samples, compressions,
                 hooks_disabled>>

(* future.result() waits for the worker.                                   *)
TakePrefetched ==
  /\ InPass /\ inputs = NoInputs /\ future # NoFuture
  /\ \/ /\ future.status = "failed"
        /\ stage' = "fetch_failed"
        /\ UNCHANGED <<inputs, future>>
     \/ /\ future.status = "done"
        /\ inputs' = future.inputs
        /\ future' = Submitted
        /\ UNCHANGED stage
  /\ UNCHANGED <<vars, prefetch, subgraph, batch, activations, num_samples, compressions,
                 hooks_disabled>>

-----------------------------------------------------------------------------
(* The two passes.                                                         *)

NextBatch_SamePass(following) ==
  /\ inputs' = NoInputs
  /\ batch' = IF batch < NumBatches THEN batch + 1 ELSE 1
  /\ UNCHANGED stage

(* The next batch of the pass, or the first one of what follows it.        *)
NextBatch(following) ==
  /\ inputs' = NoInputs
  /\ IF batch < NumBatches
       THEN batch' = batch + 1 /\ UNCHANGED stage
       ELSE batch' = 1 /\ stage' = following

(* The compiled forward function takes every input by name.                *)
MissingInput == DOMAIN inputs # InputNames(subgraph)

(* Forward passes run calibrate_module once per call, hooks permitting.    *)
Observed ==
  IF hooks_disabled
    THEN num_samples
    ELSE [m \in Quantizable |-> [num_samples[m] EXCEPT ![batch] = @ + Calls(m, subgraph)]]

(* An exception leaves the passes; the context managers are unwound.       *)
Abort(how) ==
  /\ stage' = how
  /\ hooks_disabled' = FALSE
  /\ UNCHANGED <<vars, prefetch, subgraph, batch, inputs, future, activations, num_samples,
                 compressions>>

Calibrate ==
  /\ stage = "calibrating" /\ inputs # NoInputs
  /\ IF MissingInput
       THEN Abort("raised")
       ELSE /\ num_samples' = Observed
            /\ NextBatch("compressing")
            /\ UNCHANGED <<vars, prefetch, subgraph, future, activations, compressions,
                           hooks_disabled>>

Sampled == {m \in Quantizable : \E b \in Batches : num_samples[m][b] > 0}

CompressModules_KeepSamples ==
  /\ compressions' = [m \in Quantizable |-> IF m \in Sampled THEN compressions[m] + 1
                                                             ELSE compressions[m]]
  /\ UNCHANGED num_samples

(* compress_modules pops every module that has samples and compresses it.  *)
CompressModules ==
  /\ compressions' = [m \in Quantizable |-> IF m \in Sampled THEN compressions[m] + 1
                                                             ELSE compressions[m]]
  /\ num_samples' = [m \in Quantizable |-> [b \in Batches |-> 0]]

SequentialEpochEnd_HooksStayOn ==
  /\ stage = "compressing"
  /\ CompressModules
  /\ stage' = "propagating"
  /\ UNCHANGED <<vars, prefetch, subgraph, batch, inputs, future, activations, hooks_disabled>>

SequentialEpochEnd_Skipped ==
  /\ stage = "compressing"
  /\ stage' = "propagating"
  /\ hooks_disabled' = TRUE
  /\ UNCHANGED <<vars, prefetch, subgraph, batch, inputs, future, activations, num_samples,
                 compressions>>

SequentialEpochEnd ==
  /\ stage = "compressing"
  /\ CompressModules
  /\ stage' = "propagating"
  /\ hooks_disabled' = TRUE
  /\ UNCHANGED <<vars, prefetch, subgraph, batch, inputs, future, activations>>

(* A value is as good as what the subgraph read and the modules it ran.    *)
Outputs ==
  LET good == /\ \A m \in DOMAIN inputs : inputs[m].compressed
              /\ \A m \in Hooked(subgraph) : compressions[m] > 0
  IN  [m \in OutputNames(subgraph) |-> [compressed |-> good, offloaded |-> TRUE]]

AfterSubgraph_NoDelete(b) == [activations EXCEPT ![b] = Updated(b, Outputs)]

AfterSubgraph(b) ==
  [activations EXCEPT ![b] = Deleted(Updated(b, Outputs), ConsumedNames(subgraph))]

DeleteFails == ~(ConsumedNames(subgraph) \subseteq Held(batch) \cup OutputNames(subgraph))

Propagate ==
  /\ stage = "propagating" /\ inputs # NoInputs
  /\ IF MissingInput \/ (subgraph < LastSubgraph /\ DeleteFails)
       THEN Abort("raised")
       ELSE /\ num_samples' = Observed
            /\ NextBatch(IF subgraph < LastSubgraph THEN "calibrating" ELSE "finishing")
            /\ activations' = IF subgraph < LastSubgraph THEN AfterSubgraph(batch) ELSE activations
            /\ subgraph' = IF stage' = "calibrating" THEN subgraph + 1 ELSE subgraph
            /\ hooks_disabled' = (hooks_disabled /\ stage' = "propagating")
            /\ UNCHANGED <<vars, prefetch, future, compressions>>

(* "redundant, finish any remaining compression"; hooks are removed.       *)
CalibrationEpochEnd ==
  /\ stage = "finishing"
  /\ CompressModules
  /\ stage' = "finished"
  /\ UNCHANGED <<vars, prefetch, subgraph, batch, inputs, future, activations,
                 hooks_disabled>>

(* A forward pass or a compression may run out of device memory.           *)
OutOfMemory ==
  /\ (InPass /\ inputs # NoInputs) \/ stage = "compressing"
  /\ Abort("out_of_memory")

Main ==
  \/ Trace \/ PrepareCache \/ FetchBatch \/ TakePrefetched
  \/ Calibrate \/ SequentialEpochEnd \/ Propagate \/ CalibrationEpochEnd

PipelineNext == Main \/ Prefetch \/ OutOfMemory

pipelineVars == <<vars, pipeline>>

PipelineSpec == PipelineInit /\ [][PipelineNext]_pipelineVars

FairPipelineSpec ==
  PipelineSpec /\ WF_pipelineVars(Main) /\ WF_pipelineVars(Prefetch)

-----------------------------------------------------------------------------
(* Properties.                                                             *)

(* No subgraph is called with an argument missing and `delete` never asks  *)
(* for a name the cache does not hold.                                     *)
NeverRaises == stage # "raised"

(* "The second time in order to capture activations after quantization":   *)
(* whatever a subgraph is run on, in either pass, prefetched or not, was   *)
(* computed by modules that were compressed already.                       *)
InputsComeFromCompressedModel ==
  inputs # NoInputs => \A m \in DOMAIN inputs : inputs[m].compressed

(* When a subgraph is compressed, each of its modules has seen each batch  *)
(* exactly as often as the subgraph calls it, and no other module any.     *)
CalibratedOnEveryBatch ==
  stage = "compressing" =>
    \A m \in Quantizable : \A b \in Batches : num_samples[m][b] = Calls(m, subgraph)

Layerwise ==
  INSTANCE LayerwiseCompression WITH
    Module      <- Quantizable,
    calibrating <- Sampled,
    compressed  <- {m \in Quantizable : compressions[m] > 0},
    finished    <- stage \in {"finishing", "finished"}

(* Two passes over batches and subgraphs amount to layerwise compression:  *)
(* the modules of a subgraph start to be calibrated when all they depend   *)
(* on is compressed, are compressed together and never calibrated again    *)
(* (hooks stay off in the second pass), and when the subgraphs are done    *)
(* each module the model calls is compressed: what calibration_epoch_end   *)
(* compresses is nothing, "redundant".                                     *)
ImplementsLayerwiseCompression == Layerwise!Spec

(* While the worker thread reads the dictionary of a batch the main thread *)
(* does not change it.                                                     *)
NoWriteWhileFetching ==
  [][ future # NoFuture /\ future.status = "pending" /\ future' = future
        => activations'[future.batch] = activations[future.batch] ]_pipelineVars

(* The subgraph a batch goes through next.                                 *)
NextSubgraph(b) ==
  IF stage = "propagating" /\ subgraph < LastSubgraph /\ b < batch THEN subgraph + 1 ELSE subgraph

(* Of the model's inputs and what subgraphs have computed, the cache holds *)
(* for each batch exactly what the subgraphs to come read: nothing is      *)
(* missing, nothing leaked.                                                *)
CacheHoldsLiveValues ==
  stage \in {"calibrating", "compressing", "propagating", "finishing", "finished"} =>
    \A b \in Batches :
      Held(b) = {m \in UNION {InputNames(q) : q \in NextSubgraph(b) .. LastSubgraph} :
                   \/ graph.op[m] = "placeholder"
                   \/ \E p \in 1 .. (NextSubgraph(b) - 1) : m \in OutputNames(p)}

(* The class docstring: the cache "supports nested offloading of dataclass *)
(* instances", so that what it holds can be fetched whenever it is needed. *)
StoredValuesCanBeFetched == stage # "fetch_failed"

(* Calibration ends, with or without the worker thread.                    *)
CalibrationEnds == <>(stage \in {"finished", "out_of_memory"})

=============================================================================
