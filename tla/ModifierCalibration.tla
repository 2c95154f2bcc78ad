------------------------ MODULE ModifierCalibration ------------------------
(***************************************************************************)
(* What the modifiers of a recipe do to one model during calibration:      *)
(* SmoothQuant (modifiers/transform/smoothquant), pruning with SparseGPT   *)
(* or Wanda (modifiers/pruning), and AWQ, GPTQ, AutoRound and Quantization *)
(* Modifier, which share QuantizationMixin (modifiers/quantization/        *)
(* quantization/mixin.py and modifiers/quantization/calibration.py).  A    *)
(* pipeline delivers events to them in the order of the recipe and runs    *)
(* batches in between.                                                     *)
(***************************************************************************)
EXTENDS Smoothing, FiniteSetsExt

CONSTANTS
  Models,      \* see Smoothing
  Recipes,     \* sequences of modifiers
  Pipelines,   \* names passed to oneshot: independent, sequential, basic
  NumBatches

Observers == {"none", "minmax", "static_minmax", "memoryless_minmax"}

Kinds == {"awq", "smoothquant", "gptq", "quantization", "pruning", "autoround"}

(* A modifier has a kind, its targets (resolved_targets without ignore;    *)
(* AutoRound's are a class of modules), has_config, and the observer of    *)
(* inputs, if it quantizes them statically.                                *)
ASSUME BatchesAssumption == NumBatches \in Nat \ {0}
ASSUME RecipesAssumption ==
  Recipes \subseteq Seq([kind : Kinds, targets : SUBSET Nat, has_config : BOOLEAN,
                         input_observer : Observers])
(* What a module reads is computed before it, in the same subgraph or an   *)
(* earlier one (topological_partition).                                    *)
ASSUME ModelsAssumption ==
  \A model \in Models :
    /\ model.source \in Seq(Nat) /\ model.subgraph \in [ModulesOf(model) -> Nat \ {0}]
    /\ model.linear \subseteq ModulesOf(model)
    /\ \A m \in ModulesOf(model) :
         /\ model.source[m] < m
         /\ model.source[m] # 0 => model.subgraph[model.source[m]] <= model.subgraph[m]
    /\ model.mappings \in Seq([smooth : ModulesOf(model), balance : Seq(ModulesOf(model)),
                                hook : SUBSET ModulesOf(model)])
(* No two mappings share a smooth layer, whose name is the key of their    *)
(* statistics.                                                             *)
ASSUME MappingsAssumption ==
  \A model \in Models : \A j, k \in DOMAIN model.mappings :
    model.mappings[j].smooth = model.mappings[k].smooth => j = k

Batches == 1 .. NumBatches

VARIABLES
  config,        \* model, recipe, pipeline, modules reached and masks per batch
  pc,            \* what the pipeline does
  turn,          \* with the independent pipeline, whose pipeline runs
  handler,       \* the modifier the event is delivered to next
  subgraph, batch,
  outputs,       \* per batch the scales of what each module last returned
  weights,
  quantization,  \* per module: scheme, status, observers, scale, observed inputs
  enabled,       \* quantization_enabled, set on all modules at once
  live,          \* modifiers that have started and not ended, with their hooks
  loss_masks,    \* state.loss_masks is not None
  statistics,    \* per modifier _smooth_activation_means, or scales_
  parent_args,   \* per modifier _parent_args_cache, or _all_module_input
  hessians,      \* per modifier, per module the scales of the inputs accumulated
  log,           \* _error_metrics: what has been smoothed, from what
  error

vars == <<config, pc, turn, handler, subgraph, batch, outputs, weights, quantization,
          enabled, live, loss_masks, statistics, parent_args, hessians, log, error>>

Model == config.model
Modules == ModulesOf(Model)
Recipe == config.recipe
Kind(i) == Recipe[i].kind
Targets(i) == Recipe[i].targets \cap Model.linear
Mapping(k) == Model.mappings[k]

Nothing == [key \in {} |-> {}]

Quantizes(i) == Kind(i) \in {"awq", "gptq", "quantization", "autoround"}

Resolved(i) ==
  IF Kind(i) = "awq" THEN AWQResolved(Model, Targets(i))
                     ELSE SmoothQuantResolved(Model, Recipe[i].targets)

Unquantized ==
  [scheme |-> 0, status |-> "none", observers |-> {}, scale |-> <<>>, inputs |-> <<>>]

Init ==
  /\ config \in UNION {[model : {model}, recipe : Recipes, pipeline : Pipelines,
                        reached : [Batches -> model.routings], masked : SUBSET Batches] :
                         model \in Models}
  /\ pc = "initialize"
  /\ turn = 1 /\ handler = 1 /\ subgraph = 1 /\ batch = 1
  /\ outputs = [b \in Batches |-> [m \in Modules |-> {}]]
  /\ weights = [m \in Modules |-> Original]
  /\ quantization = [m \in Modules |-> Unquantized]
  /\ enabled = FALSE /\ live = {} /\ loss_masks = FALSE
  /\ statistics = [i \in DOMAIN Recipe |-> Nothing]
  /\ parent_args = [i \in DOMAIN Recipe |-> Nothing]
  /\ hessians = [i \in DOMAIN Recipe |-> Nothing]
  /\ log = <<>>
  /\ error = "none"

-----------------------------------------------------------------------------
(* Delivery of events.                                                     *)

Independent == config.pipeline = "independent"

Active_All == DOMAIN Recipe

(* The independent pipeline gives each modifier a pipeline of its own.     *)
Active == IF Independent THEN {turn} ELSE DOMAIN Recipe

(* _infer_pipeline: weight-only quantization needs no data.                *)
Pipeline ==
  IF ~Independent THEN config.pipeline
  ELSE IF Kind(turn) = "quantization" /\ Recipe[turn].input_observer = "none"
    THEN "datafree" ELSE "sequential"

(* The event goes to the next modifier; after the last one the pipeline    *)
(* proceeds.                                                               *)
DeliverNext(i, following) ==
  LET later == {j \in Active : j > i}
  IN  /\ error' = "none"
      /\ IF later # {}
           THEN handler' = Min(later) /\ UNCHANGED <<pc, turn>>
           ELSE IF following = "end of pipeline" /\ Independent /\ turn < Len(Recipe)
             THEN turn' = turn + 1 /\ handler' = turn + 1 /\ pc' = "start"
             ELSE /\ UNCHANGED turn
                  /\ handler' = IF following = "end of pipeline" THEN 1 ELSE Min(Active)
                  /\ pc' = IF following = "end of pipeline" THEN "finalize" ELSE following

Raise(what) == error' = what /\ pc' = "raised" /\ UNCHANGED <<handler, turn>>

-----------------------------------------------------------------------------
(* QuantizationMixin                                                       *)

Schemed(i) == {m \in Targets(i) : quantization[m].scheme # 0}

(* initialize_quantization: reset_quantization_status on what it targets,  *)
(* schemes attached, quantization disabled on the whole model.             *)
InitializeModifier(i) ==
  /\ pc = "initialize" /\ handler = i
  /\ IF Recipe[i].has_config /\ Quantizes(i)
       THEN /\ quantization' =
                 [m \in Modules |-> IF m \in Targets(i)
                    THEN [Unquantized EXCEPT !.scheme = i, !.status = "initialized"]
                    ELSE quantization[m]]
            /\ enabled' = FALSE
       ELSE UNCHANGED <<quantization, enabled>>
  /\ IF i < Len(Recipe)
       THEN handler' = i + 1 /\ UNCHANGED pc
       ELSE handler' = 1 /\ pc' = "start"
  /\ UNCHANGED <<config, turn, subgraph, batch, outputs, weights, live, loss_masks,
                 statistics, parent_args, hessians, log, error>>

(* AutoRound attaches no observers.                                        *)
InCalibration(m) == [quantization[m] EXCEPT !.status = "calibration"]

InputObserver(m) == Recipe[quantization[m].scheme].input_observer

HasStaticInputs(m) == InputObserver(m) # "none"

Calibrated_OnlyOnce(m) ==
  IF quantization[m].status = "frozen" THEN quantization[m]
  ELSE [quantization[m] EXCEPT
          !.status = "calibration", !.inputs = <<>>,
          !.observers = IF HasStaticInputs(m) THEN {"weight", "input"} ELSE {"weight"}]

(* start_calibration on one module: new observers, calibration status.     *)
Calibrated(m) ==
  [quantization[m] EXCEPT
     !.status = "calibration", !.inputs = <<>>,
     !.observers = IF HasStaticInputs(m) THEN {"weight", "input"} ELSE {"weight"}]

(* end_calibration on one module: freeze_module_quantization.              *)
Frozen(q) == IF q.status = "frozen" THEN q ELSE [q EXCEPT !.status = "frozen", !.observers = {}]

-----------------------------------------------------------------------------
(* CALIBRATION_EPOCH_START                                                 *)

(* _has_moe_up_down_proj_mapping                                           *)
HasExpertMapping(i) ==
  \E k \in Resolved(i) : \E b \in ToSet(Mapping(k).balance) :
    <<Mapping(k).smooth, b>> \in Model.expert_pairs

(* The basic pipeline sets state.loss_masks before the event, the          *)
(* sequential one after it.                                                *)
MasksSeen == loss_masks \/ (Pipeline = "basic" /\ config.masked # {})

(* get_sequential_targets: pruning and AutoRound set sequential_targets    *)
(* when they are initialized, and the sequential pipeline takes those of   *)
(* one modifier only.                                                      *)
TargetsConflict ==
  Pipeline = "sequential" /\ Cardinality({i \in Active : Kind(i) \in {"pruning", "autoround"}}) > 1

RejectTargets ==
  /\ pc = "start" /\ TargetsConflict
  /\ Raise("targets")
  /\ UNCHANGED <<config, subgraph, batch, outputs, weights, quantization, enabled, live,
                 loss_masks, statistics, parent_args, hessians, log>>

(* The quantization of modules after on_start: QuantizationModifier        *)
(* computes the scales of the weights as they are.                         *)
Started(i) ==
  [m \in Modules |->
     IF m \notin Schemed(i) THEN quantization[m]
     ELSE IF Kind(i) = "quantization" THEN [Calibrated(m) EXCEPT !.scale = weights[m]]
     ELSE IF Kind(i) = "autoround" THEN InCalibration(m) ELSE Calibrated(m)]

(* on_start.  AWQ disables quantization again.                             *)
StartModifier(i) ==
  /\ pc = "start" /\ handler = i /\ ~TargetsConflict
  /\ live' = live \cup {i}
  /\ \/ /\ ~Quantizes(i)
        /\ UNCHANGED <<quantization, enabled>>
        /\ DeliverNext(i, IF Pipeline = "datafree" THEN "end" ELSE "enter")
     \/ /\ Kind(i) = "awq" /\ MasksSeen /\ HasExpertMapping(i)
        /\ UNCHANGED <<quantization, enabled>>
        /\ Raise("masks")
     \/ /\ Quantizes(i) /\ ~(Kind(i) = "awq" /\ MasksSeen /\ HasExpertMapping(i))
        /\ quantization' = Started(i)
        /\ enabled' = (Kind(i) # "awq")
        /\ IF Kind(i) = "gptq" /\ Schemed(i) = {}
             THEN Raise("config")
             ELSE DeliverNext(i, IF Pipeline = "datafree" THEN "end" ELSE "enter")
  /\ UNCHANGED <<config, subgraph, batch, outputs, weights, loss_masks, statistics,
                 parent_args, hessians, log>>

-----------------------------------------------------------------------------
(* Forward passes.                                                         *)

DisablesQuantization == \E i \in Active : Kind(i) \in {"awq", "gptq", "autoround"}

(* After the first event the sequential pipeline disables quantization for *)
(* some modifiers and prepares the loss masks.                             *)
EnterPasses ==
  /\ pc = "enter"
  /\ pc' = "calibrate" /\ subgraph' = 1 /\ batch' = 1
  /\ enabled' = (enabled /\ ~(Pipeline = "sequential" /\ DisablesQuantization))
  /\ loss_masks' = (config.masked # {})
  /\ UNCHANGED <<config, turn, handler, outputs, weights, quantization, live, statistics,
                 parent_args, hessians, log, error>>

Sequential == Pipeline = "sequential"

NumSubgraphs == IF Sequential THEN Max({Model.subgraph[m] : m \in Modules}) ELSE 1

Running == {m \in Modules : Sequential => Model.subgraph[m] = subgraph}

(* Experts the batch is not routed to are not run.                         *)
Ran == Running \cap config.reached[batch]

Tokens == IF batch \in config.masked THEN 0 ELSE 1

InputOf(m) == InputScale(Model, weights, Running, outputs[batch], m)

Outputs_NotUpdated == outputs

Outputs == [outputs EXCEPT ![batch] = [m \in Modules |-> IF m \in Running THEN weights[m].div
                                                                         ELSE @[m]]]

(* A container runs when all of it belongs to what is run.                 *)
Runs(container) ==
  /\ IsCalled(Model, container, Sequential)
  /\ container \subseteq Running /\ container \cap Ran # {}

Get(dictionary, key, default) == IF key \in DOMAIN dictionary THEN dictionary[key] ELSE default

(* The hooks on activations: AWQ's on a balance layer, SmoothQuant's on    *)
(* the smooth layer.                                                       *)
Observed(i) ==
  LET hooked == {k \in Resolved(i) : IF Kind(i) = "awq" THEN Runs(AWQHook(Mapping(k)))
                                                        ELSE Mapping(k).smooth \in Ran}
      smooth == {Mapping(k).smooth : k \in hooked}
  IN  [s \in DOMAIN statistics[i] \cup smooth |->
         LET before == Get(statistics[i], s, NoStatistics)
         IN  IF s \notin smooth THEN before
             ELSE AccumulateMean(before, batch, IF Kind(i) = "awq" THEN Tokens ELSE 1)]

(* AutoRound's _is_decoding_layer: a class name in sequential_targets.     *)
DecodingLayers == Model.targets

(* cache_parent_kwargs_hook, and AutoRound's input_capture_hook: the       *)
(* scales of what enters the parent, or the decoding layer.                *)
EntersAt(parent) == {m \in parent : Model.source[m] \notin parent}

CachedArgs(i) ==
  LET parents == IF Kind(i) = "autoround" THEN DecodingLayers
                 ELSE {Parent(Model, Mapping(k)) : k \in Resolved(i)}
      run == {p \in parents : Runs(p)}
  IN  [p \in DOMAIN parent_args[i] \cup run |->
         LET before == Get(parent_args[i], p, <<>>)
         IN  IF p \notin run THEN before
             ELSE Append(before, [m \in EntersAt(p) |-> InputOf(m)])]

(* calibrate_module; pruning needs no scheme.                              *)
Accumulated(i) ==
  LET ran == Ran \cap (IF Kind(i) = "pruning" THEN Targets(i) ELSE Schemed(i))
  IN  [m \in DOMAIN hessians[i] \cup ran |->
         Get(hessians[i], m, {}) \cup (IF m \in ran THEN {InputOf(m)} ELSE {})]

(* The hooks of QuantizationMixin on the input of m, one per modifier that *)
(* has started on m.                                                       *)
InputHooks(m) ==
  {i \in live : Kind(i) \in {"awq", "gptq", "quantization"} /\ m \in Schemed(i) /\ HasStaticInputs(m)}

InputHooked == {m \in Ran : InputHooks(m) # {}}

(* What the scale of inputs stands for after n more calls of the observer: *)
(* the extremes, or the moving average, of all it saw, or the last.        *)
Observe(observer, past, value, n) ==
  IF observer = "memoryless_minmax" THEN <<value>> ELSE past \o [k \in 1 .. n |-> value]

ObservedInputs(m) ==
  Observe(InputObserver(m), quantization[m].inputs, [batch |-> batch, scale |-> InputOf(m)],
          Cardinality(InputHooks(m)))

OnlyKind(kinds, i, new, old) == IF i \in live /\ Kind(i) \in kinds THEN new ELSE old

Calibrate ==
  /\ pc = "calibrate"
  /\ IF \E m \in InputHooked : "input" \notin quantization[m].observers
       THEN /\ Raise("observer")
            /\ UNCHANGED <<batch, outputs, quantization, statistics, parent_args, hessians>>
       ELSE /\ quantization' =
                 [m \in Modules |-> IF m \in InputHooked
                    THEN [quantization[m] EXCEPT !.inputs = ObservedInputs(m)]
                    ELSE quantization[m]]
            /\ statistics' = [i \in DOMAIN Recipe |->
                 OnlyKind({"awq", "smoothquant"}, i, Observed(i), statistics[i])]
            /\ parent_args' = [i \in DOMAIN Recipe |->
                 OnlyKind({"awq", "autoround"}, i, CachedArgs(i), parent_args[i])]
            /\ hessians' = [i \in DOMAIN Recipe |->
                 OnlyKind({"gptq", "pruning"}, i, Accumulated(i), hessians[i])]
            /\ IF batch < NumBatches
                 THEN batch' = batch + 1 /\ UNCHANGED <<pc, handler>>
                 ELSE /\ batch' = 1
                      /\ handler' = Min(Active)
                      /\ pc' = IF Sequential THEN "subgraph_end" ELSE "end"
            /\ UNCHANGED <<outputs, turn, error>>
  /\ UNCHANGED <<config, subgraph, weights, enabled, live, loss_masks, log>>

(* The second pass, hooks disabled: what the next subgraphs will read.     *)
Propagate ==
  /\ pc = "propagate"
  /\ outputs' = Outputs
  /\ IF batch < NumBatches
       THEN batch' = batch + 1 /\ UNCHANGED <<pc, subgraph, handler>>
       ELSE /\ batch' = 1
            /\ IF subgraph < NumSubgraphs
                 THEN subgraph' = subgraph + 1 /\ pc' = "calibrate" /\ UNCHANGED handler
                 ELSE pc' = "end" /\ handler' = Min(Active) /\ UNCHANGED subgraph
  /\ UNCHANGED <<config, turn, weights, quantization, enabled, live, loss_masks, statistics,
                 parent_args, hessians, log, error>>

-----------------------------------------------------------------------------
(* SEQUENTIAL_EPOCH_END and CALIBRATION_EPOCH_END                          *)

(* The grid search of AWQ compares with what the parent returned before;   *)
(* it does if each module of the parent fits the arguments cached, and     *)
(* quantization is off.                                                    *)
SearchesOnTheModel(w, parent, args) ==
  /\ ~enabled
  /\ \A n \in DOMAIN args : \A m \in parent :
       (IF m \in EntersAt(parent) THEN args[n][m] ELSE w[Model.source[m]].div) = w[m].mul

LogEntry(i, k, w) ==
  [modifier |-> i, mapping |-> k, statistics |-> statistics[i][Mapping(k).smooth],
   sound |-> \/ Kind(i) = "smoothquant"
             \/ LET parent == Parent(Model, Mapping(k))
                IN  SearchesOnTheModel(w, parent, parent_args[i][parent])]

(* "no activations found to scale": the mapping is skipped.  So it is when *)
(* the parent returns NaN, which is numerics and left out.                 *)
HasOutputs(i, k) ==
  Kind(i) = "awq" => Get(parent_args[i], Parent(Model, Mapping(k)), <<>>) # <<>>

IsSmoothed(i, k) ==
  k \in Resolved(i) /\ Mapping(k).smooth \in DOMAIN statistics[i] /\ HasOutputs(i, k)

(* "No finite loss was found": the masks, which are taken in the order in  *)
(* which the parent was called, leave no token to compare.                 *)
NoFiniteLoss(i, k) ==
  /\ Kind(i) = "awq" /\ loss_masks /\ IsSmoothed(i, k)
  /\ DOMAIN parent_args[i][Parent(Model, Mapping(k))] \subseteq config.masked

(* _apply_smoothing, mapping after mapping, until one has no finite loss.  *)
SmoothedBy(i) ==
  LET After[k \in 0 .. Len(Model.mappings)] ==
        IF k = 0 THEN [weights |-> weights, log |-> log]
        ELSE IF IsSmoothed(i, k) /\ ~ \E j \in 1 .. k : NoFiniteLoss(i, j)
          THEN [weights |-> Smoothed(After[k - 1].weights, <<i, k>>, Mapping(k)),
                log |-> Append(After[k - 1].log, LogEntry(i, k, After[k - 1].weights))]
          ELSE After[k - 1]
  IN  After[Len(Model.mappings)]

(* compress_module_list, and compress_modules of SparseGPT and Wanda; a    *)
(* hessian of inputs that are not those of the weights any more is logged  *)
(* as unsound.  GPTQ keeps zeros zero.                                     *)
Quantized(weight) == [weight EXCEPT !.quantized = TRUE]

Pruned(weight) == [weight EXCEPT !.pruned = TRUE]

CompressedBy(i) ==
  [weights |-> [m \in Modules |-> IF m \notin DOMAIN hessians[i] THEN weights[m]
                                  ELSE IF Kind(i) = "gptq" THEN Quantized(weights[m])
                                                           ELSE Pruned(weights[m])],
   log |-> IF DOMAIN hessians[i] = {} THEN log
           ELSE Append(log, [modifier |-> i, mapping |-> 0, statistics |-> NoStatistics,
                             sound |-> \A m \in DOMAIN hessians[i] :
                                         hessians[i][m] = {weights[m].mul}])]

(* apply_autoround, on SEQUENTIAL_EPOCH_END only: in the decoding layer of *)
(* the subgraph AutoRound tunes whatever has a scheme.                     *)
Tuned ==
  {m \in Model.linear \cap Running : quantization[m].scheme # 0 /\ \E t \in DecodingLayers : m \in t}

TunedBy(i) ==
  IF pc # "subgraph_end" \/ Tuned = {} THEN [weights |-> weights, log |-> log]
  ELSE [weights |-> [m \in Modules |-> IF m \in Tuned THEN Quantized(weights[m]) ELSE weights[m]],
        log |-> Append(log, [modifier |-> i, mapping |-> 0, statistics |-> NoStatistics,
                             sound |-> \A t \in DOMAIN parent_args[i] :
                                         SearchesOnTheModel(weights, t, parent_args[i][t])])]

Updated(i) ==
  IF Kind(i) \in {"awq", "smoothquant"} THEN SmoothedBy(i)
  ELSE IF Kind(i) \in {"gptq", "pruning"} THEN CompressedBy(i)
  ELSE IF Kind(i) = "autoround" THEN TunedBy(i)
  ELSE [weights |-> weights, log |-> log]

(* Hessians are popped, means deleted, caches of arguments cleared (what a *)
(* handler that raises leaves of them is not used any more).               *)
Consume(i) ==
  /\ weights' = Updated(i).weights
  /\ log' = Updated(i).log
  /\ statistics' = [statistics EXCEPT ![i] = Nothing]
  /\ parent_args' = [parent_args EXCEPT ![i] = Nothing]
  /\ hessians' = [hessians EXCEPT ![i] = Nothing]

(* quantize_weight returns the scale with the weight, and AutoRound leaves *)
(* it on the module (_postprocess_qparams).                                *)
Rescaled(i) ==
  [m \in Modules |-> IF \/ Kind(i) = "gptq" /\ m \in DOMAIN hessians[i]
                        \/ Kind(i) = "autoround" /\ pc = "subgraph_end" /\ m \in Tuned
                       THEN [quantization[m] EXCEPT !.scale = Updated(i).weights[m]]
                       ELSE quantization[m]]

SmoothingFails(i) == \E k \in DOMAIN Model.mappings : NoFiniteLoss(i, k)

EndSubgraph(i) ==
  /\ pc = "subgraph_end" /\ handler = i
  /\ Consume(i)
  /\ quantization' = Rescaled(i)
  /\ IF SmoothingFails(i) THEN Raise("loss") ELSE DeliverNext(i, "propagate")
  /\ UNCHANGED <<config, subgraph, batch, outputs, enabled, live, loss_masks>>

(* on_end of AWQ computes the scales of its targets.                       *)
EndScales_Skipped(i) == Rescaled(i)

EndScales(i) ==
  [m \in Modules |-> IF Kind(i) = "awq" /\ m \in Schemed(i)
                       THEN [quantization[m] EXCEPT !.scale = Updated(i).weights[m]]
                       ELSE Rescaled(i)[m]]

(* It needs the observers that start_calibration attached.                 *)
MissesObserver(i) ==
  Kind(i) = "awq" /\ \E m \in Schemed(i) : "weight" \notin quantization[m].observers

EndCalibration(i) ==
  /\ pc = "end" /\ handler = i
  /\ Consume(i)
  /\ IF SmoothingFails(i) \/ MissesObserver(i)
       THEN /\ Raise(IF SmoothingFails(i) THEN "loss" ELSE "observer")
            /\ UNCHANGED <<quantization, enabled, live>>
       ELSE /\ live' = live \ {i}
            /\ quantization' =
                 [m \in Modules |-> IF Quantizes(i) /\ m \in Schemed(i)
                    THEN Frozen(EndScales(i)[m]) ELSE EndScales(i)[m]]
            /\ enabled' = (enabled \/ Quantizes(i) \/
                             (Sequential /\ DisablesQuantization /\ i = Max(Active)))
            /\ DeliverNext(i, "end of pipeline")
  /\ UNCHANGED <<config, subgraph, batch, outputs, loss_masks>>

-----------------------------------------------------------------------------
(* on_finalize.  _log_error_metrics averages over the mappings smoothed.   *)
FinalizeModifier(i) ==
  /\ pc = "finalize" /\ handler = i
  /\ IF \/ Kind(i) = "awq" /\ \A n \in DOMAIN log : log[n].modifier # i
       THEN Raise("no_metrics")
     ELSE IF DOMAIN statistics[i] \cup DOMAIN hessians[i] # {} THEN Raise("leftover")
     ELSE /\ IF i < Len(Recipe) THEN handler' = i + 1 /\ UNCHANGED pc
                                ELSE pc' = "done" /\ UNCHANGED handler
          /\ UNCHANGED <<turn, error>>
  /\ UNCHANGED <<config, subgraph, batch, outputs, weights, quantization, enabled, live,
                 loss_masks, statistics, parent_args, hessians, log>>

Next ==
  \/ \E i \in DOMAIN Recipe :
       \/ InitializeModifier(i) \/ StartModifier(i)
       \/ EndSubgraph(i) \/ EndCalibration(i) \/ FinalizeModifier(i)
  \/ RejectTargets \/ EnterPasses \/ Calibrate \/ Propagate

Spec == Init /\ [][Next]_vars

-----------------------------------------------------------------------------
(* Properties.                                                             *)

(* Smoothing is offset: after every handler, whatever has been smoothed by *)
(* then and by which modifiers, the model computes what it computed before *)
(* (AWQMapping: "must be balanced to offset the smoothing").               *)
ModelIsPreserved ==
  \A m \in Modules : Fits(Model, weights, Modules, outputs[batch], m)

(* The layers of a mapping run in one subgraph, and so does its parent.    *)
Aligned ==
  \A i \in DOMAIN Recipe, k \in DOMAIN Model.mappings :
    Kind(i) = "awq" /\ k \in Resolved(i) =>
      Cardinality({Model.subgraph[m] : m \in {Mapping(k).smooth} \cup ToSet(Mapping(k).balance)})
        = 1

(* What a module is run on, in either pass, is what the modules before it, *)
(* smoothed or not by now, would return: AWQ, which smooths a layer when   *)
(* the next one has been observed, needs both in one subgraph, SmoothQuant *)
(* does not.                                                               *)
ActivationsMatchModel ==
  pc \in {"calibrate", "propagate"} /\ (Sequential => Aligned) =>
    \A m \in Running : InputOf(m) = weights[m].mul

Entries(i, k) == {n \in DOMAIN log : log[n].modifier = i /\ log[n].mapping = k}

(* The batches that reach what is hooked for a mapping.                    *)
Reaching(i, k) ==
  {b \in Batches : IF Kind(i) = "awq" THEN AWQHook(Mapping(k)) \cap config.reached[b] # {}
                                      ELSE Mapping(k).smooth \in config.reached[b]}

IsSearchable(i, k) ==
  Kind(i) = "awq" =>
    /\ IsCalled(Model, AWQHook(Mapping(k)), config.pipeline # "basic")
    /\ IsCalled(Model, Parent(Model, Mapping(k)), config.pipeline # "basic")

(* A sequence lists the numbers of a set from the smallest on.             *)
InOrder(s, S) == ToSet(s) = S /\ \A i, j \in DOMAIN s : i < j => s[i] < s[j]

(* When all is done each mapping some batch has reached was smoothed once, *)
(* from statistics that count each of these batches once and, if the first *)
(* of them is not masked, are numbers.  A mapping whose parent subgraphs   *)
(* do not call as a module is excepted: it is skipped.                     *)
MappingsAppliedInFull ==
  pc = "done" =>
    \A i \in DOMAIN Recipe : Kind(i) \in {"awq", "smoothquant"} =>
      \A k \in Resolved(i) : IsSearchable(i, k) /\ Reaching(i, k) # {} =>
        /\ Cardinality(Entries(i, k)) = 1
        /\ \A n \in Entries(i, k) :
             /\ InOrder(log[n].statistics.batches, Reaching(i, k))
             /\ Min(Reaching(i, k)) \notin config.masked => log[n].statistics.finite

(* With a pipeline per modifier, hessians are those of the inputs the      *)
(* weights get, and AWQ compares its scales with the unquantized, so far   *)
(* smoothed model, although it kept arguments from before it smoothed.     *)
StatisticsFitTheWeights ==
  Independent /\ Aligned => \A n \in DOMAIN log : log[n].sound

(* With a pipeline per modifier, in any order, each module that ends up    *)
(* with a scheme is frozen and has no observers.                           *)
QuantizationIsFrozen ==
  Independent /\ pc = "done" =>
    \A m \in Modules : quantization[m].scheme # 0 =>
      quantization[m].status = "frozen" /\ quantization[m].observers = {}

ReachingBatches(m) == {b \in Batches : m \in config.reached[b]}

(* Its scale was computed from the weight it has (that of an expert no     *)
(* batch reached may be missing).                                          *)
WeightScalesFit ==
  Independent /\ pc = "done" =>
    \A m \in Modules : quantization[m].scheme # 0 /\ ReachingBatches(m) # {} =>
      quantization[m].scale = weights[m]

(* The scale of its inputs was computed from each batch that reaches it    *)
(* once, or from the last if the observer is memoryless.                   *)
FitsInputs(m, batches) ==
  LET seen == quantization[m].inputs
      of == [n \in DOMAIN seen |-> seen[n].batch]
  IN  \/ InOrder(of, batches)
      \/ InputObserver(m) = "memoryless_minmax" /\ of = <<Max(batches)>>

(* And from what they are now, unless AWQ smoothed them after they were    *)
(* observed.                                                               *)
InputScalesFit ==
  Independent /\ pc = "done" =>
    \A m \in Modules :
      quantization[m].scheme # 0 /\ HasStaticInputs(m) /\ ReachingBatches(m) # {} =>
        /\ FitsInputs(m, ReachingBatches(m))
        /\ (\A i \in DOMAIN Recipe : Kind(i) # "awq")
             => \A n \in DOMAIN quantization[m].inputs :
                  quantization[m].inputs[n].scale = weights[m].mul

(* What is saved with a quantized model is of the model that is saved.     *)
ScalesFitTheModel == QuantizationIsFrozen /\ WeightScalesFit /\ InputScalesFit

(* With a pipeline per modifier no handler or hook misses the observer of  *)
(* a module, whoever froze it before.                                      *)
ObserversPresent == Independent => error # "observer"

=============================================================================
