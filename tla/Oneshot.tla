------------------------------- MODULE Oneshot -------------------------------
(***************************************************************************)
(* Oneshot.apply_recipe_modifiers (entrypoints/oneshot.py) and the events  *)
(* the calibration pipelines fire: one session is reset, initialized with  *)
(* a recipe, calibrated by one pipeline for all modifiers or by one        *)
(* pipeline for each (pipelines/independent/pipeline.py), and finalized,   *)
(* while MoE modules are replaced (modeling/moe_context.py).               *)
(* Any hook, and any forward pass, may raise, which ends the run; the next *)
(* run uses the same global session.                                       *)
(***************************************************************************)
EXTENDS CompressionLifecycle

CONSTANTS
  NumSubgraphs,  \* most subgraphs a model is cut into
  MoEModules,    \* registered MoE modules of the model, in its order
  Permanent      \* those whose replacement has is_permanent

ASSUME NumSubgraphsAssumption == NumSubgraphs \in Nat
ASSUME OneshotEventsAssumption == CalibrationEvents \subseteq EventTypes /\ 0 \in Steps

VARIABLES
  phase,   \* where apply_recipe_modifiers is
  wanted,  \* the modifiers of the run's recipe
  passes,  \* lists of modifiers that still get a pipeline of their own
  left,    \* subgraphs the current pipeline has still to calibrate
  pending, \* positions of the modules_to_replace that moe_calibration_context has not reached
  replaced,    \* modules it has replaced and is to restore
  converted,   \* modules of the model that are in calibration form
  stranded     \* history: modules in calibration form when entering the context raised

moe == <<pending, replaced, converted, stranded>>
run == <<phase, wanted, passes, left, moe>>

oneshotVars == <<vars, run>>

Patched == phase \in {"next_pass", "epoch_start", "calibrating"}

OneshotInit ==
  /\ Init
  /\ phase = "idle" /\ wanted = <<>> /\ passes = <<>> /\ left = 0
  /\ pending = {} /\ replaced = {} /\ converted = {} /\ stranded = {}

-----------------------------------------------------------------------------
(* The session call made by the previous step has returned.                *)
Returned == Idle /\ outcome = "returned"

StartRun ==
  /\ phase = "idle"
  /\ Reset
  /\ phase' = "resetting"
  /\ UNCHANGED <<wanted, passes, left, moe>>

(* moe_calibration_context collects what has a registered class: not what  *)
(* is in calibration form already.                                         *)
EnterMoEContext ==
  /\ phase = "resetting" /\ Returned
  /\ phase' = "replacing"
  /\ pending' = {i \in DOMAIN MoEModules : MoEModules[i] \notin converted}
  /\ UNCHANGED <<vars, wanted, passes, left, replaced, converted, stranded>>

ReplaceModule ==
  /\ phase = "replacing" /\ Returned
  /\ \E i \in pending :
       /\ \A j \in pending : i <= j
       /\ replaced' = replaced \cup {MoEModules[i]}
       /\ converted' = converted \cup {MoEModules[i]}
       /\ pending' = pending \ {i}
  /\ UNCHANGED <<vars, phase, wanted, passes, left, stranded>>

(* Building a replacement raises, before the try block.                    *)
ReplaceModuleRaises ==
  /\ phase = "replacing" /\ Returned /\ pending # {}
  /\ outcome' = "raised"
  /\ stranded' = stranded \cup replaced
  /\ pending' = {} /\ replaced' = {}
  /\ UNCHANGED <<lifecycle, modifier, call, completed, failed, delivered, phase, wanted, passes,
                 left, converted>>

RestoreModules_OnlyOnReturn ==
  /\ converted' = IF outcome = "returned" THEN converted \ (replaced \ Permanent)
                                            ELSE converted
  /\ replaced' = {}
  /\ UNCHANGED <<pending, stranded>>

(* The finally clause: what is not permanent is restored.  `restore` of    *)
(* each such class returns the module it replaced, and does not raise.     *)
RestoreModules ==
  /\ converted' = converted \ (replaced \ Permanent)
  /\ replaced' = {}
  /\ UNCHANGED <<pending, stranded>>

InitializeRun ==
  /\ phase = "replacing" /\ Returned /\ pending = {}
  /\ \E modifiers \in Recipes :
       /\ Initialize(modifiers)
       /\ wanted' = modifiers
  /\ phase' = "initializing"
  /\ UNCHANGED <<passes, left, moe>>

(* CalibrationPipeline.from_modifiers: the pipeline the user names, or the *)
(* inferred one.  All but the independent one calibrate all modifiers.     *)
ChoosePipeline ==
  /\ phase = "initializing" /\ Returned
  /\ passes' \in {<<recipe>>, [i \in DOMAIN recipe |-> <<recipe[i]>>]}
  /\ phase' = "next_pass"
  /\ UNCHANGED <<vars, wanted, left, moe>>

NextPass ==
  /\ phase = "next_pass" /\ Returned /\ passes # <<>>
  /\ recipe' = Head(passes)
  /\ passes' = Tail(passes)
  /\ phase' = "epoch_start"
  /\ UNCHANGED <<initialized, finalized, last_event_type, global_step, modifier, call,
                 outcome, completed, failed, delivered, wanted, left, moe>>

EpochStart ==
  /\ phase = "epoch_start" /\ Returned
  /\ FireEvent("calibration_epoch_start", 0, FALSE)
  /\ phase' = "calibrating"
  /\ left' \in 0 .. NumSubgraphs
  /\ UNCHANGED <<wanted, passes, moe>>

SequentialEpochEnd_SameSubgraph ==
  /\ phase = "calibrating" /\ Returned /\ left > 0
  /\ FireEvent("sequential_epoch_end", 0, FALSE)
  /\ UNCHANGED run

SequentialEpochEnd ==
  /\ phase = "calibrating" /\ Returned /\ left > 0
  /\ FireEvent("sequential_epoch_end", 0, FALSE)
  /\ left' = left - 1
  /\ UNCHANGED <<phase, wanted, passes, moe>>

CalibrationEpochEnd ==
  /\ phase = "calibrating" /\ Returned /\ left = 0
  /\ FireEvent("calibration_epoch_end", 0, FALSE)
  /\ phase' = "next_pass"
  /\ UNCHANGED <<wanted, passes, left, moe>>

(* Tracing raises before the epoch starts, or the data loader or a forward *)
(* pass in it.                                                             *)
CalibrationRaises ==
  /\ phase \in {"epoch_start", "calibrating"} /\ Returned
  /\ outcome' = "raised"
  /\ UNCHANGED <<lifecycle, modifier, call, completed, failed, delivered, run>>

RestoreModifiers_Forgotten == recipe' = recipe

(* patch_attr restores recipe.modifiers, exceptions or not.                *)
RestoreModifiers == recipe' = IF Patched THEN wanted ELSE recipe

PipelineReturns ==
  /\ phase = "next_pass" /\ Returned /\ passes = <<>>
  /\ RestoreModifiers
  /\ RestoreModules
  /\ phase' = "finalizing"
  /\ UNCHANGED <<initialized, finalized, last_event_type, global_step, modifier, call,
                 outcome, completed, failed, delivered, wanted, passes, left>>

FinalizeRun ==
  /\ phase = "finalizing"
  /\ Finalize
  /\ phase' = "ending"
  /\ UNCHANGED <<wanted, passes, left, moe>>

EndRun ==
  /\ phase = "ending" /\ Returned
  /\ phase' = "idle"
  /\ UNCHANGED <<vars, wanted, passes, left, moe>>

AbortRun ==
  /\ phase # "idle" /\ Idle /\ outcome = "raised"
  /\ RestoreModifiers
  /\ RestoreModules
  /\ phase' = "idle" /\ passes' = <<>> /\ left' = 0
  /\ UNCHANGED <<initialized, finalized, last_event_type, global_step, modifier, call,
                 outcome, completed, failed, delivered, wanted>>

SessionWork == Work /\ UNCHANGED run

GoOn ==
  \/ EnterMoEContext \/ ReplaceModule \/ ReplaceModuleRaises
  \/ InitializeRun \/ ChoosePipeline \/ NextPass
  \/ EpochStart \/ SequentialEpochEnd \/ CalibrationEpochEnd \/ CalibrationRaises
  \/ PipelineReturns \/ FinalizeRun \/ EndRun \/ AbortRun
  \/ SessionWork

OneshotNext == StartRun \/ GoOn

OneshotSpec == OneshotInit /\ [][OneshotNext]_oneshotVars

FairOneshotSpec == OneshotSpec /\ WF_oneshotVars(GoOn)

-----------------------------------------------------------------------------
(* Properties.                                                             *)

(* However a run ends, the next one does not leave its modifiers behind on *)
(* the model: one that was initialized is still in the session's recipe,   *)
(* or its on_finalize has run to its end or was given the chance to.       *)
NoAbandonedModifiers ==
  \A m \in Modifiers :
    modifier[m].initialized_ =>
      \/ m \in Range(IF Patched THEN wanted ELSE recipe)
      \/ completed[m].on_finalize >= 1
      \/ "finalize" \in failed[m]

(* A run that returns has applied its whole recipe, with either pipeline:  *)
(* each calibrating modifier was started once, ended once, and finalized.  *)
AppliedInFull ==
  phase = "idle" /\ finalized =>
    /\ recipe = wanted
    /\ \A m \in Range(wanted) :
         /\ completed[m].on_finalize >= 1
         /\ m \in Calibrating => completed[m].on_start = 1 /\ completed[m].on_end = 1

(* From initialize to the end of the pipeline all MoE modules are in       *)
(* calibration form, so that all experts see data; afterwards, whether the *)
(* run returned or raised anywhere, all but the permanent ones have their  *)
(* original form again ("non-permanent modules are restored to their       *)
(* original form").  Those replaced when entering the context raised are   *)
(* excepted: they stay.                                                    *)
ExpertsRestored ==
  /\ phase = "initializing" \/ Patched => Range(MoEModules) \subseteq converted
  /\ phase \in {"idle", "resetting", "finalizing", "ending"}
       => converted \subseteq Permanent \cup stranded

(* The pipeline's events are what the session accepts at that point: no    *)
(* run is stuck, each one returns or raises.                               *)
RunsEnd == phase # "idle" ~> phase = "idle"

=============================================================================
