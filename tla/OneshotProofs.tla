---------------------------- MODULE OneshotProofs ----------------------------
(***************************************************************************)
(* Proofs about Oneshot for all recipes, modifiers, MoE modules, numbers   *)
(* of subgraphs and sequences of runs.                                     *)
(*                                                                         *)
(* A run is not a behaviour of CompressionLifecycle: the pipelines write   *)
(* the session's recipe themselves (NextPass, RestoreModifiers), so IndInv *)
(* is proved again for the steps of a run.  RunInv adds where in a run     *)
(* each session call is made and what the session looks like there; the    *)
(* further invariants rest on it: ReplacedInv (MoE modules), HandedOver    *)
(* (modifiers of runs that failed) and CalibratedInv (runs that return).   *)
(***************************************************************************)
EXTENDS Oneshot, CompressionLifecycleProofs

RunTyped ==
  /\ phase \in {"idle", "resetting", "replacing", "initializing", "next_pass", "epoch_start",
                "calibrating", "finalizing", "ending"}
  /\ wanted \in Seq(Modifiers)
  /\ passes \in Seq(Seq(Modifiers))

(* Which session call may be in progress in which part of a run.           *)
CallOfPhase ==
  /\ Running("reset") => phase = "resetting"
  /\ Running("initialize") => phase = "initializing"
  /\ Running("event") => phase \in {"calibrating", "next_pass"}
  /\ Running("finalize") => phase = "ending"

Fresh == recipe = <<>> /\ ~initialized /\ ~finalized

(* What the session looks like in each part of a run.                      *)
SessionOfPhase ==
  /\ phase = "resetting" /\ Idle => Fresh /\ outcome = "returned"
  /\ phase = "replacing" => Fresh
  /\ phase \in {"initializing", "finalizing"} => recipe = wanted /\ ~finalized
  /\ phase = "finalizing" => outcome = "returned"
  /\ Patched => ~finalized
  /\ phase = "ending" => recipe = wanted /\ (finalized => Returned)

RunInv ==
  /\ IndInv
  /\ RunTyped
  /\ CallOfPhase
  /\ SessionOfPhase

(* What is in calibration form, and where it is still known to be.         *)
ReplacedInv ==
  /\ pending \subseteq DOMAIN MoEModules
  /\ converted \subseteq Permanent \cup stranded \cup replaced
  /\ phase \in {"idle", "resetting", "finalizing", "ending"} => replaced = {}
  /\ phase = "replacing" /\ outcome = "returned" =>
       \A i \in DOMAIN MoEModules : i \in pending \/ MoEModules[i] \in converted
  /\ phase = "initializing" \/ Patched => Range(MoEModules) \subseteq converted

(* on_finalize of m has run to its end or has raised.                      *)
Released(m) == completed[m]["on_finalize"] >= 1 \/ "finalize" \in failed[m]

(* The modifiers of the run, also while its recipe lists those of a pass.  *)
Listed == Range(IF Patched THEN wanted ELSE recipe)

(* An initialized modifier is in the recipe that reset goes through, and   *)
(* while it does, reset has visited it already or will.                    *)
HandedOver ==
  /\ \A m \in Modifiers :
       /\ modifier[m].finalized_ => completed[m]["on_finalize"] >= 1
       /\ modifier[m].initialized_ => m \in Listed \/ Released(m)
  /\ Running("initialize") => Range(call.rest) \subseteq Range(recipe)
  /\ Running("reset") =>
       \A m \in Modifiers : modifier[m].initialized_ => m \in Range(call.rest) \/ Released(m)

(* The flags of m say exactly which of its hooks ran to their end.         *)
Exact(m) ==
  /\ completed[m]["on_start"] = IF modifier[m].started_ THEN 1 ELSE 0
  /\ completed[m]["on_end"] = IF modifier[m].ended_ THEN 1 ELSE 0

Untouched(m) == Exact(m) /\ ~modifier[m].started_ /\ ~modifier[m].ended_

Calibrated(m) == modifier[m].started_ /\ modifier[m].ended_

InSomePass(m) == \E pass \in Range(passes) : m \in Range(pass)

(* The event is being fired, and m has not been given it yet.              *)
Awaits(m, event) ==
  Running("event") /\ call.event = event /\ m \in Range(call.rest)

(* Where m stands in the calibration of a run that has not failed.         *)
Progress(m) ==
  /\ Exact(m) \/ (Running("initialize") /\ m \in Range(call.rest))
  /\ phase = "next_pass" =>
       \/ Calibrated(m) \/ InSomePass(m)
       \/ modifier[m].started_ /\ Awaits(m, "calibration_epoch_end")
  /\ phase = "epoch_start" => Calibrated(m) \/ InSomePass(m) \/ m \in Range(recipe)
  /\ phase = "calibrating" =>
       \/ Calibrated(m) \/ InSomePass(m)
       \/ m \in Range(recipe) /\ (modifier[m].started_ \/ Awaits(m, "calibration_epoch_start"))
  /\ phase \in {"finalizing", "ending"} => Calibrated(m)

(* The run applies its recipe, and nothing has raised.                     *)
Applying ==
  /\ phase \in {"initializing", "finalizing", "ending"} \/ Patched
  /\ ~Idle \/ outcome = "returned"

NoneTouchedEarly == \A m \in Calibrating : ~modifier[m].initialized_ => Untouched(m)

CalibratedInv ==
  /\ NoneTouchedEarly
  /\ Applying => \A m \in Range(wanted) \cap Calibrating : Progress(m)
  /\ AppliedInFull

-----------------------------------------------------------------------------
(* Where a run is, and its session.                                        *)

(* A pipeline may give the session another recipe as long as the session   *)
(* is not finalized; that a call raised is no matter of the invariant.     *)
LEMMA OutsideCall ==
  ASSUME IndInv, Idle, recipe' \in Seq(Modifiers), recipe' = recipe \/ ~finalized,
         UNCHANGED <<initialized, finalized, last_event_type, global_step, modifier, call,
                     completed, failed, delivered>>,
         outcome' \in {"returned", "raised"}
  PROVE  IndInv'
<1>1. call' = NoCall
  BY DEF Idle
<1>2. Visited' /\ ~Running("finalize")'
  BY <1>1, NotFinalizing
<1>3. FinalizedIsTrue'
  <2>1. CASE recipe' = recipe
    BY <1>1, <2>1, StillFinalized
  <2>2. CASE ~finalized
    BY <1>2, <2>2 DEF FinalizedIsTrue
  <2> QED
    BY <2>1, <2>2
<1>4. DeliveredFirst'
  BY SessionParts DEF DeliveredFirst
<1> QED
  BY <1>1, <1>2, <1>3, <1>4, SessionParts, OtherStep

(* A step of a call in progress goes on with the call or ends it.  Only    *)
(* reset writes the recipe, and only finalize says that it has finalized.  *)
LEMMA WorkEffect ==
  ASSUME IndInv, Work
  PROVE  /\ call # NoCall /\ call \in CallRecord
         /\ \/ call' = NoCall
            \/ /\ call' # NoCall /\ call' \in CallRecord
               /\ call'.op = call.op /\ call'.event = call.event
               /\ call.rest # <<>> /\ call'.rest = Tail(call.rest)
               /\ outcome' = outcome
         /\ call.op # "reset" => recipe' = recipe
         /\ call.op = "reset" /\ call' = NoCall => Fresh' /\ outcome' = "returned"
         /\ call.op = "reset" /\ call' # NoCall => recipe' = recipe
         /\ finalized' =>
              finalized \/ (call.op = "finalize" /\ call' = NoCall /\ outcome' = "returned")
<1>1. ASSUME NEW op, Visiting(op), Raise \/ Continue, op = "reset" => Continue,
             UNCHANGED <<lifecycle, delivered>>
      PROVE  /\ call # NoCall /\ call \in CallRecord /\ call.op = op
             /\ \/ call' = NoCall /\ op # "reset"
                \/ /\ call' # NoCall /\ call' \in CallRecord
                   /\ call'.op = call.op /\ call'.event = call.event
                   /\ call.rest # <<>> /\ call'.rest = Tail(call.rest)
                   /\ outcome' = outcome
             /\ recipe' = recipe /\ finalized' = finalized
  <2>1. call # NoCall /\ call \in CallRecord /\ call.op = op /\ call.rest # <<>>
    BY <1>1, HeadIsModifier
  <2>2. CASE Continue
    BY <1>1, <2>1, <2>2, ContinueEffect, NoCallAssumption DEF Continue, lifecycle
  <2>3. CASE Raise /\ op # "reset"
    BY <1>1, <2>1, <2>3 DEF Raise, lifecycle
  <2> QED
    BY <1>1, <2>2, <2>3
<1>2. CASE InitializeModifier
  <2>1. Visiting("initialize") /\ (Raise \/ Continue) /\ UNCHANGED <<lifecycle, delivered>>
    BY <1>2, Zenon DEF InitializeModifier, ModifierInitialize
  <2> QED
    BY <1>1, <2>1
<1>3. CASE UpdateModifier
  <2>1. Visiting("event") /\ (Raise \/ Continue) /\ UNCHANGED <<lifecycle, delivered>>
    BY <1>3 DEF UpdateModifier, UpdateEvent
  <2> QED
    BY <1>1, <2>1
<1>4. CASE FinalizeModifier
  <2>1. Visiting("finalize") /\ (Raise \/ Continue) /\ UNCHANGED <<lifecycle, delivered>>
    BY <1>4 DEF FinalizeModifier
  <2> QED
    BY <1>1, <2>1
<1>5. CASE ResetModifier
  <2>1. Visiting("reset") /\ Continue /\ UNCHANGED <<lifecycle, delivered>>
    BY <1>5 DEF ResetModifier
  <2> QED
    BY <1>1, <2>1
<1>6. CASE InitializeReturns
  BY <1>6, SessionParts DEF InitializeReturns, Return, Running
<1>7. CASE EventReturns
  BY <1>7, SessionParts DEF EventReturns, Return, Running, lifecycle
<1>8. CASE FinalizeReturns
  BY <1>8, SessionParts DEF FinalizeReturns, Return, Running
<1>9. CASE ResetReturns
  BY <1>9, SessionParts DEF ResetReturns, Return, Running, Fresh
<1> QED
  BY <1>2, <1>3, <1>4, <1>5, <1>6, <1>7, <1>8, <1>9 DEF Work

LEMMA RunParts ==
  ASSUME RunInv
  PROVE  /\ IndInv /\ wanted \in Seq(Modifiers) /\ passes \in Seq(Seq(Modifiers))
         /\ recipe \in Seq(Modifiers) /\ CallOfPhase /\ SessionOfPhase
         /\ outcome \in {"returned", "raised"}
BY SessionParts DEF RunInv, RunTyped

(* Steps of a run between session calls, for IndInv.                       *)
LEMMA RunKeepsSession ==
  ASSUME RunInv, OneshotNext
  PROVE  IndInv'
<1>1. CASE StartRun
  BY <1>1, RunParts, ResetStep DEF StartRun
<1>2. CASE EnterMoEContext \/ ReplaceModule \/ ChoosePipeline \/ EndRun
  BY <1>2, RunParts, NextStep DEF EnterMoEContext, ReplaceModule, ChoosePipeline, EndRun
<1>3. CASE ReplaceModuleRaises \/ CalibrationRaises
  BY <1>3, RunParts, OutsideCall DEF ReplaceModuleRaises, CalibrationRaises, Returned, lifecycle
<1>4. CASE InitializeRun
  BY <1>4, RunParts, InitializeStep DEF InitializeRun
<1>5. CASE NextPass
  <2>1. Head(passes) \in Seq(Modifiers)
    BY <1>5, RunParts DEF NextPass
  <2>2. ~finalized
    BY <1>5, RunParts DEF NextPass, SessionOfPhase, Patched
  <2> QED
    BY <1>5, <2>1, <2>2, RunParts, OutsideCall DEF NextPass, Returned
<1>6. CASE EpochStart \/ SequentialEpochEnd \/ CalibrationEpochEnd
  <2>1. PICK event \in EventTypes : FireEvent(event, 0, FALSE)
    BY <1>6, OneshotEventsAssumption
       DEF EpochStart, SequentialEpochEnd, CalibrationEpochEnd, CalibrationEvents
  <2> QED
    BY <2>1, RunParts, FireEventStep, OneshotEventsAssumption
<1>7. CASE PipelineReturns \/ AbortRun
  <2>1. recipe' \in Seq(Modifiers) /\ (recipe' = recipe \/ ~finalized)
    BY <1>7, RunParts DEF PipelineReturns, AbortRun, RestoreModifiers, SessionOfPhase
  <2> QED
    BY <1>7, <2>1, RunParts, OutsideCall DEF PipelineReturns, AbortRun, Returned
<1>8. CASE FinalizeRun
  BY <1>8, RunParts, FinalizeStep DEF FinalizeRun
<1>9. CASE SessionWork
  BY <1>9, RunParts, NextStep DEF SessionWork, Next
<1> QED
  BY <1>1, <1>2, <1>3, <1>4, <1>5, <1>6, <1>7, <1>8, <1>9 DEF OneshotNext, GoOn

(* A session call in progress tells where the run is.                      *)
LEMMA PhaseOfWork ==
  ASSUME RunInv, Work
  PROVE  \/ call.op = "reset" /\ phase = "resetting"
         \/ call.op = "initialize" /\ phase = "initializing"
         \/ call.op = "event" /\ phase \in {"calibrating", "next_pass"}
         \/ call.op = "finalize" /\ phase = "ending"
<1>1. call # NoCall /\ call \in CallRecord
  BY RunParts, WorkEffect
<1>2. call.op \in {"initialize", "event", "finalize", "reset"}
  BY <1>1 DEF CallRecord
<1> QED
  BY <1>1, <1>2, RunParts DEF CallOfPhase, Running

LEMMA WorkKeepsRun ==
  ASSUME RunInv, SessionWork
  PROVE  CallOfPhase' /\ SessionOfPhase'
<1>1. Work /\ phase' = phase /\ wanted' = wanted
  BY DEF SessionWork, run
<1>2. CallOfPhase'
  BY <1>1, WorkEffect, PhaseOfWork, RunParts DEF CallOfPhase, Running
<1>3. SessionOfPhase'
  <2>1. CASE call.op = "reset"
    BY <1>1, <2>1, WorkEffect, PhaseOfWork, RunParts
       DEF SessionOfPhase, Idle, Patched, Fresh
  <2>2. CASE call.op = "initialize" \/ call.op = "event"
    BY <1>1, <2>2, WorkEffect, PhaseOfWork, RunParts
       DEF SessionOfPhase, Idle, Patched, Fresh
  <2>3. CASE call.op = "finalize"
    <3>1. phase = "ending" /\ recipe' = wanted
      BY <1>1, <2>3, WorkEffect, PhaseOfWork, RunParts DEF SessionOfPhase
    <3>2. finalized' => call' = NoCall /\ outcome' = "returned"
      BY <1>1, <2>3, <3>1, WorkEffect, RunParts DEF SessionOfPhase, Returned, Idle
    <3> QED
      BY <1>1, <3>1, <3>2 DEF SessionOfPhase, Patched, Returned, Idle
  <2> QED
    BY <1>1, <2>1, <2>2, <2>3, PhaseOfWork
<1> QED
  BY <1>2, <1>3

LEMMA StepKeepsPhases ==
  ASSUME RunInv, OneshotNext
  PROVE  CallOfPhase' /\ SessionOfPhase'
<1>1. CASE StartRun
  <2>1. call'.op = "reset" /\ call' # NoCall /\ phase' = "resetting"
    BY <1>1, RunParts, BeginEffect, NoCallAssumption DEF StartRun, Reset
  <2> QED
    BY <2>1 DEF CallOfPhase, SessionOfPhase, Running, Idle, Patched
<1>2. CASE EnterMoEContext \/ ReplaceModule \/ ReplaceModuleRaises \/ ChoosePipeline \/ EndRun
           \/ CalibrationRaises \/ NextPass \/ PipelineReturns
  <2>1. Idle /\ call' = call
    BY <1>2 DEF EnterMoEContext, ReplaceModule, ReplaceModuleRaises, ChoosePipeline, EndRun,
                CalibrationRaises, NextPass, PipelineReturns, Returned, vars
  <2>2. CallOfPhase'
    BY <2>1 DEF CallOfPhase, Running, Idle
  <2>3. SessionOfPhase'
    <3>1. CASE CalibrationRaises
      BY <3>1, RunParts DEF CalibrationRaises, SessionOfPhase, Patched, Fresh, lifecycle, run
    <3>2. CASE ~CalibrationRaises
      BY <1>2, <3>2, RunParts
         DEF EnterMoEContext, ReplaceModule, ReplaceModuleRaises, ChoosePipeline, EndRun,
             NextPass, PipelineReturns, RestoreModifiers, SessionOfPhase, Returned, Idle,
             Patched, Fresh, vars, lifecycle, run
    <3> QED
      BY <3>1, <3>2
  <2> QED
    BY <2>2, <2>3
<1>3. CASE InitializeRun
  BY <1>3, RunParts DEF InitializeRun, Initialize, Begin, CallOfPhase, SessionOfPhase, Running,
                        Idle, Patched, Fresh
<1>4. CASE EpochStart \/ SequentialEpochEnd \/ CalibrationEpochEnd
  <2>1. /\ call'.op = "event" /\ UNCHANGED <<finalized, recipe, wanted>>
        /\ phase' \in {"calibrating", "next_pass"} /\ ~finalized
    BY <1>4 DEF EpochStart, SequentialEpochEnd, CalibrationEpochEnd, FireEvent, Begin, Accepting,
                run
  <2> QED
    BY <2>1 DEF CallOfPhase, SessionOfPhase, Running, Patched
<1>5. CASE FinalizeRun
  <2>1. call'.op = "finalize" /\ UNCHANGED <<finalized, recipe, wanted>>
        /\ phase' = "ending" /\ phase = "finalizing"
    BY <1>5 DEF FinalizeRun, Finalize, Begin, lifecycle
  <2> QED
    BY <2>1, RunParts DEF CallOfPhase, SessionOfPhase, Running, Patched
<1>6. CASE AbortRun
  BY <1>6 DEF AbortRun, CallOfPhase, SessionOfPhase, Running, Idle, Patched
<1>7. CASE SessionWork
  BY <1>7, WorkKeepsRun
<1> QED
  BY <1>1, <1>2, <1>3, <1>4, <1>5, <1>6, <1>7 DEF OneshotNext, GoOn

LEMMA StepKeepsTypes ==
  ASSUME RunInv, OneshotNext
  PROVE  RunTyped'
<1>0. phase' \in {"idle", "resetting", "replacing", "initializing", "next_pass", "epoch_start",
                  "calibrating", "finalizing", "ending"}
  BY DEF RunInv, RunTyped, OneshotNext, GoOn, StartRun, EnterMoEContext, ReplaceModule,
         ReplaceModuleRaises, InitializeRun, ChoosePipeline, NextPass, EpochStart,
         SequentialEpochEnd, CalibrationEpochEnd, CalibrationRaises, PipelineReturns, FinalizeRun,
         EndRun, AbortRun, SessionWork, run
<1>1. CASE InitializeRun
  BY <1>0, <1>1, RunParts, ModifiersAssumption DEF InitializeRun, RunTyped
<1>2. CASE ChoosePipeline
  <2>1. <<recipe>> \in Seq(Seq(Modifiers))
    BY RunParts
  <2>2. [i \in DOMAIN recipe |-> <<recipe[i]>>] \in Seq(Seq(Modifiers))
    <3>1. /\ DOMAIN recipe = 1 .. Len(recipe) /\ Len(recipe) \in Nat
          /\ \A i \in 1 .. Len(recipe) : <<recipe[i]>> \in Seq(Modifiers)
      BY RunParts
    <3> QED
      BY <3>1
  <2> QED
    BY <1>0, <1>2, <2>1, <2>2, RunParts DEF ChoosePipeline, RunTyped
<1>3. CASE NextPass
  BY <1>0, <1>3, RunParts DEF NextPass, RunTyped
<1>4. CASE UNCHANGED <<wanted, passes>>
  BY <1>0, <1>4, RunParts DEF RunTyped
<1>5. CASE AbortRun
  <2>1. wanted' = wanted /\ passes' = <<>>
    BY <1>5 DEF AbortRun
  <2>2. <<>> \in Seq(Seq(Modifiers))
    OBVIOUS
  <2> QED
    BY <1>0, <2>1, <2>2, RunParts DEF RunTyped
<1> QED
  BY <1>1, <1>2, <1>3, <1>4, <1>5
     DEF OneshotNext, GoOn, StartRun, EnterMoEContext, ReplaceModule, ReplaceModuleRaises,
         EpochStart, SequentialEpochEnd, CalibrationEpochEnd, CalibrationRaises,
         PipelineReturns, FinalizeRun, EndRun, SessionWork, run

LEMMA RunStep == RunInv /\ [OneshotNext]_oneshotVars => RunInv'
<1>1. CASE RunInv /\ OneshotNext
  BY <1>1, RunKeepsSession, StepKeepsPhases, StepKeepsTypes DEF RunInv
<1>2. CASE RunInv /\ UNCHANGED oneshotVars
  <2>1. UNCHANGED vars
    BY <1>2 DEF oneshotVars
  <2>2. IndInv'
    BY <1>2, <2>1, NextStep DEF RunInv
  <2>3. RunTyped' /\ CallOfPhase' /\ SessionOfPhase'
    <3>1. UNCHANGED <<recipe, call, outcome, initialized, finalized, phase, wanted, passes>>
      BY <1>2 DEF oneshotVars, run, vars, lifecycle
    <3>2. RunTyped'
      BY <1>2, <3>1 DEF RunInv, RunTyped
    <3>3. CallOfPhase' /\ SessionOfPhase'
      BY <1>2, <3>1, RunParts DEF CallOfPhase, SessionOfPhase, Running, Idle, Returned, Patched,
                                  Fresh
    <3> QED
      BY <3>2, <3>3
  <2> QED
    BY <2>2, <2>3 DEF RunInv
<1> QED
  BY <1>1, <1>2

LEMMA InitRunInv == OneshotInit => RunInv
<1>1. OneshotInit => IndInv
  BY InitIndInv DEF OneshotInit
<1>2. OneshotInit => RunTyped /\ CallOfPhase /\ SessionOfPhase
  BY DEF OneshotInit, Init, RunTyped, CallOfPhase, SessionOfPhase, Running, Patched
<1> QED
  BY <1>1, <1>2 DEF RunInv

LEMMA RunInvariance == OneshotSpec => []RunInv
BY InitRunInv, RunStep, PTL DEF OneshotSpec


(* A run writes the session's recipe behind the lifecycle's back; what the *)
(* lifecycle promises of hooks and of `finalized` holds all the same.      *)
THEOREM RunsKeepTheLifecycle ==
  OneshotSpec => [](StartsAndEndsOnce /\ FinalizesOnceWhenReported /\ FinalizedMeansAll)
<1>1. RunInv => StartsAndEndsOnce /\ FinalizesOnceWhenReported /\ FinalizedMeansAll
  BY InvariantSays DEF RunInv
<1> QED
  BY <1>1, RunInvariance, PTL

-----------------------------------------------------------------------------
(* The MoE modules.                                                        *)

LEMMA ReplacedStep ==
  ASSUME RunInv, ReplacedInv, OneshotNext
  PROVE  ReplacedInv'
<1>1. CASE StartRun
  BY <1>1 DEF StartRun, ReplacedInv, Patched, moe
<1>2. CASE EnterMoEContext
  BY <1>2 DEF EnterMoEContext, ReplacedInv, Patched, moe
<1>3. CASE ReplaceModule
  <2>1. PICK i \in pending : /\ replaced' = replaced \cup {MoEModules[i]}
                             /\ converted' = converted \cup {MoEModules[i]}
                             /\ pending' = pending \ {i}
    BY <1>3 DEF ReplaceModule
  <2>2. phase = "replacing" /\ phase' = "replacing" /\ outcome = "returned" /\ stranded' = stranded
    BY <1>3 DEF ReplaceModule, Returned
  <2>3. \A j \in DOMAIN MoEModules : j \in pending' \/ MoEModules[j] \in converted'
    BY <2>1, <2>2 DEF ReplacedInv
  <2> QED
    BY <2>1, <2>2, <2>3 DEF ReplacedInv, Patched
<1>4. CASE ReplaceModuleRaises
  BY <1>4 DEF ReplaceModuleRaises, ReplacedInv, Patched
<1>5. CASE InitializeRun
  <2>1. \A i \in DOMAIN MoEModules : MoEModules[i] \in converted
    BY <1>5 DEF InitializeRun, ReplacedInv, Returned
  <2>2. Range(MoEModules) \subseteq converted
    BY <2>1 DEF Range
  <2> QED
    BY <1>5, <2>2 DEF InitializeRun, ReplacedInv, Patched, moe
<1>6. CASE ChoosePipeline \/ NextPass \/ EpochStart \/ SequentialEpochEnd \/ CalibrationEpochEnd
           \/ CalibrationRaises \/ FinalizeRun \/ EndRun
  <2>1. UNCHANGED moe
    BY <1>6 DEF ChoosePipeline, NextPass, EpochStart, SequentialEpochEnd, CalibrationEpochEnd,
                CalibrationRaises, FinalizeRun, EndRun, run
  <2>2. /\ phase' # "replacing"
        /\ phase' = "initializing" \/ Patched' => phase = "initializing" \/ Patched
        /\ phase' \in {"idle", "resetting", "finalizing", "ending"}
             => phase \in {"finalizing", "ending"}
    BY <1>6 DEF ChoosePipeline, NextPass, EpochStart, SequentialEpochEnd, CalibrationEpochEnd,
                CalibrationRaises, FinalizeRun, EndRun, run, Patched
  <2> QED
    BY <2>1, <2>2 DEF ReplacedInv, moe
<1>7. CASE PipelineReturns \/ AbortRun
  BY <1>7 DEF PipelineReturns, AbortRun, RestoreModules, ReplacedInv, Patched
<1>8. CASE SessionWork
  <2>1. UNCHANGED <<phase, moe>> /\ phase # "replacing"
    BY <1>8, PhaseOfWork DEF SessionWork, run
  <2> QED
    BY <2>1 DEF ReplacedInv, Patched, moe
<1> QED
  BY <1>1, <1>2, <1>3, <1>4, <1>5, <1>6, <1>7, <1>8 DEF OneshotNext, GoOn

(* In any sequence of runs, wherever they fail, every MoE module is in     *)
(* calibration form while a run calibrates, and when it is over none but   *)
(* the permanent ones, and those of a failed entry, is.                    *)
THEOREM MoEModulesAreRestored == OneshotSpec => []ExpertsRestored
<1>1. OneshotInit => ReplacedInv
  BY DEF OneshotInit, ReplacedInv, Patched
<1>2. RunInv /\ ReplacedInv /\ [OneshotNext]_oneshotVars => ReplacedInv'
  <2>1. CASE UNCHANGED oneshotVars
    BY <2>1 DEF oneshotVars, run, vars, moe, ReplacedInv, Patched
  <2> QED
    BY <2>1, ReplacedStep
<1>3. ReplacedInv => ExpertsRestored
  BY DEF ReplacedInv, ExpertsRestored
<1> QED
  BY <1>1, <1>2, <1>3, RunInvariance, PTL DEF OneshotSpec


-----------------------------------------------------------------------------
(* What a visit does to the modifier it visits, and to no other.           *)

OnlyVisits(m) ==
  /\ \A n \in Modifiers \ {m} : /\ modifier'[n] = modifier[n]
                                /\ completed'[n] = completed[n]
                                /\ failed'[n] = failed[n]
  /\ failed[m] \subseteq failed'[m]
  /\ \A h \in Hooks : completed[m][h] <= completed'[m][h]

(* Modifier.initialize does not go on with a modifier that is initialized, *)
(* and starts only one whose start step is 0.                              *)
LEMMA InitializeResult ==
  ASSUME ModifiersTyped, NEW m \in Modifiers, ModifierInitialize(m)
  PROVE  /\ OnlyVisits(m)
         /\ modifier'[m].finalized_ = modifier[m].finalized_
         /\ modifier'[m].ended_ = modifier[m].ended_
         /\ completed'[m]["on_end"] = completed[m]["on_end"]
         /\ modifier[m].initialized_ => modifier'[m].initialized_
         /\ Raise \/ (Continue /\ ~modifier[m].initialized_)
         /\ ~ShouldStart(m, 0) =>
              /\ modifier'[m].started_ = modifier[m].started_
              /\ completed'[m]["on_start"] = completed[m]["on_start"]
<1>1. /\ modifier[m] \in Flags /\ completed[m] \in [Hooks -> 0 .. 2]
      /\ \A h \in Hooks : completed[m][h] \in 0 .. 2
      /\ ShouldStart(m, 0) \in BOOLEAN
  <2>1. modifier[m] \in Flags /\ completed[m] \in [Hooks -> 0 .. 2]
    BY DEF ModifiersTyped
  <2> QED
    BY <2>1 DEF ShouldStart
<1>2. CASE Raise /\ UNCHANGED <<modifier, completed, failed>>
           /\ (modifier[m].initialized_ \/ modifier[m].finalized_)
  BY <1>1, <1>2 DEF OnlyVisits
<1>3. CASE Raise /\ Fail(m, modifier[m]) /\ UNCHANGED completed
  BY <1>1, <1>3 DEF OnlyVisits, Fail, Set, ModifiersTyped
<1>4. CASE /\ ShouldStart(m, 0) /\ Raise /\ UNCHANGED completed
           /\ ~modifier[m].initialized_
           /\ \E result \in BOOLEAN :
                Fail(m, StartFailed(m, [modifier[m] EXCEPT !.initialized_ = result]))
  <2>0. PICK result \in BOOLEAN :
          Fail(m, StartFailed(m, [modifier[m] EXCEPT !.initialized_ = result]))
    BY <1>4
  <2>1. StartFailed(m, [modifier[m] EXCEPT !.initialized_ = result]) \in Flags
    BY <1>1 DEF StartFailed, Flags
  <2>2. /\ modifier'[m] = StartFailed(m, [modifier[m] EXCEPT !.initialized_ = result])
        /\ \A n \in Modifiers \ {m} : modifier'[n] = modifier[n] /\ failed'[n] = failed[n]
        /\ failed[m] \subseteq failed'[m]
    BY <2>0, <2>1 DEF Fail, Set, ModifiersTyped
  <2>3. /\ modifier'[m].finalized_ = modifier[m].finalized_
        /\ modifier'[m].ended_ = modifier[m].ended_
    BY <1>1, <2>2 DEF StartFailed, Flags
  <2> QED
    BY <1>1, <1>4, <2>2, <2>3 DEF OnlyVisits
<1>5. ASSUME NEW result \in BOOLEAN, ~modifier[m].initialized_, Continue,
             Set(m, [modifier[m] EXCEPT !.initialized_ = result,
                                        !.started_ = @ \/ ShouldStart(m, 0)]),
             Ran(m, IF ShouldStart(m, 0) THEN {"on_start"} ELSE {}),
             failed' = IF result THEN failed ELSE [failed EXCEPT ![m] = @ \cup {"refused"}]
      PROVE  /\ OnlyVisits(m)
             /\ modifier'[m].finalized_ = modifier[m].finalized_
             /\ modifier'[m].ended_ = modifier[m].ended_
             /\ completed'[m]["on_end"] = completed[m]["on_end"]
             /\ ~ShouldStart(m, 0) =>
                  /\ modifier'[m].started_ = modifier[m].started_
                  /\ completed'[m]["on_start"] = completed[m]["on_start"]
  <2> DEFINE starts == ShouldStart(m, 0)
             after == [modifier[m] EXCEPT !.initialized_ = result, !.started_ = @ \/ starts]
  <2>1. /\ after \in Flags /\ after.finalized_ = modifier[m].finalized_
        /\ after.ended_ = modifier[m].ended_
        /\ ~starts => after.started_ = modifier[m].started_
    BY <1>1 DEF Flags
  <2>2. modifier'[m] = after /\ \A n \in Modifiers \ {m} : modifier'[n] = modifier[n]
    BY <1>5, <2>1, SetEffect DEF ModifiersTyped
  <2> HIDE DEF after
  <2>3. /\ \A n \in Modifiers \ {m} : completed'[n] = completed[n]
        /\ completed'[m]["on_start"] = IF starts /\ completed[m]["on_start"] < 2
                                         THEN completed[m]["on_start"] + 1
                                         ELSE completed[m]["on_start"]
        /\ completed'[m]["on_end"] = completed[m]["on_end"]
        /\ completed'[m]["on_finalize"] = completed[m]["on_finalize"]
    BY <1>5, RanEffect DEF ModifiersTyped, Hooks
  <2>4. \A h \in Hooks : completed[m][h] <= completed'[m][h]
    BY <1>1, <2>3 DEF Hooks
  <2>5. failed[m] \subseteq failed'[m] /\ \A n \in Modifiers \ {m} : failed'[n] = failed[n]
    BY <1>5 DEF ModifiersTyped
  <2> QED
    BY <2>1, <2>2, <2>3, <2>4, <2>5 DEF OnlyVisits
<1> QED
  BY <1>2, <1>3, <1>4, <1>5, ZenonT(30) DEF ModifierInitialize


LEMMA ExactParts ==
  ASSUME NEW m \in Modifiers, completed[m] \in [Hooks -> 0 .. 2]
  PROVE  /\ Exact(m) /\ modifier[m].started_ => completed[m]["on_start"] = 1
         /\ Exact(m) /\ ~modifier[m].started_ => completed[m]["on_start"] = 0
         /\ Exact(m) /\ modifier[m].ended_ => completed[m]["on_end"] = 1
         /\ Exact(m) /\ ~modifier[m].ended_ => completed[m]["on_end"] = 0
BY DEF Exact

(* Modifier.update_event goes on only with an initialized modifier, whose  *)
(* flags follow the hooks that run; when one raises, the call is over.     *)
LEMMA UpdateResult ==
  ASSUME ModifiersTyped, NEW m \in Modifiers, NEW event, UpdateEvent(m, event)
  PROVE  /\ OnlyVisits(m)
         /\ modifier'[m].finalized_ = modifier[m].finalized_
         /\ modifier'[m].initialized_ = modifier[m].initialized_
         /\ Raise \/ (Continue /\ modifier[m].initialized_)
         /\ ~modifier[m].initialized_ =>
              modifier'[m] = modifier[m] /\ completed'[m] = completed[m]
         /\ Continue /\ ~Raise =>
              /\ Exact(m) => Exact(m)'
              /\ modifier[m].started_ => modifier'[m].started_
              /\ modifier[m].ended_ => modifier'[m].ended_
              /\ m \in Calibrating /\ event = "calibration_epoch_start" => modifier'[m].started_
              /\ m \in Calibrating /\ event = "calibration_epoch_end" => modifier'[m].ended_
<1> DEFINE hooks == (IF Starts(m, event) THEN {"on_start"} ELSE {})
                      \cup (IF Ends(m, event) THEN {"on_end"} ELSE {})
           updated == [modifier[m] EXCEPT !.started_ = @ \/ "on_start" \in hooks,
                                          !.ended_ = @ \/ "on_end" \in hooks]
<1>1. /\ modifier[m] \in Flags /\ completed[m] \in [Hooks -> 0 .. 2]
      /\ \A h \in Hooks : completed[m][h] \in 0 .. 2
  <2>1. modifier[m] \in Flags /\ completed[m] \in [Hooks -> 0 .. 2]
    BY DEF ModifiersTyped
  <2> QED
    BY <2>1
<1>2. CASE Raise /\ UNCHANGED <<modifier, completed, failed>>
           /\ (~modifier[m].initialized_ \/ modifier[m].finalized_)
  BY <1>1, <1>2 DEF OnlyVisits
<1>3. ASSUME modifier[m].initialized_, Raise, UNCHANGED completed,
             NEW after \in {modifier[m], StartFailed(m, modifier[m]), EndFailed(m, modifier[m])},
             Fail(m, after)
      PROVE  /\ OnlyVisits(m)
             /\ modifier'[m].finalized_ = modifier[m].finalized_
             /\ modifier'[m].initialized_ = modifier[m].initialized_
  <2>1. /\ after \in Flags /\ after.finalized_ = modifier[m].finalized_
        /\ after.initialized_ = modifier[m].initialized_
    BY <1>1, <1>3 DEF StartFailed, EndFailed, Flags
  <2>2. /\ modifier'[m] = after
        /\ \A n \in Modifiers \ {m} : modifier'[n] = modifier[n] /\ failed'[n] = failed[n]
        /\ failed[m] \subseteq failed'[m]
    BY <1>3, <2>1 DEF Fail, Set, ModifiersTyped
  <2>3. completed' = completed
    BY <1>3
  <2>4. OnlyVisits(m)
    BY <1>1, <2>2, <2>3 DEF OnlyVisits
  <2> QED
    BY <2>1, <2>2, <2>4
<1>4. CASE /\ modifier[m].initialized_ /\ Set(m, updated) /\ Ran(m, hooks)
           /\ \/ Continue /\ UNCHANGED failed
              \/ Raise /\ failed' = [failed EXCEPT ![m] = @ \cup {"raised"}]
  <2> DEFINE starts == "on_start" \in hooks
             ends == "on_end" \in hooks
  <2>0. /\ starts <=> Starts(m, event)
        /\ ends <=> Ends(m, event)
        /\ "on_finalize" \notin hooks
    OBVIOUS
  <2>1. /\ starts => ~modifier[m].started_
        /\ ends => ~modifier[m].ended_
        /\ m \in Calibrating /\ event = "calibration_epoch_start" => starts \/ modifier[m].started_
        /\ m \in Calibrating /\ event = "calibration_epoch_end" => ends \/ modifier[m].ended_
    BY <2>0 DEF Starts, Ends
  <2> HIDE DEF hooks
  <2>2. /\ updated \in Flags
        /\ updated.initialized_ = modifier[m].initialized_
        /\ updated.finalized_ = modifier[m].finalized_
        /\ updated.started_ <=> modifier[m].started_ \/ starts
        /\ updated.ended_ <=> modifier[m].ended_ \/ ends
    BY <1>1 DEF Flags
  <2> HIDE DEF updated
  <2>3. modifier'[m] = updated /\ \A n \in Modifiers \ {m} : modifier'[n] = modifier[n]
    BY <1>4, <2>2, SetEffect DEF ModifiersTyped
  <2>4. /\ \A n \in Modifiers \ {m} : completed'[n] = completed[n]
        /\ completed'[m]["on_start"] = IF starts /\ completed[m]["on_start"] < 2
                                         THEN completed[m]["on_start"] + 1
                                         ELSE completed[m]["on_start"]
        /\ completed'[m]["on_end"] = IF ends /\ completed[m]["on_end"] < 2
                                       THEN completed[m]["on_end"] + 1
                                       ELSE completed[m]["on_end"]
        /\ completed'[m]["on_finalize"] = completed[m]["on_finalize"]
    BY <1>4, <2>0, RanEffect DEF ModifiersTyped, Hooks
  <2>5. OnlyVisits(m)
    <3>1. \A h \in Hooks : completed[m][h] <= completed'[m][h]
      BY <1>1, <2>4 DEF Hooks
    <3>2. failed[m] \subseteq failed'[m] /\ \A n \in Modifiers \ {m} : failed'[n] = failed[n]
      BY <1>4 DEF ModifiersTyped
    <3> QED
      BY <2>3, <2>4, <3>1, <3>2 DEF OnlyVisits
  <2>6. Exact(m) => Exact(m)'
    <3> HIDE DEF starts, ends
    <3> QED
      BY <1>1, <2>1, <2>2, <2>3, <2>4 DEF Exact, Hooks
  <2> QED
    BY <1>4, <2>1, <2>2, <2>3, <2>5, <2>6
<1> QED
  <2>1. CASE Raise /\ UNCHANGED completed /\ modifier[m].initialized_
             /\ \E after \in {modifier[m], StartFailed(m, modifier[m]), EndFailed(m, modifier[m])} :
                  Fail(m, after)
    BY <1>3, <2>1
  <2> QED
    BY <1>2, <1>4, <2>1 DEF UpdateEvent, Fail

(* What is finalized, by finalize or by reset, was initialized and not yet *)
(* finalized; whether on_finalize returns or raises, m has had its chance. *)
LEMMA FinalizeResult ==
  ASSUME ModifiersTyped, NEW m \in Modifiers, Finalizable(m),
         FinalizeSucceeds(m) \/ FinalizeFails(m)
  PROVE  /\ OnlyVisits(m)
         /\ modifier'[m].initialized_
         /\ modifier'[m].finalized_ => completed'[m]["on_finalize"] >= 1
         /\ Released(m)'
         /\ FinalizeSucceeds(m) /\ modifier[m].ended_ =>
              /\ modifier'[m].started_ = modifier[m].started_
              /\ modifier'[m].ended_
              /\ completed'[m]["on_start"] = completed[m]["on_start"]
              /\ completed'[m]["on_end"] = completed[m]["on_end"]
<1>1. /\ modifier[m] \in Flags /\ completed[m] \in [Hooks -> 0 .. 2]
      /\ \A h \in Hooks : completed[m][h] \in 0 .. 2
      /\ modifier[m].initialized_ /\ ~modifier[m].finalized_
  <2>1. modifier[m] \in Flags /\ completed[m] \in [Hooks -> 0 .. 2]
    BY DEF ModifiersTyped
  <2> QED
    BY <2>1 DEF Finalizable
<1>2. ASSUME FinalizeSucceeds(m)
      PROVE  /\ OnlyVisits(m)
             /\ modifier'[m].initialized_
             /\ completed'[m]["on_finalize"] >= 1
             /\ Released(m)'
             /\ modifier[m].ended_ =>
                  /\ modifier'[m].started_ = modifier[m].started_
                  /\ modifier'[m].ended_
                  /\ completed'[m]["on_start"] = completed[m]["on_start"]
                  /\ completed'[m]["on_end"] = completed[m]["on_end"]
  <2> DEFINE hooks == {"on_finalize"} \cup IF EndsLate(m) THEN {"on_end"} ELSE {}
             after == [modifier[m] EXCEPT !.finalized_ = (m \notin ReturnsNone),
                                          !.ended_ = @ \/ EndsLate(m)]
  <2>1. /\ after \in Flags /\ after.initialized_ /\ after.started_ = modifier[m].started_
        /\ after.ended_ <=> modifier[m].ended_ \/ EndsLate(m)
    BY <1>1 DEF Flags, EndsLate
  <2>2. Set(m, after) /\ Ran(m, hooks) /\ UNCHANGED failed
    BY <1>2 DEF FinalizeSucceeds
  <2>0. /\ "on_finalize" \in hooks /\ "on_start" \notin hooks
        /\ modifier[m].ended_ => "on_end" \notin hooks
    BY DEF EndsLate
  <2> HIDE DEF after, hooks
  <2>3. modifier'[m] = after /\ \A n \in Modifiers \ {m} : modifier'[n] = modifier[n]
    BY <2>1, <2>2, SetEffect DEF ModifiersTyped
  <2>4. /\ \A n \in Modifiers \ {m} : completed'[n] = completed[n]
        /\ \A h \in Hooks :
             completed'[m][h] = IF h \in hooks /\ completed[m][h] < 2
                                  THEN completed[m][h] + 1 ELSE completed[m][h]
    BY <2>2, RanEffect DEF ModifiersTyped
  <2>5. \A h \in Hooks : completed[m][h] <= completed'[m][h]
    BY <1>1, <2>4
  <2>6. completed'[m]["on_finalize"] >= 1
    BY <1>1, <2>0, <2>4 DEF Hooks
  <2>7. /\ completed'[m]["on_start"] = completed[m]["on_start"]
        /\ modifier[m].ended_ => completed'[m]["on_end"] = completed[m]["on_end"]
    BY <1>1, <2>0, <2>4 DEF Hooks
  <2> QED
    BY <2>1, <2>2, <2>3, <2>4, <2>5, <2>6, <2>7 DEF OnlyVisits, Released
<1>3. ASSUME FinalizeFails(m)
      PROVE  /\ OnlyVisits(m)
             /\ modifier'[m].initialized_ /\ ~modifier'[m].finalized_
             /\ Released(m)'
  <2>0. PICK after \in {modifier[m], EndFailed(m, modifier[m])} :
          /\ FailFinalize(m, after)
          /\ UNCHANGED completed \/ Ran(m, {"on_end"})
    BY <1>3 DEF FinalizeFails
  <2>1. after \in Flags /\ after.initialized_ /\ ~after.finalized_
    BY <1>1 DEF EndFailed, Flags
  <2>2. /\ Set(m, after) /\ failed' = [failed EXCEPT ![m] = @ \cup {"raised", "finalize"}]
        /\ UNCHANGED completed \/ Ran(m, {"on_end"})
    BY <2>0 DEF FailFinalize
  <2>3. modifier'[m] = after /\ \A n \in Modifiers \ {m} : modifier'[n] = modifier[n]
    BY <2>1, <2>2, SetEffect DEF ModifiersTyped
  <2>4. /\ \A n \in Modifiers \ {m} : failed'[n] = failed[n]
        /\ failed'[m] = failed[m] \cup {"raised", "finalize"}
    BY <2>2 DEF ModifiersTyped
  <2>5. /\ \A n \in Modifiers \ {m} : completed'[n] = completed[n]
        /\ \A h \in Hooks : completed[m][h] <= completed'[m][h]
    <3>1. CASE UNCHANGED completed
      BY <1>1, <3>1
    <3>2. CASE Ran(m, {"on_end"})
      BY <1>1, <3>2, RanEffect DEF ModifiersTyped
    <3> QED
      BY <2>2, <3>1, <3>2
  <2> QED
    BY <1>3, <2>1, <2>3, <2>4, <2>5 DEF OnlyVisits, Released
<1> QED
  BY <1>2, <1>3


-----------------------------------------------------------------------------
(* Modifiers of runs that failed.                                          *)

LEMMA ReleasedStays ==
  ASSUME ModifiersTyped, ModifiersTyped', NEW m \in Modifiers, OnlyVisits(m)
  PROVE  \A n \in Modifiers : Released(n) => Released(n)'
<1> SUFFICES ASSUME NEW n \in Modifiers, Released(n) PROVE Released(n)'
  OBVIOUS
<1>1. n # m => completed'[n] = completed[n] /\ failed'[n] = failed[n]
  BY DEF OnlyVisits
<1>2. n = m => /\ completed[n]["on_finalize"] <= completed'[n]["on_finalize"]
               /\ failed[n] \subseteq failed'[n]
  BY DEF OnlyVisits, Hooks
<1> QED
  <2>1. completed[n] \in [Hooks -> 0 .. 2] /\ completed[n]["on_finalize"] \in 0 .. 2
    BY DEF ModifiersTyped, Hooks
  <2>2. CASE n # m
    BY <1>1, <2>2 DEF Released
  <2>3. CASE n = m
    <3>1. CASE "finalize" \in failed[n]
      BY <1>2, <2>3, <3>1 DEF Released
    <3>2. CASE completed[n]["on_finalize"] >= 1
      <4>1. completed'[n] \in [Hooks -> 0 .. 2] /\ completed'[n]["on_finalize"] \in 0 .. 2
        BY DEF ModifiersTyped, Hooks
      <4> QED
        BY <1>2, <2>1, <2>3, <3>2, <4>1 DEF Released
    <3> QED
      BY <3>1, <3>2 DEF Released
  <2> QED
    BY <2>2, <2>3

(* Steps that visit no modifier and leave the list alone.                  *)
LEMMA ListStays ==
  ASSUME HandedOver, UNCHANGED <<modifier, completed, failed>>, Listed' = Listed,
         ~Running("initialize")', ~Running("reset")'
  PROVE  HandedOver'
BY DEF HandedOver, Released


LEMMA RangeSplits ==
  ASSUME NEW S, NEW list \in Seq(S), list # <<>>
  PROVE  Range(list) = {Head(list)} \cup Range(Tail(list))
<1>1. /\ Len(list) \in Nat /\ Len(list) >= 1 /\ Head(list) = list[1]
      /\ DOMAIN list = 1 .. Len(list)
      /\ DOMAIN Tail(list) = 1 .. Len(list) - 1
      /\ \A i \in 1 .. Len(list) - 1 : Tail(list)[i] = list[i + 1]
  OBVIOUS
<1>2. ASSUME NEW x \in Range(list) PROVE x \in {Head(list)} \cup Range(Tail(list))
  <2>1. PICK i \in 1 .. Len(list) : x = list[i]
    BY <1>1 DEF Range
  <2>2. CASE i # 1
    <3>1. i - 1 \in DOMAIN Tail(list) /\ Tail(list)[i - 1] = x
      BY <1>1, <2>1, <2>2
    <3> QED
      BY <3>1 DEF Range
  <2> QED
    BY <1>1, <2>1, <2>2
<1>3. ASSUME NEW x \in {Head(list)} \cup Range(Tail(list)) PROVE x \in Range(list)
  <2>1. CASE x = Head(list)
    BY <1>1, <2>1 DEF Range
  <2>2. CASE x \in Range(Tail(list))
    <3>1. PICK i \in 1 .. Len(list) - 1 : x = Tail(list)[i]
      BY <1>1, <2>2 DEF Range
    <3>2. i + 1 \in DOMAIN list /\ list[i + 1] = x
      BY <1>1, <3>1
    <3> QED
      BY <3>2 DEF Range
  <2> QED
    BY <1>3, <2>1, <2>2
<1> QED
  BY <1>2, <1>3

LEMMA EmptyRange == Range(<<>>) = {}
BY DEF Range

(* The modifier a call visits is the one that leaves its list.             *)
LEMMA HeadLeaves ==
  ASSUME IndInv, IndInv', NEW op, Visiting(op)
  PROVE  /\ call # NoCall /\ call.op = op /\ Head(call.rest) \in Modifiers
         /\ ModifiersTyped /\ ModifiersTyped'
         /\ Range(call.rest) = {Head(call.rest)} \cup Range(Tail(call.rest))
         /\ Continue => /\ call' # NoCall /\ call'.op = op /\ call'.rest = Tail(call.rest)
                        /\ call'.event = call.event /\ ~Raise
         /\ Raise => call' = NoCall
<1>1. /\ call # NoCall /\ call.op = op /\ Head(call.rest) \in Modifiers
      /\ call \in CallRecord /\ call.rest # <<>> /\ ModifiersTyped
  BY HeadIsModifier
<1>2. call.rest \in Seq(Modifiers)
  BY <1>1 DEF CallRecord
<1>3. ModifiersTyped'
  BY DEF IndInv, TypeOK, ModifiersTyped, Hooks, Failures
<1> QED
  BY <1>1, <1>2, <1>3, RangeSplits, ContinueEffect, NoCallAssumption DEF Continue, Raise

LEMMA VisitHandsOver ==
  ASSUME RunInv, RunInv', HandedOver, UNCHANGED run,
         InitializeModifier \/ UpdateModifier \/ FinalizeModifier \/ ResetModifier
  PROVE  HandedOver'
<1>0. PICK m \in Modifiers : m = Head(call.rest)
  BY HeadIsModifier, RunParts
     DEF InitializeModifier, UpdateModifier, FinalizeModifier, ResetModifier
<1>1. /\ IndInv /\ IndInv' /\ UNCHANGED <<recipe, phase, wanted>>
      /\ Listed' = Listed
  BY DEF RunInv, InitializeModifier, UpdateModifier, FinalizeModifier, ResetModifier, lifecycle,
         run, Listed, Patched
<1>2. CASE InitializeModifier
  <2>1. Visiting("initialize") /\ ModifierInitialize(m)
    BY <1>0, <1>2 DEF InitializeModifier
  <2>2. /\ m \in Modifiers /\ ModifiersTyped /\ ModifiersTyped'
        /\ m \in Range(recipe) /\ Range(Tail(call.rest)) \subseteq Range(recipe)
    BY <1>1, <2>1, HeadLeaves, <1>0 DEF HandedOver, Visiting
  <2>3. m \in Listed
    BY <1>2, <2>2, PhaseOfWork, HeadLeaves, <1>1, <2>1 DEF Work, Listed, Patched
  <2>4. OnlyVisits(m) /\ modifier'[m].finalized_ = modifier[m].finalized_ /\ (Raise \/ Continue)
    BY <2>1, <2>2, InitializeResult
  <2>5. /\ \A n \in Modifiers : Released(n) => Released(n)'
        /\ completed'[m]["on_finalize"] \in 0 .. 2 /\ completed[m]["on_finalize"] \in 0 .. 2
        /\ completed[m]["on_finalize"] <= completed'[m]["on_finalize"]
    BY <2>2, <2>4, ReleasedStays DEF ModifiersTyped, OnlyVisits, Hooks
  <2>6. /\ Running("initialize")' => Range(call'.rest) \subseteq Range(recipe)
        /\ ~Running("reset")'
    BY <1>0, <1>1, <2>1, <2>2, <2>4, HeadLeaves DEF Running
  <2> QED
    BY <1>1, <2>2, <2>3, <2>4, <2>5, <2>6 DEF HandedOver, OnlyVisits
<1>3. CASE UpdateModifier
  <2>1. Visiting("event") /\ UpdateEvent(m, call.event)
    BY <1>0, <1>3 DEF UpdateModifier
  <2>2. m \in Modifiers /\ ModifiersTyped /\ ModifiersTyped'
    BY <1>1, <2>1, HeadLeaves
  <2>3. /\ OnlyVisits(m) /\ modifier'[m].finalized_ = modifier[m].finalized_
        /\ modifier'[m].initialized_ = modifier[m].initialized_ /\ (Raise \/ Continue)
    BY <2>1, <2>2, UpdateResult
  <2>4. /\ \A n \in Modifiers : Released(n) => Released(n)'
        /\ completed'[m]["on_finalize"] \in 0 .. 2 /\ completed[m]["on_finalize"] \in 0 .. 2
        /\ completed[m]["on_finalize"] <= completed'[m]["on_finalize"]
    BY <2>2, <2>3, ReleasedStays DEF ModifiersTyped, OnlyVisits, Hooks
  <2>5. ~Running("initialize")' /\ ~Running("reset")'
    BY <1>1, <2>1, <2>3, HeadLeaves DEF Running
  <2> QED
    BY <1>1, <2>2, <2>3, <2>4, <2>5 DEF HandedOver, OnlyVisits
<1>4. CASE FinalizeModifier
  <2>1. Visiting("finalize") /\ (Raise \/ Continue)
    BY <1>4 DEF FinalizeModifier
  <2>2. m \in Modifiers /\ ModifiersTyped /\ ModifiersTyped'
    BY <1>1, <2>1, HeadLeaves
  <2>3. ~Running("initialize")' /\ ~Running("reset")'
    BY <1>1, <2>1, HeadLeaves DEF Running
  <2>4. CASE UNCHANGED <<modifier, completed, failed>>
    BY <1>1, <2>3, <2>4, ListStays
  <2>5. CASE Finalizable(m) /\ (FinalizeSucceeds(m) \/ FinalizeFails(m))
    <3>1. OnlyVisits(m) /\ Released(m)' /\ (modifier'[m].finalized_ => completed'[m]["on_finalize"] >= 1)
      BY <2>2, <2>5, FinalizeResult
    <3>2. \A n \in Modifiers : Released(n) => Released(n)'
      BY <2>2, <3>1, ReleasedStays
    <3> QED
      BY <1>1, <2>2, <2>3, <3>1, <3>2 DEF HandedOver, OnlyVisits
  <2> QED
    BY <1>0, <1>4, <2>4, <2>5 DEF FinalizeModifier
<1>5. CASE ResetModifier
  <2>1. Visiting("reset") /\ Continue
    BY <1>5 DEF ResetModifier
  <2>2. /\ m \in Modifiers /\ ModifiersTyped /\ ModifiersTyped'
        /\ Range(call.rest) = {m} \cup Range(call'.rest)
        /\ ~Running("initialize")' /\ Running("reset")
    BY <1>1, <2>1, HeadLeaves, <1>0 DEF Running, Visiting
  <2>3. CASE ~Finalizable(m) /\ UNCHANGED <<modifier, completed, failed>>
    <3>1. modifier[m].initialized_ => Released(m)
      BY <2>2, <2>3 DEF HandedOver, Finalizable, Released
    <3> QED
      BY <1>1, <2>2, <2>3, <3>1 DEF HandedOver, Released
  <2>4. CASE Finalizable(m) /\ (FinalizeSucceeds(m) \/ FinalizeFails(m))
    <3>1. OnlyVisits(m) /\ Released(m)' /\ (modifier'[m].finalized_ => completed'[m]["on_finalize"] >= 1)
      BY <2>2, <2>4, FinalizeResult
    <3>2. \A n \in Modifiers : Released(n) => Released(n)'
      BY <2>2, <3>1, ReleasedStays
    <3> QED
      BY <1>1, <2>2, <3>1, <3>2 DEF HandedOver, OnlyVisits
  <2> QED
    BY <1>0, <1>5, <2>3, <2>4 DEF ResetModifier
<1> QED
  BY <1>2, <1>3, <1>4, <1>5


LEMMA HandedOverStep ==
  ASSUME RunInv, RunInv', HandedOver, OneshotNext
  PROVE  HandedOver'
<1>1. CASE StartRun
  <2>1. /\ UNCHANGED <<recipe, modifier, completed, failed>>
        /\ phase = "idle" /\ phase' = "resetting"
        /\ call'.op = "reset" /\ call'.rest = recipe /\ call' # NoCall
    BY <1>1, RunParts, BeginEffect, NoCallAssumption DEF StartRun, Reset, lifecycle
  <2>2. Listed = Range(recipe) /\ Listed' = Range(recipe)
    BY <2>1 DEF Listed, Patched
  <2> QED
    BY <2>1, <2>2 DEF HandedOver, Released, Running
<1>2. CASE EnterMoEContext \/ ReplaceModule \/ ReplaceModuleRaises \/ ChoosePipeline \/ EndRun
           \/ CalibrationRaises \/ NextPass \/ PipelineReturns \/ AbortRun
  <2>1. /\ UNCHANGED <<modifier, completed, failed>> /\ Idle /\ call' = call
        /\ UNCHANGED wanted
    BY <1>2 DEF EnterMoEContext, ReplaceModule, ReplaceModuleRaises, ChoosePipeline, EndRun,
                CalibrationRaises, NextPass, PipelineReturns, AbortRun, Returned, vars, run
  <2>2. Listed' = Listed
    <3>1. CASE EnterMoEContext \/ ReplaceModule \/ ReplaceModuleRaises \/ EndRun
               \/ CalibrationRaises
      BY <3>1 DEF EnterMoEContext, ReplaceModule, ReplaceModuleRaises, EndRun,
                  CalibrationRaises, Listed, Patched, vars, lifecycle, run
    <3>2. CASE ChoosePipeline
      BY <3>2, RunParts DEF ChoosePipeline, SessionOfPhase, Listed, Patched, vars, lifecycle
    <3>3. CASE NextPass
      BY <3>3 DEF NextPass, Listed, Patched
    <3>4. CASE PipelineReturns \/ AbortRun
      BY <2>1, <3>4 DEF PipelineReturns, AbortRun, RestoreModifiers, Listed, Patched
    <3> QED
      BY <1>2, <3>1, <3>2, <3>3, <3>4
  <2> QED
    BY <2>1, <2>2, ListStays DEF Running, Idle
<1>3. CASE InitializeRun
  <2>1. /\ UNCHANGED <<modifier, completed, failed>> /\ phase' = "initializing"
        /\ call'.rest = recipe' /\ call'.op = "initialize"
    BY <1>3 DEF InitializeRun, Initialize, Begin
  <2>2. Listed = {}
    BY <1>3, RunParts, EmptyRange DEF InitializeRun, SessionOfPhase, Fresh, Listed, Patched
  <2> QED
    BY <2>1, <2>2 DEF HandedOver, Released, Running
<1>4. CASE EpochStart \/ SequentialEpochEnd \/ CalibrationEpochEnd
  <2>1. /\ UNCHANGED <<modifier, completed, failed>> /\ call'.op = "event"
        /\ UNCHANGED wanted /\ Patched /\ Patched'
    BY <1>4 DEF EpochStart, SequentialEpochEnd, CalibrationEpochEnd, FireEvent, Begin, Patched, run
  <2> QED
    BY <2>1, ListStays DEF Running, Listed
<1>5. CASE FinalizeRun
  <2>1. /\ UNCHANGED <<modifier, completed, failed, recipe>> /\ call'.op = "finalize"
        /\ phase = "finalizing" /\ phase' = "ending"
    BY <1>5 DEF FinalizeRun, Finalize, Begin, lifecycle
  <2> QED
    BY <2>1, ListStays DEF Running, Listed, Patched
<1>6. CASE SessionWork
  <2>1. CASE InitializeModifier \/ UpdateModifier \/ FinalizeModifier \/ ResetModifier
    BY <1>6, <2>1, VisitHandsOver DEF SessionWork
  <2>2. CASE InitializeReturns \/ EventReturns \/ FinalizeReturns
    <3>1. /\ UNCHANGED <<modifier, completed, failed, recipe>> /\ call' = NoCall
          /\ UNCHANGED <<phase, wanted>>
      BY <1>6, <2>2 DEF InitializeReturns, EventReturns, FinalizeReturns, Return, SessionWork,
                        lifecycle, run
    <3> QED
      BY <3>1, ListStays DEF Running, Listed, Patched
  <2>3. CASE ResetReturns
    <3>1. /\ UNCHANGED <<modifier, completed, failed>> /\ call' = NoCall
          /\ Running("reset") /\ Range(call.rest) = {}
      BY <2>3, EmptyRange DEF ResetReturns, Return
    <3> QED
      BY <3>1 DEF HandedOver, Released, Running
  <2> QED
    BY <1>6, <2>1, <2>2, <2>3 DEF SessionWork, Work
<1> QED
  BY <1>1, <1>2, <1>3, <1>4, <1>5, <1>6 DEF OneshotNext, GoOn

(* However runs end, and however many there are, a modifier that was       *)
(* initialized is finalized or still reachable by the next run's reset.    *)
THEOREM ResetReachesAllModifiers == OneshotSpec => []NoAbandonedModifiers
<1>1. OneshotInit => HandedOver
  BY DEF OneshotInit, Init, HandedOver, Running
<1>2. RunInv /\ RunInv' /\ HandedOver /\ [OneshotNext]_oneshotVars => HandedOver'
  <2>1. CASE UNCHANGED oneshotVars
    <3>1. UNCHANGED <<modifier, completed, failed, recipe, call, phase, wanted>>
      BY <2>1 DEF oneshotVars, vars, lifecycle, run
    <3> QED
      BY <3>1 DEF HandedOver, Released, Listed, Patched, Running
  <2> QED
    BY <2>1, HandedOverStep
<1>3. HandedOver => NoAbandonedModifiers
  BY DEF HandedOver, NoAbandonedModifiers, Released, Listed
<1> QED
  BY <1>1, <1>2, <1>3, RunInvariance, PTL DEF OneshotSpec


-----------------------------------------------------------------------------
(* Runs that return.                                                       *)

(* No calibrating modifier is to start when it is initialized.  One that   *)
(* is, and whose on_initialize refuses, starts again in the next run.      *)
NoneStartsEarly == \A m \in Calibrating : ~ShouldStart(m, 0)

LEMMA UntouchedStep ==
  ASSUME RunInv, RunInv', NoneTouchedEarly, NoneStartsEarly, OneshotNext
  PROVE  NoneTouchedEarly'
<1>1. CASE UNCHANGED <<modifier, completed>>
  BY <1>1 DEF NoneTouchedEarly, Untouched, Exact
<1>2. ASSUME NEW m \in Modifiers, OnlyVisits(m),
             m \in Calibrating /\ ~modifier'[m].initialized_ => Untouched(m)'
      PROVE  NoneTouchedEarly'
  BY <1>2, ModifiersAssumption DEF NoneTouchedEarly, Untouched, Exact, OnlyVisits
<1>3. ASSUME SessionWork, InitializeModifier \/ UpdateModifier \/ FinalizeModifier \/ ResetModifier
      PROVE  NoneTouchedEarly'
  <2>1. PICK m \in Modifiers : m = Head(call.rest)
    BY <1>3, HeadIsModifier, RunParts
       DEF InitializeModifier, UpdateModifier, FinalizeModifier, ResetModifier
  <2>2. ModifiersTyped
    BY RunParts, TypeParts DEF IndInv
  <2>3. CASE InitializeModifier
    <3>1. ModifierInitialize(m)
      BY <2>1, <2>3 DEF InitializeModifier
    <3>2. m \in Calibrating /\ ~modifier'[m].initialized_ => Untouched(m)'
      BY <2>2, <3>1, InitializeResult DEF NoneTouchedEarly, NoneStartsEarly, Untouched, Exact
    <3> QED
      BY <1>2, <2>2, <3>1, <3>2, InitializeResult
  <2>4. CASE UpdateModifier
    <3>1. UpdateEvent(m, call.event)
      BY <2>1, <2>4 DEF UpdateModifier
    <3>2. m \in Calibrating /\ ~modifier'[m].initialized_ => Untouched(m)'
      BY <2>2, <3>1, UpdateResult DEF NoneTouchedEarly, Untouched, Exact
    <3> QED
      BY <1>2, <2>2, <3>1, <3>2, UpdateResult
  <2>5. CASE /\ Finalizable(m) /\ (FinalizeSucceeds(m) \/ FinalizeFails(m))
    BY <1>2, <2>2, <2>5, FinalizeResult
  <2> QED
    BY <1>1, <1>3, <2>1, <2>3, <2>4, <2>5 DEF FinalizeModifier, ResetModifier
<1>4. CASE SessionWork
  BY <1>1, <1>3, <1>4 DEF SessionWork, Work, InitializeReturns, EventReturns, FinalizeReturns,
                          ResetReturns
<1> QED
  BY <1>1, <1>4
     DEF OneshotNext, GoOn, StartRun, Reset, EnterMoEContext, ReplaceModule, ReplaceModuleRaises,
         InitializeRun, Initialize, ChoosePipeline, NextPass, EpochStart, SequentialEpochEnd,
         CalibrationEpochEnd, CalibrationRaises, FireEvent, PipelineReturns, FinalizeRun, Finalize,
         EndRun, AbortRun, vars

(* A visit takes the modifier it visits one step on and leaves the others. *)
LEMMA VisitProgress ==
  ASSUME RunInv, RunInv', NoneTouchedEarly, NoneStartsEarly, UNCHANGED run,
         InitializeModifier \/ UpdateModifier \/ FinalizeModifier \/ ResetModifier,
         Applying => \A n \in Range(wanted) \cap Calibrating : Progress(n),
         Applying', NEW n \in Range(wanted) \cap Calibrating
  PROVE  Progress(n)'
<1>1. /\ IndInv /\ IndInv' /\ Work /\ UNCHANGED <<phase, wanted, passes, recipe>>
  BY DEF RunInv, InitializeModifier, UpdateModifier, FinalizeModifier, ResetModifier, lifecycle,
         run, Work
<1>2. ~Raise
  BY DEF Raise, Applying, Idle
<1>3. PICK m \in Modifiers : m = Head(call.rest)
  BY HeadIsModifier, RunParts
     DEF InitializeModifier, UpdateModifier, FinalizeModifier, ResetModifier
<1>4. call # NoCall /\ Applying /\ Progress(n) /\ n \in Modifiers /\ n \in Calibrating
  <2>1. call # NoCall
    BY <1>1, WorkEffect
  <2> QED
    BY <1>1, <2>1, ModifiersAssumption DEF Applying, Patched, Idle
<1>5. PICK op : Visiting(op) /\ Continue
  BY <1>2, ZenonT(30) DEF InitializeModifier, UpdateModifier, FinalizeModifier, ResetModifier,
              ModifierInitialize, UpdateEvent
<1>6. /\ call.op = op /\ call' # NoCall /\ call'.op = op /\ call'.event = call.event
      /\ Range(call.rest) = {m} \cup Range(call'.rest) /\ ModifiersTyped
  BY <1>1, <1>3, <1>5, HeadLeaves
<1>7. ASSUME OnlyVisits(m), n # m PROVE Progress(n)'
  <2>1. modifier'[n] = modifier[n] /\ completed'[n] = completed[n]
    BY <1>4, <1>7 DEF OnlyVisits
  <2>2. /\ \A event : Awaits(n, event) => call'.op = "event" /\ call'.event = event
                                          /\ n \in Range(call'.rest)
        /\ Running("initialize") /\ n \in Range(call.rest)
             => call'.op = "initialize" /\ n \in Range(call'.rest)
    BY <1>6, <1>7 DEF Awaits, Running
  <2> QED
    BY <1>1, <1>4, <1>6, <2>1, <2>2 DEF Progress, Exact, Calibrated, InSomePass, Awaits, Running
<1>8. CASE InitializeModifier
  <2>1. ModifierInitialize(m) /\ Visiting("initialize")
    BY <1>3, <1>8 DEF InitializeModifier
  <2>2. phase = "initializing" /\ OnlyVisits(m)
    BY <1>1, <1>4, <1>6, <2>1, PhaseOfWork, InitializeResult DEF Visiting, Running
  <2>3. n = m => Exact(m)'
    BY <1>2, <1>4, <1>6, <2>1, InitializeResult
       DEF NoneTouchedEarly, NoneStartsEarly, Untouched, Exact
  <2> QED
    BY <1>1, <1>7, <2>2, <2>3 DEF Progress
<1>9. CASE UpdateModifier
  <2>1. UpdateEvent(m, call.event) /\ Visiting("event")
    BY <1>3, <1>9 DEF UpdateModifier
  <2>2. phase \in {"calibrating", "next_pass"} /\ OnlyVisits(m) /\ ~Running("initialize")
    BY <1>1, <1>4, <1>6, <2>1, PhaseOfWork, UpdateResult DEF Visiting, Running
  <2>3. n = m =>
          /\ Exact(m) => Exact(m)'
          /\ modifier[m].started_ => modifier'[m].started_
          /\ modifier[m].ended_ => modifier'[m].ended_
          /\ call.event = "calibration_epoch_start" => modifier'[m].started_
          /\ call.event = "calibration_epoch_end" => modifier'[m].ended_
    BY <1>2, <1>4, <1>5, <1>6, <2>1, UpdateResult
  <2>4. CASE n = m
    BY <1>1, <1>4, <2>2, <2>3, <2>4 DEF Progress, Calibrated, InSomePass, Awaits
  <2> QED
    BY <1>7, <2>2, <2>4
<1>10. CASE FinalizeModifier
  <2>1. Visiting("finalize") /\ Finalizable(m) /\ FinalizeSucceeds(m)
    BY <1>2, <1>3, <1>10 DEF FinalizeModifier
  <2>2. phase = "ending" /\ OnlyVisits(m) /\ ~Running("initialize")
    BY <1>1, <1>4, <1>6, <2>1, PhaseOfWork, FinalizeResult DEF Visiting, Running
  <2>3. CASE n = m
    <3>1. Calibrated(m) /\ Exact(m)
      BY <1>4, <2>2, <2>3 DEF Progress
    <3>2. /\ modifier'[m].started_ /\ modifier'[m].ended_ /\ modifier[m].started_ /\ modifier[m].ended_
          /\ completed'[m]["on_start"] = completed[m]["on_start"]
          /\ completed'[m]["on_end"] = completed[m]["on_end"]
      BY <1>6, <2>1, <3>1, FinalizeResult DEF Calibrated
    <3> QED
      BY <1>1, <2>2, <2>3, <3>1, <3>2 DEF Progress, Calibrated, Exact
  <2> QED
    BY <1>7, <2>2, <2>3
<1>11. CASE ResetModifier
  <2>1. phase = "resetting"
    BY <1>1, <1>11, PhaseOfWork DEF ResetModifier, Visiting, Running
  <2> QED
    BY <1>4, <2>1 DEF Applying, Patched
<1> QED
  BY <1>8, <1>9, <1>10, <1>11


(* The recipe is split into passes that leave no modifier out.             *)
LEMMA PassesCover ==
  ASSUME RunInv, ChoosePipeline, NEW m \in Range(recipe)
  PROVE  InSomePass(m)'
<1>1. PICK i \in DOMAIN recipe : m = recipe[i]
  BY DEF Range
<1>2. CASE passes' = <<recipe>>
  <2>1. 1 \in DOMAIN passes' /\ passes'[1] = recipe
    BY <1>2
  <2>2. recipe \in Range(passes')
    BY <2>1 DEF Range
  <2> QED
    BY <2>2 DEF InSomePass
<1>3. CASE passes' = [j \in DOMAIN recipe |-> <<recipe[j]>>]
  <2>1. <<m>> \in Range(passes')
    BY <1>1, <1>3 DEF Range
  <2>2. m \in Range(<<m>>)
    BY DEF Range
  <2> QED
    BY <2>1, <2>2 DEF InSomePass
<1> QED
  BY <1>2, <1>3 DEF ChoosePipeline

(* A run goes on to its next part only when the part before is complete.   *)
LEMMA ProgressStep ==
  ASSUME RunInv, RunInv', NoneTouchedEarly, NoneStartsEarly, OneshotNext,
         Applying => \A n \in Range(wanted) \cap Calibrating : Progress(n),
         Applying', NEW m \in Range(wanted') \cap Calibrating
  PROVE  Progress(m)'
<1>0. Idle => modifier' = modifier /\ completed' = completed
  <2>1. Idle => ~SessionWork
    BY RunParts, WorkEffect DEF SessionWork, Idle
  <2> QED
    BY <2>1
       DEF OneshotNext, GoOn, StartRun, Reset, EnterMoEContext, ReplaceModule, ReplaceModuleRaises,
           InitializeRun, Initialize, ChoosePipeline, NextPass, EpochStart, SequentialEpochEnd,
           CalibrationEpochEnd, CalibrationRaises, FireEvent, PipelineReturns, FinalizeRun,
           Finalize, EndRun, AbortRun, vars
<1>1. ASSUME Applying, m \in Range(wanted), UNCHANGED <<modifier, completed>>
      PROVE  Progress(m) /\ (Exact(m) => Exact(m)') /\ (Calibrated(m) => Calibrated(m)')
  BY <1>1 DEF Exact, Calibrated
<1>2. CASE StartRun \/ EnterMoEContext \/ ReplaceModule \/ ReplaceModuleRaises \/ EndRun \/ AbortRun
  BY <1>2 DEF StartRun, EnterMoEContext, ReplaceModule, ReplaceModuleRaises, EndRun, AbortRun,
              Applying, Patched
<1>3. CASE CalibrationRaises
  BY <1>3 DEF CalibrationRaises, Returned, Applying, Idle
<1>4. CASE InitializeRun
  <2>1. /\ phase' = "initializing" /\ call'.rest = wanted' /\ call'.op = "initialize"
        /\ call' # NoCall
    BY <1>4, ModifiersAssumption, BeginEffect, NoCallAssumption DEF InitializeRun, Initialize
  <2> QED
    BY <2>1 DEF Progress, Running
<1>5. CASE ChoosePipeline
  <2>1. /\ phase = "initializing" /\ Idle /\ Applying /\ phase' = "next_pass"
        /\ wanted' = wanted /\ recipe = wanted
    BY <1>5, RunParts DEF ChoosePipeline, Returned, Applying, SessionOfPhase
  <2>2. Exact(m)'
    BY <1>0, <1>1, <2>1 DEF Progress, Running, Idle
  <2>3. InSomePass(m)'
    BY <1>5, <2>1, PassesCover
  <2> QED
    BY <2>1, <2>2, <2>3 DEF Progress
<1>6. CASE NextPass
  <2>1. /\ phase = "next_pass" /\ Idle /\ Applying /\ phase' = "epoch_start"
        /\ wanted' = wanted /\ passes # <<>> /\ recipe' = Head(passes) /\ passes' = Tail(passes)
    BY <1>6 DEF NextPass, Returned, Applying, Patched
  <2>2. Exact(m)' /\ (Calibrated(m) \/ InSomePass(m))
    BY <1>0, <1>1, <2>1 DEF Progress, Running, Idle, Awaits
  <2>3. InSomePass(m) => InSomePass(m)' \/ m \in Range(recipe')
    BY <2>1, RunParts, RangeSplits DEF InSomePass
  <2> QED
    BY <1>0, <2>1, <2>2, <2>3 DEF Progress, Calibrated
<1>7. CASE EpochStart
  <2>1. /\ phase = "epoch_start" /\ Idle /\ Applying /\ phase' = "calibrating"
        /\ wanted' = wanted /\ passes' = passes /\ recipe' = recipe
        /\ call'.op = "event" /\ call'.event = "calibration_epoch_start" /\ call'.rest = recipe
        /\ call' # NoCall
    <3>1. FireEvent("calibration_epoch_start", 0, FALSE)
      BY <1>7 DEF EpochStart
    <3>2. call' # NoCall
      BY <3>1, RunParts, BeginEffect, NoCallAssumption, OneshotEventsAssumption
         DEF FireEvent, CalibrationEvents
    <3> QED
      BY <1>7, <3>1, <3>2, RunParts
         DEF EpochStart, FireEvent, Begin, Returned, Applying, Patched, SessionOfPhase
  <2>2. Exact(m)' /\ (Calibrated(m) \/ InSomePass(m) \/ m \in Range(recipe))
    BY <1>0, <1>1, <2>1 DEF Progress, Running, Idle
  <2>3. m \in Range(recipe) => Awaits(m, "calibration_epoch_start")'
    BY <2>1 DEF Awaits, Running
  <2> QED
    BY <1>0, <2>1, <2>2, <2>3 DEF Progress, Calibrated, InSomePass
<1>8. CASE SequentialEpochEnd \/ CalibrationEpochEnd
  <2>1. /\ phase = "calibrating" /\ Idle /\ Applying
        /\ wanted' = wanted /\ passes' = passes /\ recipe' = recipe
    BY <1>8 DEF SequentialEpochEnd, CalibrationEpochEnd, FireEvent, Returned, Applying, Patched
  <2>2. /\ Exact(m)'
        /\ Calibrated(m) \/ InSomePass(m) \/ (m \in Range(recipe) /\ modifier[m].started_)
    BY <1>0, <1>1, <2>1 DEF Progress, Running, Idle, Awaits
  <2>3. CASE SequentialEpochEnd
    <3>1. phase' = "calibrating"
      BY <2>1, <2>3 DEF SequentialEpochEnd
    <3> QED
      BY <1>0, <2>1, <2>2, <3>1 DEF Progress, Calibrated, InSomePass
  <2>4. CASE CalibrationEpochEnd
    <3>1. FireEvent("calibration_epoch_end", 0, FALSE) /\ phase' = "next_pass"
      BY <2>4 DEF CalibrationEpochEnd
    <3>2. /\ call' # NoCall /\ call'.op = "event" /\ call'.event = "calibration_epoch_end"
          /\ call'.rest = recipe
      BY <3>1, RunParts, BeginEffect, NoCallAssumption, OneshotEventsAssumption
         DEF FireEvent, CalibrationEvents
    <3>3. m \in Range(recipe) => Awaits(m, "calibration_epoch_end")'
      BY <3>2 DEF Awaits, Running
    <3> QED
      BY <1>0, <2>1, <2>2, <3>1, <3>3 DEF Progress, Calibrated, InSomePass
  <2> QED
    BY <1>8, <2>3, <2>4
<1>9. CASE PipelineReturns
  <2>1. /\ phase = "next_pass" /\ Idle /\ Applying /\ phase' = "finalizing"
        /\ wanted' = wanted /\ passes = <<>>
    BY <1>9 DEF PipelineReturns, Returned, Applying, Patched
  <2>2. Exact(m)' /\ Calibrated(m)
    BY <1>0, <1>1, <2>1, EmptyRange DEF Progress, Running, Idle, Awaits, InSomePass
  <2> QED
    BY <1>0, <2>1, <2>2 DEF Progress, Calibrated
<1>10. CASE FinalizeRun
  <2>1. phase = "finalizing" /\ Idle /\ Applying /\ phase' = "ending" /\ wanted' = wanted
    BY <1>10, RunParts DEF FinalizeRun, Finalize, Applying, SessionOfPhase
  <2>2. Exact(m)' /\ Calibrated(m)
    BY <1>0, <1>1, <2>1 DEF Progress, Running, Idle
  <2> QED
    BY <1>0, <2>1, <2>2 DEF Progress, Calibrated
<1>11. CASE SessionWork
  <2>1. Work /\ UNCHANGED run /\ UNCHANGED <<phase, wanted, passes>>
    BY <1>11 DEF SessionWork, run
  <2>2. CASE InitializeModifier \/ UpdateModifier \/ FinalizeModifier \/ ResetModifier
    BY <2>1, <2>2, VisitProgress
  <2>3. CASE InitializeReturns \/ EventReturns \/ FinalizeReturns
    <3>1. /\ UNCHANGED <<modifier, completed, recipe>> /\ call' = NoCall /\ call # NoCall
          /\ Range(call.rest) = {}
      BY <2>3, EmptyRange DEF InitializeReturns, EventReturns, FinalizeReturns, Return, Running,
                              lifecycle
    <3>2. Applying /\ Progress(m) /\ (Exact(m) => Exact(m)')
      BY <1>1, <2>1, <3>1 DEF Applying, Idle, Patched
    <3> QED
      BY <2>1, <3>1, <3>2 DEF Progress, Calibrated, InSomePass, Awaits
  <2>4. CASE ResetReturns
    <3>1. phase = "resetting"
      BY <2>1, <2>4, PhaseOfWork DEF ResetReturns, Running
    <3> QED
      BY <2>1, <3>1 DEF Applying, Patched
  <2> QED
    BY <2>1, <2>2, <2>3, <2>4 DEF Work
<1> QED
  BY <1>2, <1>3, <1>4, <1>5, <1>6, <1>7, <1>8, <1>9, <1>10, <1>11 DEF OneshotNext, GoOn


LEMMA AppliedStep ==
  ASSUME RunInv, OneshotNext, AppliedInFull,
         Applying => \A n \in Range(wanted) \cap Calibrating : Progress(n)
  PROVE  AppliedInFull'
<1>1. CASE EndRun
  <2> SUFFICES ASSUME finalized
               PROVE  /\ recipe = wanted
                      /\ \A m \in Range(wanted) :
                           /\ completed[m].on_finalize >= 1
                           /\ m \in Calibrating =>
                                completed[m].on_start = 1 /\ completed[m].on_end = 1
    BY <1>1 DEF EndRun, AppliedInFull, vars, lifecycle
  <2>1. recipe = wanted /\ phase = "ending" /\ Idle /\ Applying
    BY <1>1, RunParts DEF EndRun, SessionOfPhase, Returned, Applying
  <2>2. ASSUME NEW m \in Range(wanted) PROVE completed[m]["on_finalize"] >= 1
    <3>1. PICK i \in 1 .. Len(recipe) : m = recipe[i]
      BY <2>1, <2>2, RunParts DEF Range
    <3> QED
      BY <3>1, RunParts DEF IndInv, FinalizedIsTrue, Finished
  <2>3. ASSUME NEW m \in Range(wanted) \cap Calibrating
        PROVE  completed[m]["on_start"] = 1 /\ completed[m]["on_end"] = 1
    BY <2>1, <2>3 DEF Progress, Exact, Calibrated, Running, Idle
  <2> QED
    BY <2>1, <2>2, <2>3
<1>2. CASE AbortRun
  <2>1. ~finalized
    BY <1>2, RunParts DEF RunInv, RunTyped, AbortRun, SessionOfPhase, Patched, Returned, Fresh
  <2> QED
    BY <1>2, <2>1 DEF AbortRun, AppliedInFull
<1>3. CASE SessionWork
  <2>1. phase' = phase /\ phase # "idle"
    BY <1>3, PhaseOfWork DEF SessionWork, run
  <2> QED
    BY <2>1 DEF AppliedInFull
<1>4. CASE phase' # "idle"
  BY <1>4 DEF AppliedInFull
<1> QED
  BY <1>1, <1>2, <1>3, <1>4
     DEF OneshotNext, GoOn, StartRun, EnterMoEContext, ReplaceModule, ReplaceModuleRaises,
         InitializeRun, ChoosePipeline, NextPass, EpochStart, SequentialEpochEnd,
         CalibrationEpochEnd, CalibrationRaises, PipelineReturns, FinalizeRun, run

(* A run that returns has started, ended and finalized each calibrating    *)
(* modifier of its recipe once, whatever earlier runs with the same        *)
(* modifiers did, for every recipe and every choice of pipeline.           *)
THEOREM RecipesAreApplied ==
  ASSUME NoneStartsEarly
  PROVE  OneshotSpec => []AppliedInFull
<1>1. OneshotInit => CalibratedInv
  <2> SUFFICES ASSUME OneshotInit PROVE CalibratedInv
    OBVIOUS
  <2>1. NoneTouchedEarly
    BY ModifiersAssumption DEF OneshotInit, Init, NoneTouchedEarly, Untouched, Exact
  <2>2. ~Applying /\ AppliedInFull
    BY DEF OneshotInit, Init, Applying, Patched, AppliedInFull
  <2> QED
    BY <2>1, <2>2 DEF CalibratedInv
<1>2. RunInv /\ RunInv' /\ CalibratedInv /\ [OneshotNext]_oneshotVars => CalibratedInv'
  <2> SUFFICES ASSUME RunInv, RunInv', CalibratedInv, [OneshotNext]_oneshotVars
               PROVE  CalibratedInv'
    OBVIOUS
  <2>1. CASE OneshotNext
    <3>1. NoneTouchedEarly'
      BY <2>1, UntouchedStep DEF CalibratedInv
    <3>2. Applying' => \A m \in Range(wanted') \cap Calibrating : Progress(m)'
      BY <2>1, ProgressStep DEF CalibratedInv
    <3>3. AppliedInFull'
      BY <2>1, AppliedStep DEF CalibratedInv
    <3> QED
      BY <3>1, <3>2, <3>3 DEF CalibratedInv
  <2>2. CASE UNCHANGED oneshotVars
    <3>1. UNCHANGED <<modifier, completed, recipe, call, outcome, finalized, phase, wanted, passes>>
      BY <2>2 DEF oneshotVars, vars, lifecycle, run
    <3>2. NoneTouchedEarly'
      BY <3>1 DEF CalibratedInv, NoneTouchedEarly, Untouched, Exact
    <3>3. (Applying' <=> Applying) /\ \A m : Progress(m) => Progress(m)'
      BY <3>1 DEF Applying, Patched, Idle, Progress, Exact, Calibrated, InSomePass, Awaits, Running
    <3>4. AppliedInFull'
      BY <3>1 DEF CalibratedInv, AppliedInFull
    <3> QED
      BY <3>1, <3>2, <3>3, <3>4 DEF CalibratedInv
  <2> QED
    BY <2>1, <2>2
<1>3. CalibratedInv => AppliedInFull
  BY DEF CalibratedInv
<1> QED
  BY <1>1, <1>2, <1>3, RunInvariance, PTL DEF OneshotSpec


=============================================================================
