------------------------ MODULE CompressionLifecycle ------------------------
(***************************************************************************)
(* A compression session: the CompressionLifecycle (core/lifecycle.py), as *)
(* CompressionSession exposes it (core/session.py), and the modifiers it   *)
(* drives (modifiers/modifier.py).  initialize, event, finalize and reset  *)
(* go through the modifiers of the recipe one by one, and each modifier's  *)
(* hook (on_initialize, on_start, on_end, on_finalize) may raise; one step *)
(* of the model is one modifier of one call.  A modifier object keeps its  *)
(* flags for life, whatever session or recipe it is used in.               *)
(***************************************************************************)
EXTENDS Integers, Sequences, Functions

CONSTANTS
  Modifiers,    \* modifier objects
  Calibrating,  \* those started and ended by the calibration events in their on_event
  ReturnsNone,  \* those whose on_finalize returns nothing (QuantizationModifier)
  Start, End,   \* the `start` and `end` fields, NoStep for None
  NoStep,
  Recipes,      \* lists of modifiers a caller passes as a recipe
  EventTypes,   \* events callers fire
  Steps,        \* values callers pass as global_step
  NoCall        \* no API call in progress

BatchEvents == <<"batch_start", "loss_calculated", "optim_pre_step", "optim_post_step",
                 "batch_end">>

CalibrationEvents == {"calibration_epoch_start", "sequential_epoch_end",
                      "calibration_epoch_end"}

ASSUME ModifiersAssumption ==
  /\ Calibrating \subseteq Modifiers /\ ReturnsNone \subseteq Calibrating
  /\ Recipes \subseteq Seq(Modifiers) /\ <<>> \in Recipes
ASSUME StepsAssumption ==
  /\ Steps \subseteq Nat /\ NoStep \notin Nat
  /\ Start \in [Modifiers -> Nat \cup {NoStep}] /\ End \in [Modifiers -> Nat \cup {NoStep}]
ASSUME EventsAssumption == EventTypes \subseteq Range(BatchEvents) \cup CalibrationEvents

(* A call in progress: the modifiers it has still to visit, and for what.  *)
CallRecord == [op : {"initialize", "event", "finalize", "reset"}, rest : Seq(Modifiers),
               event : EventTypes \cup {"initialize", "finalize", "reset"}]

ASSUME NoCallAssumption == NoCall \notin CallRecord

VARIABLES
  initialized,      \* CompressionLifecycle.initialized_
  finalized,        \* CompressionLifecycle.finalized
  recipe,           \* recipe.modifiers
  last_event_type,  \* _last_event_type
  global_step,
  modifier,         \* the flags of each modifier object
  call,             \* the API call in progress and the modifiers it has still to visit
  outcome,          \* how the last API call ended
  completed,        \* history: times each hook of a modifier ran to its end
  failed,           \* history: did a hook of a modifier raise, did its on_finalize, did on_initialize refuse
  delivered         \* history: last batch event the lifecycle forwarded to its modifiers

lifecycle == <<initialized, finalized, recipe, last_event_type, global_step>>
vars == <<lifecycle, modifier, call, outcome, completed, failed, delivered>>

Flags == [initialized_ : BOOLEAN, finalized_ : BOOLEAN, started_ : BOOLEAN, ended_ : BOOLEAN]

Init ==
  /\ initialized = FALSE /\ finalized = FALSE /\ recipe = <<>>
  /\ last_event_type = "batch_end" /\ global_step = 0
  /\ modifier = [m \in Modifiers |-> [initialized_ |-> FALSE, finalized_ |-> FALSE,
                                      started_ |-> FALSE, ended_ |-> FALSE]]
  /\ call = NoCall /\ outcome = "returned"
  /\ completed = [m \in Modifiers |-> [on_start |-> 0, on_end |-> 0, on_finalize |-> 0]]
  /\ failed = [m \in Modifiers |-> {}] /\ delivered = "batch_end"

-----------------------------------------------------------------------------
(* Calls.                                                                  *)

Idle == call = NoCall

Running(op) == call # NoCall /\ call.op = op

Visiting(op) == Running(op) /\ call.rest # <<>>

Begin(op, modifiers, event) ==
  call' = [op |-> op, rest |-> modifiers, event |-> event]

Return == call' = NoCall /\ outcome' = "returned"

Raise == call' = NoCall /\ outcome' = "raised"

(* The call goes on with the next modifier.                                *)
Continue == call' = [call EXCEPT !.rest = Tail(@)] /\ UNCHANGED outcome

(* History of the hooks that ran to their end, counted up to 2.            *)
Ran(m, hooks) ==
  completed' = [completed EXCEPT ![m] =
                  [h \in {"on_start", "on_end", "on_finalize"} |->
                     IF h \in hooks /\ @[h] < 2 THEN @[h] + 1 ELSE @[h]]]

Set(m, flags) == modifier' = [modifier EXCEPT ![m] = flags]

(* A hook of m raised, leaving these flags.                                *)
Fail(m, flags) ==
  /\ Set(m, flags)
  /\ failed' = [failed EXCEPT ![m] = @ \cup {"raised"}]

FailFinalize(m, flags) ==
  /\ Set(m, flags)
  /\ failed' = [failed EXCEPT ![m] = @ \cup {"raised", "finalize"}]

-----------------------------------------------------------------------------
(* Modifier                                                                *)

ShouldStart(m, step) ==
  /\ Start[m] # NoStep /\ Start[m] <= step
  /\ End[m] # NoStep => step < End[m]

ShouldEnd(m, step) == End[m] # NoStep /\ step >= End[m]

(* Event(type_=event_type) leaves the event's global_step at its default.  *)
EventStep == 0

(* on_start of a calibrating modifier sets started_ before it does         *)
(* anything else, for the others `initialize` and `update_event` set it    *)
(* when on_start has returned.                                             *)
StartFailed(m, flags) == [flags EXCEPT !.started_ = @ \/ m \in Calibrating]

EndFailed(m, flags) == [flags EXCEPT !.ended_ = @ \/ m \in Calibrating]

ModifierInitialize(m) ==
  LET flags == modifier[m]
  IN  \/ /\ flags.initialized_ \/ flags.finalized_
         /\ Raise
         /\ UNCHANGED <<modifier, completed, failed>>
      \/ /\ ~flags.initialized_ /\ ~flags.finalized_
         /\ \/ (* on_initialize raises *)
               Raise /\ Fail(m, flags) /\ UNCHANGED completed
            \/ (* on_start raises, whatever on_initialize has returned *)
               \E result \in BOOLEAN :
                 /\ ShouldStart(m, 0)
                 /\ Raise
                 /\ Fail(m, StartFailed(m, [flags EXCEPT !.initialized_ = result]))
                 /\ UNCHANGED completed
            \/ \E result \in BOOLEAN :
                 /\ Continue
                 /\ Set(m, [flags EXCEPT !.initialized_ = result,
                                         !.started_ = @ \/ ShouldStart(m, 0)])
                 /\ Ran(m, IF ShouldStart(m, 0) THEN {"on_start"} ELSE {})
                 /\ failed' = IF result THEN failed
                            ELSE [failed EXCEPT ![m] = @ \cup {"refused"}]

Starts_Again(m, event) ==
  \/ m \in Calibrating /\ event = "calibration_epoch_start"
  \/ event = "batch_start" /\ ShouldStart(m, EventStep)

(* on_event, then the starts and ends of the base class: at most one of    *)
(* them runs a hook.                                                       *)
Starts(m, event) ==
  LET flags == modifier[m]
  IN  /\ ~flags.started_
      /\ \/ m \in Calibrating /\ event = "calibration_epoch_start"
         \/ event = "batch_start" /\ ShouldStart(m, EventStep)

Ends(m, event) ==
  LET flags == modifier[m]
  IN  /\ ~flags.ended_
      /\ \/ m \in Calibrating /\ event = "calibration_epoch_end"
         \/ event = "batch_end" /\ ShouldEnd(m, EventStep)

UpdateEvent(m, event) ==
  LET flags == modifier[m]
      hooks == (IF Starts(m, event) THEN {"on_start"} ELSE {})
                 \cup (IF Ends(m, event) THEN {"on_end"} ELSE {})
      updated == [flags EXCEPT !.started_ = @ \/ "on_start" \in hooks,
                               !.ended_ = @ \/ "on_end" \in hooks]
  IN  \/ /\ ~flags.initialized_ \/ flags.finalized_
         /\ Raise
         /\ UNCHANGED <<modifier, completed, failed>>
      \/ /\ flags.initialized_ /\ ~flags.finalized_
         /\ \/ (* a hook raises, on_event and a lone on_update included *)
               /\ Raise
               /\ \/ Fail(m, flags)
                  \/ "on_start" \in hooks /\ Fail(m, StartFailed(m, flags))
                  \/ "on_end" \in hooks /\ Fail(m, EndFailed(m, flags))
               /\ UNCHANGED completed
            \/ (* on_start or on_end has run, and what follows it raises *)
               hooks # {} /\ Raise /\ Fail(m, updated) /\ Ran(m, hooks)
            \/ Continue /\ Set(m, updated) /\ Ran(m, hooks) /\ UNCHANGED failed

Finalizable_Any(m) == modifier[m].initialized_

Finalizable(m) == modifier[m].initialized_ /\ ~modifier[m].finalized_

(* Modifier.finalize: on_finalize of a calibrating modifier runs on_end    *)
(* first unless it has ended.  Its result is what finalized_ becomes.      *)
EndsLate(m) == m \in Calibrating /\ ~modifier[m].ended_

FinalizeSucceeds(m) ==
  /\ Set(m, [modifier[m] EXCEPT !.finalized_ = (m \notin ReturnsNone),
                                !.ended_ = @ \/ EndsLate(m)])
  /\ Ran(m, {"on_finalize"} \cup IF EndsLate(m) THEN {"on_end"} ELSE {})
  /\ UNCHANGED failed

(* It raises, in on_end, which may not have set ended_ yet (AWQ asserts    *)
(* first), or afterwards ("Failed to compress modules").                   *)
FinalizeFails(m) ==
  \/ FailFinalize(m, modifier[m]) /\ UNCHANGED completed
  \/ /\ FailFinalize(m, EndFailed(m, modifier[m]))
     /\ UNCHANGED completed \/ (EndsLate(m) /\ Ran(m, {"on_end"}))

-----------------------------------------------------------------------------
(* CompressionLifecycle.initialize; it returns at once when the lifecycle  *)
(* is initialized.                                                         *)

Initialize(modifiers) ==
  /\ Idle /\ ~initialized
  /\ recipe' = modifiers
  /\ Begin("initialize", modifiers, "initialize")
  /\ UNCHANGED <<initialized, finalized, last_event_type, global_step, modifier, outcome,
                 completed, failed, delivered>>

InitializeModifier ==
  /\ Visiting("initialize")
  /\ ModifierInitialize(Head(call.rest))
  /\ UNCHANGED <<lifecycle, delivered>>

InitializeReturns ==
  /\ Running("initialize") /\ call.rest = <<>>
  /\ initialized' = TRUE
  /\ Return
  /\ UNCHANGED <<finalized, recipe, last_event_type, global_step, modifier, completed, failed,
                 delivered>>

-----------------------------------------------------------------------------
(* CompressionLifecycle.event                                              *)

IndexOf(event) == CHOOSE i \in DOMAIN BatchEvents : BatchEvents[i] = event

Follows(event, last) ==
  IF event = "batch_start" THEN last # "batch_start" ELSE IndexOf(last) <= IndexOf(event)

(* _validate_event_order: other events always may be fired.                *)
ValidOrder(event) == event \in Range(BatchEvents) => Follows(event, last_event_type)

LastEvent_OnlyStart(event) ==
  IF event = "batch_start" THEN event ELSE last_event_type

LastEvent_Unhandled(event) == IF ValidOrder(event) THEN event ELSE last_event_type

LastEvent(event) ==
  IF event \in Range(BatchEvents) /\ ValidOrder(event) THEN event ELSE last_event_type

Accepting_AfterFinalize == initialized

Accepting == initialized /\ ~finalized

(* The loss is checked when the event has been recorded already.           *)
RejectEvent(event, loss) ==
  /\ Idle
  /\ ~Accepting \/ ~ValidOrder(event) \/ (event = "loss_calculated" /\ ~loss)
  /\ last_event_type' = IF Accepting THEN LastEvent(event) ELSE last_event_type
  /\ Raise
  /\ UNCHANGED <<initialized, finalized, recipe, global_step, modifier, completed, failed,
                 delivered>>

FireEvent(event, step, loss) ==
  /\ Idle /\ Accepting /\ ValidOrder(event)
  /\ event = "loss_calculated" => loss
  /\ last_event_type' = LastEvent(event)
  /\ delivered' = IF event \in Range(BatchEvents) THEN event ELSE delivered
  /\ global_step' = step
  /\ Begin("event", recipe, event)
  /\ UNCHANGED <<initialized, finalized, recipe, modifier, outcome, completed, failed>>

UpdateModifier ==
  /\ Visiting("event")
  /\ UpdateEvent(Head(call.rest), call.event)
  /\ UNCHANGED <<lifecycle, delivered>>

EventReturns ==
  /\ Running("event") /\ call.rest = <<>>
  /\ Return
  /\ UNCHANGED <<lifecycle, modifier, completed, failed, delivered>>

-----------------------------------------------------------------------------
(* CompressionLifecycle.finalize                                           *)

RejectFinalize ==
  /\ Idle /\ ~Accepting
  /\ Raise
  /\ UNCHANGED <<lifecycle, modifier, completed, failed, delivered>>

Finalize ==
  /\ Idle /\ Accepting
  /\ Begin("finalize", recipe, "finalize")
  /\ UNCHANGED <<lifecycle, modifier, outcome, completed, failed, delivered>>

FinalizeModifier_Swallows ==
  /\ Visiting("finalize")
  /\ LET m == Head(call.rest)
     IN  \/ ~Finalizable(m) /\ UNCHANGED <<modifier, completed, failed>>
         \/ Finalizable(m) /\ (FinalizeSucceeds(m) \/ FinalizeFails(m))
  /\ Continue
  /\ UNCHANGED <<lifecycle, delivered>>

FinalizeModifier ==
  /\ Visiting("finalize")
  /\ LET m == Head(call.rest)
     IN  \/ ~Finalizable(m) /\ Raise /\ UNCHANGED <<modifier, completed, failed>>
         \/ Finalizable(m) /\ FinalizeFails(m) /\ Raise
         \/ Finalizable(m) /\ FinalizeSucceeds(m) /\ Continue
  /\ UNCHANGED <<lifecycle, delivered>>

FinalizeReturns ==
  /\ Running("finalize") /\ call.rest = <<>>
  /\ finalized' = TRUE
  /\ Return
  /\ UNCHANGED <<initialized, recipe, last_event_type, global_step, modifier, completed, failed,
                 delivered>>

-----------------------------------------------------------------------------
(* CompressionLifecycle.reset and CompressionSession.reset_stage           *)

Reset_OnlyInitialized ==
  /\ Idle
  /\ Begin("reset", IF initialized THEN recipe ELSE <<>>, "reset")
  /\ UNCHANGED <<lifecycle, modifier, outcome, completed, failed, delivered>>

Reset ==
  /\ Idle
  /\ Begin("reset", recipe, "reset")
  /\ UNCHANGED <<lifecycle, modifier, outcome, completed, failed, delivered>>

(* What on_finalize raises is logged and swallowed.                        *)
ResetModifier ==
  /\ Visiting("reset")
  /\ LET m == Head(call.rest)
     IN  \/ ~Finalizable(m) /\ UNCHANGED <<modifier, completed, failed>>
         \/ Finalizable(m) /\ (FinalizeSucceeds(m) \/ FinalizeFails(m))
  /\ Continue
  /\ UNCHANGED <<lifecycle, delivered>>

ResetReturns ==
  /\ Running("reset") /\ call.rest = <<>>
  /\ initialized' = FALSE /\ finalized' = FALSE /\ recipe' = <<>>
  /\ last_event_type' = "batch_end" /\ global_step' = 0
  /\ delivered' = "batch_end"
  /\ Return
  /\ UNCHANGED <<modifier, completed, failed>>

ResetStage ==
  /\ Idle
  /\ initialized' = FALSE /\ finalized' = FALSE
  /\ UNCHANGED <<recipe, last_event_type, global_step, modifier, call, outcome, completed,
                 failed, delivered>>

-----------------------------------------------------------------------------
(* A call in progress, whoever made it.                                    *)
Work ==
  \/ InitializeModifier \/ InitializeReturns
  \/ UpdateModifier \/ EventReturns
  \/ FinalizeModifier \/ FinalizeReturns
  \/ ResetModifier \/ ResetReturns

(* Callers may make any call of the API in any order.                      *)
Next ==
  \/ \E modifiers \in Recipes : Initialize(modifiers)
  \/ \E event \in EventTypes, step \in Steps, loss \in BOOLEAN : FireEvent(event, step, loss)
  \/ \E event \in EventTypes, loss \in BOOLEAN : RejectEvent(event, loss)
  \/ Finalize \/ RejectFinalize \/ Reset \/ ResetStage
  \/ Work

Spec == Init /\ [][Next]_vars

-----------------------------------------------------------------------------
(* Properties.                                                             *)

TypeOK ==
  /\ initialized \in BOOLEAN /\ finalized \in BOOLEAN
  /\ recipe \in Seq(Modifiers)
  /\ last_event_type \in Range(BatchEvents)
  /\ global_step \in Nat
  /\ modifier \in [Modifiers -> Flags]
  /\ \/ call = NoCall
     \/ call \in CallRecord
  /\ outcome \in {"returned", "raised"}
  /\ completed \in [Modifiers -> [{"on_start", "on_end", "on_finalize"} -> 0 .. 2]]
  /\ failed \in [Modifiers -> SUBSET {"raised", "refused", "finalize"}]
  /\ delivered \in Range(BatchEvents)

(* Whatever the caller does and whatever raises, reset and re-use          *)
(* included, no modifier is started or ended twice.  The exception is one  *)
(* whose on_initialize refused: `initialize` starts it all the same, every *)
(* time it is asked.                                                       *)
StartsAndEndsOnce ==
  \A m \in Modifiers :
    /\ "refused" \notin failed[m] => completed[m].on_start <= 1
    /\ completed[m].on_end <= 1

(* Nor is one finalized twice whose on_finalize reports success (the       *)
(* others are: `finalize` takes the None they return for a failure).       *)
FinalizesOnceWhenReported ==
  \A m \in Modifiers \ ReturnsNone : completed[m].on_finalize <= 1

(* "finalized" is said only when each modifier of the recipe has been      *)
(* finalized: its hook ran to its end, and one that calibrates has ended,  *)
(* unless ending is what raised.                                           *)
FinalizedMeansAll ==
  finalized =>
    \A m \in Range(recipe) :
      /\ completed[m].on_finalize >= 1
      /\ m \in Calibrating => completed[m].on_end = 1 \/ "raised" \in failed[m]

(* Events that the lifecycle accepts are not refused by a modifier: none   *)
(* of the recipe is uninitialized or finalized already, unless a hook of   *)
(* one of them has failed.                                                 *)
AcceptedEventsAreDelivered ==
  Accepting /\ ~Running("finalize") /\ ~Running("reset")
            /\ (\A m \in Range(recipe) : failed[m] = {}) =>
    \A m \in Range(recipe) : modifier[m].initialized_ /\ ~modifier[m].finalized_

(* From one BATCH_START to the next, modifiers are given the batch events  *)
(* in their order, whatever was rejected, raised or reset in between.      *)
BatchEventsInOrder ==
  [][ Idle /\ call' # NoCall /\ call'.event \in Range(BatchEvents) \ {"batch_start"}
        => IndexOf(delivered) <= IndexOf(call'.event) ]_vars

=============================================================================
