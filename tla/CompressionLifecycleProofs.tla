--------------------- MODULE CompressionLifecycleProofs ---------------------
(***************************************************************************)
(* Proofs about CompressionLifecycle for all modifiers, recipes, start and *)
(* end steps, events and orders of calls.                                  *)
(*                                                                         *)
(* The inductive invariant relates the counters of hooks to the flags of   *)
(* the modifier objects (HooksOnce), and, while `finalize` goes through    *)
(* the recipe, the modifiers it has visited to those hooks (Visited).      *)
(***************************************************************************)
EXTENDS CompressionLifecycle, SequenceTheorems, TLAPS

Hooks == {"on_start", "on_end", "on_finalize"}

Failures == {"raised", "refused", "finalize"}

ModifiersTyped ==
  /\ modifier \in [Modifiers -> Flags]
  /\ completed \in [Modifiers -> [Hooks -> 0 .. 2]]
  /\ failed \in [Modifiers -> SUBSET Failures]

(* What its flags say of the hooks of m that ran to their end.             *)
HooksOnce(m) ==
  /\ "refused" \notin failed[m] =>
       /\ completed[m]["on_start"] <= 1
       /\ completed[m]["on_start"] = 1 => modifier[m].started_ /\ modifier[m].initialized_
  /\ completed[m]["on_end"] <= 1
  /\ completed[m]["on_end"] = 1 => modifier[m].ended_
  /\ m \in Calibrating /\ modifier[m].ended_ =>
       completed[m]["on_end"] = 1 \/ "raised" \in failed[m]
  /\ m \notin ReturnsNone =>
       /\ completed[m]["on_finalize"] <= 1
       /\ completed[m]["on_finalize"] = 1 => modifier[m].finalized_

(* m has been finalized, as FinalizedMeansAll says.                        *)
Finished(m) ==
  /\ completed[m]["on_finalize"] >= 1
  /\ m \in Calibrating => completed[m]["on_end"] = 1 \/ "raised" \in failed[m]

(* `finalize` has visited all of the recipe but what is left to visit.     *)
Visited ==
  Running("finalize") =>
    /\ Len(call.rest) <= Len(recipe)
    /\ \A i \in 1 .. Len(call.rest) :
         call.rest[i] = recipe[Len(recipe) - Len(call.rest) + i]
    /\ \A i \in 1 .. Len(recipe) - Len(call.rest) : Finished(recipe[i])

FinalizedIsTrue ==
  /\ finalized => \A i \in 1 .. Len(recipe) : Finished(recipe[i])
  /\ finalized \/ Running("finalize") => initialized

DeliveredFirst == IndexOf(delivered) <= IndexOf(last_event_type)

IndInv ==
  /\ TypeOK
  /\ \A m \in Modifiers : HooksOnce(m)
  /\ Visited
  /\ FinalizedIsTrue
  /\ DeliveredFirst

-----------------------------------------------------------------------------
(* Histories and flags change for one modifier at a time.                  *)

LEMMA RanEffect ==
  ASSUME completed \in [Modifiers -> [Hooks -> 0 .. 2]],
         NEW m \in Modifiers, NEW hooks, Ran(m, hooks)
  PROVE  /\ completed' \in [Modifiers -> [Hooks -> 0 .. 2]]
         /\ \A n \in Modifiers \ {m} : completed'[n] = completed[n]
         /\ \A h \in Hooks :
              completed'[m][h] = IF h \in hooks /\ completed[m][h] < 2
                                   THEN completed[m][h] + 1 ELSE completed[m][h]
<1> DEFINE count == [h \in Hooks |-> IF h \in hooks /\ completed[m][h] < 2
                                       THEN completed[m][h] + 1 ELSE completed[m][h]]
<1>1. completed' = [completed EXCEPT ![m] = count]
  BY DEF Ran, Hooks
<1>2. count \in [Hooks -> 0 .. 2]
  <2>1. completed[m] \in [Hooks -> 0 .. 2]
    OBVIOUS
  <2> QED
    BY <2>1
<1>3. \A h \in Hooks : count[h] = IF h \in hooks /\ completed[m][h] < 2
                                    THEN completed[m][h] + 1 ELSE completed[m][h]
  OBVIOUS
<1> HIDE DEF count
<1> QED
  BY <1>1, <1>2, <1>3

LEMMA SetEffect ==
  ASSUME modifier \in [Modifiers -> Flags],
         NEW m \in Modifiers, NEW flags \in Flags, Set(m, flags)
  PROVE  /\ modifier' \in [Modifiers -> Flags]
         /\ modifier'[m] = flags
         /\ \A n \in Modifiers \ {m} : modifier'[n] = modifier[n]
BY DEF Set

(* The histories of the other modifiers do not change, and of m they only  *)
(* grow: what was finished stays finished.                                 *)
LEMMA FinishedStays ==
  ASSUME ModifiersTyped, ModifiersTyped',
         \A n \in Modifiers : HooksOnce(n), \A n \in Modifiers : HooksOnce(n)',
         \A n \in Modifiers : /\ \A h \in Hooks : completed[n][h] <= completed'[n][h]
                              /\ failed[n] \subseteq failed'[n]
  PROVE  \A n \in Modifiers : Finished(n) => Finished(n)'
<1> SUFFICES ASSUME NEW n \in Modifiers, Finished(n)
             PROVE  Finished(n)'
  OBVIOUS
<1>1. /\ completed[n] \in [Hooks -> 0 .. 2] /\ completed'[n] \in [Hooks -> 0 .. 2]
  BY DEF ModifiersTyped
<1>2. \A h \in Hooks : completed[n][h] \in 0 .. 2 /\ completed'[n][h] \in 0 .. 2
  BY <1>1
<1> QED
  BY <1>2 DEF Finished, HooksOnce, Hooks

(* What every way of visiting a modifier ensures.                          *)
VisitKeeps ==
  /\ ModifiersTyped'
  /\ \A n \in Modifiers : HooksOnce(n)'
  /\ \A n \in Modifiers : Finished(n) => Finished(n)'

(* A visit changes the flags and histories of m alone; it is enough to     *)
(* look at m.                                                              *)
LEMMA VisitOne ==
  ASSUME ModifiersTyped, \A n \in Modifiers : HooksOnce(n),
         ModifiersTyped', NEW m \in Modifiers, HooksOnce(m)',
         \A n \in Modifiers \ {m} : /\ modifier'[n] = modifier[n]
                                    /\ completed'[n] = completed[n]
                                    /\ failed'[n] = failed[n],
         \A h \in Hooks : completed[m][h] <= completed'[m][h],
         failed[m] \subseteq failed'[m]
  PROVE  VisitKeeps
<1>1. \A n \in Modifiers : HooksOnce(n)'
  <2> SUFFICES ASSUME NEW n \in Modifiers, n # m
               PROVE  HooksOnce(n)'
    OBVIOUS
  <2> QED
    BY DEF HooksOnce
<1>2. \A n \in Modifiers : /\ \A h \in Hooks : completed[n][h] <= completed'[n][h]
                           /\ failed[n] \subseteq failed'[n]
  <2> SUFFICES ASSUME NEW n \in Modifiers, n # m
               PROVE  /\ \A h \in Hooks : completed[n][h] <= completed'[n][h]
                      /\ failed[n] \subseteq failed'[n]
    OBVIOUS
  <2>1. \A h \in Hooks : completed[n][h] \in 0 .. 2
    BY DEF ModifiersTyped
  <2> QED
    BY <2>1
<1> QED
  BY <1>1, <1>2, FinishedStays DEF VisitKeeps

LEMMA FailEffect ==
  ASSUME failed \in [Modifiers -> SUBSET Failures],
         NEW m \in Modifiers, NEW S \in SUBSET Failures,
         failed' = [failed EXCEPT ![m] = @ \cup S]
  PROVE  /\ failed' \in [Modifiers -> SUBSET Failures]
         /\ failed'[m] = failed[m] \cup S
         /\ \A n \in Modifiers \ {m} : failed'[n] = failed[n]
OBVIOUS

LEMMA NothingVisited ==
  ASSUME ModifiersTyped, \A n \in Modifiers : HooksOnce(n),
         UNCHANGED <<modifier, completed, failed>>
  PROVE  VisitKeeps
BY DEF VisitKeeps, ModifiersTyped, HooksOnce, Finished

(* Modifier.initialize: a modifier that was never refused starts only when *)
(* it becomes initialized, which happens once.                             *)
LEMMA InitializeVisit ==
  ASSUME ModifiersTyped, \A n \in Modifiers : HooksOnce(n),
         NEW m \in Modifiers, ModifierInitialize(m)
  PROVE  VisitKeeps
<1> DEFINE flags == modifier[m]
<1>t. /\ flags \in Flags
      /\ completed[m] \in [Hooks -> 0 .. 2]
      /\ failed[m] \in SUBSET Failures
  BY DEF ModifiersTyped
<1>1. CASE UNCHANGED <<modifier, completed, failed>>
  BY <1>1, NothingVisited
<1>2. CASE /\ ~flags.initialized_
           /\ \/ Fail(m, flags)
              \/ \E result \in BOOLEAN :
                   Fail(m, StartFailed(m, [flags EXCEPT !.initialized_ = result]))
           /\ UNCHANGED completed
  <2>1. PICK after \in Flags : Set(m, after) /\ failed' = [failed EXCEPT ![m] = @ \cup {"raised"}]
                               /\ (after.ended_ <=> flags.ended_) /\ (after.finalized_ <=> flags.finalized_)
    <3>1. CASE Fail(m, flags)
      BY <1>t, <3>1 DEF Fail
    <3>2. CASE \E result \in BOOLEAN :
                 Fail(m, StartFailed(m, [flags EXCEPT !.initialized_ = result]))
      <4>1. PICK result \in BOOLEAN :
              Fail(m, StartFailed(m, [flags EXCEPT !.initialized_ = result]))
        BY <3>2
      <4>2. StartFailed(m, [flags EXCEPT !.initialized_ = result]) \in Flags
        BY <1>t DEF StartFailed, Flags
      <4> QED
        BY <1>t, <4>1, <4>2 DEF Fail, StartFailed, Flags
    <3> QED
      BY <1>2, <3>1, <3>2
  <2>2. /\ modifier' \in [Modifiers -> Flags] /\ modifier'[m] = after
        /\ \A n \in Modifiers \ {m} : modifier'[n] = modifier[n]
    BY <2>1, SetEffect DEF ModifiersTyped
  <2>3. /\ failed' \in [Modifiers -> SUBSET Failures] /\ failed'[m] = failed[m] \cup {"raised"}
        /\ \A n \in Modifiers \ {m} : failed'[n] = failed[n]
    BY <2>1, FailEffect DEF ModifiersTyped, Failures
  <2>4. ModifiersTyped'
    BY <1>2, <2>2, <2>3 DEF ModifiersTyped
  <2>5. HooksOnce(m)'
    BY <1>2, <1>t, <2>1, <2>2, <2>3 DEF HooksOnce, Hooks
  <2>6. \A h \in Hooks : completed[m][h] <= completed'[m][h]
    BY <1>2, <1>t
  <2> QED
    BY <1>2, <2>2, <2>3, <2>4, <2>5, <2>6, VisitOne
<1>3. ASSUME ~flags.initialized_, NEW result \in BOOLEAN, NEW starts \in BOOLEAN,
             Set(m, [flags EXCEPT !.initialized_ = result, !.started_ = @ \/ starts]),
             Ran(m, IF starts THEN {"on_start"} ELSE {}),
             failed' = IF result THEN failed ELSE [failed EXCEPT ![m] = @ \cup {"refused"}]
      PROVE  VisitKeeps
  <2>1. [flags EXCEPT !.initialized_ = result, !.started_ = @ \/ starts] \in Flags
    BY <1>t DEF Flags
  <2>2. /\ modifier' \in [Modifiers -> Flags]
        /\ modifier'[m] = [flags EXCEPT !.initialized_ = result, !.started_ = @ \/ starts]
        /\ \A n \in Modifiers \ {m} : modifier'[n] = modifier[n]
    BY <1>3, <2>1, SetEffect DEF ModifiersTyped
  <2>3. /\ completed' \in [Modifiers -> [Hooks -> 0 .. 2]]
        /\ \A n \in Modifiers \ {m} : completed'[n] = completed[n]
        /\ completed'[m]["on_start"] = IF starts /\ completed[m]["on_start"] < 2
                                         THEN completed[m]["on_start"] + 1
                                         ELSE completed[m]["on_start"]
        /\ completed'[m]["on_end"] = completed[m]["on_end"]
        /\ completed'[m]["on_finalize"] = completed[m]["on_finalize"]
    BY <1>3, RanEffect DEF ModifiersTyped, Hooks
  <2>4. /\ failed' \in [Modifiers -> SUBSET Failures]
        /\ failed'[m] = IF result THEN failed[m] ELSE failed[m] \cup {"refused"}
        /\ \A n \in Modifiers \ {m} : failed'[n] = failed[n]
    <3>1. CASE result
      BY <1>3, <3>1 DEF ModifiersTyped
    <3>2. CASE ~result
      BY <1>3, <3>2, FailEffect DEF ModifiersTyped, Failures
    <3> QED
      BY <3>1, <3>2
  <2>5. ModifiersTyped'
    BY <2>2, <2>3, <2>4 DEF ModifiersTyped
  <2>6. /\ modifier'[m].initialized_ <=> result
        /\ modifier'[m].started_ <=> flags.started_ \/ starts
        /\ modifier'[m].ended_ <=> flags.ended_
        /\ modifier'[m].finalized_ <=> flags.finalized_
    BY <1>t, <2>2 DEF Flags
  <2>7. \A h \in Hooks : completed[m][h] \in 0 .. 2
    BY <1>t
  <2>8. HooksOnce(m)'
    <3>1. HooksOnce(m)
      OBVIOUS
    <3>2. "refused" \notin failed'[m] =>
            /\ completed'[m]["on_start"] <= 1
            /\ completed'[m]["on_start"] = 1 => modifier'[m].started_ /\ modifier'[m].initialized_
      BY <1>3, <2>3, <2>4, <2>6, <2>7, <3>1 DEF HooksOnce, Hooks
    <3>3. m \in Calibrating /\ modifier'[m].ended_ =>
            completed'[m]["on_end"] = 1 \/ "raised" \in failed'[m]
      BY <2>3, <2>4, <2>6, <3>1 DEF HooksOnce
    <3> QED
      BY <2>3, <2>6, <3>1, <3>2, <3>3 DEF HooksOnce
  <2>9. \A h \in Hooks : completed[m][h] <= completed'[m][h]
    BY <2>3, <2>7 DEF Hooks
  <2> QED
    BY <2>2, <2>3, <2>4, <2>5, <2>8, <2>9, VisitOne
<1> QED
  <2>1. ShouldStart(m, 0) \in BOOLEAN
    BY DEF ShouldStart
  <2> QED
    BY <1>1, <1>2, <1>3, <2>1, ZenonT(30) DEF ModifierInitialize

(* A visit during which a hook raised: the flags may say that m started or *)
(* ended, no hook is counted.                                              *)
LEMMA FailedVisit ==
  ASSUME ModifiersTyped, \A n \in Modifiers : HooksOnce(n),
         NEW m \in Modifiers, NEW after \in Flags, NEW S \in SUBSET Failures,
         Set(m, after), UNCHANGED completed,
         "raised" \in S, failed' = [failed EXCEPT ![m] = @ \cup S],
         modifier[m].initialized_ => after.initialized_,
         modifier[m].started_ => after.started_,
         modifier[m].ended_ => after.ended_,
         modifier[m].finalized_ => after.finalized_
  PROVE  VisitKeeps
<1>t. /\ completed[m] \in [Hooks -> 0 .. 2]
      /\ failed[m] \in SUBSET Failures
  BY DEF ModifiersTyped
<1>1. /\ modifier' \in [Modifiers -> Flags] /\ modifier'[m] = after
      /\ \A n \in Modifiers \ {m} : modifier'[n] = modifier[n]
  BY SetEffect DEF ModifiersTyped
<1>2. /\ failed' \in [Modifiers -> SUBSET Failures] /\ failed'[m] = failed[m] \cup S
      /\ \A n \in Modifiers \ {m} : failed'[n] = failed[n]
  BY FailEffect DEF ModifiersTyped
<1>3. ModifiersTyped'
  BY <1>1, <1>2 DEF ModifiersTyped
<1>4. HooksOnce(m)'
  BY <1>t, <1>1, <1>2 DEF HooksOnce, Hooks
<1>5. \A h \in Hooks : completed[m][h] <= completed'[m][h]
  BY <1>t
<1> QED
  BY <1>1, <1>2, <1>3, <1>4, <1>5, VisitOne

(* Modifier.update_event: hooks run only for a modifier whose flag says    *)
(* that they have not, and set the flag.                                   *)
LEMMA UpdateVisit ==
  ASSUME ModifiersTyped, \A n \in Modifiers : HooksOnce(n),
         NEW m \in Modifiers, NEW event, UpdateEvent(m, event)
  PROVE  VisitKeeps
<1> DEFINE flags == modifier[m]
           hooks == (IF Starts(m, event) THEN {"on_start"} ELSE {})
                      \cup (IF Ends(m, event) THEN {"on_end"} ELSE {})
           updated == [flags EXCEPT !.started_ = @ \/ "on_start" \in hooks,
                                    !.ended_ = @ \/ "on_end" \in hooks]
<1>t. /\ flags \in Flags
      /\ completed[m] \in [Hooks -> 0 .. 2]
      /\ failed[m] \in SUBSET Failures
      /\ HooksOnce(m)
  BY DEF ModifiersTyped
<1>1. CASE UNCHANGED <<modifier, completed, failed>>
  BY <1>1, NothingVisited
<1>2. ASSUME NEW after \in Flags, after \in {flags, StartFailed(m, flags), EndFailed(m, flags)},
             Fail(m, after), UNCHANGED completed
      PROVE  VisitKeeps
  <2>1. /\ flags.initialized_ => after.initialized_
        /\ flags.started_ => after.started_
        /\ flags.ended_ => after.ended_
        /\ flags.finalized_ => after.finalized_
    BY <1>t, <1>2 DEF StartFailed, EndFailed, Flags
  <2> QED
    BY <1>2, <2>1, FailedVisit DEF Fail, Failures
<1>3. CASE /\ flags.initialized_ /\ Set(m, updated) /\ Ran(m, hooks)
           /\ UNCHANGED failed \/ failed' = [failed EXCEPT ![m] = @ \cup {"raised"}]
  <2>f. /\ failed' \in [Modifiers -> SUBSET Failures]
        /\ \A n \in Modifiers \ {m} : failed'[n] = failed[n]
        /\ "refused" \in failed'[m] <=> "refused" \in failed[m]
        /\ failed[m] \subseteq failed'[m]
    BY <1>3 DEF ModifiersTyped, Failures
  <2> DEFINE starts == "on_start" \in hooks
             ends == "on_end" \in hooks
  <2>0. /\ starts => ~flags.started_
        /\ ends => ~flags.ended_
        /\ "on_finalize" \notin hooks
    BY DEF Starts, Ends
  <2> HIDE DEF hooks
  <2>1. updated \in Flags
    BY <1>t DEF Flags
  <2>2. /\ updated.initialized_ <=> flags.initialized_
        /\ updated.started_ <=> flags.started_ \/ starts
        /\ updated.ended_ <=> flags.ended_ \/ ends
        /\ updated.finalized_ <=> flags.finalized_
    BY <1>t DEF Flags
  <2> HIDE DEF updated
  <2>3. /\ modifier' \in [Modifiers -> Flags] /\ modifier'[m] = updated
        /\ \A n \in Modifiers \ {m} : modifier'[n] = modifier[n]
    BY <1>3, <2>1, SetEffect DEF ModifiersTyped
  <2>4. /\ completed' \in [Modifiers -> [Hooks -> 0 .. 2]]
        /\ \A n \in Modifiers \ {m} : completed'[n] = completed[n]
        /\ \A h \in Hooks :
             completed'[m][h] = IF h \in hooks /\ completed[m][h] < 2
                                  THEN completed[m][h] + 1 ELSE completed[m][h]
    BY <1>3, RanEffect DEF ModifiersTyped
  <2>5. ModifiersTyped'
    BY <2>f, <2>3, <2>4 DEF ModifiersTyped
  <2>6. \A h \in Hooks : completed[m][h] \in 0 .. 2 /\ completed[m][h] <= completed'[m][h]
    BY <1>t, <2>4
  <2>7. HooksOnce(m)'
    <3>1. /\ completed'[m]["on_start"] = IF starts /\ completed[m]["on_start"] < 2
                                           THEN completed[m]["on_start"] + 1
                                           ELSE completed[m]["on_start"]
          /\ completed'[m]["on_end"] = IF ends /\ completed[m]["on_end"] < 2
                                         THEN completed[m]["on_end"] + 1
                                         ELSE completed[m]["on_end"]
          /\ completed'[m]["on_finalize"] = completed[m]["on_finalize"]
      BY <2>0, <2>4 DEF Hooks
    <3>2. /\ completed[m]["on_start"] \in 0 .. 2 /\ completed[m]["on_end"] \in 0 .. 2
      BY <2>6 DEF Hooks
    <3>3. "refused" \notin failed'[m] =>
            /\ completed'[m]["on_start"] <= 1
            /\ completed'[m]["on_start"] = 1 => modifier'[m].started_ /\ modifier'[m].initialized_
      BY <1>3, <2>f, <1>t, <2>0, <2>2, <2>3, <3>1, <3>2 DEF HooksOnce
    <3>4. /\ completed'[m]["on_end"] <= 1
          /\ completed'[m]["on_end"] = 1 => modifier'[m].ended_
          /\ m \in Calibrating /\ modifier'[m].ended_ =>
               completed'[m]["on_end"] = 1 \/ "raised" \in failed'[m]
      BY <1>3, <2>f, <1>t, <2>0, <2>2, <2>3, <3>1, <3>2 DEF HooksOnce
    <3>5. m \notin ReturnsNone =>
            /\ completed'[m]["on_finalize"] <= 1
            /\ completed'[m]["on_finalize"] = 1 => modifier'[m].finalized_
      BY <1>t, <2>2, <2>3, <3>1 DEF HooksOnce
    <3> QED
      BY <3>3, <3>4, <3>5 DEF HooksOnce
  <2> QED
    BY <2>f, <2>3, <2>4, <2>5, <2>6, <2>7, VisitOne
<1>4. /\ StartFailed(m, flags) \in Flags /\ EndFailed(m, flags) \in Flags
  BY <1>t DEF StartFailed, EndFailed, Flags
<1> QED
  BY <1>t, <1>1, <1>2, <1>3, <1>4 DEF UpdateEvent, Fail

(* Modifier.finalize as `finalize` and `reset` call it.                    *)
LEMMA FinalizeVisit ==
  ASSUME ModifiersTyped, \A n \in Modifiers : HooksOnce(n),
         NEW m \in Modifiers, Finalizable(m), FinalizeSucceeds(m) \/ FinalizeFails(m)
  PROVE  VisitKeeps /\ (FinalizeSucceeds(m) => Finished(m)')
<1> DEFINE flags == modifier[m]
<1>t. /\ flags \in Flags
      /\ completed[m] \in [Hooks -> 0 .. 2]
      /\ failed[m] \in SUBSET Failures
      /\ HooksOnce(m)
  BY DEF ModifiersTyped
<1>1. \A h \in Hooks : completed[m][h] \in 0 .. 2
  BY <1>t
<1>2. CASE FinalizeSucceeds(m)
  <2> DEFINE late == EndsLate(m)
             hooks == {"on_finalize"} \cup IF late THEN {"on_end"} ELSE {}
             after == [flags EXCEPT !.finalized_ = (m \notin ReturnsNone),
                                    !.ended_ = @ \/ late]
  <2>0. /\ late <=> m \in Calibrating /\ ~flags.ended_
        /\ late \in BOOLEAN
    BY DEF EndsLate
  <2>1. /\ Set(m, after) /\ Ran(m, hooks) /\ UNCHANGED failed
    BY <1>2 DEF FinalizeSucceeds
  <2> HIDE DEF late
  <2>2. after \in Flags
    BY <1>t, <2>0 DEF Flags
  <2>3. /\ after.initialized_ <=> flags.initialized_
        /\ after.started_ <=> flags.started_
        /\ after.ended_ <=> flags.ended_ \/ late
        /\ after.finalized_ <=> m \notin ReturnsNone
    BY <1>t, <2>0 DEF Flags
  <2> HIDE DEF after
  <2>4. /\ modifier' \in [Modifiers -> Flags] /\ modifier'[m] = after
        /\ \A n \in Modifiers \ {m} : modifier'[n] = modifier[n]
    BY <2>1, <2>2, SetEffect DEF ModifiersTyped
  <2>5. /\ completed' \in [Modifiers -> [Hooks -> 0 .. 2]]
        /\ \A n \in Modifiers \ {m} : completed'[n] = completed[n]
        /\ \A h \in Hooks :
             completed'[m][h] = IF h \in hooks /\ completed[m][h] < 2
                                  THEN completed[m][h] + 1 ELSE completed[m][h]
    BY <2>1, RanEffect DEF ModifiersTyped
  <2>6. /\ completed'[m]["on_start"] = completed[m]["on_start"]
        /\ completed'[m]["on_end"] = IF late /\ completed[m]["on_end"] < 2
                                       THEN completed[m]["on_end"] + 1
                                       ELSE completed[m]["on_end"]
        /\ completed'[m]["on_finalize"] = IF completed[m]["on_finalize"] < 2
                                            THEN completed[m]["on_finalize"] + 1
                                            ELSE completed[m]["on_finalize"]
    BY <2>5 DEF Hooks
  <2>7. ModifiersTyped'
    BY <2>1, <2>4, <2>5 DEF ModifiersTyped
  <2>8. /\ completed[m]["on_start"] \in 0 .. 2 /\ completed[m]["on_end"] \in 0 .. 2
        /\ completed[m]["on_finalize"] \in 0 .. 2
    BY <1>1 DEF Hooks
  <2>9. /\ completed'[m]["on_end"] <= 1
        /\ completed'[m]["on_end"] = 1 => modifier'[m].ended_
        /\ m \in Calibrating /\ modifier'[m].ended_ =>
             completed'[m]["on_end"] = 1 \/ "raised" \in failed'[m]
    BY <1>t, <2>0, <2>1, <2>3, <2>4, <2>6, <2>8 DEF HooksOnce
  <2>10. m \notin ReturnsNone =>
           /\ completed'[m]["on_finalize"] <= 1
           /\ completed'[m]["on_finalize"] = 1 => modifier'[m].finalized_
    BY <1>t, <2>3, <2>4, <2>6, <2>8 DEF HooksOnce, Finalizable
  <2>11. HooksOnce(m)'
    BY <1>t, <2>1, <2>3, <2>4, <2>6, <2>9, <2>10 DEF HooksOnce
  <2>12. \A h \in Hooks : completed[m][h] <= completed'[m][h]
    BY <1>1, <2>5
  <2>13. Finished(m)'
    BY <2>0, <2>3, <2>4, <2>6, <2>8, <2>9 DEF Finished
  <2> QED
    BY <2>1, <2>4, <2>5, <2>7, <2>11, <2>12, <2>13, VisitOne
<1>3. CASE FinalizeFails(m) /\ ~FinalizeSucceeds(m)
  <2> DEFINE after == EndFailed(m, flags)
  <2>0. CASE FailFinalize(m, flags) /\ UNCHANGED completed
    BY <1>t, <1>3, <2>0, FailedVisit DEF FailFinalize, Failures
  <2> SUFFICES ASSUME /\ FailFinalize(m, after)
                      /\ UNCHANGED completed \/ (EndsLate(m) /\ Ran(m, {"on_end"}))
               PROVE  VisitKeeps
    BY <1>3, <2>0 DEF FinalizeFails
  <2>1. /\ Set(m, after) /\ failed' = [failed EXCEPT ![m] = @ \cup {"raised", "finalize"}]
    BY DEF FailFinalize
  <2>2. after \in Flags
    BY <1>t DEF EndFailed, Flags
  <2>3. /\ after.initialized_ <=> flags.initialized_
        /\ after.started_ <=> flags.started_
        /\ after.ended_ <=> flags.ended_ \/ m \in Calibrating
        /\ after.finalized_ <=> flags.finalized_
    BY <1>t DEF EndFailed, Flags
  <2> HIDE DEF after
  <2>4. CASE UNCHANGED completed
    BY <1>3, <2>1, <2>2, <2>3, <2>4, FailedVisit, ZenonT(60) DEF Failures
  <2>5. CASE EndsLate(m) /\ Ran(m, {"on_end"})
    <3>1. /\ modifier' \in [Modifiers -> Flags] /\ modifier'[m] = after
          /\ \A n \in Modifiers \ {m} : modifier'[n] = modifier[n]
      BY <2>1, <2>2, SetEffect DEF ModifiersTyped
    <3>2. /\ failed' \in [Modifiers -> SUBSET Failures]
          /\ failed'[m] = failed[m] \cup {"raised", "finalize"}
          /\ \A n \in Modifiers \ {m} : failed'[n] = failed[n]
      BY <2>1, FailEffect DEF ModifiersTyped, Failures
    <3>3. /\ completed' \in [Modifiers -> [Hooks -> 0 .. 2]]
          /\ \A n \in Modifiers \ {m} : completed'[n] = completed[n]
          /\ \A h \in Hooks :
               completed'[m][h] = IF h \in {"on_end"} /\ completed[m][h] < 2
                                    THEN completed[m][h] + 1 ELSE completed[m][h]
      BY <2>5, RanEffect DEF ModifiersTyped
    <3>4. /\ completed'[m]["on_start"] = completed[m]["on_start"]
          /\ completed'[m]["on_end"] = IF completed[m]["on_end"] < 2
                                         THEN completed[m]["on_end"] + 1
                                         ELSE completed[m]["on_end"]
          /\ completed'[m]["on_finalize"] = completed[m]["on_finalize"]
          /\ completed[m]["on_end"] \in 0 .. 2
      BY <1>1, <3>3 DEF Hooks
    <3>5. ModifiersTyped'
      BY <3>1, <3>2, <3>3 DEF ModifiersTyped
    <3>6. HooksOnce(m)'
      BY <1>t, <2>3, <2>5, <3>1, <3>2, <3>4 DEF HooksOnce, EndsLate
    <3>7. \A h \in Hooks : completed[m][h] <= completed'[m][h]
      BY <1>1, <3>3
    <3> QED
      BY <1>3, <3>1, <3>2, <3>3, <3>5, <3>6, <3>7, VisitOne
  <2> QED
    BY <2>4, <2>5
<1> QED
  BY <1>2, <1>3

-----------------------------------------------------------------------------
(* The batch events and their positions.                                   *)

LEMMA BatchEventsRange ==
  /\ Range(BatchEvents) = {"batch_start", "loss_calculated", "optim_pre_step",
                           "optim_post_step", "batch_end"}
  /\ \A event \in Range(BatchEvents) : IndexOf(event) \in 1 .. 5
<1>1. DOMAIN BatchEvents = 1 .. 5
  BY DEF BatchEvents
<1>2. Range(BatchEvents) = {BatchEvents[i] : i \in 1 .. 5}
  BY <1>1 DEF Range
<1>3. ASSUME NEW event \in Range(BatchEvents)
      PROVE  IndexOf(event) \in 1 .. 5
  <2>1. \E i \in DOMAIN BatchEvents : BatchEvents[i] = event
    BY DEF Range
  <2> QED
    BY <1>1, <2>1 DEF IndexOf
<1>4. {BatchEvents[i] : i \in 1 .. 5} = {"batch_start", "loss_calculated", "optim_pre_step",
                                         "optim_post_step", "batch_end"}
  <2>1. \A x : x \in {BatchEvents[i] : i \in 1 .. 5}
                 <=> x \in {BatchEvents[1], BatchEvents[2], BatchEvents[3],
                            BatchEvents[4], BatchEvents[5]}
    OBVIOUS
  <2> QED
    BY <2>1 DEF BatchEvents
<1> QED
  BY <1>2, <1>3, <1>4

LEMMA TypeParts ==
  TypeOK <=>
    /\ initialized \in BOOLEAN /\ finalized \in BOOLEAN
    /\ recipe \in Seq(Modifiers)
    /\ last_event_type \in Range(BatchEvents)
    /\ global_step \in Nat
    /\ ModifiersTyped
    /\ \/ call = NoCall
       \/ call \in CallRecord
    /\ outcome \in {"returned", "raised"}
    /\ delivered \in Range(BatchEvents)
BY DEF TypeOK, ModifiersTyped, Hooks, Failures, CallRecord

LEMMA InitIndInv == Init => IndInv
<1> SUFFICES ASSUME Init PROVE IndInv
  OBVIOUS
<1>1. ModifiersTyped
  BY DEF Init, ModifiersTyped, Flags, Hooks, Failures
<1>2. "batch_end" \in Range(BatchEvents)
  BY BatchEventsRange
<1>3. TypeOK
  <2>1. /\ initialized \in BOOLEAN /\ finalized \in BOOLEAN /\ recipe \in Seq(Modifiers)
        /\ global_step \in Nat /\ call = NoCall /\ outcome \in {"returned", "raised"}
    BY EmptySeq DEF Init
  <2>2. last_event_type \in Range(BatchEvents) /\ delivered \in Range(BatchEvents)
    BY <1>2 DEF Init
  <2> QED
    BY <1>1, <2>1, <2>2 DEF TypeOK, ModifiersTyped, Hooks, Failures
<1>4. \A m \in Modifiers : HooksOnce(m)
  BY DEF Init, HooksOnce
<1>5. Visited /\ FinalizedIsTrue
  BY DEF Init, Visited, FinalizedIsTrue, Running
<1>6. DeliveredFirst
  BY <1>2, BatchEventsRange DEF Init, DeliveredFirst
<1> QED
  BY <1>3, <1>4, <1>5, <1>6 DEF IndInv

LEMMA ContinueEffect ==
  ASSUME call \in CallRecord, call.rest # <<>>, call' = [call EXCEPT !.rest = Tail(@)]
  PROVE  /\ call' \in CallRecord
         /\ call'.op = call.op /\ call'.rest = Tail(call.rest) /\ call'.event = call.event
<1>1. Tail(call.rest) \in Seq(Modifiers)
  BY DEF CallRecord
<1> QED
  BY <1>1 DEF CallRecord

(* A call that is not `finalize` has visited a modifier, or a call raised. *)
LEMMA VisitStep ==
  ASSUME IndInv, VisitKeeps, UNCHANGED <<lifecycle, delivered>>,
         \/ call' = NoCall /\ outcome' \in {"returned", "raised"}
         \/ /\ call # NoCall /\ call.op # "finalize" /\ call.rest # <<>>
            /\ call' = [call EXCEPT !.rest = Tail(@)] /\ UNCHANGED outcome
  PROVE  IndInv'
<1>u. /\ initialized' = initialized /\ finalized' = finalized /\ recipe' = recipe
      /\ last_event_type' = last_event_type /\ global_step' = global_step
      /\ delivered' = delivered
  BY DEF lifecycle
<1>t. TypeOK
  BY DEF IndInv
<1>1. /\ call' = NoCall \/ call' \in CallRecord
      /\ ~(call' # NoCall /\ call'.op = "finalize")
  <2>1. CASE call' = NoCall
    BY <2>1
  <2>2. CASE /\ call # NoCall /\ call.op # "finalize" /\ call.rest # <<>>
             /\ call' = [call EXCEPT !.rest = Tail(@)]
    <3>1. call \in CallRecord
      BY <1>t, <2>2, TypeParts
    <3> QED
      BY <2>2, <3>1, ContinueEffect
  <2> QED
    BY <2>1, <2>2
<1>2. outcome' \in {"returned", "raised"}
  BY <1>t, TypeParts
<1>3. TypeOK'
  <2>1. /\ initialized' \in BOOLEAN /\ finalized' \in BOOLEAN /\ recipe' \in Seq(Modifiers)
        /\ last_event_type' \in Range(BatchEvents) /\ global_step' \in Nat
        /\ delivered' \in Range(BatchEvents)
    BY <1>u, <1>t, TypeParts
  <2> QED
    BY <1>1, <1>2, <2>1
       DEF VisitKeeps, TypeOK, ModifiersTyped, Hooks, Failures, CallRecord
<1>4. ~Running("finalize")'
  BY <1>1 DEF Running
<1>5. FinalizedIsTrue'
  <2>1. \A i \in 1 .. Len(recipe) : Finished(recipe[i]) => Finished(recipe[i])'
    <3>1. \A i \in 1 .. Len(recipe) : recipe[i] \in Modifiers
      BY <1>t, TypeParts
    <3> QED
      BY <1>u, <3>1 DEF VisitKeeps, Finished
  <2> QED
    BY <1>u, <1>4, <2>1 DEF IndInv, FinalizedIsTrue
<1>6. DeliveredFirst'
  BY <1>u DEF IndInv, DeliveredFirst
<1> QED
  BY <1>3, <1>4, <1>5, <1>6 DEF IndInv, VisitKeeps, Visited

(* The modifier to be visited is one of the modifiers.                     *)
LEMMA HeadIsModifier ==
  ASSUME IndInv, NEW op, Visiting(op)
  PROVE  /\ call \in CallRecord /\ call # NoCall /\ call.op = op /\ call.rest # <<>>
         /\ Head(call.rest) \in Modifiers
         /\ ModifiersTyped /\ \A m \in Modifiers : HooksOnce(m)
<1>1. call \in CallRecord /\ call # NoCall /\ call.op = op /\ call.rest # <<>>
  BY TypeParts DEF IndInv, Visiting, Running
<1>2. Head(call.rest) \in Modifiers
  BY <1>1 DEF CallRecord
<1> QED
  BY <1>1, <1>2, TypeParts DEF IndInv

-----------------------------------------------------------------------------
(* Each step of a session preserves the invariant.                         *)

LEMMA InitializeModifierStep == IndInv /\ InitializeModifier => IndInv'
<1> SUFFICES ASSUME IndInv, InitializeModifier PROVE IndInv'
  OBVIOUS
<1>1. Visiting("initialize")
  BY DEF InitializeModifier
<1>2. VisitKeeps
  BY <1>1, HeadIsModifier, InitializeVisit DEF InitializeModifier
<1>3. Raise \/ Continue
  BY Zenon DEF InitializeModifier, ModifierInitialize
<1> QED
  BY <1>1, <1>2, <1>3, HeadIsModifier, VisitStep DEF InitializeModifier, Raise, Continue

LEMMA UpdateModifierStep == IndInv /\ UpdateModifier => IndInv'
<1> SUFFICES ASSUME IndInv, UpdateModifier PROVE IndInv'
  OBVIOUS
<1>1. Visiting("event")
  BY DEF UpdateModifier
<1>2. VisitKeeps
  BY <1>1, HeadIsModifier, UpdateVisit DEF UpdateModifier
<1>3. Raise \/ Continue
  BY Zenon DEF UpdateModifier, UpdateEvent
<1> QED
  BY <1>1, <1>2, <1>3, HeadIsModifier, VisitStep DEF UpdateModifier, Raise, Continue

LEMMA ResetModifierStep == IndInv /\ ResetModifier => IndInv'
<1> SUFFICES ASSUME IndInv, ResetModifier PROVE IndInv'
  OBVIOUS
<1>1. Visiting("reset")
  BY DEF ResetModifier
<1>2. VisitKeeps
  BY <1>1, HeadIsModifier, FinalizeVisit, NothingVisited DEF ResetModifier
<1> QED
  BY <1>1, <1>2, HeadIsModifier, VisitStep DEF ResetModifier, Continue

(* The one visit that adds to what `finalize` has finished.                *)
LEMMA FinalizeModifierStep == IndInv /\ FinalizeModifier => IndInv'
<1> SUFFICES ASSUME IndInv, FinalizeModifier PROVE IndInv'
  OBVIOUS
<1>1. Visiting("finalize")
  BY DEF FinalizeModifier
<1>h. PICK h \in Modifiers : h = Head(call.rest)
  BY <1>1, HeadIsModifier
<1>2. VisitKeeps
  BY <1>1, HeadIsModifier, FinalizeVisit, NothingVisited DEF FinalizeModifier
<1>u. UNCHANGED <<lifecycle, delivered>>
  BY DEF FinalizeModifier
<1>3. CASE Raise
  BY <1>2, <1>3, <1>u, VisitStep DEF Raise
<1>4. CASE Continue /\ Finalizable(h) /\ FinalizeSucceeds(h)
  <2>1. /\ call \in CallRecord /\ call # NoCall /\ call.op = "finalize" /\ call.rest # <<>>
    BY <1>1, HeadIsModifier
  <2>2. /\ call' \in CallRecord /\ call'.op = "finalize" /\ call'.rest = Tail(call.rest)
        /\ outcome' = outcome
    BY <1>4, <2>1, ContinueEffect DEF Continue
  <2>3. Finished(h)'
    BY <1>1, <1>4, HeadIsModifier, FinalizeVisit
  <2>4. /\ initialized' = initialized /\ finalized' = finalized /\ recipe' = recipe
        /\ last_event_type' = last_event_type /\ global_step' = global_step
        /\ delivered' = delivered
    BY <1>u DEF lifecycle
  <2>t. /\ TypeOK /\ recipe \in Seq(Modifiers) /\ call.rest \in Seq(Modifiers)
    BY <2>1, TypeParts DEF IndInv, CallRecord
  <2>5. TypeOK'
    <3>1. /\ initialized' \in BOOLEAN /\ finalized' \in BOOLEAN /\ recipe' \in Seq(Modifiers)
          /\ last_event_type' \in Range(BatchEvents) /\ global_step' \in Nat
          /\ delivered' \in Range(BatchEvents) /\ outcome' \in {"returned", "raised"}
      BY <2>2, <2>4, <2>t, TypeParts
    <3> QED
      BY <1>2, <2>2, <3>1 DEF VisitKeeps, TypeOK, ModifiersTyped, Hooks, Failures, CallRecord
  <2>6. \A i \in 1 .. Len(recipe) : Finished(recipe[i]) => Finished(recipe[i])'
    <3>1. \A i \in 1 .. Len(recipe) : recipe[i] \in Modifiers
      BY <2>t
    <3> QED
      BY <1>2, <2>4, <3>1 DEF VisitKeeps, Finished
  <2>7. Running("finalize")
    BY <2>1 DEF Running
  <2>8. /\ Len(call.rest) \in Nat \ {0} /\ Len(recipe) \in Nat
        /\ Len(call.rest) <= Len(recipe)
        /\ call'.rest = Tail(call.rest)
        /\ Len(call'.rest) = Len(call.rest) - 1
        /\ \A i \in 1 .. Len(call.rest) - 1 : call'.rest[i] = call.rest[i + 1]
        /\ h = call.rest[1]
    BY <1>h, <2>1, <2>2, <2>7, <2>t, HeadTailProperties, EmptySeq DEF IndInv, Visited
  <2>9. Visited'
    <3> DEFINE left == Len(call.rest)
               all == Len(recipe)
    <3>1. /\ \A i \in 1 .. left : call.rest[i] = recipe[all - left + i]
          /\ \A i \in 1 .. all - left : Finished(recipe[i])
      BY <2>7 DEF IndInv, Visited
    <3>2. Len(recipe') = all /\ Len(call'.rest) = left - 1
      BY <2>4, <2>8
    <3> HIDE DEF left, all
    <3>3. left \in Nat \ {0} /\ all \in Nat /\ left <= all
      BY <2>8 DEF left, all
    <3>4. \A i \in 1 .. left - 1 : call'.rest[i] = recipe'[all - (left - 1) + i]
      <4> SUFFICES ASSUME NEW i \in 1 .. left - 1
                   PROVE  call'.rest[i] = recipe[all - (left - 1) + i]
        BY <2>4
      <4>1. i + 1 \in 1 .. left /\ all - left + (i + 1) = all - (left - 1) + i
        BY <3>3
      <4>2. call'.rest[i] = call.rest[i + 1]
        BY <2>8 DEF left
      <4>3. call.rest[i + 1] = recipe[all - left + (i + 1)]
        BY <3>1, <4>1
      <4> QED
        BY <4>1, <4>2, <4>3
    <3>5. \A i \in 1 .. all - (left - 1) : Finished(recipe[i])'
      <4> SUFFICES ASSUME NEW i \in 1 .. all - (left - 1)
                   PROVE  Finished(recipe[i])'
        OBVIOUS
      <4>1. CASE i \in 1 .. all - left
        <5>1. i \in 1 .. Len(recipe)
          BY <4>1, <3>3 DEF all
        <5> QED
          BY <2>6, <3>1, <4>1, <5>1
      <4>2. CASE i = all - left + 1
        <5>1. 1 \in 1 .. left
          BY <3>3
        <5>2. recipe[i] = h
          BY <2>8, <3>1, <4>2, <5>1
        <5> QED
          BY <2>3, <2>4, <5>2 DEF Finished
      <4> QED
        BY <3>3, <4>1, <4>2
    <3> QED
      BY <3>2, <3>3, <3>4, <3>5 DEF Visited
  <2>10. FinalizedIsTrue'
    BY <2>4, <2>6, <2>7 DEF IndInv, FinalizedIsTrue
  <2>11. DeliveredFirst'
    BY <2>4 DEF IndInv, DeliveredFirst
  <2> QED
    BY <1>2, <2>5, <2>9, <2>10, <2>11 DEF IndInv, VisitKeeps
<1> QED
  BY <1>h, <1>3, <1>4 DEF FinalizeModifier

(* Steps that begin or end a call leave modifiers and their histories      *)
(* alone.                                                                  *)
LEMMA OtherStep ==
  ASSUME IndInv, UNCHANGED <<modifier, completed, failed>>,
         initialized' \in BOOLEAN, finalized' \in BOOLEAN, recipe' \in Seq(Modifiers),
         last_event_type' \in Range(BatchEvents), global_step' \in Nat,
         delivered' \in Range(BatchEvents),
         call' = NoCall \/ call' \in CallRecord,
         outcome' = outcome \/ outcome' \in {"returned", "raised"},
         Visited', FinalizedIsTrue', DeliveredFirst'
  PROVE  IndInv'
<1>1. ModifiersTyped /\ (\A n \in Modifiers : HooksOnce(n)) /\ outcome \in {"returned", "raised"}
  BY TypeParts DEF IndInv
<1>2. VisitKeeps
  BY <1>1, NothingVisited
<1>3. TypeOK'
  BY <1>1, <1>2 DEF VisitKeeps, TypeOK, ModifiersTyped, Hooks, Failures, CallRecord
<1> QED
  BY <1>2, <1>3 DEF IndInv, VisitKeeps

(* The parts of the invariant that beginning or ending a call depends on.  *)
LEMMA SessionParts ==
  ASSUME IndInv
  PROVE  /\ initialized \in BOOLEAN /\ finalized \in BOOLEAN /\ recipe \in Seq(Modifiers)
         /\ last_event_type \in Range(BatchEvents) /\ global_step \in Nat
         /\ delivered \in Range(BatchEvents) /\ outcome \in {"returned", "raised"}
         /\ call = NoCall \/ call \in CallRecord
         /\ Visited /\ FinalizedIsTrue /\ DeliveredFirst
BY TypeParts DEF IndInv

LEMMA BeginEffect ==
  ASSUME NEW op \in {"initialize", "event", "finalize", "reset"},
         NEW modifiers \in Seq(Modifiers),
         NEW event \in EventTypes \cup {"initialize", "finalize", "reset"},
         Begin(op, modifiers, event)
  PROVE  /\ call' \in CallRecord
         /\ call'.op = op /\ call'.rest = modifiers /\ call'.event = event
BY DEF Begin, CallRecord

(* Visited speaks of `finalize` alone.                                     *)
LEMMA NotFinalizing ==
  ASSUME call' = NoCall \/ call'.op # "finalize"
  PROVE  Visited' /\ ~Running("finalize")'
BY DEF Visited, Running

(* While modifiers and recipe stay as they are, so does what is finished.  *)
LEMMA StillFinalized ==
  ASSUME IndInv, UNCHANGED <<modifier, completed, failed, recipe, initialized, finalized>>,
         call' = NoCall \/ call'.op # "finalize"
  PROVE  FinalizedIsTrue'
<1>1. ~Running("finalize")'
  BY NotFinalizing
<1>2. \A i \in 1 .. Len(recipe) : Finished(recipe[i]) => Finished(recipe[i])'
  BY DEF Finished
<1> QED
  BY <1>1, <1>2 DEF IndInv, FinalizedIsTrue

LEMMA InitializeStep ==
  ASSUME IndInv, NEW modifiers \in Recipes, Initialize(modifiers)
  PROVE  IndInv'
<1>1. modifiers \in Seq(Modifiers)
  BY ModifiersAssumption
<1>2. call' \in CallRecord /\ call'.op = "initialize"
  BY <1>1, BeginEffect DEF Initialize
<1>3. Visited' /\ ~Running("finalize")'
  BY <1>2, NotFinalizing
<1>4. FinalizedIsTrue'
  BY <1>3, SessionParts DEF Initialize, FinalizedIsTrue
<1>5. DeliveredFirst'
  BY SessionParts DEF Initialize, DeliveredFirst
<1> QED
  BY <1>1, <1>2, <1>3, <1>4, <1>5, SessionParts, OtherStep DEF Initialize

LEMMA InitializeReturnsStep == IndInv /\ InitializeReturns => IndInv'
<1> SUFFICES ASSUME IndInv, InitializeReturns PROVE IndInv'
  OBVIOUS
<1>1. call' = NoCall /\ outcome' = "returned"
  BY DEF InitializeReturns, Return
<1>2. Visited' /\ ~Running("finalize")'
  BY <1>1, NotFinalizing
<1>3. \A i \in 1 .. Len(recipe) : Finished(recipe[i]) => Finished(recipe[i])'
  BY DEF InitializeReturns, Finished
<1>4. FinalizedIsTrue'
  BY <1>2, <1>3, SessionParts DEF InitializeReturns, FinalizedIsTrue
<1>5. DeliveredFirst'
  BY SessionParts DEF InitializeReturns, DeliveredFirst
<1> QED
  BY <1>1, <1>2, <1>4, <1>5, SessionParts, OtherStep DEF InitializeReturns

(* The event recorded last never runs ahead of the batch.                  *)
LEMMA EventOrder ==
  ASSUME IndInv, NEW event \in EventTypes
  PROVE  /\ LastEvent(event) \in Range(BatchEvents)
         /\ event \in Range(BatchEvents) /\ event # "batch_start" /\ ValidOrder(event) =>
              IndexOf(last_event_type) <= IndexOf(event)
BY SessionParts DEF LastEvent, ValidOrder, Follows

(* An event that is refused for want of a loss is later than any that was  *)
(* delivered.                                                              *)
LEMMA RejectEventStep ==
  ASSUME IndInv, NEW event \in EventTypes, NEW loss \in BOOLEAN, RejectEvent(event, loss)
  PROVE  IndInv'
<1>1. call' = NoCall /\ outcome' = "raised"
  BY DEF RejectEvent, Raise
<1>2. last_event_type' \in Range(BatchEvents)
  BY SessionParts, EventOrder DEF RejectEvent
<1>3. DeliveredFirst'
  <2>1. CASE last_event_type' = last_event_type
    BY <2>1, SessionParts DEF RejectEvent, DeliveredFirst
  <2>2. CASE last_event_type' # last_event_type
    <3>1. /\ event \in Range(BatchEvents) /\ ValidOrder(event) /\ Accepting
          /\ last_event_type' = event
      BY <2>2 DEF RejectEvent, LastEvent
    <3>2. event = "loss_calculated"
      BY <3>1 DEF RejectEvent
    <3>3. IndexOf(delivered) <= IndexOf(last_event_type)
      BY SessionParts DEF DeliveredFirst
    <3>4. IndexOf(last_event_type) <= IndexOf(event)
      BY <3>1, <3>2, EventOrder
    <3>5. /\ IndexOf(delivered) \in 1 .. 5 /\ IndexOf(last_event_type) \in 1 .. 5
          /\ IndexOf(event) \in 1 .. 5
      BY <3>1, SessionParts, BatchEventsRange
    <3>6. IndexOf(delivered) <= IndexOf(event)
      BY <3>3, <3>4, <3>5
    <3> QED
      BY <3>1, <3>6 DEF DeliveredFirst, RejectEvent
  <2> QED
    BY <2>1, <2>2
<1>4. Visited'
  BY <1>1, NotFinalizing
<1>5. FinalizedIsTrue'
  BY <1>1, StillFinalized DEF RejectEvent
<1> QED
  BY <1>1, <1>2, <1>3, <1>4, <1>5, SessionParts, OtherStep DEF RejectEvent

LEMMA FireEventStep ==
  ASSUME IndInv, NEW event \in EventTypes, NEW step \in Steps, NEW loss \in BOOLEAN,
         FireEvent(event, step, loss)
  PROVE  IndInv'
<1>1. call' \in CallRecord /\ call'.op = "event"
  BY SessionParts, BeginEffect DEF FireEvent
<1>2. /\ last_event_type' \in Range(BatchEvents) /\ delivered' \in Range(BatchEvents)
      /\ global_step' \in Nat
  BY SessionParts, EventOrder, StepsAssumption DEF FireEvent
<1>3. DeliveredFirst'
  <2>1. CASE event \in Range(BatchEvents)
    <3>1. delivered' = event /\ last_event_type' = event
      BY <2>1 DEF FireEvent, LastEvent
    <3>2. IndexOf(event) \in 1 .. 5
      BY <2>1, BatchEventsRange
    <3> QED
      BY <3>1, <3>2 DEF DeliveredFirst
  <2>2. CASE event \notin Range(BatchEvents)
    <3>1. delivered' = delivered /\ last_event_type' = last_event_type
      BY <2>2 DEF FireEvent, LastEvent
    <3> QED
      BY <3>1, SessionParts DEF DeliveredFirst
  <2> QED
    BY <2>1, <2>2
<1>4. Visited'
  BY <1>1, NotFinalizing
<1>5. FinalizedIsTrue'
  BY <1>1, StillFinalized DEF FireEvent
<1> QED
  BY <1>1, <1>2, <1>3, <1>4, <1>5, SessionParts, OtherStep DEF FireEvent

LEMMA EventReturnsStep == IndInv /\ (EventReturns \/ RejectFinalize) => IndInv'
<1> SUFFICES ASSUME IndInv, EventReturns \/ RejectFinalize PROVE IndInv'
  OBVIOUS
<1>1. /\ call' = NoCall /\ outcome' \in {"returned", "raised"}
      /\ UNCHANGED <<lifecycle, modifier, completed, failed, delivered>>
  BY DEF EventReturns, RejectFinalize, Return, Raise
<1>2. UNCHANGED <<initialized, finalized, recipe, last_event_type, global_step>>
  BY <1>1 DEF lifecycle
<1>3. Visited'
  BY <1>1, NotFinalizing
<1>4. FinalizedIsTrue'
  BY <1>1, <1>2, StillFinalized
<1>5. DeliveredFirst'
  BY <1>1, <1>2, SessionParts DEF DeliveredFirst
<1> QED
  BY <1>1, <1>2, <1>3, <1>4, <1>5, SessionParts, OtherStep

(* `finalize` starts with the whole recipe to visit.                       *)
LEMMA FinalizeStep == IndInv /\ Finalize => IndInv'
<1> SUFFICES ASSUME IndInv, Finalize PROVE IndInv'
  OBVIOUS
<1>1. call' \in CallRecord /\ call'.op = "finalize" /\ call'.rest = recipe
  BY SessionParts, BeginEffect DEF Finalize
<1>2. /\ UNCHANGED <<initialized, finalized, recipe, last_event_type, global_step>>
      /\ UNCHANGED <<modifier, outcome, completed, failed, delivered>>
      /\ initialized /\ ~finalized
  BY DEF Finalize, lifecycle, Accepting
<1>3. Visited'
  <2>1. Len(recipe) \in Nat
    BY SessionParts
  <2>2. recipe' = recipe
    BY <1>2
  <2> QED
    BY <1>1, <2>1, <2>2 DEF Visited
<1>4. FinalizedIsTrue'
  BY <1>2 DEF FinalizedIsTrue
<1>5. DeliveredFirst'
  BY <1>2, SessionParts DEF DeliveredFirst
<1> QED
  BY <1>1, <1>2, <1>3, <1>4, <1>5, SessionParts, OtherStep

(* When nothing is left to visit, the whole recipe is finished.            *)
LEMMA FinalizeReturnsStep == IndInv /\ FinalizeReturns => IndInv'
<1> SUFFICES ASSUME IndInv, FinalizeReturns PROVE IndInv'
  OBVIOUS
<1>1. call' = NoCall /\ outcome' = "returned"
  BY DEF FinalizeReturns, Return
<1>2. Visited' /\ ~Running("finalize")'
  BY <1>1, NotFinalizing
<1>3. Len(call.rest) = 0 /\ Len(recipe) \in Nat
  BY SessionParts, EmptySeq DEF FinalizeReturns
<1>4. \A i \in 1 .. Len(recipe) : Finished(recipe[i])
  BY <1>3, SessionParts DEF FinalizeReturns, Visited
<1>5. \A i \in 1 .. Len(recipe) : Finished(recipe[i]) => Finished(recipe[i])'
  BY DEF FinalizeReturns, Finished
<1>6. FinalizedIsTrue'
  BY <1>2, <1>4, <1>5, SessionParts DEF FinalizeReturns, FinalizedIsTrue
<1>7. DeliveredFirst'
  BY SessionParts DEF FinalizeReturns, DeliveredFirst
<1> QED
  BY <1>1, <1>2, <1>6, <1>7, SessionParts, OtherStep DEF FinalizeReturns

LEMMA ResetStep == IndInv /\ Reset => IndInv'
<1> SUFFICES ASSUME IndInv, Reset PROVE IndInv'
  OBVIOUS
<1>1. call' \in CallRecord /\ call'.op = "reset"
  BY SessionParts, BeginEffect DEF Reset
<1>2. /\ UNCHANGED <<initialized, finalized, recipe, last_event_type, global_step>>
      /\ UNCHANGED <<modifier, outcome, completed, failed, delivered>>
  BY DEF Reset, lifecycle
<1>3. Visited'
  BY <1>1, NotFinalizing
<1>4. FinalizedIsTrue'
  BY <1>1, <1>2, StillFinalized
<1>5. DeliveredFirst'
  BY <1>2, SessionParts DEF DeliveredFirst
<1> QED
  BY <1>1, <1>2, <1>3, <1>4, <1>5, SessionParts, OtherStep

LEMMA ResetReturnsStep == IndInv /\ ResetReturns => IndInv'
<1> SUFFICES ASSUME IndInv, ResetReturns PROVE IndInv'
  OBVIOUS
<1>1. call' = NoCall /\ outcome' = "returned"
  BY DEF ResetReturns, Return
<1>2. Visited' /\ ~Running("finalize")'
  BY <1>1, NotFinalizing
<1>3. FinalizedIsTrue'
  BY <1>2 DEF ResetReturns, FinalizedIsTrue
<1>4. "batch_end" \in Range(BatchEvents) /\ IndexOf("batch_end") \in 1 .. 5
  BY BatchEventsRange
<1>5. DeliveredFirst'
  BY <1>4 DEF ResetReturns, DeliveredFirst
<1>6. recipe' \in Seq(Modifiers)
  BY EmptySeq DEF ResetReturns
<1> QED
  BY <1>1, <1>2, <1>3, <1>4, <1>5, <1>6, OtherStep DEF ResetReturns

LEMMA ResetStageStep == IndInv /\ ResetStage => IndInv'
<1> SUFFICES ASSUME IndInv, ResetStage PROVE IndInv'
  OBVIOUS
<1>1. call = NoCall /\ call' = NoCall
  BY DEF ResetStage, Idle
<1>2. Visited' /\ ~Running("finalize")'
  BY <1>1, NotFinalizing
<1>3. FinalizedIsTrue'
  BY <1>2 DEF ResetStage, FinalizedIsTrue
<1>4. DeliveredFirst'
  BY SessionParts DEF ResetStage, DeliveredFirst
<1> QED
  BY <1>1, <1>2, <1>3, <1>4, SessionParts, OtherStep DEF ResetStage

LEMMA NextStep == IndInv /\ [Next]_vars => IndInv'
<1> SUFFICES ASSUME IndInv, [Next]_vars PROVE IndInv'
  OBVIOUS
<1>1. CASE \E modifiers \in Recipes : Initialize(modifiers)
  BY <1>1, InitializeStep
<1>2. CASE \E event \in EventTypes, step \in Steps, loss \in BOOLEAN : FireEvent(event, step, loss)
  BY <1>2, FireEventStep
<1>3. CASE \E event \in EventTypes, loss \in BOOLEAN : RejectEvent(event, loss)
  BY <1>3, RejectEventStep
<1>4. CASE Finalize \/ RejectFinalize \/ Reset \/ ResetStage
  BY <1>4, FinalizeStep, EventReturnsStep, ResetStep, ResetStageStep
<1>5. CASE Work
  BY <1>5, InitializeModifierStep, InitializeReturnsStep, UpdateModifierStep, EventReturnsStep,
     FinalizeModifierStep, FinalizeReturnsStep, ResetModifierStep, ResetReturnsStep DEF Work
<1>6. CASE UNCHANGED vars
  <2>1. /\ UNCHANGED <<initialized, finalized, recipe, last_event_type, global_step>>
        /\ UNCHANGED <<modifier, call, outcome, completed, failed, delivered>>
    BY <1>6 DEF vars, lifecycle
  <2>2. Visited' /\ FinalizedIsTrue' /\ DeliveredFirst'
    BY <2>1, SessionParts
       DEF Visited, FinalizedIsTrue, DeliveredFirst, Running, Finished
  <2> QED
    BY <2>1, <2>2, SessionParts, OtherStep
<1> QED
  BY <1>1, <1>2, <1>3, <1>4, <1>5, <1>6 DEF Next

LEMMA Invariance == Spec => []IndInv
BY InitIndInv, NextStep, PTL DEF Spec

-----------------------------------------------------------------------------
(* The theorems.                                                           *)

(* What the invariant says of a state; a oneshot run keeps it too.         *)
LEMMA InvariantSays ==
  IndInv => TypeOK /\ StartsAndEndsOnce /\ FinalizesOnceWhenReported /\ FinalizedMeansAll
<1> SUFFICES ASSUME IndInv
             PROVE  TypeOK /\ StartsAndEndsOnce /\ FinalizesOnceWhenReported /\ FinalizedMeansAll
  OBVIOUS
<1>1. TypeOK /\ StartsAndEndsOnce /\ FinalizesOnceWhenReported
  BY DEF IndInv, HooksOnce, StartsAndEndsOnce, FinalizesOnceWhenReported
<1>2. ASSUME finalized, NEW m \in Range(recipe)
      PROVE  /\ completed[m]["on_finalize"] >= 1
             /\ m \in Calibrating => completed[m]["on_end"] = 1 \/ "raised" \in failed[m]
  <2>1. PICK i \in 1 .. Len(recipe) : m = recipe[i]
    BY <1>2, SessionParts DEF Range
  <2> QED
    BY <1>2, <2>1, SessionParts DEF FinalizedIsTrue, Finished
<1> QED
  BY <1>1, <1>2 DEF FinalizedMeansAll

(* Flags, counters, the call in progress and the recorded events keep      *)
(* their types in every session.                                           *)
THEOREM TypeCorrect == Spec => []TypeOK
BY Invariance, PTL DEF IndInv

(* No sequence of calls, with any hooks raising on the way, starts or ends *)
(* a modifier twice, unless its on_initialize refused.                     *)
THEOREM HooksRunOnce == Spec => []StartsAndEndsOnce
BY Invariance, InvariantSays, PTL

(* A modifier that reports its finalization is never finalized again, by   *)
(* finalize, by reset or in a later session.                               *)
THEOREM ReportedFinalizationIsOnce == Spec => []FinalizesOnceWhenReported
BY Invariance, InvariantSays, PTL

(* A lifecycle that says it is finalized has finalized every modifier of   *)
(* its recipe, however long.                                               *)
THEOREM FinalizedIsFinal == Spec => []FinalizedMeansAll
BY Invariance, InvariantSays, PTL

(* Whatever was rejected, raised or reset in between, the modifiers see    *)
(* batch events in their order until the next batch starts.                *)
THEOREM DeliveryIsOrdered == Spec => BatchEventsInOrder
<1> DEFINE Ordered == Idle /\ call' # NoCall
                        /\ call'.event \in Range(BatchEvents) \ {"batch_start"}
                          => IndexOf(delivered) <= IndexOf(call'.event)
<1>1. IndInv /\ [Next]_vars => [Ordered]_vars
  <2> SUFFICES ASSUME IndInv, Next, call = NoCall, call' # NoCall,
                      call'.event \in Range(BatchEvents), call'.event # "batch_start"
               PROVE  IndexOf(delivered) <= IndexOf(call'.event)
    BY DEF Idle
  <2>1. \E event \in EventTypes, step \in Steps, loss \in BOOLEAN : FireEvent(event, step, loss)
    <3>1. "initialize" \notin Range(BatchEvents) /\ "finalize" \notin Range(BatchEvents)
          /\ "reset" \notin Range(BatchEvents)
      BY BatchEventsRange
    <3>2. ~Work
      BY DEF Work, InitializeModifier, InitializeReturns, UpdateModifier, EventReturns,
             FinalizeModifier, FinalizeReturns, ResetModifier, ResetReturns, Visiting, Running
    <3>3. ~\E modifiers \in Recipes : Initialize(modifiers)
      BY <3>1 DEF Initialize, Begin
    <3>4. ~\E event \in EventTypes, loss \in BOOLEAN : RejectEvent(event, loss)
      BY DEF RejectEvent, Raise
    <3>5. ~(Finalize \/ RejectFinalize \/ Reset \/ ResetStage)
      BY <3>1 DEF Finalize, RejectFinalize, Reset, ResetStage, Raise, Begin
    <3> QED
      BY <3>2, <3>3, <3>4, <3>5 DEF Next
  <2>2. PICK event \in EventTypes : ValidOrder(event) /\ call'.event = event
    BY <2>1 DEF FireEvent, Begin
  <2>3. IndexOf(last_event_type) <= IndexOf(event)
    BY <2>2, EventOrder
  <2>4. IndexOf(delivered) <= IndexOf(last_event_type)
    BY SessionParts DEF DeliveredFirst
  <2>5. /\ IndexOf(delivered) \in 1 .. 5 /\ IndexOf(last_event_type) \in 1 .. 5
        /\ IndexOf(event) \in 1 .. 5
    BY <2>2, SessionParts, BatchEventsRange
  <2> QED
    BY <2>2, <2>3, <2>4, <2>5
<1> QED
  BY <1>1, Invariance, PTL DEF Spec, BatchEventsInOrder

-----------------------------------------------------------------------------
(* Accepted events are delivered.  A second invariant, on top of the first *)
(* one: which modifiers of the recipe can be finalized, as long as none of *)
(* them has failed.  A recipe that names a modifier twice gets through     *)
(* `initialize` only if it refused the first time, which is a failure.     *)

NumVisited == Len(recipe) - Len(call.rest)

Healthy(n) == \A i \in 1 .. n : failed[recipe[i]] = {}

NamesDistinct(n) == \A i, j \in 1 .. n : recipe[i] = recipe[j] => i = j

Ready(n) == (\A i \in 1 .. n : Finalizable(recipe[i])) /\ NamesDistinct(n)

InitializedSoFar ==
  Running("initialize") =>
    /\ ~initialized
    /\ Len(call.rest) <= Len(recipe)
    /\ \A i \in 1 .. Len(call.rest) : call.rest[i] = recipe[NumVisited + i]
    /\ Healthy(NumVisited) => Ready(NumVisited)

FinalizableLeft ==
  Running("finalize") /\ Healthy(Len(recipe)) =>
    /\ \A i \in NumVisited + 1 .. Len(recipe) : Finalizable(recipe[i])
    /\ NamesDistinct(Len(recipe))

ReadyForEvents ==
  Accepting /\ ~Running("finalize") /\ ~Running("reset") /\ Healthy(Len(recipe))
    => Ready(Len(recipe))

DeliveryInv == InitializedSoFar /\ FinalizableLeft /\ ReadyForEvents

(* Failures are remembered, and a visit concerns one modifier.             *)
LEMMA InitializeEffect ==
  ASSUME ModifiersTyped, NEW m \in Modifiers, ModifierInitialize(m)
  PROVE  /\ \A n \in Modifiers \ {m} : modifier'[n] = modifier[n] /\ failed'[n] = failed[n]
         /\ failed[m] \subseteq failed'[m]
         /\ Raise \/ (Continue /\ ~Finalizable(m) /\ (failed'[m] = {} => Finalizable(m)'))
<1>1. modifier[m] \in Flags
  BY DEF ModifiersTyped
<1>2. CASE Raise /\ UNCHANGED <<modifier, completed, failed>>
  BY <1>2
<1>3. \A result \in BOOLEAN :
        StartFailed(m, [modifier[m] EXCEPT !.initialized_ = result]) \in Flags
  BY <1>1 DEF Flags, StartFailed
<1>4. CASE /\ Raise
           /\ \/ Fail(m, modifier[m])
              \/ \E result \in BOOLEAN :
                   Fail(m, StartFailed(m, [modifier[m] EXCEPT !.initialized_ = result]))
  <2>1. PICK after \in Flags : Fail(m, after)
    BY <1>1, <1>4, <1>3
  <2> QED
    BY <1>4, <2>1 DEF Fail, Set, ModifiersTyped
<1>5. CASE \E result \in BOOLEAN :
             /\ Continue /\ ~modifier[m].initialized_ /\ ~modifier[m].finalized_
             /\ Set(m, [modifier[m] EXCEPT !.initialized_ = result,
                                           !.started_ = @ \/ ShouldStart(m, 0)])
             /\ failed' = IF result THEN failed
                          ELSE [failed EXCEPT ![m] = @ \cup {"refused"}]
  <2>1. PICK result \in BOOLEAN :
          /\ Continue /\ ~modifier[m].initialized_ /\ ~modifier[m].finalized_
          /\ Set(m, [modifier[m] EXCEPT !.initialized_ = result,
                                        !.started_ = @ \/ ShouldStart(m, 0)])
          /\ failed' = IF result THEN failed
                       ELSE [failed EXCEPT ![m] = @ \cup {"refused"}]
    BY <1>5, Zenon
  <2> DEFINE after == [modifier[m] EXCEPT !.initialized_ = result,
                                          !.started_ = @ \/ ShouldStart(m, 0)]
  <2>2. after.initialized_ = result /\ after.finalized_ = modifier[m].finalized_
    BY <1>1 DEF Flags
  <2> HIDE DEF after
  <2>3. /\ modifier'[m] = after
        /\ \A n \in Modifiers \ {m} : modifier'[n] = modifier[n]
    BY <2>1 DEF Set, ModifiersTyped, after
  <2>4. /\ \A n \in Modifiers \ {m} : failed'[n] = failed[n]
        /\ failed[m] \subseteq failed'[m]
        /\ ~result => failed'[m] # {}
    BY <2>1 DEF ModifiersTyped
  <2>5. failed'[m] = {} => Finalizable(m)'
    BY <2>1, <2>2, <2>3, <2>4 DEF Finalizable
  <2> QED
    BY <2>1, <2>3, <2>4, <2>5 DEF Finalizable
<1> QED
  BY <1>2, <1>4, <1>5, ZenonT(30) DEF ModifierInitialize

LEMMA UpdateEffect ==
  ASSUME ModifiersTyped, NEW m \in Modifiers, NEW event, UpdateEvent(m, event)
  PROVE  /\ \A n \in Modifiers : Finalizable(n)' <=> Finalizable(n)
         /\ \A n \in Modifiers : failed[n] \subseteq failed'[n]
<1>1. modifier[m] \in Flags
  BY DEF ModifiersTyped
<1>2. CASE UNCHANGED <<modifier, completed, failed>>
  BY <1>2 DEF Finalizable
<1>3. ASSUME NEW flags \in Flags, Set(m, flags),
             flags.initialized_ = modifier[m].initialized_,
             flags.finalized_ = modifier[m].finalized_
      PROVE  \A n \in Modifiers : Finalizable(n)' <=> Finalizable(n)
  BY <1>3 DEF Set, ModifiersTyped, Finalizable
<1>4. /\ StartFailed(m, modifier[m]) \in Flags /\ EndFailed(m, modifier[m]) \in Flags
      /\ StartFailed(m, modifier[m]).initialized_ = modifier[m].initialized_
      /\ StartFailed(m, modifier[m]).finalized_ = modifier[m].finalized_
      /\ EndFailed(m, modifier[m]).initialized_ = modifier[m].initialized_
      /\ EndFailed(m, modifier[m]).finalized_ = modifier[m].finalized_
  BY <1>1 DEF Flags, StartFailed, EndFailed
<1>5. CASE \/ Fail(m, modifier[m]) \/ Fail(m, StartFailed(m, modifier[m]))
           \/ Fail(m, EndFailed(m, modifier[m]))
  <2>1. \A n \in Modifiers : Finalizable(n)' <=> Finalizable(n)
    BY <1>1, <1>3, <1>4, <1>5 DEF Fail
  <2>2. failed' = [failed EXCEPT ![m] = @ \cup {"raised"}]
    BY <1>5 DEF Fail
  <2> QED
    BY <2>1, <2>2 DEF ModifiersTyped
<1>6. ASSUME NEW started, NEW ended,
             Set(m, [modifier[m] EXCEPT !.started_ = @ \/ started, !.ended_ = @ \/ ended]),
             failed' = failed \/ failed' = [failed EXCEPT ![m] = @ \cup {"raised"}]
      PROVE  /\ \A n \in Modifiers : Finalizable(n)' <=> Finalizable(n)
             /\ \A n \in Modifiers : failed[n] \subseteq failed'[n]
  <2> DEFINE after == [modifier[m] EXCEPT !.started_ = @ \/ started, !.ended_ = @ \/ ended]
  <2>1. /\ after.initialized_ = modifier[m].initialized_
        /\ after.finalized_ = modifier[m].finalized_
    BY <1>1 DEF Flags
  <2> HIDE DEF after
  <2>2. \A n \in Modifiers : modifier'[n] = IF n = m THEN after ELSE modifier[n]
    BY <1>6 DEF Set, ModifiersTyped, after
  <2>3. \A n \in Modifiers : failed[n] \subseteq failed'[n]
    BY <1>6 DEF ModifiersTyped
  <2> QED
    BY <2>1, <2>2, <2>3 DEF Finalizable
<1> QED
  BY <1>2, <1>5, <1>6, ZenonT(30) DEF UpdateEvent, Fail

LEMMA FinalizeEffect ==
  ASSUME ModifiersTyped, NEW m \in Modifiers, FinalizeSucceeds(m) \/ FinalizeFails(m)
  PROVE  /\ \A n \in Modifiers \ {m} : modifier'[n] = modifier[n] /\ failed'[n] = failed[n]
         /\ failed[m] \subseteq failed'[m]
         /\ FinalizeFails(m) => failed'[m] # {}
BY DEF FinalizeSucceeds, FinalizeFails, FailFinalize, Set, ModifiersTyped

LEMMA TailIs ==
  ASSUME NEW list \in Seq(Modifiers), list # <<>>
  PROVE  /\ Len(list) \in Nat /\ Len(list) >= 1
         /\ Head(list) = list[1]
         /\ Len(Tail(list)) = Len(list) - 1
         /\ \A i \in 1 .. Len(Tail(list)) : Tail(list)[i] = list[i + 1]
OBVIOUS

(* As failures are remembered, what is healthy was healthy before.         *)
LEMMA WasHealthy ==
  ASSUME recipe \in Seq(Modifiers), recipe' = recipe,
         \A n \in Modifiers : failed[n] \subseteq failed'[n],
         NEW k \in 0 .. Len(recipe), Healthy(k)'
  PROVE  Healthy(k)
<1>1. \A i \in 1 .. k : recipe[i] \in Modifiers
  OBVIOUS
<1> QED
  BY <1>1 DEF Healthy

LEMMA InitializeModifierDelivers == IndInv /\ DeliveryInv /\ InitializeModifier => DeliveryInv'
<1> SUFFICES ASSUME IndInv, DeliveryInv, InitializeModifier PROVE DeliveryInv'
  OBVIOUS
<1>1. Visiting("initialize") /\ UNCHANGED <<lifecycle, delivered>>
  BY DEF InitializeModifier
<1>2. initialized' = initialized /\ finalized' = finalized /\ recipe' = recipe
  BY <1>1 DEF lifecycle
<1>3. /\ call \in CallRecord /\ call # NoCall /\ call.op = "initialize" /\ call.rest # <<>>
      /\ ModifiersTyped
  BY <1>1, HeadIsModifier
<1>4. /\ recipe \in Seq(Modifiers) /\ call.rest \in Seq(Modifiers)
      /\ Len(recipe) \in Nat /\ \A i \in 1 .. Len(recipe) : recipe[i] \in Modifiers
  BY <1>3, SessionParts DEF CallRecord
<1>5. PICK m \in Modifiers : m = Head(call.rest)
  BY <1>1, HeadIsModifier
<1>6. /\ ~initialized /\ Len(call.rest) <= Len(recipe)
      /\ \A i \in 1 .. Len(call.rest) : call.rest[i] = recipe[NumVisited + i]
      /\ Healthy(NumVisited) => Ready(NumVisited)
  BY <1>3 DEF DeliveryInv, InitializedSoFar, Running
<1>7. /\ \A n \in Modifiers \ {m} : modifier'[n] = modifier[n] /\ failed'[n] = failed[n]
      /\ failed[m] \subseteq failed'[m]
      /\ Raise \/ (Continue /\ ~Finalizable(m) /\ (failed'[m] = {} => Finalizable(m)'))
  BY <1>3, <1>5, InitializeEffect DEF InitializeModifier
<1>8. FinalizableLeft' /\ ReadyForEvents'
  <2>1. ~Running("finalize")'
    <3>1. CASE Raise
      BY <3>1 DEF Raise, Running
    <3>2. CASE Continue
      BY <1>3, <3>2, ContinueEffect DEF Continue, Running
    <3> QED
      BY <1>7, <3>1, <3>2
  <2> QED
    BY <1>2, <1>6, <2>1 DEF FinalizableLeft, ReadyForEvents, Accepting
<1>9. CASE Raise
  BY <1>8, <1>9 DEF Raise, DeliveryInv, InitializedSoFar, Running
<1>10. CASE Continue /\ ~Finalizable(m) /\ (failed'[m] = {} => Finalizable(m)')
  <2>1. call'.rest = Tail(call.rest) /\ call' \in CallRecord
    BY <1>3, <1>10, ContinueEffect DEF Continue
  <2>2. /\ Len(call.rest) \in Nat /\ Len(call.rest) >= 1 /\ m = call.rest[1]
        /\ Len(call'.rest) = Len(call.rest) - 1
        /\ \A i \in 1 .. Len(call'.rest) : call'.rest[i] = call.rest[i + 1]
    BY <1>3, <1>4, <1>5, <2>1, TailIs
  <2>3. PICK k \in Nat : k = NumVisited
    <3>1. NumVisited \in Nat
      <4>1. Len(call.rest) <= Len(recipe)
        BY <1>6
      <4> QED
        BY <1>4, <2>2, <4>1 DEF NumVisited
    <3> QED
      BY <3>1
  <2>4. k + 1 <= Len(recipe) /\ NumVisited' = k + 1 /\ recipe[k + 1] = m
    <3>1. 1 \in 1 .. Len(call.rest)
      BY <2>2
    <3>2. recipe[k + 1] = m
      BY <1>6, <2>2, <2>3, <3>1
    <3>3. k = Len(recipe) - Len(call.rest)
      BY <2>3 DEF NumVisited
    <3>4. NumVisited' = Len(recipe) - Len(call'.rest)
      BY <1>2 DEF NumVisited
    <3> QED
      BY <1>4, <2>2, <3>2, <3>3, <3>4
  <2>5. \A i \in 1 .. Len(call'.rest) : call'.rest[i] = recipe[(k + 1) + i]
    <3> SUFFICES ASSUME NEW i \in 1 .. Len(call'.rest)
                 PROVE  call'.rest[i] = recipe[(k + 1) + i]
      OBVIOUS
    <3>1. i + 1 \in 1 .. Len(call.rest) /\ k + (i + 1) = (k + 1) + i
      BY <2>2
    <3> QED
      BY <1>6, <2>2, <2>3, <3>1
  <2>6. ASSUME Healthy(k + 1)' PROVE Ready(k + 1)'
    <3>1. \A n \in Modifiers : failed[n] \subseteq failed'[n]
      BY <1>7
    <3>2. Healthy(k)'
      BY <2>6 DEF Healthy
    <3>3. Healthy(k)
      BY <1>2, <1>4, <2>4, <3>1, <3>2, WasHealthy
    <3>4. (\A i \in 1 .. k : Finalizable(recipe[i])) /\ NamesDistinct(k)
      BY <1>6, <2>3, <3>3 DEF Ready
    <3>5. \A i \in 1 .. k : recipe[i] # m
      BY <1>10, <3>4
    <3>6. \A i \in 1 .. k : recipe[i] \in Modifiers \ {m}
      BY <1>4, <2>4, <3>5
    <3>7. \A i \in 1 .. k : Finalizable(recipe[i])'
      BY <1>2, <1>7, <3>4, <3>6 DEF Finalizable
    <3>8. Finalizable(m)'
      <4>1. failed'[recipe[k + 1]] = {}
        BY <1>2, <2>6 DEF Healthy
      <4> QED
        BY <1>10, <2>4, <4>1
    <3>9. \A i \in 1 .. k + 1 : Finalizable(recipe[i])'
      <4>1. Finalizable(recipe[k + 1])'
        BY <1>2, <2>4, <3>8 DEF Finalizable
      <4> QED
        BY <3>7, <4>1
    <3>10. NamesDistinct(k + 1)'
      BY <1>2, <2>4, <3>4, <3>5 DEF NamesDistinct
    <3> QED
      BY <3>9, <3>10 DEF Ready
  <2>7. InitializedSoFar'
    <3>1. Healthy(NumVisited)' <=> Healthy(k + 1)'
      BY <2>4 DEF Healthy
    <3>2. Ready(NumVisited)' <=> Ready(k + 1)'
      BY <2>4 DEF Ready, NamesDistinct
    <3>3. Len(call'.rest) <= Len(recipe)
      BY <1>4, <1>6, <2>2
    <3> QED
      BY <1>2, <1>6, <2>4, <2>5, <2>6, <3>1, <3>2, <3>3 DEF InitializedSoFar
  <2> QED
    BY <1>8, <2>7 DEF DeliveryInv
<1> QED
  BY <1>7, <1>9, <1>10

LEMMA UpdateModifierDelivers == IndInv /\ DeliveryInv /\ UpdateModifier => DeliveryInv'
<1> SUFFICES ASSUME IndInv, DeliveryInv, UpdateModifier PROVE DeliveryInv'
  OBVIOUS
<1>1. Visiting("event") /\ UNCHANGED <<lifecycle, delivered>>
  BY DEF UpdateModifier
<1>2. initialized' = initialized /\ finalized' = finalized /\ recipe' = recipe
  BY <1>1 DEF lifecycle
<1>3. /\ call \in CallRecord /\ call # NoCall /\ call.op = "event" /\ call.rest # <<>>
      /\ ModifiersTyped /\ Head(call.rest) \in Modifiers
  BY <1>1, HeadIsModifier
<1>4. /\ recipe \in Seq(Modifiers) /\ Len(recipe) \in Nat
      /\ \A i \in 1 .. Len(recipe) : recipe[i] \in Modifiers
  BY SessionParts
<1>5. /\ \A n \in Modifiers : Finalizable(n)' <=> Finalizable(n)
      /\ \A n \in Modifiers : failed[n] \subseteq failed'[n]
  BY <1>3, UpdateEffect DEF UpdateModifier
<1>6. call' = NoCall \/ call'.op = "event"
  <2>1. Raise \/ Continue
    BY DEF UpdateModifier, UpdateEvent
  <2> QED
    BY <1>3, <2>1, ContinueEffect DEF Raise, Continue
<1>7. ASSUME Accepting, Healthy(Len(recipe))' PROVE Ready(Len(recipe))'
  <2>1. \A i \in 1 .. Len(recipe) : failed[recipe[i]] = {}
    BY <1>2, <1>4, <1>5, <1>7 DEF Healthy
  <2>2. Ready(Len(recipe))
    BY <1>3, <1>7, <2>1 DEF DeliveryInv, ReadyForEvents, Running, Healthy
  <2>3. \A i \in 1 .. Len(recipe) : Finalizable(recipe[i])'
    BY <1>2, <1>4, <1>5, <2>2 DEF Ready, Finalizable
  <2> QED
    BY <1>2, <2>2, <2>3 DEF Ready, NamesDistinct
<1> QED
  BY <1>2, <1>6, <1>7
     DEF DeliveryInv, InitializedSoFar, FinalizableLeft, ReadyForEvents, Running, Accepting

LEMMA FinalizeModifierDelivers == IndInv /\ DeliveryInv /\ FinalizeModifier => DeliveryInv'
<1> SUFFICES ASSUME IndInv, DeliveryInv, FinalizeModifier PROVE DeliveryInv'
  OBVIOUS
<1>1. Visiting("finalize") /\ UNCHANGED <<lifecycle, delivered>>
  BY DEF FinalizeModifier
<1>2. initialized' = initialized /\ finalized' = finalized /\ recipe' = recipe
  BY <1>1 DEF lifecycle
<1>3. /\ call \in CallRecord /\ call # NoCall /\ call.op = "finalize" /\ call.rest # <<>>
      /\ ModifiersTyped
  BY <1>1, HeadIsModifier
<1>4. /\ recipe \in Seq(Modifiers) /\ call.rest \in Seq(Modifiers)
      /\ Len(recipe) \in Nat /\ \A i \in 1 .. Len(recipe) : recipe[i] \in Modifiers
  BY <1>3, SessionParts DEF CallRecord
<1>5. PICK m \in Modifiers : m = Head(call.rest)
  BY <1>1, HeadIsModifier
<1>6. /\ Len(call.rest) \in Nat /\ Len(call.rest) >= 1 /\ m = call.rest[1]
      /\ Len(Tail(call.rest)) = Len(call.rest) - 1
  BY <1>3, <1>4, <1>5, TailIs
<1>7. PICK k \in Nat : k = NumVisited
  <2>1. Len(call.rest) <= Len(recipe)
    BY <1>3, SessionParts DEF Visited, Running
  <2>2. NumVisited \in Nat
    BY <1>4, <1>6, <2>1 DEF NumVisited
  <2> QED
    BY <2>2
<1>8. k + 1 \in 1 .. Len(recipe) /\ recipe[k + 1] = m
  <2>1. k = Len(recipe) - Len(call.rest)
    BY <1>7 DEF NumVisited
  <2>2. 1 \in 1 .. Len(call.rest)
    BY <1>6
  <2>3. call.rest[1] = recipe[Len(recipe) - Len(call.rest) + 1]
    BY <1>3, <2>2, SessionParts DEF Visited, Running
  <2> QED
    BY <1>4, <1>6, <2>1, <2>3
<1>9. Healthy(Len(recipe)) =>
        /\ \A i \in k + 1 .. Len(recipe) : Finalizable(recipe[i])
        /\ NamesDistinct(Len(recipe))
  BY <1>3, <1>7 DEF DeliveryInv, FinalizableLeft, Running
<1>10. CASE Raise
  <2>1. ~Healthy(Len(recipe))'
    <3>1. CASE ~Finalizable(m) /\ failed' = failed
      BY <1>2, <1>8, <1>9, <3>1 DEF Healthy
    <3>2. CASE FinalizeFails(m)
      <4>1. failed'[m] # {}
        BY <1>3, <3>2, FinalizeEffect
      <4> QED
        BY <1>2, <1>8, <4>1 DEF Healthy
    <3>3. ~Continue
      <4>1. ASSUME Continue PROVE call' \in CallRecord
        BY <1>3, <4>1, ContinueEffect DEF Continue
      <4> QED
        BY <1>10, <4>1, NoCallAssumption DEF Raise
    <3> QED
      BY <1>5, <3>1, <3>2, <3>3 DEF FinalizeModifier
  <2> QED
    BY <1>10, <2>1
       DEF Raise, DeliveryInv, InitializedSoFar, FinalizableLeft, ReadyForEvents, Running
<1>11. CASE Continue
  <2>1. call'.rest = Tail(call.rest) /\ call'.op = "finalize" /\ call' \in CallRecord
    BY <1>3, <1>11, ContinueEffect DEF Continue
  <2>2. call' # NoCall
    BY <2>1, NoCallAssumption
  <2>3. FinalizeSucceeds(m)
    BY <1>5, <1>11, <2>2 DEF FinalizeModifier, Raise
  <2>4. /\ \A n \in Modifiers \ {m} : modifier'[n] = modifier[n] /\ failed'[n] = failed[n]
        /\ failed[m] \subseteq failed'[m]
    BY <1>3, <2>3, FinalizeEffect
  <2>5. NumVisited' = k + 1
    <3>1. k = Len(recipe) - Len(call.rest)
      BY <1>7 DEF NumVisited
    <3>2. NumVisited' = Len(recipe) - Len(call'.rest)
      BY <1>2 DEF NumVisited
    <3>3. Len(call'.rest) = Len(call.rest) - 1
      BY <1>6, <2>1
    <3>4. Len(recipe) \in Nat /\ Len(call.rest) \in Nat
      BY <1>4, <1>6
    <3> QED
      BY <3>1, <3>2, <3>3, <3>4
  <2>6. ASSUME Healthy(Len(recipe))'
        PROVE  /\ \A i \in (k + 1) + 1 .. Len(recipe) : Finalizable(recipe[i])'
               /\ NamesDistinct(Len(recipe))'
    <3>1. \A i \in 1 .. Len(recipe) : failed[recipe[i]] = {}
      BY <1>2, <1>4, <2>4, <2>6 DEF Healthy
    <3>2. /\ \A i \in k + 1 .. Len(recipe) : Finalizable(recipe[i])
          /\ NamesDistinct(Len(recipe))
      BY <1>9, <3>1 DEF Healthy
    <3>3. \A i \in (k + 1) + 1 .. Len(recipe) : recipe[i] \in Modifiers \ {m}
      BY <1>4, <1>8, <3>2 DEF NamesDistinct
    <3>4. \A i \in (k + 1) + 1 .. Len(recipe) : Finalizable(recipe[i])'
      BY <1>2, <2>4, <3>2, <3>3 DEF Finalizable
    <3> QED
      BY <1>2, <3>2, <3>4 DEF NamesDistinct
  <2> QED
    BY <1>2, <2>1, <2>2, <2>5, <2>6
       DEF DeliveryInv, InitializedSoFar, FinalizableLeft, ReadyForEvents, Running
<1> QED
  BY <1>10, <1>11 DEF FinalizeModifier

(* Steps that touch no modifier.                                           *)
LEMMA CallsDeliver ==
  ASSUME IndInv, DeliveryInv, UNCHANGED <<modifier, failed>>,
         \/ InitializeReturns \/ EventReturns \/ Finalize \/ RejectFinalize \/ FinalizeReturns
         \/ Reset \/ ResetReturns \/ ResetStage \/ UNCHANGED vars
         \/ \E modifiers \in Recipes : Initialize(modifiers)
         \/ \E event \in EventTypes, step \in Steps, loss \in BOOLEAN :
              FireEvent(event, step, loss)
         \/ \E event \in EventTypes, loss \in BOOLEAN : RejectEvent(event, loss)
  PROVE  DeliveryInv'
<1>1. recipe \in Seq(Modifiers) /\ Len(recipe) \in Nat
  BY SessionParts
<1>2. ASSUME recipe' = recipe
      PROVE  /\ Healthy(Len(recipe))' <=> Healthy(Len(recipe))
             /\ Ready(Len(recipe))' <=> Ready(Len(recipe))
  BY <1>2 DEF Healthy, Ready, NamesDistinct, Finalizable
<1>3. ASSUME NEW modifiers \in Recipes, Initialize(modifiers) PROVE DeliveryInv'
  <2>1. /\ call'.rest = modifiers /\ call'.op = "initialize" /\ recipe' = modifiers
        /\ initialized' = initialized /\ ~initialized /\ modifiers \in Seq(Modifiers)
    BY <1>3, ModifiersAssumption DEF Initialize, Begin
  <2>2. NumVisited' = 0 /\ Len(modifiers) \in Nat
    BY <2>1 DEF NumVisited
  <2>3. Ready(NumVisited)'
    BY <2>2 DEF Ready, NamesDistinct
  <2> QED
    BY <2>1, <2>2, <2>3
       DEF DeliveryInv, InitializedSoFar, FinalizableLeft, ReadyForEvents, Running, Accepting
<1>4. CASE InitializeReturns
  <2>1. Len(call.rest) = 0
    BY <1>4 DEF InitializeReturns
  <2>2. NumVisited = Len(recipe)
    BY <1>1, <2>1 DEF NumVisited
  <2>3. Healthy(Len(recipe)) => Ready(Len(recipe))
    BY <1>4, <2>2 DEF InitializeReturns, DeliveryInv, InitializedSoFar
  <2> QED
    BY <1>2, <1>4, <2>3 DEF InitializeReturns, Return, DeliveryInv, InitializedSoFar,
                            FinalizableLeft, ReadyForEvents, Running
<1>5. CASE Finalize
  <2>1. /\ call'.rest = recipe /\ call'.op = "finalize" /\ recipe' = recipe
        /\ Accepting /\ Idle /\ call' # NoCall
    BY <1>1, <1>5, BeginEffect, NoCallAssumption DEF Finalize, lifecycle
  <2>2. Healthy(Len(recipe)) => Ready(Len(recipe))
    BY <2>1 DEF DeliveryInv, ReadyForEvents, Idle, Running
  <2>3. NumVisited' = 0
    BY <1>1, <2>1 DEF NumVisited
  <2>4. FinalizableLeft'
    <3> SUFFICES ASSUME Healthy(Len(recipe))'
                 PROVE  /\ \A i \in NumVisited' + 1 .. Len(recipe) : Finalizable(recipe[i])'
                        /\ NamesDistinct(Len(recipe))'
      BY <2>1 DEF FinalizableLeft
    <3>1. Ready(Len(recipe))'
      BY <1>2, <2>1, <2>2
    <3>2. NumVisited' + 1 = 1
      BY <2>3
    <3> QED
      BY <2>1, <3>1, <3>2 DEF Ready
  <2> QED
    BY <2>1, <2>4 DEF DeliveryInv, InitializedSoFar, ReadyForEvents, Running
<1>6. CASE Reset
  <2>1. call'.op = "reset" /\ call' # NoCall
    BY <1>1, <1>6, BeginEffect, NoCallAssumption DEF Reset
  <2> QED
    BY <2>1 DEF DeliveryInv, InitializedSoFar, FinalizableLeft, ReadyForEvents, Running
<1>7. CASE ResetReturns \/ ResetStage \/ FinalizeReturns
  BY <1>7 DEF ResetReturns, ResetStage, FinalizeReturns, Return, Idle, DeliveryInv,
              InitializedSoFar, FinalizableLeft, ReadyForEvents, Running, Accepting
<1>8. CASE EventReturns \/ RejectFinalize
           \/ \E event \in EventTypes, loss \in BOOLEAN : RejectEvent(event, loss)
  <2>1. /\ call' = NoCall /\ ~Running("finalize") /\ ~Running("reset")
        /\ recipe' = recipe /\ initialized' = initialized /\ finalized' = finalized
    BY <1>8 DEF EventReturns, RejectFinalize, RejectEvent, Return, Raise, Idle, Running, lifecycle
  <2> QED
    BY <1>2, <2>1 DEF DeliveryInv, InitializedSoFar, FinalizableLeft, ReadyForEvents, Running,
                      Accepting
<1>9. CASE \E event \in EventTypes, step \in Steps, loss \in BOOLEAN : FireEvent(event, step, loss)
  <2>1. /\ call'.op = "event" /\ Idle
        /\ recipe' = recipe /\ initialized' = initialized /\ finalized' = finalized
    BY <1>9 DEF FireEvent, Begin
  <2> QED
    BY <1>2, <2>1 DEF DeliveryInv, InitializedSoFar, FinalizableLeft, ReadyForEvents, Running,
                      Idle, Accepting
<1>10. CASE UNCHANGED vars
  <2>1. /\ initialized' = initialized /\ finalized' = finalized /\ recipe' = recipe
        /\ modifier' = modifier /\ call' = call /\ failed' = failed
    BY <1>10 DEF vars, lifecycle
  <2>2. InitializedSoFar'
    BY <2>1 DEF DeliveryInv, InitializedSoFar, Running, NumVisited, Healthy, Ready, NamesDistinct,
                Finalizable
  <2>3. FinalizableLeft'
    BY <2>1 DEF DeliveryInv, FinalizableLeft, Running, NumVisited, Healthy, NamesDistinct,
                Finalizable
  <2>4. ReadyForEvents'
    BY <1>2, <2>1 DEF DeliveryInv, ReadyForEvents, Running, Accepting
  <2> QED
    BY <2>2, <2>3, <2>4 DEF DeliveryInv
<1> QED
  BY <1>3, <1>4, <1>5, <1>6, <1>7, <1>8, <1>9, <1>10

LEMMA DeliveryStep == IndInv /\ DeliveryInv /\ [Next]_vars => DeliveryInv'
<1> SUFFICES ASSUME IndInv, DeliveryInv, [Next]_vars PROVE DeliveryInv'
  OBVIOUS
<1>1. CASE InitializeModifier \/ UpdateModifier \/ FinalizeModifier
  BY <1>1, InitializeModifierDelivers, UpdateModifierDelivers, FinalizeModifierDelivers
<1>2. CASE ResetModifier
  <2>1. call'.op = "reset" /\ call' # NoCall
    BY <1>2, HeadIsModifier, ContinueEffect, NoCallAssumption DEF ResetModifier, Continue
  <2> QED
    BY <2>1 DEF DeliveryInv, InitializedSoFar, FinalizableLeft, ReadyForEvents, Running
<1>3. CASE UNCHANGED <<modifier, failed>>
  BY <1>1, <1>2, <1>3, CallsDeliver DEF Next, Work
<1> QED
  BY <1>1, <1>2, <1>3 DEF Next, Work, InitializeReturns, EventReturns, Finalize, RejectFinalize,
       FinalizeReturns, Reset, ResetReturns, ResetStage, Initialize, FireEvent, RejectEvent, vars

(* An event the lifecycle accepts is refused by no modifier, whatever the  *)
(* calls before, unless a hook of one of the recipe's modifiers has failed.*)
THEOREM AcceptedEventsArrive == Spec => []AcceptedEventsAreDelivered
<1>1. Init => DeliveryInv
  BY DEF Init, DeliveryInv, InitializedSoFar, FinalizableLeft, ReadyForEvents, Running, Accepting
<1>2. IndInv /\ DeliveryInv => AcceptedEventsAreDelivered
  <2> SUFFICES ASSUME IndInv, DeliveryInv, Accepting, ~Running("finalize"), ~Running("reset"),
                      \A m \in Range(recipe) : failed[m] = {},
                      NEW m \in Range(recipe)
               PROVE  Finalizable(m)
    BY DEF AcceptedEventsAreDelivered, Finalizable
  <2>1. /\ recipe \in Seq(Modifiers)
        /\ \A i \in 1 .. Len(recipe) : recipe[i] \in Range(recipe)
        /\ \E i \in 1 .. Len(recipe) : recipe[i] = m
    BY SessionParts DEF Range
  <2>2. Healthy(Len(recipe))
    BY <2>1 DEF Healthy
  <2> QED
    BY <2>1, <2>2 DEF DeliveryInv, ReadyForEvents, Ready
<1> QED
  BY <1>1, <1>2, DeliveryStep, Invariance, PTL DEF Spec

=============================================================================
