----------------------------- MODULE Smoothing -----------------------------
(***************************************************************************)
(* Activation smoothing as AWQ (modifiers/awq) and SmoothQuant             *)
(* (modifiers/transform/smoothquant) do it: the output of a smooth layer   *)
(* is divided by scales, and the layers it feeds into, the balance layers, *)
(* are multiplied by them.                                                 *)
(*                                                                         *)
(* A model is a record.  Its modules are numbered in the order they run;   *)
(* module m reads the output of source[m], 0 for the model's input,        *)
(* through operations that keep its scales.  containers are the other      *)
(* modules, each the set of what it runs, without ModuleLists; targets the *)
(* sequential targets among them, subgraph[m] where m runs.  A mapping has *)
(* a smooth layer, its balance layers in order and activation_hook_target, *)
(* {} for None.                                                            *)
(***************************************************************************)
EXTENDS Integers, Sequences, FiniteSets, SequencesExt

ModulesOf(model) == DOMAIN model.source

(* "exclude v_proj->o_proj mappings whose shapes are incompatible"         *)
Compatible(model, mapping) ==
  \A b \in ToSet(mapping.balance) : <<mapping.smooth, b>> \notin model.incompatible

(* _set_resolved_mappings: mappings that are skipped leave no trace.  A    *)
(* mapping matters as soon as one of its layers is quantized.              *)
AWQResolved(model, targets) ==
  {k \in DOMAIN model.mappings :
     LET mapping == model.mappings[k]
     IN  /\ Compatible(model, mapping)
         /\ (ToSet(mapping.balance) \cup {mapping.smooth}) \cap targets # {}
         /\ mapping.balance # <<>>}

(* SmoothQuant's _resolve_mappings knows no shapes (layers that do not fit *)
(* each other are left out), and its targets are what it is not told to    *)
(* ignore, which may be the smooth layer alone.                            *)
SmoothQuantResolved(model, targets) ==
  {k \in DOMAIN model.mappings :
     LET mapping == model.mappings[k]
     IN  /\ (ToSet(mapping.balance) \cup {mapping.smooth}) \cap targets # {}
         /\ mapping.balance # <<>>}

(* get_lowest_common_ancestor_with_avoid; a module is its own ancestor.    *)
Parent(model, mapping) ==
  LET ancestors == {c \in model.containers \cup {{m} : m \in ModulesOf(model)} :
                      ToSet(mapping.balance) \subseteq c}
  IN  CHOOSE c \in ancestors : \A d \in ancestors : c \subseteq d

(* Subgraphs do not call the modules that contain a target.                *)
IsCalled(model, container, sequential) ==
  sequential => ~ \E t \in model.targets : t \subseteq container /\ t # container

(* Where AWQ's hook collects the activations of a mapping.                 *)
AWQHook(mapping) ==
  IF mapping.hook # {} THEN mapping.hook ELSE {Head(mapping.balance)}

-----------------------------------------------------------------------------
(* A weight is abstracted to the scalings it went through, each named by a *)
(* tag: what it divides its outputs by, what it multiplies its inputs by,  *)
(* and whether it was rounded to a grid, and pruned.                       *)

Original == [div |-> {}, mul |-> {}, quantized |-> FALSE, pruned |-> FALSE]

Smoothed_FirstOnly(weights, tag, mapping) ==
  [m \in DOMAIN weights |->
     [weights[m] EXCEPT
        !.div = @ \cup (IF m = mapping.smooth THEN {tag} ELSE {}),
        !.mul = @ \cup (IF m = Head(mapping.balance) THEN {tag} ELSE {})]]

(* _smooth: each balance layer, then the smooth layer and its bias.        *)
Smoothed(weights, tag, mapping) ==
  [m \in DOMAIN weights |->
     [weights[m] EXCEPT
        !.div = @ \cup (IF m = mapping.smooth THEN {tag} ELSE {}),
        !.mul = @ \cup (IF m \in ToSet(mapping.balance) THEN {tag} ELSE {})]]

(* What the input of m is divided by if the modules running are run and    *)
(* what others returned is known.                                          *)
InputScale(model, weights, running, known, m) ==
  LET s == model.source[m]
  IN  IF s = 0 THEN {} ELSE IF s \in running THEN weights[s].div ELSE known[s]

(* The module computes what it did before any smoothing.                   *)
Fits(model, weights, running, known, m) ==
  InputScale(model, weights, running, known, m) = weights[m].mul

-----------------------------------------------------------------------------
(* Statistics of activations: the batches they were collected from, and    *)
(* whether they are numbers.                                               *)

NoStatistics == [batches |-> <<>>, finite |-> TRUE]

(* _accumulate_mean divides by the number of tokens so far: a first batch  *)
(* whose tokens are all masked leaves NaN, and NaN stays.                  *)
AccumulateMean_Overwrite(statistics, batch, tokens) ==
  [batches |-> <<batch>>, finite |-> tokens > 0]

AccumulateMean(statistics, batch, tokens) ==
  [batches |-> Append(statistics.batches, batch),
   finite |-> statistics.finite /\ (statistics.batches # <<>> \/ tokens > 0)]

=============================================================================
