---------------------- MODULE ModifierCalibrationProofs ----------------------
(***************************************************************************)
(* Proofs about ModifierCalibration for all models, recipes, pipelines,    *)
(* routings and masks: observers are there when they are needed; smoothing *)
(* is offset, each mapping is applied once, statistics are of the weights  *)
(* they are used for and scales of the weights that are saved, under       *)
(* conditions on mappings and recipes that the theorems name.              *)
(***************************************************************************)
EXTENDS ModifierCalibration, CountingInduction, FiniteSetTheorems, SequenceTheorems, TLAPS

-----------------------------------------------------------------------------
(* Types.                                                                  *)

Tags == Nat \X Nat

Weight == [div : SUBSET Tags, mul : SUBSET Tags, quantized : BOOLEAN, pruned : BOOLEAN]

IsQuantization(q) ==
  /\ q = [scheme |-> q.scheme, status |-> q.status, observers |-> q.observers,
          scale |-> q.scale, inputs |-> q.inputs]
  /\ q.scheme \in Nat

Phases == {"initialize", "start", "enter", "calibrate", "subgraph_end", "propagate", "end",
           "finalize", "done", "raised"}

IsConfig ==
  /\ Model \in Models /\ Recipe \in Recipes
  /\ config = [model |-> Model, recipe |-> Recipe, pipeline |-> config.pipeline,
               reached |-> config.reached, masked |-> config.masked]

Typed ==
  /\ IsConfig
  /\ pc \in Phases
  /\ turn \in Nat \ {0} /\ handler \in Nat \ {0} /\ subgraph \in Nat \ {0} /\ batch \in Batches
  /\ outputs \in [Batches -> [Modules -> SUBSET Tags]]
  /\ weights \in [Modules -> Weight]
  /\ quantization = [m \in Modules |-> quantization[m]]
  /\ \A m \in Modules : IsQuantization(quantization[m])
  /\ enabled \in BOOLEAN /\ loss_masks \in BOOLEAN
  /\ live \subseteq DOMAIN Recipe
  /\ statistics = [i \in DOMAIN Recipe |-> statistics[i]]
  /\ parent_args = [i \in DOMAIN Recipe |-> parent_args[i]]
  /\ hessians = [i \in DOMAIN Recipe |-> hessians[i]]

-----------------------------------------------------------------------------
(* Smoothing mapping after mapping.                                        *)

Start == [weights |-> weights, log |-> log]

Applies(i, k) == IsSmoothed(i, k) /\ ~ \E j \in 1 .. k : NoFiniteLoss(i, j)

(* What one mapping does to weights and log.                               *)
Step(i, k, before) ==
  IF Applies(i, k)
    THEN [weights |-> Smoothed(before.weights, <<i, k>>, Mapping(k)),
          log |-> Append(before.log, LogEntry(i, k, before.weights))]
    ELSE before

LEMMA SmoothingSteps ==
  ASSUME NEW i, NEW n \in Nat, n = Len(Model.mappings)
  PROVE  \E After : /\ After[0] = Start
                    /\ \A k \in 1 .. n : After[k] = Step(i, k, After[k - 1])
                    /\ SmoothedBy(i) = After[n]
<1> DEFINE Body(f, k) == IF k = 0 THEN Start ELSE Step(i, k, f[k - 1])
           IsAfter(f, k) == f = [j \in 0 .. k |-> Body(f, j)]
           Defined == {k \in 0 .. n : \E f : IsAfter(f, k)}
<1>1. 0 \in Defined
  <2>1. IsAfter([j \in 0 .. 0 |-> Start], 0) /\ 0 \in 0 .. n
    OBVIOUS
  <2> HIDE DEF IsAfter
  <2> QED
    BY <2>1
<1>2. ASSUME NEW k \in 0 .. n, k \in Defined, k < n PROVE k + 1 \in Defined
  <2>1. PICK f : IsAfter(f, k)
    BY <1>2
  <2>2. PICK g : g = [j \in 0 .. k + 1 |-> IF j <= k THEN f[j] ELSE Step(i, k + 1, f[k])]
    OBVIOUS
  <2>3. ASSUME NEW j \in 0 .. k + 1 PROVE g[j] = Body(g, j)
    <3>1. CASE j = 0
      BY <2>1, <2>2, <3>1
    <3>2. CASE j # 0 /\ j <= k
      <4>1. f[j] = Step(i, j, f[j - 1])
        BY <2>1, <3>2
      <4>2. g[j] = f[j] /\ g[j - 1] = f[j - 1]
        BY <2>2, <3>2
      <4> QED
        BY <4>1, <4>2, <3>2
    <3>3. CASE j = k + 1
      <4>1. g[j] = Step(i, j, f[k]) /\ g[k] = f[k] /\ j - 1 = k /\ j # 0
        BY <2>2, <3>3
      <4> QED
        BY <4>1
    <3> QED
      BY <3>1, <3>2, <3>3
  <2>4. IsAfter(g, k + 1)
    <3> HIDE DEF Body
    <3> QED
      BY <2>2, <2>3
  <2>5. k + 1 \in 0 .. n
    BY <1>2
  <2> HIDE DEF IsAfter
  <2> QED
    BY <2>4, <2>5
<1>3. n \in Defined
  <2> HIDE DEF Defined
  <2>1. 0 .. n \subseteq Defined
    BY <1>1, <1>2, UpToN
  <2> QED
    BY <2>1
<1>4. PICK After : After = CHOOSE f : f = [j \in 0 .. n |-> Body(f, j)]
  OBVIOUS
<1>5. After = [j \in 0 .. n |-> Body(After, j)]
  BY <1>3, <1>4
<1>6. SmoothedBy(i) = After[n]
  <2>1. SmoothedBy(i)
          = (CHOOSE f : f = [j \in 0 .. Len(Model.mappings) |-> Body(f, j)])[Len(Model.mappings)]
    BY Zenon DEF SmoothedBy, Step, Start, Applies
  <2> HIDE DEF Body
  <2> QED
    BY <1>4, <2>1, Zenon
<1>7. After[0] = Start /\ \A k \in 1 .. n : After[k] = Step(i, k, After[k - 1])
  <2>1. ASSUME NEW k \in 0 .. n PROVE After[k] = Body(After, k)
    <3> HIDE DEF Body
    <3> QED
      BY <1>5, Zenon
  <2>2. 0 \in 0 .. n /\ \A k \in 1 .. n : k \in 0 .. n /\ k # 0
    OBVIOUS
  <2> QED
    BY <2>1, <2>2, Zenon
<1> QED
  BY <1>6, <1>7

(* What mappings refer to.                                                 *)
LEMMA ModelFacts ==
  ASSUME IsConfig
  PROVE  /\ Model.source \in Seq(Nat) /\ Modules = 1 .. Len(Model.source)
         /\ Len(Model.source) \in Nat /\ Len(Model.mappings) \in Nat
         /\ DOMAIN Model.mappings = 1 .. Len(Model.mappings)
         /\ Model.linear \subseteq Modules
         /\ Model.subgraph \in [Modules -> Nat \ {0}]
         /\ \A m \in Modules :
              /\ Model.source[m] \in {0} \cup Modules /\ Model.source[m] # m
              /\ Model.source[m] # 0 => Model.subgraph[Model.source[m]] <= Model.subgraph[m]
         /\ \A k \in DOMAIN Model.mappings :
              /\ Mapping(k) \in [smooth : Modules, balance : Seq(Modules), hook : SUBSET Modules]
              /\ ToSet(Mapping(k).balance) \subseteq Modules
         /\ \A i : /\ Resolved(i) \subseteq DOMAIN Model.mappings
                   /\ \A k \in Resolved(i) : Mapping(k).balance # <<>>
<1>1. PICK model \in Models : model = Model
  BY DEF IsConfig
<1>2. /\ model.source \in Seq(Nat) /\ model.subgraph \in [DOMAIN model.source -> Nat \ {0}]
      /\ model.linear \subseteq DOMAIN model.source
      /\ \A m \in DOMAIN model.source :
           /\ model.source[m] < m
           /\ model.source[m] # 0 => model.subgraph[model.source[m]] <= model.subgraph[m]
      /\ model.mappings \in Seq([smooth : DOMAIN model.source, balance : Seq(DOMAIN model.source),
                                 hook : SUBSET (DOMAIN model.source)])
  BY ModelsAssumption DEF ModulesOf
<1>3. Modules = DOMAIN model.source
  BY <1>1 DEF Modules, ModulesOf
<1>4. ASSUME NEW k \in DOMAIN Model.mappings
      PROVE  /\ Mapping(k) \in [smooth : Modules, balance : Seq(Modules), hook : SUBSET Modules]
             /\ ToSet(Mapping(k).balance) \subseteq Modules
  <2>1. PICK S : S = [smooth : Modules, balance : Seq(Modules), hook : SUBSET Modules]
    OBVIOUS
  <2>2. PICK mappings \in Seq(S) : mappings = Model.mappings
    BY <1>1, <1>2, <1>3, <2>1
  <2>3. Mapping(k) \in [smooth : Modules, balance : Seq(Modules), hook : SUBSET Modules]
    <3>1. k \in 1 .. Len(mappings)
      BY <2>2
    <3>2. mappings[k] \in S
      BY <3>1, ElementOfSeq
    <3> QED
      BY <2>1, <2>2, <3>2 DEF Mapping
  <2>4. PICK mapping : mapping = Mapping(k)
    OBVIOUS
  <2>5. mapping.balance \in Seq(Modules)
    BY <2>3, <2>4
  <2>6. ToSet(mapping.balance) \subseteq Modules
    BY <2>5 DEF ToSet
  <2> QED
    BY <2>3, <2>4, <2>6
<1>5. ASSUME NEW i PROVE Resolved(i) \subseteq DOMAIN Model.mappings
                         /\ \A k \in Resolved(i) : Mapping(k).balance # <<>>
  BY DEF Resolved, AWQResolved, SmoothQuantResolved, Mapping
<1>6. /\ Model.source \in Seq(Nat) /\ Modules = 1 .. Len(Model.source)
      /\ Len(Model.source) \in Nat /\ Len(Model.mappings) \in Nat
      /\ DOMAIN Model.mappings = 1 .. Len(Model.mappings)
  <2>1. PICK S : model.mappings \in Seq(S)
    BY <1>2
  <2> QED
    BY <1>1, <1>2, <1>3, <2>1
<1>7. ASSUME NEW m \in Modules
      PROVE  /\ Model.source[m] \in {0} \cup Modules /\ Model.source[m] # m
             /\ Model.source[m] # 0 => Model.subgraph[Model.source[m]] <= Model.subgraph[m]
  <2>1. m \in 1 .. Len(Model.source) /\ Model.source[m] \in Nat /\ Model.source[m] < m
    BY <1>1, <1>2, <1>3, <1>6
  <2> QED
    BY <1>1, <1>2, <1>3, <1>6, <2>1
<1>8. Model.linear \subseteq Modules /\ Model.subgraph \in [Modules -> Nat \ {0}]
  BY <1>1, <1>2, <1>3
<1> QED
  BY <1>4, <1>5, <1>6, <1>7, <1>8

(* What smoothing has changed after the first k mappings: what layers      *)
(* divide by if they are smoothed, what they multiply by if they are       *)
(* balanced.                                                               *)
IsPreserved(w) ==
  \A m \in Modules :
    w[m].mul = IF Model.source[m] = 0 THEN {} ELSE w[Model.source[m]].div

(* The balance layers of every mapping are all that read the smooth layer. *)
Balanced(model) ==
  \A k \in DOMAIN model.mappings :
    ToSet(model.mappings[k].balance)
      = {m \in ModulesOf(model) : model.source[m] = model.mappings[k].smooth}

SmoothedSoFar(i, k, w) ==
  /\ w \in [Modules -> Weight]
  /\ \A m \in Modules :
       /\ w[m].div # weights[m].div => \E j \in 1 .. k : Applies(i, j) /\ m = Mapping(j).smooth
       /\ w[m].mul # weights[m].mul
            => \E j \in 1 .. k : Applies(i, j) /\ m \in ToSet(Mapping(j).balance)
       /\ w[m].quantized = weights[m].quantized /\ w[m].pruned = weights[m].pruned
  /\ Balanced(Model) /\ IsPreserved(weights) => IsPreserved(w)

LEMMA StepSmooths ==
  ASSUME Typed, NEW i \in Nat, NEW k \in 1 .. Len(Model.mappings), NEW before,
         SmoothedSoFar(i, k - 1, before.weights)
  PROVE  SmoothedSoFar(i, k, Step(i, k, before).weights)
<1>1. Len(Model.mappings) \in Nat /\ k \in DOMAIN Model.mappings
  BY ModelFacts DEF Typed
<1>2. CASE ~Applies(i, k)
  BY <1>1, <1>2 DEF Step, SmoothedSoFar
<1>3. CASE Applies(i, k)
  <2>1. PICK w : w = before.weights
    OBVIOUS
  <2>2. PICK smooth : smooth = Mapping(k).smooth
    OBVIOUS
  <2>3. PICK balance : balance = ToSet(Mapping(k).balance)
    OBVIOUS
  <2>4. PICK tag \in Tags : tag = <<i, k>>
    <3>1. k \in Nat
      BY <1>1
    <3>2. <<i, k>> \in Tags
      BY <3>1 DEF Tags
    <3> QED
      BY <3>2
  <2>5. PICK after : after = Step(i, k, before).weights
    OBVIOUS
  <2>6. w \in [Modules -> Weight] /\ smooth \in Modules /\ balance \subseteq Modules
    BY <1>1, <2>1, <2>2, <2>3, ModelFacts DEF Typed, SmoothedSoFar
  <2>7. after = [m \in Modules |->
                   [w[m] EXCEPT !.div = @ \cup (IF m = smooth THEN {tag} ELSE {}),
                                !.mul = @ \cup (IF m \in balance THEN {tag} ELSE {})]]
    <3>1. after = Smoothed(w, tag, Mapping(k))
      BY <1>3, <2>1, <2>4, <2>5 DEF Step
    <3> QED
      BY <3>1, <2>2, <2>3, <2>6 DEF Smoothed
  <2>8. ASSUME NEW m \in Modules
        PROVE  /\ after[m] \in Weight
               /\ after[m].div = w[m].div \cup (IF m = smooth THEN {tag} ELSE {})
               /\ after[m].mul = w[m].mul \cup (IF m \in balance THEN {tag} ELSE {})
               /\ after[m].quantized = w[m].quantized /\ after[m].pruned = w[m].pruned
    <3>1. w[m] \in Weight
      BY <2>6
    <3> QED
      BY <3>1, <2>7 DEF Weight
  <2>9. after \in [Modules -> Weight]
    BY <2>7, <2>8
  <2>10. ASSUME NEW m \in Modules
         PROVE  /\ after[m].div # weights[m].div
                     => \E j \in 1 .. k : Applies(i, j) /\ m = Mapping(j).smooth
                /\ after[m].mul # weights[m].mul
                     => \E j \in 1 .. k : Applies(i, j) /\ m \in ToSet(Mapping(j).balance)
    <3>1. /\ after[m].div = w[m].div \cup (IF m = smooth THEN {tag} ELSE {})
          /\ after[m].mul = w[m].mul \cup (IF m \in balance THEN {tag} ELSE {})
      BY <2>8
    <3>2. m # smooth => after[m].div = w[m].div
      BY <3>1
    <3>3. m \notin balance => after[m].mul = w[m].mul
      BY <3>1
    <3>4. 1 .. k - 1 \subseteq 1 .. k /\ k \in 1 .. k
      BY <1>1
    <3>5. /\ w[m].div # weights[m].div
               => \E j \in 1 .. k - 1 : Applies(i, j) /\ m = Mapping(j).smooth
          /\ w[m].mul # weights[m].mul
               => \E j \in 1 .. k - 1 : Applies(i, j) /\ m \in ToSet(Mapping(j).balance)
      BY <2>1 DEF SmoothedSoFar
    <3> QED
      BY <1>3, <2>2, <2>3, <3>2, <3>3, <3>4, <3>5
  <2>11. ASSUME Balanced(Model), IsPreserved(w) PROVE IsPreserved(after)
    <3>1. balance = {m \in Modules : Model.source[m] = smooth}
      BY <1>1, <2>2, <2>3, <2>11 DEF Balanced, Mapping, Modules
    <3>2. SUFFICES ASSUME NEW m \in Modules
                   PROVE  after[m].mul
                            = IF Model.source[m] = 0 THEN {} ELSE after[Model.source[m]].div
      BY DEF IsPreserved
    <3>3. w[m].mul = IF Model.source[m] = 0 THEN {} ELSE w[Model.source[m]].div
      BY <2>11 DEF IsPreserved
    <3>4. Model.source[m] \in {0} \cup Modules /\ 0 \notin Modules
      <4>1. Model.source[m] \in {0} \cup Modules
        BY ModelFacts DEF Typed
      <4>2. Modules = 1 .. Len(Model.source)
        BY ModelFacts DEF Typed
      <4> QED
        BY <4>1, <4>2
    <3>5. m \in balance <=> Model.source[m] = smooth
      BY <3>1
    <3>6. CASE Model.source[m] = 0
      BY <2>6, <2>8, <3>3, <3>4, <3>5, <3>6
    <3>7. CASE Model.source[m] # 0
      <4>1. PICK s \in Modules : s = Model.source[m]
        BY <3>4, <3>7
      <4>2. after[s].div = w[s].div \cup (IF s = smooth THEN {tag} ELSE {})
        BY <2>8
      <4> QED
        BY <2>8, <3>3, <3>5, <3>7, <4>1, <4>2
    <3> QED
      BY <3>6, <3>7
  <2>12. Balanced(Model) /\ IsPreserved(weights) => IsPreserved(w)
    BY <2>1 DEF SmoothedSoFar
  <2>13. ASSUME NEW m \in Modules
         PROVE  after[m].quantized = weights[m].quantized /\ after[m].pruned = weights[m].pruned
    BY <2>1, <2>8 DEF SmoothedSoFar
  <2> QED
    BY <2>5, <2>9, <2>10, <2>11, <2>12, <2>13 DEF SmoothedSoFar
<1> QED
  BY <1>2, <1>3

LEMMA NotYetSmoothed ==
  ASSUME Typed, NEW i
  PROVE  SmoothedSoFar(i, 0, weights)
BY DEF Typed, SmoothedSoFar

LEMMA SmoothedWeights ==
  ASSUME Typed, NEW i \in Nat
  PROVE  SmoothedSoFar(i, Len(Model.mappings), SmoothedBy(i).weights)
<1>1. PICK n \in Nat : n = Len(Model.mappings)
  BY ModelFacts DEF Typed
<1>2. PICK After : /\ After[0] = Start
                   /\ \A k \in 1 .. n : After[k] = Step(i, k, After[k - 1])
                   /\ SmoothedBy(i) = After[n]
  BY <1>1, SmoothingSteps
<1>3. PICK S : S = {k \in 0 .. n : SmoothedSoFar(i, k, After[k].weights)}
  OBVIOUS
<1>4. 0 \in S
  BY <1>2, <1>3, NotYetSmoothed DEF Start
<1>5. ASSUME NEW k \in 0 .. n, k \in S, k < n PROVE k + 1 \in S
  <2>1. k + 1 \in 1 .. Len(Model.mappings) /\ (k + 1) - 1 = k /\ k + 1 \in 1 .. n /\ k + 1 \in 0 .. n
    BY <1>1, <1>5
  <2>2. PICK l : l = k + 1
    OBVIOUS
  <2>3. SmoothedSoFar(i, l - 1, After[k].weights) /\ l \in 1 .. Len(Model.mappings)
    BY <1>3, <1>5, <2>1, <2>2
  <2>4. PICK before : before = After[k]
    OBVIOUS
  <2>5. SmoothedSoFar(i, l, Step(i, l, before).weights)
    BY <2>3, <2>4, StepSmooths
  <2>6. After[l] = Step(i, l, before)
    BY <1>2, <2>1, <2>2, <2>4
  <2> QED
    BY <1>3, <2>1, <2>2, <2>5, <2>6
<1>6. n \in S
  <2>1. 0 .. n \subseteq S
    BY <1>4, <1>5, UpToN
  <2> QED
    BY <2>1
<1> QED
  BY <1>1, <1>2, <1>3, <1>6

-----------------------------------------------------------------------------
(* The inductive invariant.                                                *)

(* Modifier i has collected nothing, or has used it.                       *)
Empty(i) == DOMAIN statistics[i] = {} /\ DOMAIN parent_args[i] = {} /\ DOMAIN hessians[i] = {}

Passing == {"calibrate", "subgraph_end", "propagate"}

(* Whose turn it is, and what has started.                                 *)
Turns ==
  /\ pc = "initialize" => turn = 1
  /\ pc # "initialize" => turn \in DOMAIN Recipe
  /\ pc \in {"initialize", "start"} /\ Independent => live = {}
  /\ live \subseteq Active
  /\ pc \in {"start", "subgraph_end", "end"} /\ Independent => handler = turn
  /\ pc \in {"subgraph_end", "propagate"} => Sequential
  /\ pc \in {"enter", "calibrate"} => Pipeline # "datafree"

(* Modifiers have what they collected from when they are called in a pass  *)
(* until the event after it.                                               *)
Holding ==
  /\ pc \notin {"calibrate", "subgraph_end", "end", "raised"} =>
       \A i \in DOMAIN Recipe : Empty(i)
  /\ pc \in {"calibrate", "subgraph_end", "end"} =>
       \A i \in DOMAIN Recipe : ~Empty(i) => i \in Active
  /\ pc \in {"subgraph_end", "end"} =>
       \A i \in DOMAIN Recipe : ~Empty(i) => i >= handler
  /\ pc = "end" /\ (Sequential \/ Independent) =>
       \A i \in DOMAIN Recipe : Empty(i)

(* With a pipeline of its own, nobody takes a modifier's observers away.   *)
ObserversAttached ==
  Independent /\ pc \in Passing \cup {"enter", "end"}
              /\ Kind(turn) \in {"awq", "gptq", "quantization"} =>
    \A m \in Schemed(turn) :
      /\ "weight" \in quantization[m].observers
      /\ HasStaticInputs(m) => "input" \in quantization[m].observers

(* The module whose inputs AWQ observes has a layer of the mapping.        *)
HooksMeetMappings(model) ==
  \A k \in DOMAIN model.mappings :
    LET mapping == model.mappings[k]
    IN  mapping.hook # {} => mapping.hook \cap ({mapping.smooth} \cup ToSet(mapping.balance)) # {}

(* Statistics are of layers of the subgraph.                               *)
CollectedHere ==
  Sequential /\ Aligned /\ pc \in {"calibrate", "subgraph_end"} =>
    \A i \in DOMAIN Recipe : \A s \in DOMAIN statistics[i] :
      s \in Modules /\ Model.subgraph[s] = subgraph

(* What is known of modules that are not run any more is what they return. *)
Gone(m, b) ==
  \/ Model.subgraph[m] < subgraph
  \/ pc = "propagate" /\ Model.subgraph[m] = subgraph /\ b < batch

OutputsKnown ==
  Sequential /\ Aligned /\ pc \in Passing =>
    \A b \in Batches, m \in Modules : Gone(m, b) => outputs[b][m] = weights[m].div

(* What a modifier holds are the scales its weights have now.              *)
HeldFits ==
  Independent /\ Aligned /\ pc \in {"calibrate", "subgraph_end"} =>
    /\ \A m \in DOMAIN hessians[turn] : hessians[turn][m] = {weights[m].mul}
    /\ \A p \in DOMAIN parent_args[turn] :
         /\ p \subseteq Modules
         /\ parent_args[turn][p] \in Seq({[m \in EntersAt(p) |-> weights[m].mul]})

QuantizationOff ==
  Independent /\ Kind(turn) \in {"awq", "autoround"} /\ pc \in Passing => ~enabled

(* What enters the parent of a mapping no earlier mapping balances.        *)
ParentsEnterUnbalanced(model) ==
  \A k \in DOMAIN model.mappings : \A j \in 1 .. k - 1 :
    \A m \in ToSet(model.mappings[j].balance) \cap Parent(model, model.mappings[k]) :
      model.source[m] \in Parent(model, model.mappings[k])

Inv ==
  /\ Typed
  /\ Turns
  /\ Holding
  /\ ObserversAttached
  /\ ObserversPresent

-----------------------------------------------------------------------------
(* What actions have in common.                                            *)

LEMMA MinOfSet ==
  ASSUME NEW S, S \subseteq Nat, S # {}
  PROVE  Min(S) \in S /\ \A x \in S : Min(S) <= x
<1> DEFINE R == {ss \in Nat \X Nat : ss[1] < ss[2]}
<1>1. IsWellFoundedOn(R, Nat)
  BY NatLessThanWellFounded, Zenon DEF OpToRel
<1>2. PICK least \in S : \A x \in S : <<x, least>> \notin R
  <2> HIDE DEF R
  <2> QED
    BY <1>1, WFMin, Zenon
<1>3. ASSUME NEW x \in S PROVE least <= x
  <2>1. x \in Nat /\ least \in Nat /\ <<x, least>> \notin R
    BY <1>2
  <2> QED
    BY <2>1
<1>4. \E x \in S : \A y \in S : x =< y
  BY <1>3
<1> QED
  BY <1>4 DEF Min

(* Modifiers are numbered.                                                 *)
LEMMA RecipeFacts ==
  ASSUME IsConfig
  PROVE  /\ Recipe \in Seq([kind : Kinds, targets : SUBSET Nat, has_config : BOOLEAN,
                            input_observer : Observers])
         /\ Len(Recipe) \in Nat /\ DOMAIN Recipe = 1 .. Len(Recipe)
         /\ DOMAIN Recipe \subseteq Nat \ {0}
<1>1. PICK S : S = [kind : Kinds, targets : SUBSET Nat, has_config : BOOLEAN,
                    input_observer : Observers]
  OBVIOUS
<1>2. PICK recipe : recipe = Recipe
  OBVIOUS
<1>3. recipe \in Seq(S)
  BY <1>1, <1>2, RecipesAssumption DEF IsConfig
<1>4. Len(recipe) \in Nat /\ DOMAIN recipe = 1 .. Len(recipe)
  BY <1>3
<1> QED
  BY <1>1, <1>2, <1>3, <1>4

(* An event goes to the modifiers in their order, then the pipeline goes   *)
(* on, or the next modifier's pipeline starts.                             *)
DeliversTo(i) ==
  /\ ~Independent /\ pc' = pc /\ turn' = turn
  /\ handler' \in DOMAIN Recipe /\ i < handler'
  /\ \A j \in Active : i < j => handler' <= j

NextTurn(i) ==
  /\ Independent /\ turn < Len(Recipe)
  /\ turn' = turn + 1 /\ handler' = turn + 1 /\ pc' = "start"

Proceeds(i, following) ==
  /\ \A j \in Active : j <= i
  /\ turn' = turn
  /\ IF following = "end of pipeline" THEN handler' = 1 /\ pc' = "finalize"
     ELSE /\ handler' \in Active /\ pc' = following
          /\ \A j \in Active : handler' <= j

LEMMA Delivery ==
  ASSUME Typed, turn \in DOMAIN Recipe, NEW i \in Active, NEW following, DeliverNext(i, following)
  PROVE  /\ error' = "none"
         /\ \/ DeliversTo(i)
            \/ following = "end of pipeline" /\ NextTurn(i)
            \/ Proceeds(i, following)
<1> DEFINE later == {j \in Active : j > i}
<1>1. Active \subseteq DOMAIN Recipe /\ DOMAIN Recipe \subseteq Nat \ {0} /\ turn \in Nat
  BY RecipeFacts DEF Active, Typed
<1>2. Independent => later = {}
  BY <1>1 DEF Active
<1>3. error' = "none"
  BY DEF DeliverNext
<1>4. CASE later # {}
  <2>1. handler' = Min(later) /\ pc' = pc /\ turn' = turn
    BY <1>4 DEF DeliverNext
  <2>2. handler' \in later /\ \A j \in later : handler' <= j
    BY <1>1, <1>4, <2>1, MinOfSet
  <2> QED
    BY <1>1, <1>2, <1>3, <1>4, <2>1, <2>2 DEF DeliversTo
<1>5. CASE later = {} /\ following = "end of pipeline" /\ Independent /\ turn < Len(Recipe)
  BY <1>3, <1>5 DEF DeliverNext, NextTurn
<1>6. CASE later = {} /\ ~(following = "end of pipeline" /\ Independent /\ turn < Len(Recipe))
  <2>1. ASSUME NEW j \in Active PROVE j <= i
    <3>1. j \in Nat /\ i \in Nat /\ ~(j > i)
      BY <1>1, <1>6
    <3> QED
      BY <3>1
  <2>2. /\ turn' = turn
        /\ handler' = IF following = "end of pipeline" THEN 1 ELSE Min(Active)
        /\ pc' = IF following = "end of pipeline" THEN "finalize" ELSE following
    BY <1>6 DEF DeliverNext
  <2>3. Min(Active) \in Active /\ \A j \in Active : Min(Active) <= j
    BY <1>1, MinOfSet
  <2> QED
    BY <1>3, <2>1, <2>2, <2>3 DEF Proceeds
<1> QED
  BY <1>4, <1>5, <1>6

(* Quantization of modules.                                                *)
LEMMA QuantizationFacts ==
  ASSUME Typed, NEW m \in Modules
  PROVE  LET q == quantization[m]
         IN  /\ IsQuantization(Calibrated(m)) /\ Calibrated(m).scheme = q.scheme
             /\ "weight" \in Calibrated(m).observers
             /\ HasStaticInputs(m) => "input" \in Calibrated(m).observers
             /\ IsQuantization(InCalibration(m)) /\ InCalibration(m).scheme = q.scheme
             /\ \A scale : LET r == [q EXCEPT !.scale = scale]
                           IN  /\ IsQuantization(r) /\ r.scheme = q.scheme
                               /\ r.observers = q.observers
             /\ \A inputs : LET r == [q EXCEPT !.inputs = inputs]
                            IN  /\ IsQuantization(r) /\ r.scheme = q.scheme
                                /\ r.observers = q.observers
<1>1. PICK q : q = quantization[m]
  OBVIOUS
<1>2. IsQuantization(q)
  BY <1>1 DEF Typed
<1>3. PICK observers : observers = IF HasStaticInputs(m) THEN {"weight", "input"} ELSE {"weight"}
  OBVIOUS
<1>4. /\ IsQuantization(Calibrated(m)) /\ Calibrated(m).scheme = q.scheme
      /\ Calibrated(m).observers = observers
  <2>1. Calibrated(m) = [q EXCEPT !.status = "calibration", !.inputs = <<>>, !.observers = observers]
    BY <1>1, <1>3 DEF Calibrated
  <2> QED
    BY <1>2, <2>1 DEF IsQuantization
<1>5. IsQuantization(InCalibration(m)) /\ InCalibration(m).scheme = q.scheme
  <2>1. InCalibration(m) = [q EXCEPT !.status = "calibration"]
    BY <1>1 DEF InCalibration
  <2> QED
    BY <1>2, <2>1 DEF IsQuantization
<1>6. ASSUME NEW value
      PROVE  /\ IsQuantization([q EXCEPT !.scale = value])
             /\ [q EXCEPT !.scale = value].scheme = q.scheme
             /\ [q EXCEPT !.scale = value].observers = q.observers
             /\ IsQuantization([q EXCEPT !.inputs = value])
             /\ [q EXCEPT !.inputs = value].scheme = q.scheme
             /\ [q EXCEPT !.inputs = value].observers = q.observers
  BY <1>2 DEF IsQuantization
<1> QED
  BY <1>1, <1>3, <1>4, <1>5, <1>6

LEMMA FrozenFacts ==
  ASSUME NEW q, IsQuantization(q)
  PROVE  /\ IsQuantization(Frozen(q)) /\ Frozen(q).scheme = q.scheme
         /\ IsQuantization([q EXCEPT !.scale = q.scale])
BY DEF IsQuantization, Frozen

LEMMA StartedFacts ==
  ASSUME Typed, NEW i \in DOMAIN Recipe
  PROVE  /\ Started(i) = [m \in Modules |-> Started(i)[m]]
         /\ \A m \in Modules :
              /\ IsQuantization(Started(i)[m]) /\ Started(i)[m].scheme = quantization[m].scheme
              /\ m \in Schemed(i) /\ Kind(i) \in {"awq", "gptq", "quantization"} =>
                   /\ "weight" \in Started(i)[m].observers
                   /\ HasStaticInputs(m) => "input" \in Started(i)[m].observers
<1>1. ASSUME NEW m \in Modules
      PROVE  /\ IsQuantization(Started(i)[m]) /\ Started(i)[m].scheme = quantization[m].scheme
             /\ m \in Schemed(i) /\ Kind(i) \in {"awq", "gptq", "quantization"} =>
                  /\ "weight" \in Started(i)[m].observers
                  /\ HasStaticInputs(m) => "input" \in Started(i)[m].observers
  <2>1. Started(i)[m] = IF m \notin Schemed(i) THEN quantization[m]
                        ELSE IF Kind(i) = "quantization"
                          THEN [Calibrated(m) EXCEPT !.scale = weights[m]]
                        ELSE IF Kind(i) = "autoround" THEN InCalibration(m) ELSE Calibrated(m)
    BY DEF Started
  <2>2. PICK c : c = Calibrated(m)
    OBVIOUS
  <2>3. /\ IsQuantization(c) /\ c.scheme = quantization[m].scheme /\ "weight" \in c.observers
        /\ HasStaticInputs(m) => "input" \in c.observers
        /\ IsQuantization(InCalibration(m)) /\ InCalibration(m).scheme = quantization[m].scheme
        /\ IsQuantization(quantization[m])
    BY <2>2, QuantizationFacts DEF Typed
  <2>4. PICK d : d = [c EXCEPT !.scale = weights[m]]
    OBVIOUS
  <2>5. IsQuantization(d) /\ d.scheme = c.scheme /\ d.observers = c.observers
    BY <2>3, <2>4 DEF IsQuantization
  <2>6. Started(i)[m] = IF m \notin Schemed(i) THEN quantization[m]
                        ELSE IF Kind(i) = "quantization" THEN d
                        ELSE IF Kind(i) = "autoround" THEN InCalibration(m) ELSE c
    BY <2>1, <2>2, <2>4
  <2> QED
    BY <2>3, <2>5, <2>6
<1>2. Started(i) = [m \in Modules |-> Started(i)[m]]
  BY DEF Started
<1> QED
  BY <1>1, <1>2

LEMMA NewQuantization ==
  ASSUME Typed, NEW i \in DOMAIN Recipe, NEW m \in Modules
  PROVE  LET q == quantization[m]
         IN  /\ IsQuantization(Rescaled(i)[m]) /\ Rescaled(i)[m].scheme = q.scheme
             /\ Rescaled(i)[m].observers = q.observers
             /\ IsQuantization(EndScales(i)[m]) /\ EndScales(i)[m].scheme = q.scheme
<1>1. PICK q : q = quantization[m]
  OBVIOUS
<1>2. PICK scale : scale = Updated(i).weights[m]
  OBVIOUS
<1>3. PICK r : r = [q EXCEPT !.scale = scale]
  OBVIOUS
<1>4. /\ IsQuantization(r) /\ r.scheme = q.scheme /\ r.observers = q.observers
      /\ IsQuantization(q)
  <2>1. IsQuantization(q)
    BY <1>1 DEF Typed
  <2> QED
    BY <1>3, <2>1 DEF IsQuantization
<1>5. Rescaled(i)[m] = r \/ Rescaled(i)[m] = q
  BY <1>1, <1>2, <1>3 DEF Rescaled
<1>6. EndScales(i)[m] = r \/ EndScales(i)[m] = Rescaled(i)[m]
  BY <1>1, <1>2, <1>3 DEF EndScales
<1> QED
  BY <1>1, <1>4, <1>5, <1>6

(* Of the events after a pass only those of AWQ and SmoothQuant change     *)
(* what weights multiply and divide by.                                    *)
LEMMA NewWeights ==
  ASSUME Typed, NEW i \in DOMAIN Recipe
  PROVE  /\ Updated(i).weights \in [Modules -> Weight]
         /\ Kind(i) \notin {"awq", "smoothquant"} =>
              \A m \in Modules : /\ Updated(i).weights[m].div = weights[m].div
                                 /\ Updated(i).weights[m].mul = weights[m].mul
<1>1. CASE Kind(i) \in {"awq", "smoothquant"}
  <2>1. SmoothedSoFar(i, Len(Model.mappings), SmoothedBy(i).weights)
    BY SmoothedWeights, RecipeFacts DEF Typed
  <2>2. Updated(i) = SmoothedBy(i)
    BY <1>1 DEF Updated
  <2> QED
    BY <1>1, <2>1, <2>2 DEF SmoothedSoFar
<1>2. CASE Kind(i) \notin {"awq", "smoothquant"}
  <2>1. PICK w : w = Updated(i).weights
    OBVIOUS
  <2>2. ASSUME NEW x \in Weight
        PROVE  /\ Quantized(x) \in Weight /\ Quantized(x).div = x.div /\ Quantized(x).mul = x.mul
               /\ Pruned(x) \in Weight /\ Pruned(x).div = x.div /\ Pruned(x).mul = x.mul
    BY DEF Weight, Quantized, Pruned
  <2>3. ASSUME NEW m \in Modules
        PROVE  w[m] \in {weights[m], Quantized(weights[m]), Pruned(weights[m])}
    BY <1>2, <2>1 DEF Updated, CompressedBy, TunedBy
  <2>4. w = [m \in Modules |-> w[m]]
    BY <1>2, <2>1 DEF Updated, CompressedBy, TunedBy, Typed
  <2>5. \A m \in Modules : weights[m] \in Weight
    BY DEF Typed
  <2>6. ASSUME NEW m \in Modules
        PROVE  w[m] \in Weight /\ w[m].div = weights[m].div /\ w[m].mul = weights[m].mul
    BY <2>2, <2>3, <2>5
  <2> QED
    BY <2>1, <2>4, <2>6
<1> QED
  BY <1>1, <1>2

LEMMA Unchanging ==
  ASSUME config' = config
  PROVE  /\ Modules' = Modules /\ Recipe' = Recipe /\ Model' = Model
         /\ (Independent' <=> Independent) /\ (Aligned' <=> Aligned)
         /\ turn' = turn => Active' = Active /\ Pipeline' = Pipeline /\ (Sequential' <=> Sequential)
BY DEF Modules, ModulesOf, Model, Recipe, Independent, Active, Pipeline, Sequential, Aligned, Kind,
       Resolved, Targets, Mapping

LEMMA Consumed ==
  ASSUME Typed, config' = config, NEW i \in DOMAIN Recipe, Consume(i)
  PROVE  /\ statistics' = [j \in DOMAIN Recipe |-> statistics'[j]]
         /\ parent_args' = [j \in DOMAIN Recipe |-> parent_args'[j]]
         /\ hessians' = [j \in DOMAIN Recipe |-> hessians'[j]]
         /\ Empty(i)'
         /\ \A j \in DOMAIN Recipe \ {i} : /\ statistics'[j] = statistics[j]
                                           /\ parent_args'[j] = parent_args[j]
                                           /\ hessians'[j] = hessians[j]
<1>1. DOMAIN Nothing = {}
  BY DEF Nothing
<1>2. statistics'[i] = Nothing /\ parent_args'[i] = Nothing /\ hessians'[i] = Nothing
  BY DEF Consume, Typed
<1> QED
  BY <1>1, <1>2 DEF Consume, Typed, Empty

-----------------------------------------------------------------------------
(* The steps.                                                              *)

LEMMA InitInv == Init => Inv
<1> SUFFICES ASSUME Init PROVE Inv
  OBVIOUS
<1>1. IsConfig
  <2>1. PICK model \in Models :
          config \in [model : {model}, recipe : Recipes, pipeline : Pipelines,
                      reached : [Batches -> model.routings], masked : SUBSET Batches]
    BY DEF Init
  <2> QED
    BY <2>1 DEF IsConfig, Model, Recipe
<1>2. Typed
  <2>1. 1 \in Batches
    BY BatchesAssumption DEF Batches
  <2>2. \A m \in Modules : IsQuantization(quantization[m])
    BY DEF Init, Unquantized, IsQuantization
  <2>3. weights \in [Modules -> Weight]
    BY DEF Init, Original, Weight
  <2>4. outputs \in [Batches -> [Modules -> SUBSET Tags]]
    BY DEF Init
  <2>5. /\ quantization = [m \in Modules |-> quantization[m]]
        /\ statistics = [i \in DOMAIN Recipe |-> statistics[i]]
        /\ parent_args = [i \in DOMAIN Recipe |-> parent_args[i]]
        /\ hessians = [i \in DOMAIN Recipe |-> hessians[i]]
    BY DEF Init
  <2>6. /\ pc \in Phases /\ turn \in Nat \ {0} /\ handler \in Nat \ {0}
        /\ subgraph \in Nat \ {0} /\ batch \in Batches
        /\ enabled \in BOOLEAN /\ loss_masks \in BOOLEAN /\ live \subseteq DOMAIN Recipe
    <3>1. /\ pc = "initialize" /\ turn = 1 /\ handler = 1 /\ subgraph = 1 /\ batch = 1
          /\ enabled = FALSE /\ live = {} /\ loss_masks = FALSE
      BY DEF Init
    <3> HIDE DEF Init
    <3>2. pc \in Phases
      BY <3>1 DEF Phases
    <3>3. enabled \in BOOLEAN /\ loss_masks \in BOOLEAN /\ live \subseteq DOMAIN Recipe
      BY <3>1
    <3> QED
      BY <2>1, <3>1, <3>2, <3>3
  <2> QED
    BY <1>1, <2>1, <2>2, <2>3, <2>4, <2>5, <2>6 DEF Typed
<1>3. \A i \in DOMAIN Recipe : Empty(i)
  BY DEF Init, Empty, Nothing
<1> QED
  BY <1>2, <1>3 DEF Inv, Init, Turns, Holding, ObserversAttached, ObserversPresent, Passing

LEMMA InitializeStep ==
  ASSUME Inv, NEW i \in DOMAIN Recipe, InitializeModifier(i)
  PROVE  Inv'
<1> USE DEF Inv
<1>1. /\ UNCHANGED <<config, turn, subgraph, batch, outputs, weights, live, loss_masks,
                     statistics, parent_args, hessians, log, error>>
      /\ pc = "initialize" /\ handler = i
      /\ \/ handler' = i + 1 /\ pc' = pc /\ i < Len(Recipe)
         \/ handler' = 1 /\ pc' = "start"
  BY DEF InitializeModifier
<1>2. Modules' = Modules /\ Recipe' = Recipe /\ Model' = Model /\ Active' = Active
      /\ (Independent' <=> Independent) /\ (Aligned' <=> Aligned)
  <2>1. config' = config /\ (turn' = turn \/ turn' # turn)
    BY <1>1
  <2> QED
    BY <1>1, <2>1, Unchanging
<1>3. 1 \in DOMAIN Recipe /\ i \in Nat /\ DOMAIN Recipe = 1 .. Len(Recipe) /\ Len(Recipe) \in Nat
  BY RecipeFacts DEF Typed
<1>4. Typed'
  <2>1. /\ quantization' = [m \in Modules |-> quantization'[m]]
        /\ \A m \in Modules : IsQuantization(quantization'[m])
        /\ enabled' \in BOOLEAN
    <3>1. IsQuantization([Unquantized EXCEPT !.scheme = i, !.status = "initialized"])
      <4>1. PICK q : q = Unquantized
        OBVIOUS
      <4>2. IsQuantization(q)
        BY <4>1 DEF Unquantized, IsQuantization
      <4>3. PICK r : r = [q EXCEPT !.scheme = i, !.status = "initialized"]
        OBVIOUS
      <4>4. r.scheme = i /\ IsQuantization(r)
        BY <1>3, <4>2, <4>3 DEF IsQuantization
      <4> QED
        BY <4>1, <4>3, <4>4
    <3>2. CASE UNCHANGED <<quantization, enabled>>
      BY <3>2 DEF Typed
    <3>3. CASE /\ quantization' =
                    [m \in Modules |-> IF m \in Targets(i)
                       THEN [Unquantized EXCEPT !.scheme = i, !.status = "initialized"]
                       ELSE quantization[m]]
               /\ enabled' = FALSE
      BY <3>1, <3>3 DEF Typed
    <3> QED
      BY <3>2, <3>3 DEF InitializeModifier
  <2>2. IsConfig'
    BY <1>1 DEF Typed, IsConfig, Model, Recipe
  <2> QED
    BY <1>1, <1>2, <1>3, <2>1, <2>2 DEF Typed, Phases
<1>5. Turns' /\ Holding'
  <2>1. \A j \in DOMAIN Recipe : Empty(j) /\ Empty(j)'
    BY <1>1 DEF Holding, Empty
  <2> QED
    BY <1>1, <1>2, <1>3, <2>1 DEF Turns, Holding
<1>6. ObserversAttached' /\ ObserversPresent'
  BY <1>1, <1>2 DEF ObserversAttached, ObserversPresent, Passing
<1> QED
  BY <1>4, <1>5, <1>6

LEMMA StartStep ==
  ASSUME Inv, NEW i \in DOMAIN Recipe, StartModifier(i)
  PROVE  Inv'
<1> USE DEF Inv
<1>1. /\ UNCHANGED <<config, subgraph, batch, outputs, weights, loss_masks, statistics,
                     parent_args, hessians, log>>
      /\ pc = "start" /\ handler = i /\ live' = live \cup {i}
  BY DEF StartModifier
<1>2. /\ Modules' = Modules /\ Recipe' = Recipe /\ Model' = Model
      /\ (Independent' <=> Independent) /\ (Aligned' <=> Aligned)
      /\ turn' = turn => Active' = Active /\ Pipeline' = Pipeline /\ (Sequential' <=> Sequential)
  <2>1. config' = config /\ (turn' = turn \/ turn' # turn)
    BY <1>1
  <2> QED
    BY <1>1, <2>1, Unchanging
<1>3. turn \in DOMAIN Recipe /\ DOMAIN Recipe \subseteq Nat \ {0} /\ i \in Active /\ IsConfig
      /\ (Independent => i = turn)
  BY <1>1, RecipeFacts DEF Typed, Turns, Active
<1>4. PICK following : following = IF Pipeline = "datafree" THEN "end" ELSE "enter"
  OBVIOUS
<1>5. \/ /\ (quantization' = Started(i) \/ (~Quantizes(i) /\ quantization' = quantization))
         /\ enabled' \in BOOLEAN /\ DeliverNext(i, following)
      \/ /\ (quantization' = Started(i) \/ quantization' = quantization) /\ enabled' \in BOOLEAN
         /\ (Raise("config") \/ Raise("masks"))
  <2>1. enabled \in BOOLEAN /\ (Kind(i) # "awq") \in BOOLEAN
    BY DEF Typed
  <2>2. CASE ~Quantizes(i) /\ UNCHANGED <<quantization, enabled>> /\ DeliverNext(i, following)
    BY <2>1, <2>2
  <2>3. CASE UNCHANGED <<quantization, enabled>> /\ Raise("masks")
    BY <2>1, <2>3
  <2>4. CASE /\ quantization' = Started(i) /\ enabled' = (Kind(i) # "awq")
             /\ IF Kind(i) = "gptq" /\ Schemed(i) = {} THEN Raise("config")
                ELSE DeliverNext(i, following)
    BY <2>1, <2>4
  <2> QED
    BY <1>4, <2>2, <2>3, <2>4 DEF StartModifier
<1>6. \/ /\ error' = "none"
         /\ DeliversTo(i) \/ Proceeds(i, following)
      \/ /\ error' \in {"config", "masks"} /\ pc' = "raised" /\ turn' = turn /\ handler' = handler
  <2>1. CASE DeliverNext(i, following)
    <3>1. following # "end of pipeline"
      BY <1>4
    <3> QED
      BY <1>3, <2>1, <3>1, Delivery
  <2>2. CASE Raise("config") \/ Raise("masks")
    BY <2>2 DEF Raise
  <2> QED
    BY <1>5, <2>1, <2>2
<1>7. turn' = turn /\ handler' \in Nat \ {0} /\ pc' \in {"start", "raised", following}
  BY <1>1, <1>3, <1>6, <1>4 DEF DeliversTo, Proceeds, Typed, Active
<1>8. Typed'
  <2>1. /\ quantization' = [m \in Modules |-> quantization'[m]]
        /\ \A m \in Modules : IsQuantization(quantization'[m])
    <3>1. CASE quantization' = quantization
      BY <3>1 DEF Typed
    <3>2. CASE quantization' = Started(i)
      BY <3>2, StartedFacts
    <3> QED
      BY <1>5, <3>1, <3>2
  <2>2. IsConfig' /\ live' \subseteq DOMAIN Recipe
    BY <1>1 DEF Typed, IsConfig, Model, Recipe
  <2> QED
    BY <1>1, <1>2, <1>4, <1>5, <1>7, <2>1, <2>2 DEF Typed, Phases
<1>9. Turns'
  BY <1>1, <1>2, <1>3, <1>4, <1>6, <1>7 DEF Turns, Active, DeliversTo, Proceeds
<1>10. Holding'
  <2>1. \A j \in DOMAIN Recipe : Empty(j) /\ Empty(j)'
    BY <1>1 DEF Holding, Empty
  <2> QED
    BY <1>2, <2>1 DEF Holding
<1>11. ObserversAttached'
  <2>1. CASE pc' \in {"raised", "start"}
    BY <2>1 DEF ObserversAttached, Passing
  <2>2. CASE pc' \notin {"raised", "start"}
    <3> SUFFICES ASSUME Independent, Kind(turn) \in {"awq", "gptq", "quantization"},
                        NEW m \in Schemed(turn)'
                 PROVE  /\ "weight" \in quantization'[m].observers
                        /\ HasStaticInputs(m)' => "input" \in quantization'[m].observers
      BY <1>1, <1>2, <1>7 DEF ObserversAttached, Kind
    <3>1. Quantizes(i) /\ i = turn
      BY <1>3 DEF Quantizes
    <3>2. quantization' = Started(i)
      BY <1>5, <2>2, <3>1 DEF Raise
    <3>3. m \in Targets(i) /\ m \in Modules /\ quantization'[m].scheme # 0
      BY <1>1, <1>2, <1>3, <1>7, <3>1, ModelFacts DEF Schemed, Targets, Recipe, Model
    <3>4. quantization'[m].scheme = quantization[m].scheme
      BY <3>2, <3>3, StartedFacts
    <3>5. m \in Schemed(i)
      BY <3>3, <3>4 DEF Schemed
    <3>6. HasStaticInputs(m)' => HasStaticInputs(m)
      BY <1>2, <3>4 DEF HasStaticInputs, InputObserver
    <3> QED
      BY <3>1, <3>2, <3>3, <3>5, <3>6, StartedFacts
  <2> QED
    BY <2>1, <2>2
<1>12. ObserversPresent'
  BY <1>6 DEF ObserversPresent
<1> QED
  BY <1>8, <1>9, <1>10, <1>11, <1>12

LEMMA RejectStep ==
  ASSUME Inv, RejectTargets
  PROVE  Inv'
<1> USE DEF Inv
<1>1. /\ UNCHANGED <<config, turn, handler, subgraph, batch, outputs, weights, quantization,
                     enabled, live, loss_masks, statistics, parent_args, hessians, log>>
      /\ pc = "start" /\ pc' = "raised" /\ error' = "targets"
  BY DEF RejectTargets, Raise
<1>2. Modules' = Modules /\ Recipe' = Recipe /\ Model' = Model /\ Active' = Active
  BY <1>1, Unchanging
<1>3. Typed'
  BY <1>1, <1>2 DEF Typed, IsConfig, Phases
<1> QED
  BY <1>1, <1>2, <1>3 DEF Turns, Holding, ObserversAttached, ObserversPresent, Passing

LEMMA EnterStep ==
  ASSUME Inv, EnterPasses
  PROVE  Inv'
<1> USE DEF Inv
<1>1. /\ UNCHANGED <<config, turn, handler, outputs, weights, quantization, live, statistics,
                     parent_args, hessians, log, error>>
      /\ pc = "enter" /\ pc' = "calibrate" /\ subgraph' = 1 /\ batch' = 1
  BY DEF EnterPasses
<1>2. /\ Modules' = Modules /\ Recipe' = Recipe /\ Model' = Model /\ Active' = Active
      /\ Pipeline' = Pipeline /\ (Independent' <=> Independent)
  BY <1>1, Unchanging
<1>3. Typed'
  <2>1. 1 \in Batches
    BY BatchesAssumption DEF Batches
  <2>2. enabled' \in BOOLEAN /\ loss_masks' \in BOOLEAN
    BY DEF EnterPasses, Typed
  <2> QED
    BY <1>1, <1>2, <2>1, <2>2 DEF Typed, IsConfig, Phases
<1>4. Turns'
  BY <1>1, <1>2 DEF Turns
<1>5. Holding'
  <2>1. \A i \in DOMAIN Recipe : Empty(i)'
    BY <1>1 DEF Holding, Empty
  <2> QED
    BY <1>1, <1>2, <2>1 DEF Holding
<1>6. ObserversAttached'
  <2>1. Kind(turn)' = Kind(turn) /\ Schemed(turn)' = Schemed(turn)
        /\ \A m : HasStaticInputs(m)' = HasStaticInputs(m)
    BY <1>1, <1>2 DEF Kind, Schemed, Targets, HasStaticInputs, InputObserver
  <2> QED
    BY <1>1, <1>2, <2>1 DEF ObserversAttached, Passing
<1> QED
  BY <1>1, <1>2, <1>3, <1>4, <1>5, <1>6 DEF ObserversPresent

(* With a pipeline per modifier its hooks find the observers it attached.  *)
LEMMA HooksFindObservers ==
  ASSUME Inv, pc \in Passing, Independent, NEW m \in InputHooked
  PROVE  "input" \in quantization[m].observers
<1>1. PICK i \in live : /\ Kind(i) \in {"awq", "gptq", "quantization"}
                        /\ m \in Schemed(i) /\ HasStaticInputs(m)
  BY DEF InputHooked, InputHooks
<1>2. i = turn
  BY DEF Inv, Turns, Active
<1> QED
  BY <1>1, <1>2 DEF Inv, ObserversAttached

LEMMA CalibrateStep ==
  ASSUME Inv, Calibrate
  PROVE  Inv'
<1> USE DEF Inv
<1>1. /\ UNCHANGED <<config, turn, subgraph, outputs, weights, enabled, live, loss_masks, log>>
      /\ pc = "calibrate"
  BY DEF Calibrate, Raise
<1>2. /\ Modules' = Modules /\ Recipe' = Recipe /\ Model' = Model /\ Active' = Active
      /\ Pipeline' = Pipeline /\ (Independent' <=> Independent) /\ (Sequential' <=> Sequential)
  BY <1>1, Unchanging
<1>3. IsConfig'
  BY <1>1 DEF Typed, IsConfig, Model, Recipe
<1>4. CASE \E m \in InputHooked : "input" \notin quantization[m].observers
  <2>1. /\ UNCHANGED <<handler, batch, quantization, statistics, parent_args, hessians>>
        /\ pc' = "raised" /\ error' = "observer"
    BY <1>4 DEF Calibrate, Raise
  <2>2. ~Independent
    BY <1>1, <1>4, HooksFindObservers DEF Passing
  <2>3. Typed'
    BY <1>1, <1>2, <1>3, <2>1 DEF Typed, Phases
  <2> QED
    BY <1>1, <1>2, <2>1, <2>2, <2>3 DEF Turns, Holding, ObserversAttached, ObserversPresent
<1>5. CASE \A m \in InputHooked : "input" \in quantization[m].observers
  <2>1. /\ quantization' =
             [m \in Modules |-> IF m \in InputHooked
                THEN [quantization[m] EXCEPT !.inputs = ObservedInputs(m)] ELSE quantization[m]]
        /\ statistics' = [i \in DOMAIN Recipe |->
             OnlyKind({"awq", "smoothquant"}, i, Observed(i), statistics[i])]
        /\ parent_args' = [i \in DOMAIN Recipe |->
             OnlyKind({"awq", "autoround"}, i, CachedArgs(i), parent_args[i])]
        /\ hessians' = [i \in DOMAIN Recipe |->
             OnlyKind({"gptq", "pruning"}, i, Accumulated(i), hessians[i])]
        /\ error' = error
        /\ \/ batch < NumBatches /\ batch' = batch + 1 /\ UNCHANGED <<pc, handler>>
           \/ /\ batch' = 1 /\ handler' = Min(Active)
              /\ pc' = IF Sequential THEN "subgraph_end" ELSE "end"
    BY <1>5 DEF Calibrate
  <2>2. turn \in DOMAIN Recipe /\ DOMAIN Recipe \subseteq Nat \ {0}
    BY <1>1, RecipeFacts DEF Typed, Turns
  <2>3. /\ Active \subseteq DOMAIN Recipe /\ Min(Active) \in Active
        /\ \A j \in Active : Min(Active) <= j
    <3>1. Active \subseteq DOMAIN Recipe /\ Active # {}
      BY <2>2 DEF Active
    <3> QED
      BY <2>2, <3>1, MinOfSet
  <2>4. ASSUME NEW m \in Modules
        PROVE  /\ IsQuantization(quantization'[m])
               /\ quantization'[m].scheme = quantization[m].scheme
               /\ quantization'[m].observers = quantization[m].observers
    <3>1. PICK q : q = [quantization[m] EXCEPT !.inputs = ObservedInputs(m)]
      OBVIOUS
    <3>2. /\ IsQuantization(q) /\ q.scheme = quantization[m].scheme
          /\ q.observers = quantization[m].observers
      BY <3>1, QuantizationFacts
    <3>3. quantization'[m] = q \/ quantization'[m] = quantization[m]
      BY <2>1, <3>1
    <3> QED
      BY <3>2, <3>3 DEF Typed
  <2>5. Typed'
    <3>1. batch' \in Batches /\ pc' \in Phases /\ handler' \in Nat \ {0}
      <4>1. 1 \in Batches /\ (batch < NumBatches => batch + 1 \in Batches)
        BY BatchesAssumption DEF Batches, Typed
      <4> QED
        BY <1>1, <2>1, <2>2, <2>3, <4>1 DEF Typed, Phases
    <3>2. /\ quantization' = [m \in Modules |-> quantization'[m]]
          /\ statistics' = [j \in DOMAIN Recipe |-> statistics'[j]]
          /\ parent_args' = [j \in DOMAIN Recipe |-> parent_args'[j]]
          /\ hessians' = [j \in DOMAIN Recipe |-> hessians'[j]]
      BY <2>1
    <3> QED
      BY <1>1, <1>2, <1>3, <2>4, <3>1, <3>2 DEF Typed
  <2>6. Turns'
    <3>1. Independent => Min(Active) = turn
      BY <2>3 DEF Active
    <3> QED
      BY <1>1, <1>2, <2>1, <2>2, <2>3, <3>1 DEF Turns
  <2>7. Holding'
    <3>1. \A j \in DOMAIN Recipe : ~Empty(j)' => j \in Active
      <4> SUFFICES ASSUME NEW j \in DOMAIN Recipe, j \notin Active PROVE Empty(j)'
        OBVIOUS
      <4>1. Empty(j) /\ j \notin live
        BY <1>1 DEF Holding, Turns
      <4>2. statistics'[j] = statistics[j] /\ parent_args'[j] = parent_args[j]
            /\ hessians'[j] = hessians[j]
        BY <2>1, <4>1 DEF OnlyKind
      <4> QED
        BY <4>1, <4>2 DEF Empty
    <3>2. pc' = "end" => ~Sequential /\ ~Independent
      BY <1>1, <2>1 DEF Turns, Sequential, Pipeline
    <3> QED
      BY <1>1, <1>2, <2>1, <2>3, <3>1, <3>2 DEF Holding
  <2>8. ObserversAttached'
    <3>1. CASE Independent
      <4>1. pc' \in Passing
        BY <1>1, <2>1, <3>1 DEF Turns, Sequential, Pipeline, Passing
      <4>2. Kind(turn)' = Kind(turn) /\ Schemed(turn)' = Schemed(turn)
        <5>1. Targets(turn) \subseteq Modules
          BY ModelFacts DEF Typed, Targets
        <5> QED
          BY <1>1, <1>2, <2>4, <5>1 DEF Kind, Schemed, Targets
      <4>3. \A m \in Modules : HasStaticInputs(m)' <=> HasStaticInputs(m)
        BY <1>2, <2>4 DEF HasStaticInputs, InputObserver
      <4>4. Schemed(turn) \subseteq Modules
        BY ModelFacts DEF Typed, Targets, Schemed
      <4> QED
        BY <1>1, <1>2, <2>4, <4>1, <4>2, <4>3, <4>4 DEF ObserversAttached, Passing
    <3> QED
      BY <1>2, <3>1 DEF ObserversAttached
  <2> QED
    BY <1>2, <2>1, <2>5, <2>6, <2>7, <2>8 DEF ObserversPresent
<1> QED
  BY <1>4, <1>5

LEMMA PropagateStep ==
  ASSUME Inv, Propagate
  PROVE  Inv'
<1> USE DEF Inv
<1>1. /\ UNCHANGED <<config, turn, weights, quantization, enabled, live, loss_masks,
                     statistics, parent_args, hessians, log, error>>
      /\ pc = "propagate" /\ outputs' = Outputs
      /\ \/ /\ batch < NumBatches /\ batch' = batch + 1 /\ UNCHANGED <<pc, subgraph, handler>>
         \/ batch' = 1 /\ subgraph' = subgraph + 1 /\ pc' = "calibrate" /\ UNCHANGED handler
         \/ batch' = 1 /\ pc' = "end" /\ handler' = Min(Active) /\ UNCHANGED subgraph
  BY DEF Propagate
<1>2. /\ Modules' = Modules /\ Recipe' = Recipe /\ Model' = Model /\ Active' = Active
      /\ Pipeline' = Pipeline /\ (Independent' <=> Independent) /\ (Sequential' <=> Sequential)
  BY <1>1, Unchanging
<1>3. turn \in DOMAIN Recipe /\ DOMAIN Recipe \subseteq Nat \ {0}
  BY <1>1, RecipeFacts DEF Typed, Turns
<1>4. /\ Active \subseteq DOMAIN Recipe /\ Min(Active) \in Active
      /\ \A j \in Active : Min(Active) <= j
  <2>1. Active \subseteq DOMAIN Recipe /\ Active # {}
    BY <1>3 DEF Active
  <2> QED
    BY <1>3, <2>1, MinOfSet
<1>5. Typed'
  <2>1. /\ batch' \in Batches /\ pc' \in Phases /\ handler' \in Nat \ {0}
        /\ subgraph' \in Nat \ {0}
    <3>1. 1 \in Batches /\ (batch < NumBatches => batch + 1 \in Batches)
      BY BatchesAssumption DEF Batches, Typed
    <3>2. subgraph \in Nat \ {0} /\ subgraph + 1 \in Nat \ {0} /\ handler \in Nat \ {0}
          /\ batch \in Batches
      BY DEF Typed
    <3>3. pc' \in Phases
      BY <1>1 DEF Phases
    <3> QED
      BY <1>1, <1>3, <1>4, <3>1, <3>2, <3>3
  <2>2. outputs' \in [Batches -> [Modules -> SUBSET Tags]]
    <3>1. \A m \in Modules : weights[m].div \in SUBSET Tags
      BY DEF Typed, Weight
    <3>2. PICK new \in [Modules -> SUBSET Tags] :
            new = [m \in Modules |-> IF m \in Running THEN weights[m].div ELSE outputs[batch][m]]
      <4>1. outputs[batch] \in [Modules -> SUBSET Tags]
        BY DEF Typed
      <4>2. \A m \in Modules :
              (IF m \in Running THEN weights[m].div ELSE outputs[batch][m]) \in SUBSET Tags
        BY <3>1, <4>1
      <4> QED
        BY <4>2
    <3>3. Outputs = [outputs EXCEPT ![batch] = new]
      BY <3>2 DEF Outputs, Typed
    <3> QED
      BY <1>1, <3>2, <3>3 DEF Typed
  <2> QED
    BY <1>1, <1>2, <2>1, <2>2 DEF Typed, IsConfig
<1>6. Turns'
  <2>1. Independent => Min(Active) = turn
    BY <1>4 DEF Active
  <2>2. Pipeline # "datafree"
    BY <1>1 DEF Turns, Sequential
  <2> QED
    BY <1>1, <1>2, <1>3, <2>1, <2>2 DEF Turns
<1>7. Holding'
  <2>1. \A i \in DOMAIN Recipe : Empty(i)'
    BY <1>1 DEF Holding, Empty
  <2> QED
    BY <1>2, <2>1 DEF Holding
<1>8. ObserversAttached'
  <2>1. Kind(turn)' = Kind(turn) /\ Schemed(turn)' = Schemed(turn)
        /\ \A m : HasStaticInputs(m)' = HasStaticInputs(m)
    BY <1>1, <1>2 DEF Kind, Schemed, Targets, HasStaticInputs, InputObserver
  <2> QED
    BY <1>1, <1>2, <2>1 DEF ObserversAttached, Passing
<1> QED
  BY <1>1, <1>2, <1>5, <1>6, <1>7, <1>8 DEF ObserversPresent


(* What the end of a pass has in common with the end of calibration.       *)
LEMMA ConsumingTypes ==
  ASSUME Inv, NEW i \in DOMAIN Recipe, Consume(i), config' = config
  PROVE  /\ weights' \in [Modules -> Weight]
         /\ statistics' = [j \in DOMAIN Recipe |-> statistics'[j]]
         /\ parent_args' = [j \in DOMAIN Recipe |-> parent_args'[j]]
         /\ hessians' = [j \in DOMAIN Recipe |-> hessians'[j]]
         /\ \A j \in DOMAIN Recipe : Empty(j)' <=> j = i \/ Empty(j)
<1>1. Typed
  BY DEF Inv
<1>2. weights' = Updated(i).weights
  BY DEF Consume
<1>3. \A j \in DOMAIN Recipe : Empty(j)' <=> j = i \/ Empty(j)
  BY <1>1, Consumed DEF Empty
<1> QED
  BY <1>1, <1>2, <1>3, NewWeights, Consumed

LEMMA EndSubgraphStep ==
  ASSUME Inv, NEW i \in DOMAIN Recipe, EndSubgraph(i), ~SmoothingFails(i)
  PROVE  Inv'
<1> USE DEF Inv
<1>1. /\ UNCHANGED <<config, subgraph, batch, outputs, enabled, live, loss_masks>>
      /\ pc = "subgraph_end" /\ handler = i /\ Consume(i) /\ quantization' = Rescaled(i)
      /\ DeliverNext(i, "propagate")
  BY DEF EndSubgraph
<1>2. /\ turn \in DOMAIN Recipe /\ DOMAIN Recipe \subseteq Nat \ {0} /\ i \in Active
      /\ Active \subseteq DOMAIN Recipe /\ IsConfig
  BY <1>1, RecipeFacts DEF Typed, Turns, Active
<1>3. error' = "none" /\ (DeliversTo(i) \/ Proceeds(i, "propagate"))
  <2>1. PICK following : following = "propagate"
    OBVIOUS
  <2>2. DeliverNext(i, following) /\ following # "end of pipeline"
    BY <1>1, <2>1
  <2>3. error' = "none" /\ (DeliversTo(i) \/ Proceeds(i, following))
    BY <1>2, <2>2, Delivery
  <2> QED
    BY <2>1, <2>3
<1>4. /\ turn' = turn /\ handler' \in Active /\ i \in Nat /\ handler' \in Nat \ {0}
      /\ pc' \in {"subgraph_end", "propagate"}
  BY <1>1, <1>2, <1>3 DEF DeliversTo, Proceeds, Active
<1>5. /\ Modules' = Modules /\ Recipe' = Recipe /\ Model' = Model /\ Active' = Active
      /\ Pipeline' = Pipeline /\ (Independent' <=> Independent) /\ (Sequential' <=> Sequential)
  BY <1>1, <1>4, Unchanging
<1>6. ASSUME NEW m \in Modules
      PROVE  /\ IsQuantization(quantization'[m])
             /\ quantization'[m].scheme = quantization[m].scheme
             /\ quantization'[m].observers = quantization[m].observers
  BY <1>1, NewQuantization
<1>7. Typed'
  <2>1. quantization' = [m \in Modules |-> quantization'[m]]
    BY <1>1 DEF Rescaled
  <2>2. pc' \in Phases /\ IsConfig'
    BY <1>1, <1>2, <1>4 DEF Phases, IsConfig, Model, Recipe
  <2> QED
    BY <1>1, <1>2, <1>4, <1>5, <1>6, <2>1, <2>2, ConsumingTypes DEF Typed
<1>8. Turns'
  BY <1>1, <1>2, <1>3, <1>4, <1>5 DEF Turns, Active, DeliversTo, Proceeds
<1>9. Holding'
  <2>1. \A j \in DOMAIN Recipe : Empty(j)' <=> j = i \/ Empty(j)
    BY <1>1, ConsumingTypes
  <2>2. ASSUME NEW j \in DOMAIN Recipe, ~Empty(j)'
        PROVE  j \in Active /\ i < j
    <3>1. ~Empty(j) /\ j # i
      BY <2>1, <2>2
    <3>2. j \in Active /\ j >= i
      BY <1>1, <3>1 DEF Holding
    <3> QED
      BY <1>2, <3>1, <3>2
  <2>3. CASE DeliversTo(i)
    BY <1>1, <1>5, <2>2, <2>3 DEF DeliversTo, Holding
  <2>4. CASE Proceeds(i, "propagate")
    <3>1. \A j \in DOMAIN Recipe : Empty(j)'
      <4> SUFFICES ASSUME NEW j \in DOMAIN Recipe, ~Empty(j)' PROVE FALSE
        OBVIOUS
      <4>1. j \in Active /\ i < j /\ j <= i
        BY <2>2, <2>4 DEF Proceeds
      <4> QED
        BY <1>2, <4>1
    <3> QED
      BY <1>5, <2>4, <3>1 DEF Proceeds, Holding
  <2> QED
    BY <1>3, <2>3, <2>4
<1>10. ObserversAttached'
  <2>1. Targets(turn) \subseteq Modules
    BY <1>2, ModelFacts DEF Targets
  <2>2. Kind(turn)' = Kind(turn) /\ Schemed(turn)' = Schemed(turn) /\ Schemed(turn) \subseteq Modules
    BY <1>4, <1>5, <1>6, <2>1 DEF Kind, Schemed, Targets
  <2>3. \A m \in Modules : HasStaticInputs(m)' <=> HasStaticInputs(m)
    BY <1>5, <1>6 DEF HasStaticInputs, InputObserver
  <2> QED
    BY <1>1, <1>4, <1>5, <1>6, <2>2, <2>3 DEF ObserversAttached, Passing
<1> QED
  BY <1>3, <1>7, <1>8, <1>9, <1>10 DEF ObserversPresent

LEMMA SmoothingFailsStep ==
  ASSUME Inv, NEW i \in DOMAIN Recipe, EndSubgraph(i), SmoothingFails(i)
  PROVE  Inv'
<1> USE DEF Inv
<1>1. /\ UNCHANGED <<config, subgraph, batch, outputs, enabled, live, loss_masks, turn, handler>>
      /\ pc = "subgraph_end" /\ handler = i /\ Consume(i) /\ quantization' = Rescaled(i)
      /\ pc' = "raised" /\ error' = "loss"
  BY DEF EndSubgraph, Raise
<1>2. turn \in DOMAIN Recipe /\ IsConfig
  BY <1>1 DEF Typed, Turns
<1>3. /\ Modules' = Modules /\ Recipe' = Recipe /\ Model' = Model /\ Active' = Active
      /\ (Independent' <=> Independent)
  BY <1>1, Unchanging
<1>4. Typed'
  <2>1. \A m \in Modules : IsQuantization(quantization'[m])
    BY <1>1, NewQuantization
  <2>2. quantization' = [m \in Modules |-> quantization'[m]]
    BY <1>1 DEF Rescaled
  <2>3. pc' \in Phases /\ IsConfig'
    BY <1>1, <1>2 DEF Phases, IsConfig, Model, Recipe
  <2> QED
    BY <1>1, <1>3, <2>1, <2>2, <2>3, ConsumingTypes DEF Typed
<1> QED
  BY <1>1, <1>2, <1>3, <1>4 DEF Turns, Holding, ObserversAttached, ObserversPresent, Passing

LEMMA EndCalibrationStep ==
  ASSUME Inv, NEW i \in DOMAIN Recipe, EndCalibration(i)
  PROVE  Inv'
<1> USE DEF Inv
<1>1. /\ UNCHANGED <<config, subgraph, batch, outputs, loss_masks>>
      /\ pc = "end" /\ handler = i /\ Consume(i)
  BY DEF EndCalibration
<1>2. /\ turn \in DOMAIN Recipe /\ DOMAIN Recipe \subseteq Nat \ {0} /\ i \in Active
      /\ Active \subseteq DOMAIN Recipe /\ IsConfig /\ (Independent => i = turn)
      /\ DOMAIN Recipe = 1 .. Len(Recipe) /\ Len(Recipe) \in Nat
  BY <1>1, RecipeFacts DEF Typed, Turns, Active
<1>3. /\ Modules' = Modules /\ Recipe' = Recipe /\ Model' = Model
      /\ (Independent' <=> Independent)
      /\ turn' = turn => Active' = Active /\ Pipeline' = Pipeline /\ (Sequential' <=> Sequential)
  <2>1. config' = config /\ (turn' = turn \/ turn' # turn)
    BY <1>1
  <2> QED
    BY <1>1, <2>1, Unchanging
<1>4. \A j \in DOMAIN Recipe : Empty(j)' <=> j = i \/ Empty(j)
  BY <1>1, ConsumingTypes
<1>5. IsConfig'
  BY <1>1, <1>2 DEF IsConfig, Model, Recipe
<1>6. CASE SmoothingFails(i) \/ MissesObserver(i)
  <2>1. /\ UNCHANGED <<turn, handler, quantization, enabled, live>>
        /\ pc' = "raised" /\ error' = IF SmoothingFails(i) THEN "loss" ELSE "observer"
    BY <1>6 DEF EndCalibration, Raise
  <2>2. ~Independent \/ error' # "observer"
    <3>1. CASE SmoothingFails(i)
      BY <2>1, <3>1
    <3>2. CASE ~SmoothingFails(i)
      BY <1>1, <1>2, <1>6, <3>2 DEF MissesObserver, ObserversAttached
    <3> QED
      BY <3>1, <3>2
  <2>3. Typed'
    BY <1>1, <1>3, <1>5, <2>1, ConsumingTypes DEF Typed, Phases
  <2> QED
    <3>1. Turns' /\ Holding' /\ ObserversAttached'
      BY <1>1, <1>2, <1>3, <2>1 DEF Turns, Holding, ObserversAttached, Passing
    <3>2. ObserversPresent'
      BY <1>3, <2>2 DEF ObserversPresent
    <3> QED
      BY <2>3, <3>1, <3>2
<1>7. CASE ~(SmoothingFails(i) \/ MissesObserver(i))
  <2>1. /\ live' = live \ {i}
        /\ quantization' = [m \in Modules |-> IF Quantizes(i) /\ m \in Schemed(i)
                              THEN Frozen(EndScales(i)[m]) ELSE EndScales(i)[m]]
        /\ enabled' = (enabled \/ Quantizes(i) \/
                         (Sequential /\ DisablesQuantization /\ i = Max(Active)))
        /\ DeliverNext(i, "end of pipeline")
    BY <1>7 DEF EndCalibration
  <2>2. /\ error' = "none"
        /\ DeliversTo(i) \/ NextTurn(i) \/ Proceeds(i, "end of pipeline")
    BY <1>2, <2>1, Delivery
  <2>3. Typed'
    <3>1. \A m \in Modules : IsQuantization(quantization'[m])
      <4> SUFFICES ASSUME NEW m \in Modules PROVE IsQuantization(quantization'[m])
        OBVIOUS
      <4>1. PICK q : q = EndScales(i)[m]
        OBVIOUS
      <4>2. IsQuantization(q) /\ IsQuantization(Frozen(q))
        BY <4>1, NewQuantization, FrozenFacts
      <4>3. quantization'[m] = Frozen(q) \/ quantization'[m] = q
        BY <2>1, <4>1
      <4> QED
        BY <4>2, <4>3
    <3>2. enabled' \in BOOLEAN
      BY <2>1 DEF Typed, Quantizes
    <3>3. /\ turn' \in Nat \ {0} /\ handler' \in Nat \ {0} /\ pc' \in Phases
          /\ live' \subseteq DOMAIN Recipe
      <4>1. handler' \in Nat \ {0} /\ pc' \in {"start", "end", "finalize"}
            /\ turn' \in {turn, turn + 1}
        BY <1>1, <1>2, <2>2 DEF DeliversTo, NextTurn, Proceeds
      <4>2. turn \in Nat \ {0} /\ turn + 1 \in Nat \ {0}
        BY <1>2
      <4>3. live' \subseteq DOMAIN Recipe
        BY <2>1 DEF Typed
      <4> QED
        BY <4>1, <4>2, <4>3 DEF Phases
    <3>4. quantization' = [m \in Modules |-> quantization'[m]]
      BY <2>1
    <3> QED
      BY <1>1, <1>3, <1>5, <3>1, <3>2, <3>3, <3>4, ConsumingTypes DEF Typed
  <2>4. Turns'
    <3>1. live' \subseteq Active /\ (Independent => live' = {})
      BY <1>2, <2>1 DEF Turns, Active
    <3>2. CASE DeliversTo(i)
      BY <1>1, <1>3, <2>1, <3>1, <3>2 DEF Turns, DeliversTo
    <3>3. CASE NextTurn(i)
      <4>1. turn + 1 \in DOMAIN Recipe
        BY <1>2, <3>3 DEF NextTurn
      <4> QED
        BY <1>3, <3>1, <3>3, <4>1 DEF Turns, NextTurn
    <3>4. CASE Proceeds(i, "end of pipeline")
      BY <1>2, <1>3, <3>1, <3>4 DEF Turns, Proceeds
    <3> QED
      BY <2>2, <3>2, <3>3, <3>4
  <2>5. Holding'
    <3>1. ASSUME NEW j \in DOMAIN Recipe, ~Empty(j)'
          PROVE  j \in Active /\ i < j /\ ~Sequential /\ ~Independent
      <4>1. ~Empty(j) /\ j # i
        BY <1>4, <3>1
      <4>2. j \in Active /\ j >= i /\ ~Sequential /\ ~Independent
        BY <1>1, <4>1 DEF Holding
      <4> QED
        BY <1>2, <4>1, <4>2
    <3>2. CASE DeliversTo(i)
      BY <1>1, <1>3, <3>1, <3>2 DEF DeliversTo, Holding
    <3>3. CASE NextTurn(i)
      BY <1>3, <3>1, <3>3 DEF NextTurn, Holding
    <3>4. CASE Proceeds(i, "end of pipeline")
      <4>1. \A j \in DOMAIN Recipe : Empty(j)'
        <5> SUFFICES ASSUME NEW j \in DOMAIN Recipe, ~Empty(j)' PROVE FALSE
          OBVIOUS
        <5>1. j \in Active /\ i < j /\ j <= i
          BY <3>1, <3>4 DEF Proceeds
        <5> QED
          BY <1>2, <5>1
      <4> QED
        BY <1>3, <3>4, <4>1 DEF Proceeds, Holding
    <3> QED
      BY <2>2, <3>2, <3>3, <3>4
  <2>6. ObserversAttached'
    <3>1. Independent => pc' \in {"start", "finalize"}
      BY <2>2 DEF DeliversTo, NextTurn, Proceeds
    <3> QED
      BY <1>3, <3>1 DEF ObserversAttached, Passing
  <2> QED
    BY <2>2, <2>3, <2>4, <2>5, <2>6 DEF ObserversPresent
<1> QED
  BY <1>6, <1>7

LEMMA FinalizeStep ==
  ASSUME Inv, NEW i \in DOMAIN Recipe, FinalizeModifier(i)
  PROVE  Inv'
<1> USE DEF Inv
<1>1. /\ UNCHANGED <<config, turn, subgraph, batch, outputs, weights, quantization, enabled, live,
                     loss_masks, statistics, parent_args, hessians, log>>
      /\ pc = "finalize" /\ handler = i
      /\ \/ pc' = "raised" /\ error' \in {"no_metrics", "leftover"} /\ UNCHANGED handler
         \/ error' = error /\ (handler' = i + 1 \/ handler' = handler) /\ pc' \in {"finalize", "done"}
  BY DEF FinalizeModifier, Raise
<1>2. Modules' = Modules /\ Recipe' = Recipe /\ Model' = Model /\ Active' = Active
      /\ (Independent' <=> Independent)
  BY <1>1, Unchanging
<1>3. Typed'
  <2>1. handler' \in Nat \ {0} /\ pc' \in Phases
    <3>1. handler \in Nat \ {0}
      BY DEF Typed
    <3>2. pc' \in Phases
      BY <1>1 DEF Phases
    <3> QED
      BY <1>1, <3>1, <3>2
  <2> QED
    BY <1>1, <1>2, <2>1 DEF Typed, IsConfig
<1>4. Holding'
  <2>1. \A j \in DOMAIN Recipe : Empty(j)'
    BY <1>1 DEF Holding, Empty
  <2> QED
    BY <1>1, <1>2, <2>1 DEF Holding
<1> QED
  BY <1>1, <1>2, <1>3, <1>4 DEF Turns, ObserversAttached, ObserversPresent, Passing

LEMMA NextInv == Inv /\ [Next]_vars => Inv'
<1> SUFFICES ASSUME Inv, [Next]_vars PROVE Inv'
  OBVIOUS
<1>1. ASSUME NEW i \in DOMAIN Recipe,
             \/ InitializeModifier(i) \/ StartModifier(i)
             \/ EndSubgraph(i) \/ EndCalibration(i) \/ FinalizeModifier(i)
      PROVE  Inv'
  BY <1>1, InitializeStep, StartStep, EndSubgraphStep, SmoothingFailsStep, EndCalibrationStep,
     FinalizeStep
<1>2. CASE UNCHANGED vars
  <2>1. /\ UNCHANGED <<config, pc, turn, handler, subgraph, batch, outputs, weights, quantization,
                       enabled, live, loss_masks, statistics, parent_args, hessians, error>>
    BY <1>2 DEF vars
  <2>2. /\ Modules' = Modules /\ Recipe' = Recipe /\ Model' = Model /\ Active' = Active
        /\ Pipeline' = Pipeline /\ (Independent' <=> Independent) /\ (Sequential' <=> Sequential)
    BY <2>1, Unchanging
  <2>3. Typed'
    BY <2>1, <2>2 DEF Inv, Typed, IsConfig
  <2>4. Turns' /\ Holding'
    BY <2>1, <2>2 DEF Inv, Turns, Holding, Empty
  <2>5. ObserversAttached' /\ ObserversPresent'
    <3>1. Kind(turn)' = Kind(turn) /\ Schemed(turn)' = Schemed(turn)
          /\ \A m : HasStaticInputs(m)' = HasStaticInputs(m)
      BY <2>1, <2>2 DEF Kind, Schemed, Targets, HasStaticInputs, InputObserver
    <3> QED
      BY <2>1, <2>2, <3>1 DEF Inv, ObserversAttached, ObserversPresent
  <2> QED
    BY <2>3, <2>4, <2>5 DEF Inv
<1> QED
  BY <1>1, <1>2, RejectStep, EnterStep, CalibrateStep, PropagateStep DEF Next

LEMMA InvHolds == Spec => []Inv
BY InitInv, NextInv, PTL DEF Spec

(* Whatever the models, recipes, batches, routings and masks: with a       *)
(* pipeline per modifier no handler or hook misses the observer of a       *)
(* module, whoever froze it before (QuantizationMixin.start_calibration,   *)
(* end_calibration, the input hooks and AWQ's on_end).                     *)
THEOREM ObserversAreNeverMissed == Spec => []ObserversPresent
<1>1. Inv => ObserversPresent
  BY DEF Inv
<1> QED
  BY <1>1, InvHolds, PTL

-----------------------------------------------------------------------------
(* Smoothing is offset.                                                    *)

(* Every step either keeps the weights or is the end of a pass.            *)
LEMMA WeightsChangeAtEvents ==
  ASSUME [Next]_vars
  PROVE  /\ config' = config
         /\ \/ weights' = weights
            \/ \E i \in DOMAIN Recipe : Consume(i)
BY DEF Next, vars, InitializeModifier, StartModifier, RejectTargets, EnterPasses, Calibrate,
       Propagate, EndSubgraph, EndCalibration, FinalizeModifier

LEMMA UpdatesPreserve ==
  ASSUME Typed, Balanced(Model), IsPreserved(weights), NEW i \in DOMAIN Recipe
  PROVE  IsPreserved(Updated(i).weights)
<1>1. CASE Kind(i) \in {"awq", "smoothquant"}
  <2>1. SmoothedSoFar(i, Len(Model.mappings), SmoothedBy(i).weights)
    BY SmoothedWeights, RecipeFacts DEF Typed
  <2>2. Updated(i) = SmoothedBy(i)
    BY <1>1 DEF Updated
  <2> QED
    BY <2>1, <2>2 DEF SmoothedSoFar
<1>2. CASE Kind(i) \notin {"awq", "smoothquant"}
  <2>1. PICK w : w = Updated(i).weights
    OBVIOUS
  <2>2. \A m \in Modules : w[m].div = weights[m].div /\ w[m].mul = weights[m].mul
    BY <1>2, <2>1, NewWeights
  <2>3. \A m \in Modules : Model.source[m] \in {0} \cup Modules
    BY ModelFacts DEF Typed
  <2> QED
    BY <2>1, <2>2, <2>3 DEF IsPreserved
<1> QED
  BY <1>1, <1>2

LEMMA PreservedNext ==
  ASSUME \A model \in Models : Balanced(model), Inv, IsPreserved(weights), [Next]_vars
  PROVE  IsPreserved(weights)'
<1>1. Modules' = Modules /\ Model' = Model
  BY WeightsChangeAtEvents DEF Modules, Model
<1>2. Balanced(Model)
  BY DEF Inv, Typed, IsConfig
<1>3. IsPreserved(weights')
  <2>1. CASE weights' = weights
    BY <2>1
  <2>2. CASE \E i \in DOMAIN Recipe : Consume(i)
    BY <1>2, <2>2, UpdatesPreserve DEF Inv, Consume
  <2> QED
    BY <2>1, <2>2, WeightsChangeAtEvents
<1> QED
  BY <1>1, <1>3 DEF IsPreserved

LEMMA PreservedInit == Init => IsPreserved(weights)
<1> SUFFICES ASSUME Init PROVE IsPreserved(weights)
  OBVIOUS
<1>1. weights = [m \in Modules |-> Original] /\ IsConfig
  BY InitInv DEF Init, Inv, Typed
<1> HIDE DEF Init
<1>2. \A m \in Modules : Model.source[m] \in {0} \cup Modules
  BY <1>1, ModelFacts
<1> QED
  BY <1>1, <1>2 DEF IsPreserved, Original

(* Whatever the recipe and the pipeline, smoothing is offset after every   *)
(* handler if the balance layers of each mapping are all modules that read *)
(* its smooth layer (AWQMapping: "must be balanced to offset the           *)
(* smoothing"; _compute_best_scale and _apply_smoothing of AWQ,            *)
(* SmoothQuant's _apply_smoothing).  The mappings of a mixture of experts  *)
(* that leave out the router do not meet the condition.                    *)
THEOREM SmoothingIsOffset ==
  ASSUME \A model \in Models : Balanced(model)
  PROVE  Spec => []ModelIsPreserved
<1>1. Init => Inv /\ IsPreserved(weights)
  BY InitInv, PreservedInit
<1>2. Inv /\ IsPreserved(weights) /\ [Next]_vars => (Inv /\ IsPreserved(weights))'
  BY NextInv, PreservedNext
<1>3. Inv /\ IsPreserved(weights) => ModelIsPreserved
  <2> SUFFICES ASSUME Inv, IsPreserved(weights) PROVE ModelIsPreserved
    OBVIOUS
  <2>1. \A m \in Modules : Model.source[m] \in {0} \cup Modules
    BY ModelFacts DEF Inv, Typed
  <2> QED
    BY <2>1 DEF ModelIsPreserved, IsPreserved, Fits, InputScale
<1> QED
  BY <1>1, <1>2, <1>3, PTL DEF Spec

-----------------------------------------------------------------------------
(* Modules are run on what the modules before them return.                 *)

(* All layers of a mapping that AWQ resolves are in one subgraph.          *)
LEMMA AlignedLayers ==
  ASSUME IsConfig, Aligned, NEW i \in DOMAIN Recipe, Kind(i) = "awq", NEW k \in Resolved(i),
         NEW a \in {Mapping(k).smooth} \cup ToSet(Mapping(k).balance),
         NEW b \in {Mapping(k).smooth} \cup ToSet(Mapping(k).balance)
  PROVE  Model.subgraph[a] = Model.subgraph[b]
<1>1. PICK layers : layers = {Mapping(k).smooth} \cup ToSet(Mapping(k).balance)
  OBVIOUS
<1>2. PICK S : S = {Model.subgraph[m] : m \in layers}
  OBVIOUS
<1>3. k \in DOMAIN Model.mappings
  BY ModelFacts
<1>4. layers \subseteq 1 .. Len(Model.source) /\ Len(Model.source) \in Nat
  <2>1. Modules = 1 .. Len(Model.source) /\ Len(Model.source) \in Nat
    BY ModelFacts
  <2>2. Mapping(k) \in [smooth : Modules, balance : Seq(Modules), hook : SUBSET Modules]
        /\ ToSet(Mapping(k).balance) \subseteq Modules
    BY <1>3, ModelFacts
  <2>3. Mapping(k).smooth \in Modules
    BY <2>2
  <2> QED
    BY <1>1, <2>1, <2>2, <2>3
<1>5. IsFiniteSet(layers)
  <2>1. PICK n \in Nat : n = Len(Model.source)
    BY <1>4
  <2>2. layers \in SUBSET (1 .. n) /\ 1 \in Int /\ n \in Int
    BY <1>4, <2>1
  <2>3. IsFiniteSet(1 .. n)
    BY <2>2, FS_Interval
  <2> QED
    BY <2>2, <2>3, FS_Subset
<1>6. IsFiniteSet(S)
  <2>1. PICK f : f = [m \in layers |-> Model.subgraph[m]]
    OBVIOUS
  <2>2. f \in Surjection(layers, S)
    BY <1>2, <2>1 DEF Surjection
  <2> QED
    BY <1>5, <2>2, FS_Surjection
<1>7. Cardinality(S) = 1
  BY <1>1, <1>2, <1>3 DEF Aligned
<1>8. PICK x : S = {x}
  BY <1>6, <1>7, FS_Singleton
<1> QED
  BY <1>1, <1>2, <1>8

(* A hook on activations runs when a layer of its mapping runs.            *)
LEMMA ObservedHere ==
  ASSUME Inv, Sequential, Aligned, HooksMeetMappings(Model), NEW i \in DOMAIN Recipe,
         Kind(i) \in {"awq", "smoothquant"}, NEW s \in DOMAIN Observed(i), s \notin DOMAIN statistics[i]
  PROVE  s \in Modules /\ Model.subgraph[s] = subgraph
<1>1. PICK k \in Resolved(i) : /\ s = Mapping(k).smooth
                               /\ IF Kind(i) = "awq" THEN Runs(AWQHook(Mapping(k)))
                                                     ELSE Mapping(k).smooth \in Ran
  BY DEF Observed
<1>2. IsConfig /\ k \in DOMAIN Model.mappings /\ Mapping(k).balance # <<>>
  BY ModelFacts DEF Inv, Typed
<1>3. /\ Mapping(k) \in [smooth : Modules, balance : Seq(Modules), hook : SUBSET Modules]
      /\ ToSet(Mapping(k).balance) \subseteq Modules
  BY <1>2, ModelFacts
<1>4. s \in Modules
  BY <1>1, <1>3
<1>5. CASE Kind(i) = "smoothquant"
  BY <1>1, <1>4, <1>5 DEF Ran, Running
<1>6. CASE Kind(i) = "awq"
  <2>1. AWQHook(Mapping(k)) \subseteq Running
    BY <1>1, <1>6 DEF Runs
  <2>2. PICK a \in AWQHook(Mapping(k)) : a \in {Mapping(k).smooth} \cup ToSet(Mapping(k).balance)
    <3>1. CASE Mapping(k).hook # {}
      BY <1>2, <3>1 DEF HooksMeetMappings, AWQHook, Mapping
    <3>2. CASE Mapping(k).hook = {}
      <4>1. PICK balance \in Seq(Modules) : balance = Mapping(k).balance
        BY <1>3
      <4>2. Head(balance) \in ToSet(balance)
        BY <1>2, <4>1 DEF ToSet
      <4> QED
        BY <3>2, <4>1, <4>2 DEF AWQHook
    <3> QED
      BY <3>1, <3>2
  <2>3. Model.subgraph[a] = subgraph
    BY <2>1, <2>2 DEF Running
  <2>4. s \in {Mapping(k).smooth} \cup ToSet(Mapping(k).balance)
    BY <1>1
  <2>5. Model.subgraph[a] = Model.subgraph[s]
    BY <1>2, <1>6, <2>2, <2>4, AlignedLayers
  <2> QED
    BY <1>4, <2>3, <2>5
<1> QED
  BY <1>5, <1>6

LEMMA StatisticsStayHere ==
  ASSUME Inv, CollectedHere, HooksMeetMappings(Model), [Next]_vars
  PROVE  CollectedHere'
<1> SUFFICES ASSUME Sequential', Aligned', pc' \in {"calibrate", "subgraph_end"},
                    NEW i \in DOMAIN Recipe', NEW s \in DOMAIN statistics'[i]
             PROVE  s \in Modules' /\ Model'.subgraph[s] = subgraph'
  BY DEF CollectedHere
<1>1. Inv'
  BY NextInv
<1>2. config' = config
  BY WeightsChangeAtEvents
<1>3. Modules' = Modules /\ Model' = Model /\ Recipe' = Recipe /\ Aligned
  BY <1>2, Unchanging
<1>4. CASE \E j \in DOMAIN Recipe : InitializeModifier(j) \/ StartModifier(j) \/ FinalizeModifier(j)
  <2>1. pc' \in {"initialize", "start", "finalize", "done", "raised", "end", "enter"}
    <3>1. ASSUME NEW j \in DOMAIN Recipe, StartModifier(j)
          PROVE  pc' \in {"start", "end", "enter", "raised"}
      BY <3>1 DEF StartModifier, DeliverNext, Raise
    <3> QED
      BY <1>4, <3>1 DEF InitializeModifier, FinalizeModifier, Raise
  <2> QED
    BY <2>1
<1>5. CASE RejectTargets
  BY <1>5 DEF RejectTargets, Raise
<1>6. CASE EnterPasses \/ Propagate
  <2>1. statistics' = statistics /\ Empty(i)
    BY <1>3, <1>6 DEF EnterPasses, Propagate, Inv, Holding
  <2> QED
    BY <2>1 DEF Empty
<1>7. CASE Calibrate
  <2>1. /\ pc = "calibrate" /\ turn' = turn /\ subgraph' = subgraph
        /\ statistics' = [j \in DOMAIN Recipe |->
             OnlyKind({"awq", "smoothquant"}, j, Observed(j), statistics[j])]
    BY <1>7 DEF Calibrate, Raise
  <2>2. Sequential
    BY <1>2, <2>1, Unchanging
  <2>3. CASE s \in DOMAIN statistics[i]
    BY <1>3, <2>1, <2>2, <2>3 DEF CollectedHere
  <2>4. CASE s \notin DOMAIN statistics[i]
    <3>1. Kind(i) \in {"awq", "smoothquant"} /\ s \in DOMAIN Observed(i)
      BY <1>3, <2>1, <2>4 DEF OnlyKind
    <3> QED
      BY <1>3, <2>1, <2>2, <2>4, <3>1, ObservedHere
  <2> QED
    BY <2>3, <2>4
<1>8. ASSUME NEW j \in DOMAIN Recipe, EndSubgraph(j)
      PROVE  s \in Modules' /\ Model'.subgraph[s] = subgraph'
  <2>1. pc = "subgraph_end" /\ subgraph' = subgraph /\ Consume(j)
    BY <1>8 DEF EndSubgraph
  <2>2. i # j /\ statistics'[i] = statistics[i]
    BY <1>2, <1>3, <2>1, Consumed DEF Inv, Empty
  <2>3. Sequential
    BY <2>1 DEF Inv, Turns
  <2> QED
    BY <1>3, <2>1, <2>2, <2>3 DEF CollectedHere
<1>9. ASSUME NEW j \in DOMAIN Recipe, EndCalibration(j)
      PROVE  FALSE
  BY <1>9 DEF EndCalibration, DeliverNext, Raise
<1>10. CASE UNCHANGED vars
  <2>1. UNCHANGED <<pc, turn, subgraph, statistics>>
    BY <1>10 DEF vars
  <2>2. Sequential
    BY <1>2, <2>1, Unchanging
  <2> QED
    BY <1>3, <2>1, <2>2 DEF CollectedHere
<1> QED
  BY <1>4, <1>5, <1>6, <1>7, <1>8, <1>9, <1>10 DEF Next


(* The end of a pass keeps what modules of earlier subgraphs return.       *)
LEMMA EarlierModulesKept ==
  ASSUME Inv, CollectedHere, Sequential, Aligned, pc = "subgraph_end",
         NEW i \in DOMAIN Recipe, NEW m \in Modules, Model.subgraph[m] < subgraph
  PROVE  Updated(i).weights[m].div = weights[m].div
<1>1. CASE Kind(i) \in {"awq", "smoothquant"}
  <2>1. SmoothedSoFar(i, Len(Model.mappings), SmoothedBy(i).weights)
    BY SmoothedWeights, RecipeFacts DEF Inv, Typed
  <2>2. Updated(i) = SmoothedBy(i)
    BY <1>1 DEF Updated
  <2>3. SUFFICES ASSUME SmoothedBy(i).weights[m].div # weights[m].div
                 PROVE  FALSE
    BY <2>2
  <2>4. m \in DOMAIN statistics[i]
    BY <2>1, <2>3 DEF SmoothedSoFar, Applies, IsSmoothed
  <2>5. Model.subgraph[m] = subgraph /\ subgraph \in Nat
    BY <2>4 DEF CollectedHere, Inv, Typed
  <2> QED
    BY <2>5
<1>2. CASE Kind(i) \notin {"awq", "smoothquant"}
  BY <1>2, NewWeights DEF Inv
<1> QED
  BY <1>1, <1>2

(* Subgraphs end with the first batch about to be propagated.              *)
FromFirstBatch == pc = "subgraph_end" => batch = 1

LEMMA OutputsStayKnown ==
  ASSUME Inv, CollectedHere, OutputsKnown, FromFirstBatch, [Next]_vars
  PROVE  OutputsKnown' /\ FromFirstBatch'
<1>1. config' = config
  BY WeightsChangeAtEvents
<1>2. Modules' = Modules /\ Model' = Model /\ Recipe' = Recipe /\ (Aligned' <=> Aligned)
  BY <1>1, Unchanging
<1>3. /\ subgraph \in Nat /\ batch \in 1 .. NumBatches /\ NumBatches \in Nat /\ Batches = 1 .. NumBatches
      /\ \A m \in Modules : Model.subgraph[m] \in Nat \ {0}
      /\ outputs \in [Batches -> [Modules -> SUBSET Tags]]
  BY BatchesAssumption, ModelFacts DEF Inv, Typed, Batches
<1>4. CASE pc' \notin Passing
  BY <1>4 DEF OutputsKnown, FromFirstBatch, Passing
<1>5. CASE pc' \in Passing /\ ~(Sequential' /\ Aligned)
  <2>1. pc' # "subgraph_end" \/ batch' = 1
    <3>1. CASE pc = "subgraph_end" /\ batch' = batch
      BY <3>1 DEF FromFirstBatch
    <3>2. CASE Calibrate
      BY <3>2 DEF Calibrate, Raise
    <3>3. CASE pc # "subgraph_end" /\ ~Calibrate
      BY <3>3, <1>5
         DEF Next, vars, InitializeModifier, StartModifier, RejectTargets, EnterPasses,
             Propagate, EndSubgraph, EndCalibration, FinalizeModifier, DeliverNext, Raise, Passing
    <3>4. CASE pc = "subgraph_end" /\ batch' # batch
      BY <3>4
         DEF Next, vars, InitializeModifier, StartModifier, RejectTargets, EnterPasses, Calibrate,
             Propagate, EndSubgraph, EndCalibration, FinalizeModifier
    <3> QED
      BY <3>1, <3>2, <3>3, <3>4
  <2> QED
    BY <1>2, <1>5, <2>1 DEF OutputsKnown, FromFirstBatch
<1>6. CASE pc' \in Passing /\ Sequential' /\ Aligned
  <2> SUFFICES /\ FromFirstBatch'
               /\ \A b \in Batches, m \in Modules : Gone(m, b)' => outputs'[b][m] = weights'[m].div
    BY <1>2 DEF OutputsKnown, Batches
  <2>1. ASSUME NEW j \in DOMAIN Recipe,
               \/ InitializeModifier(j) \/ StartModifier(j) \/ EndCalibration(j)
               \/ FinalizeModifier(j)
        PROVE  FALSE
    <3>1. CASE StartModifier(j)
      BY <1>6, <3>1 DEF StartModifier, DeliverNext, Raise, Passing
    <3>2. CASE EndCalibration(j)
      BY <1>6, <3>2 DEF EndCalibration, DeliverNext, Raise, Passing
    <3>3. CASE InitializeModifier(j) \/ FinalizeModifier(j)
      BY <1>6, <3>3 DEF InitializeModifier, FinalizeModifier, Raise, Passing
    <3> QED
      BY <2>1, <3>1, <3>2, <3>3
  <2>2. CASE EnterPasses
    <3>1. subgraph' = 1 /\ pc' = "calibrate"
      BY <2>2 DEF EnterPasses
    <3> QED
      BY <1>2, <1>3, <3>1 DEF FromFirstBatch, Gone
  <2>3. CASE Calibrate
    <3>1. /\ pc = "calibrate" /\ UNCHANGED <<turn, subgraph, weights, outputs>>
          /\ pc' \in {"calibrate", "subgraph_end"} /\ (pc' = "subgraph_end" => batch' = 1)
      BY <1>6, <2>3 DEF Calibrate, Raise, Passing
    <3>2. Sequential
      BY <1>1, <1>6, <3>1, Unchanging
    <3> QED
      BY <1>2, <1>6, <3>1, <3>2 DEF OutputsKnown, Passing, FromFirstBatch, Gone
  <2>4. CASE Propagate
    <3>1. /\ pc = "propagate" /\ UNCHANGED <<turn, weights>> /\ outputs' = Outputs
          /\ \/ /\ batch < NumBatches /\ batch' = batch + 1 /\ pc' = "propagate"
                /\ subgraph' = subgraph
             \/ ~(batch < NumBatches) /\ batch' = 1 /\ subgraph' = subgraph + 1 /\ pc' = "calibrate"
      BY <1>6, <2>4 DEF Propagate, Passing
    <3>2. Sequential
      BY <1>1, <1>6, <3>1, Unchanging
    <3>3. FromFirstBatch'
      BY <3>1 DEF FromFirstBatch
    <3>4. ASSUME NEW b \in Batches, NEW m \in Modules, Gone(m, b)'
          PROVE  outputs'[b][m] = weights'[m].div
      <4>1. b \in Nat /\ 1 <= b /\ b <= NumBatches
        BY <1>3
      <4>2. Model.subgraph[m] < subgraph \/ (Model.subgraph[m] = subgraph /\ b <= batch)
        <5>1. Model.subgraph[m] < subgraph' \/ (pc' = "propagate" /\ Model.subgraph[m] = subgraph' /\ b < batch')
          BY <1>2, <3>4 DEF Gone
        <5> QED
          BY <1>3, <3>1, <4>1, <5>1
      <4>3. m \in Running <=> Model.subgraph[m] = subgraph
        BY <3>2 DEF Running
      <4>4. outputs'[b][m] = IF b = batch /\ m \in Running THEN weights[m].div ELSE outputs[b][m]
        BY <1>3, <3>1 DEF Outputs
      <4>5. CASE b = batch /\ m \in Running
        BY <3>1, <4>4, <4>5
      <4>6. CASE ~(b = batch /\ m \in Running)
        <5>1. Gone(m, b)
          BY <1>3, <3>1, <4>1, <4>2, <4>3, <4>6 DEF Gone
        <5>2. outputs[b][m] = weights[m].div
          BY <1>6, <3>1, <3>2, <5>1 DEF OutputsKnown, Passing
        <5> QED
          BY <3>1, <4>4, <4>6, <5>2
      <4> QED
        BY <4>5, <4>6
    <3> QED
      BY <3>3, <3>4
  <2>5. ASSUME NEW j \in DOMAIN Recipe, EndSubgraph(j)
        PROVE  /\ FromFirstBatch'
               /\ \A b \in Batches, m \in Modules : Gone(m, b)' => outputs'[b][m] = weights'[m].div
    <3>1. /\ pc = "subgraph_end" /\ UNCHANGED <<subgraph, batch, outputs>>
          /\ weights' = Updated(j).weights
      BY <2>5 DEF EndSubgraph, Consume
    <3>2. Sequential /\ batch = 1
      BY <3>1 DEF Inv, Turns, FromFirstBatch
    <3>3. ASSUME NEW b \in Batches, NEW m \in Modules, Gone(m, b)'
          PROVE  outputs'[b][m] = weights'[m].div
      <4>1. Model.subgraph[m] < subgraph
        <5>1. Model.subgraph[m] < subgraph' \/ b < batch'
          BY <1>2, <3>3 DEF Gone
        <5>2. ~(b < 1) /\ b \in Nat
          BY <1>3
        <5> QED
          BY <3>1, <3>2, <5>1, <5>2
      <4>2. outputs[b][m] = weights[m].div
        BY <1>6, <3>1, <3>2, <4>1 DEF OutputsKnown, Passing, Gone
      <4>3. weights'[m].div = weights[m].div
        BY <1>6, <3>1, <3>2, <4>1, EarlierModulesKept
      <4> QED
        BY <3>1, <4>2, <4>3
    <3> QED
      BY <3>1, <3>2, <3>3 DEF FromFirstBatch
  <2>6. CASE UNCHANGED vars
    <3>1. UNCHANGED <<pc, turn, subgraph, batch, weights, outputs>>
      BY <2>6 DEF vars
    <3>2. Sequential
      BY <1>1, <1>6, <3>1, Unchanging
    <3> QED
      BY <1>2, <1>6, <3>1, <3>2 DEF OutputsKnown, FromFirstBatch, Gone
  <2>7. ~RejectTargets
    BY <1>6 DEF RejectTargets, Raise, Passing
  <2> QED
    BY <2>1, <2>2, <2>3, <2>4, <2>5, <2>6, <2>7 DEF Next
<1> QED
  BY <1>4, <1>5, <1>6


(* What holds in every state if mappings name all readers of the layers    *)
(* they smooth and hooks run with them.                                    *)
Matching ==
  Inv /\ IsPreserved(weights) /\ CollectedHere /\ OutputsKnown /\ FromFirstBatch

LEMMA MatchingInit == Init => Matching
<1> SUFFICES ASSUME Init PROVE Matching
  OBVIOUS
<1>1. pc = "initialize"
  BY DEF Init
<1>2. Inv /\ IsPreserved(weights)
  BY InitInv, PreservedInit
<1> HIDE DEF Init
<1> QED
  BY <1>1, <1>2 DEF Matching, CollectedHere, OutputsKnown, FromFirstBatch, Passing

LEMMA MatchingNext ==
  ASSUME \A model \in Models : Balanced(model) /\ HooksMeetMappings(model), Matching, [Next]_vars
  PROVE  Matching'
<1>1. Model \in Models
  BY DEF Matching, Inv, Typed, IsConfig
<1> QED
  BY <1>1, NextInv, PreservedNext, StatisticsStayHere, OutputsStayKnown DEF Matching

(* In every pass every module is run on what its weights expect.           *)
LEMMA InputsMatch ==
  ASSUME Matching, pc \in {"calibrate", "propagate"}, Sequential => Aligned, NEW m \in Running
  PROVE  InputOf(m) = weights[m].mul
<1>1. m \in Modules /\ (Sequential => Model.subgraph[m] = subgraph)
  BY DEF Running
<1>2. PICK s : s = Model.source[m]
  OBVIOUS
<1>3. /\ s \in {0} \cup Modules /\ (s # 0 => Model.subgraph[s] <= Model.subgraph[m])
      /\ \A n \in Modules : Model.subgraph[n] \in Nat \ {0}
  BY <1>1, <1>2, ModelFacts DEF Matching, Inv, Typed
<1>4. weights[m].mul = IF s = 0 THEN {} ELSE weights[s].div
  BY <1>1, <1>2 DEF Matching, IsPreserved
<1>5. InputOf(m) = IF s = 0 THEN {} ELSE IF s \in Running THEN weights[s].div ELSE outputs[batch][s]
  BY <1>2 DEF InputOf, InputScale
<1>6. ASSUME s # 0, s \notin Running PROVE outputs[batch][s] = weights[s].div
  <2>1. s \in Modules /\ Sequential /\ Model.subgraph[s] # subgraph /\ Model.subgraph[s] <= subgraph
    BY <1>1, <1>3, <1>6 DEF Running
  <2>2. subgraph \in Nat /\ batch \in Batches /\ Model.subgraph[s] \in Nat
    BY <1>3, <2>1 DEF Matching, Inv, Typed
  <2>3. Model.subgraph[s] < subgraph
    BY <2>1, <2>2
  <2> QED
    BY <2>1, <2>2, <2>3 DEF Matching, OutputsKnown, Gone, Passing
<1> QED
  BY <1>4, <1>5, <1>6

LEMMA MatchingHolds ==
  ASSUME \A model \in Models : Balanced(model) /\ HooksMeetMappings(model)
  PROVE  Spec => []Matching
<1>1. Matching /\ [Next]_vars => Matching'
  BY MatchingNext
<1> QED
  BY <1>1, MatchingInit, PTL DEF Spec

(* Whatever the recipe, the subgraphs and the batches: if mappings name    *)
(* all readers of the layers they smooth and hooks run with them, modules  *)
(* are calibrated and run on what the modules before them return, smoothed *)
(* or not by then, also when AWQ smooths a layer of a subgraph after its   *)
(* first pass and the cache is filled by the second (SequentialPipeline's  *)
(* two passes, AWQ's on_event at SEQUENTIAL_EPOCH_END).                    *)
THEOREM PassesMatchTheModel ==
  ASSUME \A model \in Models : Balanced(model) /\ HooksMeetMappings(model)
  PROVE  Spec => []ActivationsMatchModel
<1>1. Matching => ActivationsMatchModel
  BY InputsMatch DEF ActivationsMatchModel
<1> QED
  BY <1>1, MatchingHolds, PTL

-----------------------------------------------------------------------------
(* Statistics are of the weights they are used for.                        *)

IsSoundLog(l) == \E S : l \in Seq(S) /\ \A entry \in S : entry.sound

LogSound == Independent /\ Aligned => IsSoundLog(log)

LEMMA AppendSound ==
  ASSUME NEW l, IsSoundLog(l), NEW entry, entry.sound
  PROVE  IsSoundLog(Append(l, entry))
<1>1. PICK S : l \in Seq(S) /\ \A e \in S : e.sound
  BY DEF IsSoundLog
<1>2. PICK T : T = S \cup {entry}
  OBVIOUS
<1>3. l \in Seq(T) /\ entry \in T
  BY <1>1, <1>2, SeqMonotonic
<1>4. Append(l, entry) \in Seq(T)
  BY <1>3
<1>5. \A e \in T : e.sound
  BY <1>1, <1>2
<1> QED
  BY <1>4, <1>5 DEF IsSoundLog

(* A parent fits the arguments kept for it if what enters it from outside  *)
(* has not been balanced since.                                            *)
LEMMA ParentFits ==
  ASSUME Matching, HeldFits, QuantizationOff, Independent, Aligned, pc = "subgraph_end",
         Kind(turn) \in {"awq", "autoround"},
         NEW w \in [Modules -> Weight], IsPreserved(w),
         NEW parent \in DOMAIN parent_args[turn],
         \A m \in EntersAt(parent) : w[m].mul = weights[m].mul
  PROVE  SearchesOnTheModel(w, parent, parent_args[turn][parent])
<1>1. ~enabled
  BY DEF QuantizationOff, Passing
<1>2. PICK args : args = parent_args[turn][parent]
  OBVIOUS
<1>3. PICK entering : entering = [m \in EntersAt(parent) |-> weights[m].mul]
  OBVIOUS
<1>4. parent \subseteq Modules /\ args \in Seq({entering})
  BY <1>2, <1>3 DEF HeldFits
<1>5. ASSUME NEW n \in DOMAIN args, NEW m \in parent
      PROVE  (IF m \in EntersAt(parent) THEN args[n][m] ELSE w[Model.source[m]].div) = w[m].mul
  <2>1. CASE m \in EntersAt(parent)
    <3>1. n \in 1 .. Len(args)
      BY <1>4, LenProperties
    <3>2. args[n] = entering
      BY <1>4, <3>1, ElementOfSeq
    <3> QED
      BY <1>3, <2>1, <3>2
  <2>2. CASE m \notin EntersAt(parent)
    <3>1. Model.source[m] \in parent
      BY <2>2 DEF EntersAt
    <3>2. Model.source[m] # 0
      BY <1>4, <3>1, ModelFacts DEF Matching, Inv, Typed
    <3> QED
      BY <1>4, <2>2, <3>2 DEF IsPreserved
  <2> QED
    BY <2>1, <2>2
<1> QED
  BY <1>1, <1>2, <1>5 DEF SearchesOnTheModel

LEMMA EntriesSound ==
  ASSUME Matching, HeldFits, QuantizationOff, Independent, Aligned, pc = "subgraph_end",
         Balanced(Model), ParentsEnterUnbalanced(Model),
         Kind(turn) \in {"awq", "smoothquant"}, turn \in Nat,
         NEW k \in 1 .. Len(Model.mappings), Applies(turn, k),
         NEW w, SmoothedSoFar(turn, k - 1, w)
  PROVE  LogEntry(turn, k, w).sound
<1>1. CASE Kind(turn) = "smoothquant"
  BY <1>1 DEF LogEntry
<1>2. CASE Kind(turn) = "awq"
  <2>1. PICK parent : parent = Parent(Model, Mapping(k))
    OBVIOUS
  <2>2. parent \in DOMAIN parent_args[turn]
    BY <1>2, <2>1 DEF Applies, IsSmoothed, HasOutputs, Get
  <2>3. w \in [Modules -> Weight] /\ IsPreserved(w)
    BY DEF SmoothedSoFar, Matching
  <2>4. parent \subseteq Modules
    BY <2>2 DEF HeldFits
  <2>5. k \in DOMAIN Model.mappings /\ DOMAIN Model.mappings = 1 .. Len(Model.mappings)
        /\ Len(Model.mappings) \in Nat
    BY ModelFacts DEF Matching, Inv, Typed
  <2>6. ASSUME NEW m \in EntersAt(parent) PROVE w[m].mul = weights[m].mul
    <3> SUFFICES ASSUME w[m].mul # weights[m].mul PROVE FALSE
      OBVIOUS
    <3>1. m \in parent /\ Model.source[m] \notin parent /\ m \in Modules
      BY <2>4 DEF EntersAt
    <3>2. PICK j \in 1 .. k - 1 : m \in ToSet(Mapping(j).balance)
      BY <3>1 DEF SmoothedSoFar
    <3> QED
      BY <2>1, <2>5, <3>1, <3>2 DEF ParentsEnterUnbalanced, Mapping
  <2>7. SearchesOnTheModel(w, parent, parent_args[turn][parent])
    BY <1>2, <2>2, <2>3, <2>6, ParentFits
  <2> QED
    BY <2>1, <2>7 DEF LogEntry
<1> QED
  BY <1>1, <1>2

LEMMA SmoothingSound ==
  ASSUME Matching, HeldFits, QuantizationOff, Independent, Aligned, pc = "subgraph_end",
         Balanced(Model), ParentsEnterUnbalanced(Model),
         Kind(turn) \in {"awq", "smoothquant"}, turn \in Nat, IsSoundLog(log)
  PROVE  IsSoundLog(SmoothedBy(turn).log)
<1>1. PICK n \in Nat : n = Len(Model.mappings)
  BY ModelFacts DEF Matching, Inv, Typed
<1>2. PICK After : /\ After[0] = Start
                   /\ \A k \in 1 .. n : After[k] = Step(turn, k, After[k - 1])
                   /\ SmoothedBy(turn) = After[n]
  BY <1>1, SmoothingSteps
<1>3. PICK S : S = {k \in 0 .. n : /\ SmoothedSoFar(turn, k, After[k].weights)
                                   /\ IsSoundLog(After[k].log)}
  OBVIOUS
<1>4. 0 \in S
  BY <1>2, <1>3, NotYetSmoothed DEF Start, Matching, Inv
<1>5. ASSUME NEW k \in 0 .. n, k \in S, k < n PROVE k + 1 \in S
  <2>1. k + 1 \in 1 .. Len(Model.mappings) /\ (k + 1) - 1 = k /\ k + 1 \in 1 .. n /\ k + 1 \in 0 .. n
    BY <1>1, <1>5
  <2>2. PICK l : l = k + 1
    OBVIOUS
  <2>3. PICK before : before = After[k]
    OBVIOUS
  <2>4. /\ SmoothedSoFar(turn, l - 1, before.weights) /\ l \in 1 .. Len(Model.mappings)
        /\ IsSoundLog(before.log)
    BY <1>3, <1>5, <2>1, <2>2, <2>3
  <2>5. After[l] = Step(turn, l, before)
    BY <1>2, <2>1, <2>2, <2>3
  <2>6. SmoothedSoFar(turn, l, After[l].weights)
    BY <2>4, <2>5, StepSmooths DEF Matching, Inv
  <2>7. IsSoundLog(After[l].log)
    <3>1. CASE ~Applies(turn, l)
      BY <2>4, <2>5, <3>1 DEF Step
    <3>2. CASE Applies(turn, l)
      <4>1. PICK w : w = before.weights
        OBVIOUS
      <4>2. PICK entry : entry = LogEntry(turn, l, w)
        OBVIOUS
      <4>3. entry.sound
        BY <2>4, <3>2, <4>1, <4>2, EntriesSound
      <4>4. After[l].log = Append(before.log, entry)
        BY <2>5, <3>2, <4>1, <4>2 DEF Step
      <4> QED
        BY <2>4, <4>3, <4>4, AppendSound
    <3> QED
      BY <3>1, <3>2
  <2> QED
    BY <1>3, <2>1, <2>2, <2>6, <2>7
<1>6. n \in S
  <2>1. 0 .. n \subseteq S
    BY <1>4, <1>5, UpToN
  <2> QED
    BY <2>1
<1> QED
  BY <1>2, <1>3, <1>6


(* Without statistics nothing is smoothed.                                 *)
LEMMA NothingSmoothed ==
  ASSUME Typed, NEW i, DOMAIN statistics[i] = {}
  PROVE  SmoothedBy(i) = Start
<1>1. PICK n \in Nat : n = Len(Model.mappings)
  BY ModelFacts DEF Typed
<1>2. PICK After : /\ After[0] = Start
                   /\ \A k \in 1 .. n : After[k] = Step(i, k, After[k - 1])
                   /\ SmoothedBy(i) = After[n]
  BY <1>1, SmoothingSteps
<1>3. PICK S : S = {k \in 0 .. n : After[k] = Start}
  OBVIOUS
<1>4. 0 \in S
  BY <1>2, <1>3
<1>5. ASSUME NEW k \in 0 .. n, k \in S, k < n PROVE k + 1 \in S
  <2>1. (k + 1) - 1 = k /\ k + 1 \in 1 .. n /\ k + 1 \in 0 .. n
    BY <1>1, <1>5
  <2>2. After[k + 1] = Step(i, k + 1, Start)
    BY <1>2, <1>3, <1>5, <2>1
  <2>3. ~Applies(i, k + 1)
    BY DEF Applies, IsSmoothed
  <2> QED
    BY <1>3, <2>1, <2>2, <2>3 DEF Step
<1>6. n \in S
  <2>1. 0 .. n \subseteq S
    BY <1>4, <1>5, UpToN
  <2> QED
    BY <2>1
<1> QED
  BY <1>2, <1>3, <1>6

(* What a modifier logs at the end of a pass.                              *)
LEMMA UpdatesSound ==
  ASSUME Matching, HeldFits, QuantizationOff, Independent, Aligned, pc = "subgraph_end",
         Balanced(Model), ParentsEnterUnbalanced(Model), IsSoundLog(log)
  PROVE  IsSoundLog(Updated(turn).log)
<1>1. turn \in Nat
  BY DEF Matching, Inv, Typed
<1>2. CASE Kind(turn) \in {"awq", "smoothquant"}
  BY <1>1, <1>2, SmoothingSound DEF Updated
<1>3. CASE Kind(turn) \in {"gptq", "pruning"}
  <2>1. PICK entry : entry = [modifier |-> turn, mapping |-> 0, statistics |-> NoStatistics,
                              sound |-> \A m \in DOMAIN hessians[turn] :
                                          hessians[turn][m] = {weights[m].mul}]
    OBVIOUS
  <2>2. entry.sound
    BY <2>1 DEF HeldFits
  <2>3. Updated(turn).log = log \/ Updated(turn).log = Append(log, entry)
    BY <1>3, <2>1 DEF Updated, CompressedBy
  <2> QED
    BY <2>2, <2>3, AppendSound
<1>4. CASE Kind(turn) = "autoround"
  <2>1. PICK entry : entry = [modifier |-> turn, mapping |-> 0, statistics |-> NoStatistics,
                              sound |-> \A t \in DOMAIN parent_args[turn] :
                                          SearchesOnTheModel(weights, t, parent_args[turn][t])]
    OBVIOUS
  <2>2. weights \in [Modules -> Weight] /\ IsPreserved(weights)
    BY DEF Matching, Inv, Typed
  <2>3. \A t \in DOMAIN parent_args[turn] : SearchesOnTheModel(weights, t, parent_args[turn][t])
    BY <1>4, <2>2, ParentFits
  <2>4. entry.sound
    BY <2>1, <2>3
  <2>5. Updated(turn).log = log \/ Updated(turn).log = Append(log, entry)
    BY <1>4, <2>1 DEF Updated, TunedBy
  <2> QED
    BY <2>4, <2>5, AppendSound
<1>5. CASE Kind(turn) \notin {"awq", "smoothquant", "gptq", "pruning", "autoround"}
  BY <1>5 DEF Updated
<1> QED
  BY <1>2, <1>3, <1>4, <1>5

(* At the end of calibration nothing is left to be logged.                 *)
LEMMA EndLogsNothing ==
  ASSUME Inv, pc = "end", NEW i \in DOMAIN Recipe, Empty(i)
  PROVE  Updated(i).log = log
<1>1. CASE Kind(i) \in {"awq", "smoothquant"}
  BY <1>1, NothingSmoothed DEF Updated, Start, Inv, Empty
<1>2. CASE Kind(i) \in {"gptq", "pruning"}
  BY <1>2 DEF Updated, CompressedBy, Empty
<1>3. CASE Kind(i) = "autoround"
  BY <1>3 DEF Updated, TunedBy
<1>4. CASE Kind(i) \notin {"awq", "smoothquant", "gptq", "pruning", "autoround"}
  BY <1>4 DEF Updated
<1> QED
  BY <1>1, <1>2, <1>3, <1>4

LEMMA LogStaysSound ==
  ASSUME Matching, HeldFits, QuantizationOff, LogSound, [Next]_vars,
         Balanced(Model), ParentsEnterUnbalanced(Model)
  PROVE  LogSound'
<1>1. config' = config
  BY WeightsChangeAtEvents
<1>2. Model' = Model /\ Recipe' = Recipe /\ (Independent' <=> Independent) /\ (Aligned' <=> Aligned)
  BY <1>1, Unchanging
<1>3. SUFFICES ASSUME Independent, Aligned PROVE IsSoundLog(log')
  BY <1>2 DEF LogSound, IsSoundLog
<1>4. IsSoundLog(log)
  BY <1>3 DEF LogSound
<1>5. CASE log' = log
  BY <1>4, <1>5
<1>6. CASE log' # log
  <2>1. PICK i \in DOMAIN Recipe : EndSubgraph(i) \/ EndCalibration(i)
    BY <1>6 DEF Next, vars, InitializeModifier, StartModifier, RejectTargets, EnterPasses,
                Calibrate, Propagate, FinalizeModifier
  <2>2. log' = Updated(i).log /\ handler = i /\ pc \in {"subgraph_end", "end"}
    BY <2>1 DEF EndSubgraph, EndCalibration, Consume
  <2>3. i = turn
    BY <1>3, <2>2 DEF Matching, Inv, Turns
  <2>4. CASE pc = "subgraph_end"
    BY <1>3, <1>4, <2>2, <2>3, <2>4, UpdatesSound
  <2>5. CASE pc = "end"
    <3>1. Empty(i)
      BY <1>3, <2>5 DEF Matching, Inv, Holding
    <3> QED
      BY <1>6, <2>2, <2>5, <3>1, EndLogsNothing DEF Matching
  <2> QED
    BY <2>2, <2>4, <2>5
<1> QED
  BY <1>5, <1>6

LEMMA QuantizationStaysOff ==
  ASSUME Inv, QuantizationOff, [Next]_vars
  PROVE  QuantizationOff'
<1>1. config' = config
  BY WeightsChangeAtEvents
<1>2. Recipe' = Recipe /\ (Independent' <=> Independent)
  BY <1>1, Unchanging
<1>3. SUFFICES ASSUME Independent, Kind(turn)' \in {"awq", "autoround"}, pc' \in Passing
               PROVE  ~enabled'
  BY <1>2 DEF QuantizationOff, Passing
<1>4. CASE EnterPasses
  <2>1. Pipeline = "sequential"
    BY <1>3, <1>4 DEF EnterPasses, Inv, Turns, Pipeline
  <2>2. turn' = turn
    BY <1>4 DEF EnterPasses
  <2>3. turn \in Active /\ Kind(turn) \in {"awq", "autoround"}
    BY <1>2, <1>3, <2>2 DEF Active, Kind
  <2> QED
    BY <1>4, <2>1, <2>3 DEF EnterPasses, DisablesQuantization
<1>5. CASE Calibrate \/ Propagate \/ (\E i \in DOMAIN Recipe : EndSubgraph(i)) \/ UNCHANGED vars
  <2>1. enabled' = enabled /\ (pc \in Passing \/ pc' = pc)
    BY <1>5 DEF Calibrate, Propagate, EndSubgraph, vars, Passing
  <2>2. turn' = turn
    BY <1>5 DEF Calibrate, Propagate, EndSubgraph, vars, DeliverNext, Raise
  <2> QED
    BY <1>2, <1>3, <2>1, <2>2 DEF QuantizationOff, Kind
<1>6. ASSUME NEW i \in DOMAIN Recipe,
             \/ InitializeModifier(i) \/ StartModifier(i) \/ EndCalibration(i)
             \/ FinalizeModifier(i)
      PROVE  FALSE
  <2>1. CASE StartModifier(i)
    BY <1>3, <2>1 DEF StartModifier, DeliverNext, Raise, Passing
  <2>2. CASE EndCalibration(i)
    BY <1>3, <2>2 DEF EndCalibration, DeliverNext, Raise, Passing
  <2>3. CASE InitializeModifier(i) \/ FinalizeModifier(i)
    BY <1>3, <2>3 DEF InitializeModifier, FinalizeModifier, Raise, Passing
  <2> QED
    BY <1>6, <2>1, <2>2, <2>3
<1>7. ~RejectTargets
  BY <1>3 DEF RejectTargets, Raise, Passing
<1> QED
  BY <1>4, <1>5, <1>6, <1>7 DEF Next


LEMMA HeldStaysFitting ==
  ASSUME Matching, HeldFits, [Next]_vars
  PROVE  HeldFits'
<1>1. config' = config
  BY WeightsChangeAtEvents
<1>2. /\ Modules' = Modules /\ Model' = Model /\ Recipe' = Recipe
      /\ (Independent' <=> Independent) /\ (Aligned' <=> Aligned)
  BY <1>1, Unchanging
<1>3. \A p : EntersAt(p)' = EntersAt(p)
  BY <1>2 DEF EntersAt
<1>4. SUFFICES ASSUME Independent, Aligned, pc' \in {"calibrate", "subgraph_end"}
               PROVE  /\ \A m \in DOMAIN hessians'[turn'] : hessians'[turn'][m] = {weights'[m].mul}
                      /\ \A p \in DOMAIN parent_args'[turn'] :
                           /\ p \subseteq Modules
                           /\ parent_args'[turn'][p] \in Seq({[m \in EntersAt(p) |-> weights'[m].mul]})
  BY <1>2, <1>3 DEF HeldFits
<1>5. CASE EnterPasses \/ Propagate
  <2>1. UNCHANGED <<turn, hessians, parent_args>> /\ pc \in {"enter", "propagate"}
    BY <1>5 DEF EnterPasses, Propagate
  <2>2. Empty(turn)
    BY <2>1 DEF Matching, Inv, Holding, Turns
  <2> QED
    BY <2>1, <2>2 DEF Empty
<1>6. CASE Calibrate
  <2>1. /\ pc = "calibrate" /\ UNCHANGED <<turn, weights>> /\ turn \in DOMAIN Recipe
        /\ parent_args' = [i \in DOMAIN Recipe |->
             OnlyKind({"awq", "autoround"}, i, CachedArgs(i), parent_args[i])]
        /\ hessians' = [i \in DOMAIN Recipe |->
             OnlyKind({"gptq", "pruning"}, i, Accumulated(i), hessians[i])]
    BY <1>4, <1>6 DEF Calibrate, Raise, Matching, Inv, Turns
  <2>2. \A m \in Running : InputOf(m) = weights[m].mul
    BY <1>4, <2>1, InputsMatch
  <2>3. /\ \A m \in DOMAIN hessians[turn] : hessians[turn][m] = {weights[m].mul}
        /\ \A p \in DOMAIN parent_args[turn] :
             /\ p \subseteq Modules
             /\ parent_args[turn][p] \in Seq({[m \in EntersAt(p) |-> weights[m].mul]})
    BY <1>4, <2>1 DEF HeldFits
  <2>4. \A m \in DOMAIN hessians'[turn] : hessians'[turn][m] = {weights[m].mul}
    <3>1. CASE hessians'[turn] = hessians[turn]
      BY <2>3, <3>1
    <3>2. CASE hessians'[turn] = Accumulated(turn)
      <4> SUFFICES ASSUME NEW m \in DOMAIN Accumulated(turn)
                   PROVE  Accumulated(turn)[m] = {weights[m].mul}
        BY <3>2
      <4>1. PICK ran : ran = Ran \cap (IF Kind(turn) = "pruning" THEN Targets(turn)
                                                                 ELSE Schemed(turn))
        OBVIOUS
      <4>2. Accumulated(turn) = [l \in DOMAIN hessians[turn] \cup ran |->
               Get(hessians[turn], l, {}) \cup (IF l \in ran THEN {InputOf(l)} ELSE {})]
        BY <4>1 DEF Accumulated
      <4>3. m \in DOMAIN hessians[turn] \cup ran
        BY <4>2
      <4>4. Accumulated(turn)[m]
              = Get(hessians[turn], m, {}) \cup (IF m \in ran THEN {InputOf(m)} ELSE {})
        BY <4>2, <4>3
      <4>5. m \in ran => InputOf(m) = weights[m].mul
        BY <2>2, <4>1 DEF Ran
      <4> QED
        BY <2>3, <4>3, <4>4, <4>5 DEF Get
    <3> QED
      BY <2>1, <3>1, <3>2 DEF OnlyKind
  <2>5. ASSUME NEW p \in DOMAIN parent_args'[turn]
        PROVE  /\ p \subseteq Modules
               /\ parent_args'[turn][p] \in Seq({[m \in EntersAt(p) |-> weights[m].mul]})
    <3>1. CASE parent_args'[turn] = parent_args[turn]
      BY <2>3, <3>1
    <3>2. CASE parent_args'[turn] = CachedArgs(turn)
      <4>1. PICK run : run = {q \in IF Kind(turn) = "autoround" THEN DecodingLayers
                                    ELSE {Parent(Model, Mapping(k)) : k \in Resolved(turn)} : Runs(q)}
        OBVIOUS
      <4>2. CachedArgs(turn) = [q \in DOMAIN parent_args[turn] \cup run |->
              IF q \notin run THEN Get(parent_args[turn], q, <<>>)
              ELSE Append(Get(parent_args[turn], q, <<>>), [m \in EntersAt(q) |-> InputOf(m)])]
        BY <4>1 DEF CachedArgs
      <4>3. p \in DOMAIN parent_args[turn] \cup run
        BY <3>2, <4>2
      <4>4. PICK entering : entering = [m \in EntersAt(p) |-> weights[m].mul]
        OBVIOUS
      <4>5. PICK before : before = Get(parent_args[turn], p, <<>>)
        OBVIOUS
      <4>6. before \in Seq({entering})
        <5>1. CASE p \in DOMAIN parent_args[turn]
          BY <2>3, <4>4, <4>5, <5>1 DEF Get
        <5>2. CASE p \notin DOMAIN parent_args[turn]
          BY <4>5, <5>2, EmptySeq DEF Get
        <5> QED
          BY <5>1, <5>2
      <4>7. CASE p \notin run
        BY <2>3, <3>2, <4>2, <4>3, <4>7 DEF Get
      <4>8. CASE p \in run
        <5>1. p \subseteq Running
          BY <4>1, <4>8 DEF Runs
        <5>2. [m \in EntersAt(p) |-> InputOf(m)] = entering
          <6>1. \A m \in EntersAt(p) : InputOf(m) = weights[m].mul
            BY <2>2, <5>1 DEF EntersAt
          <6> QED
            BY <4>4, <6>1
        <5>3. parent_args'[turn][p] = Append(before, entering)
          BY <3>2, <4>2, <4>3, <4>5, <4>8, <5>2
        <5>4. Append(before, entering) \in Seq({entering})
          BY <4>6
        <5> QED
          BY <4>4, <5>1, <5>3, <5>4 DEF Running
      <4> QED
        BY <4>7, <4>8
    <3> QED
      BY <2>1, <3>1, <3>2 DEF OnlyKind
  <2>6. turn' = turn /\ weights' = weights
    BY <2>1
  <2> QED
    BY <2>4, <2>5, <2>6
<1>7. ASSUME NEW i \in DOMAIN Recipe, EndSubgraph(i) PROVE FALSE
  <2>1. pc = "subgraph_end" /\ handler = i /\ DeliverNext(i, "propagate")
    BY <1>4, <1>7 DEF EndSubgraph, Raise
  <2>2. i = turn /\ Active = {turn} /\ turn \in Nat
    BY <1>4, <2>1 DEF Matching, Inv, Turns, Active, Typed
  <2>3. {j \in Active : j > i} = {}
    BY <2>2
  <2>4. pc' = "propagate"
    BY <2>1, <2>3 DEF DeliverNext
  <2> QED
    BY <1>4, <2>4
<1>8. CASE UNCHANGED vars
  BY <1>4, <1>8 DEF HeldFits, vars
<1>9. ASSUME NEW i \in DOMAIN Recipe,
             \/ InitializeModifier(i) \/ StartModifier(i) \/ EndCalibration(i)
             \/ FinalizeModifier(i)
      PROVE  FALSE
  <2>1. CASE StartModifier(i)
    BY <1>4, <2>1 DEF StartModifier, DeliverNext, Raise
  <2>2. CASE EndCalibration(i)
    BY <1>4, <2>2 DEF EndCalibration, DeliverNext, Raise
  <2>3. CASE InitializeModifier(i) \/ FinalizeModifier(i)
    BY <1>4, <2>3 DEF InitializeModifier, FinalizeModifier, Raise
  <2> QED
    BY <1>9, <2>1, <2>2, <2>3
<1>10. ~RejectTargets
  BY <1>4 DEF RejectTargets, Raise
<1> QED
  BY <1>5, <1>6, <1>7, <1>8, <1>9, <1>10 DEF Next

(* Mappings name all readers of the layers they smooth, hooks run with     *)
(* them, and nothing that enters the parent of a mapping from outside is   *)
(* balanced by an earlier one.                                             *)
WellMapped(model) ==
  Balanced(model) /\ HooksMeetMappings(model) /\ ParentsEnterUnbalanced(model)

Fitting == Matching /\ HeldFits /\ QuantizationOff /\ LogSound

LEMMA FittingInit == Init => Fitting
<1> SUFFICES ASSUME Init PROVE Fitting
  OBVIOUS
<1>1. pc = "initialize" /\ log = <<>>
  BY DEF Init
<1>2. Matching
  BY MatchingInit
<1>3. LogSound
  <2>1. log \in Seq({})
    BY <1>1, EmptySeq
  <2> QED
    BY <2>1 DEF LogSound, IsSoundLog
<1> HIDE DEF Init
<1> QED
  BY <1>1, <1>2, <1>3 DEF Fitting, HeldFits, QuantizationOff, Passing

LEMMA FittingNext ==
  ASSUME \A model \in Models : WellMapped(model), Fitting, [Next]_vars
  PROVE  Fitting'
<1>1. Model \in Models
  BY DEF Fitting, Matching, Inv, Typed, IsConfig
<1>2. Matching'
  BY MatchingNext DEF Fitting, WellMapped
<1> QED
  BY <1>1, <1>2, HeldStaysFitting, QuantizationStaysOff, LogStaysSound
     DEF Fitting, WellMapped, Matching

(* Whatever the models, batches and routings, with a pipeline per modifier *)
(* and mappings within subgraphs: the hessians that GPTQ and the pruning   *)
(* modifiers compress with are of the inputs the weights get, and AWQ and  *)
(* AutoRound compare with the unquantized, so far smoothed model, although *)
(* they kept arguments of the parent from before (_compute_best_scale      *)
(* reruns the parent on _parent_args_cache, compress_module_list pops      *)
(* hessians, apply_autoround replays _all_module_input).                   *)
THEOREM StatisticsAreOfTheWeights ==
  ASSUME \A model \in Models : WellMapped(model)
  PROVE  Spec => []StatisticsFitTheWeights
<1>1. Fitting /\ [Next]_vars => Fitting'
  BY FittingNext
<1>2. Fitting => StatisticsFitTheWeights
  <2> SUFFICES ASSUME IsSoundLog(log), NEW n \in DOMAIN log PROVE log[n].sound
    BY DEF Fitting, LogSound, StatisticsFitTheWeights
  <2>1. PICK S : log \in Seq(S) /\ \A entry \in S : entry.sound
    BY DEF IsSoundLog
  <2>2. n \in 1 .. Len(log)
    BY <2>1, LenProperties
  <2> QED
    BY <2>1, <2>2, ElementOfSeq
<1> QED
  BY <1>1, <1>2, FittingInit, PTL DEF Spec

-----------------------------------------------------------------------------
(* Scales, with a pipeline per modifier.  First the steps of a turn, as    *)
(* far as scales depend on them.                                           *)

InTurn == Passing \cup {"start", "enter", "end"}

Rest == UNCHANGED <<config, turn, live, weights, quantization, hessians>>

Initializes ==
  /\ pc = "initialize" /\ pc' \in {"initialize", "start"}
  /\ UNCHANGED <<config, turn, subgraph, batch, weights, live, hessians>>
  /\ \/ quantization' = quantization
     \/ \E i \in DOMAIN Recipe :
          /\ Recipe[i].has_config /\ Quantizes(i)
          /\ quantization' = [m \in Modules |-> IF m \in Targets(i)
                THEN [Unquantized EXCEPT !.scheme = i, !.status = "initialized"]
                ELSE quantization[m]]

Starts ==
  /\ pc = "start" /\ pc' = IF Pipeline = "datafree" THEN "end" ELSE "enter"
  /\ UNCHANGED <<config, turn, weights, hessians>>
  /\ live' = {turn}
  /\ quantization' = IF Quantizes(turn) THEN Started(turn) ELSE quantization

Enters == pc = "enter" /\ pc' = "calibrate" /\ Rest /\ subgraph' = 1 /\ batch' = 1

NextBatch(following) ==
  IF batch < NumBatches THEN batch' = batch + 1 /\ pc' = pc ELSE batch' = 1 /\ pc' = following

Calibrates ==
  /\ pc = "calibrate" /\ UNCHANGED <<config, turn, live, weights, subgraph>>
  /\ NextBatch("subgraph_end")
  /\ quantization' = [m \in Modules |-> IF m \in InputHooked
        THEN [quantization[m] EXCEPT !.inputs = ObservedInputs(m)] ELSE quantization[m]]
  /\ hessians'[turn] = OnlyKind({"gptq", "pruning"}, turn, Accumulated(turn), hessians[turn])

EndsSubgraph ==
  /\ pc = "subgraph_end" /\ pc' = "propagate"
  /\ UNCHANGED <<config, turn, live, subgraph, batch>>
  /\ weights' = Updated(turn).weights /\ quantization' = Rescaled(turn)
  /\ hessians'[turn] = Nothing

Propagates ==
  /\ pc = "propagate" /\ Rest
  /\ IF batch < NumBatches THEN pc' = pc /\ batch' = batch + 1 /\ subgraph' = subgraph
     ELSE /\ batch' = 1
          /\ IF subgraph < NumSubgraphs THEN subgraph' = subgraph + 1 /\ pc' = "calibrate"
                                        ELSE pc' = "end" /\ subgraph' = subgraph

EndsTurn ==
  /\ pc = "end"
  /\ UNCHANGED config
  /\ \/ turn < Len(Recipe) /\ turn' = turn + 1 /\ pc' = "start"
     \/ turn = Len(Recipe) /\ turn' = turn /\ pc' = "finalize"
  /\ live' = live \ {turn}
  /\ weights' = Updated(turn).weights
  /\ quantization' = [m \in Modules |-> IF Quantizes(turn) /\ m \in Schemed(turn)
                        THEN Frozen(EndScales(turn)[m]) ELSE EndScales(turn)[m]]

Finalizes == pc = "finalize" /\ pc' \in {"finalize", "done"} /\ Rest

TurnStep ==
  \/ Rest /\ UNCHANGED <<pc, subgraph, batch>>
  \/ Initializes \/ Starts \/ Enters \/ Calibrates \/ EndsSubgraph \/ Propagates \/ EndsTurn
  \/ Finalizes

LEMMA StepsOfTurn ==
  ASSUME Inv, Independent, [Next]_vars, pc' # "raised"
  PROVE  TurnStep
<1> USE DEF Inv
<1>1. CASE UNCHANGED vars
  BY <1>1 DEF TurnStep, Rest, vars
<1>2. ASSUME NEW i \in DOMAIN Recipe, InitializeModifier(i) PROVE Initializes
  BY <1>2 DEF InitializeModifier, Initializes
<1>3. \A i \in Active : i = turn
  BY DEF Active
<1>4. turn \in Nat /\ Len(Recipe) \in Nat
      /\ (pc # "initialize" => turn \in 1 .. Len(Recipe) /\ turn \in Active)
  BY RecipeFacts DEF Typed, Turns, Active
<1>5. ASSUME NEW i \in DOMAIN Recipe, StartModifier(i) PROVE Starts
  <2>1. pc = "start" /\ i = turn /\ live' = live \cup {i} /\ live = {}
        /\ UNCHANGED <<config, weights, hessians>> /\ i \in Active /\ turn \in DOMAIN Recipe
    BY <1>4, <1>5 DEF StartModifier, Turns
  <2>2. \A what : ~Raise(what)
    BY DEF Raise
  <2>3. PICK following : following = IF Pipeline = "datafree" THEN "end" ELSE "enter"
    OBVIOUS
  <2>4. /\ quantization' = IF Quantizes(i) THEN Started(i) ELSE quantization
        /\ DeliverNext(i, following) /\ following # "end of pipeline"
    BY <1>5, <2>2, <2>3 DEF StartModifier, Quantizes
  <2>5. DeliversTo(i) \/ Proceeds(i, following)
    BY <2>1, <2>3, <2>4, Delivery
  <2>6. turn' = turn /\ pc' = following
    BY <2>3, <2>5 DEF DeliversTo, Proceeds
  <2> QED
    BY <2>1, <2>3, <2>4, <2>6 DEF Starts
<1>6. CASE EnterPasses
  BY <1>6 DEF EnterPasses, TurnStep, Enters, Rest
<1>7. CASE Calibrate
  <2>1. ~Raise("observer") /\ turn \in DOMAIN Recipe /\ pc = "calibrate" /\ Sequential
    BY <1>7 DEF Raise, Calibrate, Turns, Sequential, Pipeline, Independent
  <2>2. /\ quantization' = [m \in Modules |-> IF m \in InputHooked
              THEN [quantization[m] EXCEPT !.inputs = ObservedInputs(m)] ELSE quantization[m]]
        /\ hessians' = [j \in DOMAIN Recipe |->
              OnlyKind({"gptq", "pruning"}, j, Accumulated(j), hessians[j])]
        /\ IF batch < NumBatches THEN batch' = batch + 1 /\ pc' = pc
                                 ELSE batch' = 1 /\ pc' = "subgraph_end"
        /\ UNCHANGED <<config, turn, live, weights, subgraph>>
    BY <1>7, <2>1 DEF Calibrate
  <2> QED
    BY <2>1, <2>2 DEF TurnStep, Calibrates, NextBatch
<1>8. ASSUME NEW i \in DOMAIN Recipe, EndSubgraph(i) PROVE EndsSubgraph
  <2>1. /\ pc = "subgraph_end" /\ i = turn /\ i \in Active /\ Consume(i)
        /\ UNCHANGED <<config, subgraph, batch, live>> /\ turn \in DOMAIN Recipe
        /\ quantization' = Rescaled(i) /\ DeliverNext(i, "propagate")
    BY <1>4, <1>8 DEF EndSubgraph, Raise, Turns
  <2>2. PICK following : following = "propagate"
    OBVIOUS
  <2>3. turn' = turn /\ pc' = "propagate"
    <3>1. DeliverNext(i, following) /\ following # "end of pipeline"
      BY <2>1, <2>2
    <3>2. DeliversTo(i) \/ Proceeds(i, following)
      BY <2>1, <3>1, Delivery
    <3> QED
      BY <2>2, <3>2 DEF DeliversTo, Proceeds
  <2>4. weights' = Updated(i).weights /\ hessians'[i] = Nothing
    BY <2>1 DEF Consume, Typed
  <2> QED
    BY <2>1, <2>3, <2>4 DEF EndsSubgraph
<1>9. CASE Propagate
  BY <1>9 DEF Propagate, TurnStep, Propagates, Rest
<1>10. ASSUME NEW i \in DOMAIN Recipe, EndCalibration(i) PROVE EndsTurn
  <2>1. pc = "end" /\ i = turn /\ i \in Active /\ Consume(i) /\ UNCHANGED config
    BY <1>4, <1>10 DEF EndCalibration, Turns
  <2>2. /\ live' = live \ {i}
        /\ quantization' = [m \in Modules |-> IF Quantizes(i) /\ m \in Schemed(i)
                              THEN Frozen(EndScales(i)[m]) ELSE EndScales(i)[m]]
        /\ DeliverNext(i, "end of pipeline")
    BY <1>10 DEF EndCalibration, Raise
  <2>3. {j \in Active : j > i} = {}
    BY <1>3, <1>4, <2>1
  <2>4. \/ turn < Len(Recipe) /\ turn' = turn + 1 /\ pc' = "start"
        \/ ~(turn < Len(Recipe)) /\ turn' = turn /\ pc' = "finalize"
    BY <2>2, <2>3 DEF DeliverNext
  <2>5. turn \in 1 .. Len(Recipe)
    BY <1>4, <2>1
  <2> QED
    <3>1. turn < Len(Recipe) \/ turn = Len(Recipe)
      BY <1>4, <2>5
    <3>2. weights' = Updated(turn).weights
      BY <2>1 DEF Consume
    <3> QED
      BY <2>1, <2>2, <2>4, <3>1, <3>2 DEF EndsTurn
<1>11. ASSUME NEW i \in DOMAIN Recipe, FinalizeModifier(i) PROVE Finalizes
  BY <1>11 DEF FinalizeModifier, Finalizes, Rest, Raise
<1>12. CASE RejectTargets
  BY <1>12 DEF RejectTargets, Raise
<1> QED
  BY <1>1, <1>2, <1>5, <1>6, <1>7, <1>8, <1>9, <1>10, <1>11, <1>12 DEF Next, TurnStep


(* What handlers do to one module's quantization.                          *)
RescaledBy(i, m) ==
  \/ Kind(i) = "gptq" /\ m \in DOMAIN hessians[i]
  \/ Kind(i) = "autoround" /\ pc = "subgraph_end" /\ m \in Tuned

LEMMA HandledScales ==
  ASSUME Typed, NEW i \in DOMAIN Recipe, NEW m \in Modules
  PROVE  LET q == quantization[m]
         IN  /\ Started(i)[m].scheme = q.scheme
             /\ m \notin Schemed(i) => Started(i)[m] = q
             /\ m \in Schemed(i) =>
                  /\ Started(i)[m].status = "calibration"
                  /\ Started(i)[m].scale = IF Kind(i) = "quantization" THEN weights[m] ELSE q.scale
                  /\ Started(i)[m].inputs = IF Kind(i) \in {"awq", "gptq", "quantization"}
                                              THEN <<>> ELSE IF Kind(i) = "autoround" THEN q.inputs
                                              ELSE <<>>
             /\ LET r == Rescaled(i)[m]
                IN  /\ r.scheme = q.scheme /\ r.status = q.status /\ r.observers = q.observers
                    /\ r.inputs = q.inputs
                    /\ r.scale = IF RescaledBy(i, m) THEN Updated(i).weights[m] ELSE q.scale
             /\ LET r == EndScales(i)[m]
                IN  /\ r.scheme = q.scheme /\ r.status = q.status /\ r.observers = q.observers
                    /\ r.inputs = q.inputs /\ IsQuantization(r)
                    /\ r.scale = IF (Kind(i) = "awq" /\ m \in Schemed(i)) \/ RescaledBy(i, m)
                                   THEN Updated(i).weights[m] ELSE q.scale
<1>1. PICK q : q = quantization[m]
  OBVIOUS
<1>2. IsQuantization(q)
  BY <1>1 DEF Typed
<1>3. PICK w : w = Updated(i).weights[m]
  OBVIOUS
<1>4. PICK r : r = [q EXCEPT !.scale = w]
  OBVIOUS
<1>5. /\ r.scheme = q.scheme /\ r.status = q.status /\ r.observers = q.observers
      /\ r.inputs = q.inputs /\ r.scale = w /\ IsQuantization(r)
  BY <1>2, <1>4 DEF IsQuantization
<1>6. Rescaled(i)[m] = IF RescaledBy(i, m) THEN r ELSE q
  BY <1>1, <1>3, <1>4 DEF Rescaled, RescaledBy
<1>7. EndScales(i)[m] = IF (Kind(i) = "awq" /\ m \in Schemed(i)) \/ RescaledBy(i, m) THEN r ELSE q
  <2>1. EndScales(i)[m] = IF Kind(i) = "awq" /\ m \in Schemed(i) THEN r ELSE Rescaled(i)[m]
    BY <1>1, <1>3, <1>4 DEF EndScales
  <2> QED
    BY <1>6, <2>1
<1>8. PICK observers : observers = IF HasStaticInputs(m) THEN {"weight", "input"} ELSE {"weight"}
  OBVIOUS
<1>9. PICK c : c = [q EXCEPT !.status = "calibration", !.inputs = <<>>, !.observers = observers]
  OBVIOUS
<1>10. PICK d : d = [c EXCEPT !.scale = weights[m]]
  OBVIOUS
<1>11. PICK e : e = [q EXCEPT !.status = "calibration"]
  OBVIOUS
<1>12. /\ c.scheme = q.scheme /\ c.status = "calibration" /\ c.scale = q.scale /\ c.inputs = <<>>
       /\ IsQuantization(c)
  BY <1>2, <1>9 DEF IsQuantization
<1>13. d.scheme = q.scheme /\ d.status = "calibration" /\ d.scale = weights[m] /\ d.inputs = <<>>
  BY <1>10, <1>12 DEF IsQuantization
<1>14. e.scheme = q.scheme /\ e.status = "calibration" /\ e.scale = q.scale /\ e.inputs = q.inputs
  BY <1>2, <1>11 DEF IsQuantization
<1>15. Started(i)[m] = IF m \notin Schemed(i) THEN q
                       ELSE IF Kind(i) = "quantization" THEN d
                       ELSE IF Kind(i) = "autoround" THEN e ELSE c
  BY <1>1, <1>8, <1>9, <1>10, <1>11 DEF Started, Calibrated, InCalibration
<1>16. /\ Started(i)[m].scheme = q.scheme
       /\ m \notin Schemed(i) => Started(i)[m] = q
       /\ m \in Schemed(i) =>
            /\ Started(i)[m].status = "calibration"
            /\ Started(i)[m].scale = IF Kind(i) = "quantization" THEN weights[m] ELSE q.scale
            /\ Started(i)[m].inputs = IF Kind(i) \in {"awq", "gptq", "quantization"}
                                        THEN <<>> ELSE IF Kind(i) = "autoround" THEN q.inputs
                                        ELSE <<>>
  BY <1>12, <1>13, <1>14, <1>15
<1>17. LET a == Rescaled(i)[m]
       IN  /\ a.scheme = q.scheme /\ a.status = q.status /\ a.observers = q.observers
           /\ a.inputs = q.inputs
           /\ a.scale = IF RescaledBy(i, m) THEN Updated(i).weights[m] ELSE q.scale
  BY <1>3, <1>5, <1>6
<1>18. LET a == EndScales(i)[m]
       IN  /\ a.scheme = q.scheme /\ a.status = q.status /\ a.observers = q.observers
           /\ a.inputs = q.inputs /\ IsQuantization(a)
           /\ a.scale = IF (Kind(i) = "awq" /\ m \in Schemed(i)) \/ RescaledBy(i, m)
                          THEN Updated(i).weights[m] ELSE q.scale
  BY <1>2, <1>3, <1>5, <1>7
<1> QED
  BY <1>1, <1>16, <1>17, <1>18

LEMMA FrozenScales ==
  ASSUME NEW q, IsQuantization(q)
  PROVE  /\ Frozen(q).status = "frozen" /\ Frozen(q).scheme = q.scheme
         /\ Frozen(q).scale = q.scale /\ Frozen(q).inputs = q.inputs
         /\ Frozen(q).observers = IF q.status = "frozen" THEN q.observers ELSE {}
<1>1. PICK r : r = [q EXCEPT !.status = "frozen", !.observers = {}]
  OBVIOUS
<1>2. /\ r.status = "frozen" /\ r.scheme = q.scheme /\ r.scale = q.scale /\ r.inputs = q.inputs
      /\ r.observers = {}
  BY <1>1 DEF IsQuantization
<1> QED
  BY <1>1, <1>2 DEF Frozen

-----------------------------------------------------------------------------
(* Quantized modules end up frozen.                                        *)

Handles(i, m) == Quantizes(i) /\ m \in Targets(i)

(* A module with a scheme is frozen, unless the modifier that gave it the  *)
(* scheme comes later, or it is the turn of one that calibrates it.        *)
FrozenModule(m) ==
  LET q == quantization[m]
  IN  /\ q.status = "frozen" => q.observers = {}
      /\ q.scheme # 0 =>
           /\ q.scheme \in DOMAIN Recipe /\ Recipe[q.scheme].has_config /\ Handles(q.scheme, m)
           /\ pc \in InTurn => q.status = "frozen" \/ turn < q.scheme \/ Handles(turn, m)
           /\ pc \in {"finalize", "done"} => q.status = "frozen"

FrozenSoFar == Independent /\ pc # "raised" => \A m \in Modules : FrozenModule(m)

LEMMA FrozenStep ==
  ASSUME Inv, Independent, NEW m \in Modules, FrozenModule(m), TurnStep, pc # "raised"
  PROVE  FrozenModule(m)'
<1> DEFINE q == quantization[m]
           r == quantization'[m]
<1>1. config' = config
  BY DEF TurnStep, Rest, Initializes, Starts, Enters, Calibrates, EndsSubgraph, Propagates,
         EndsTurn, Finalizes
<1>2. Recipe' = Recipe /\ Modules' = Modules
      /\ \A i : /\ (Quantizes(i)' <=> Quantizes(i)) /\ Targets(i)' = Targets(i)
                /\ (Handles(i, m)' <=> Handles(i, m))
  BY <1>1 DEF Recipe, Modules, Model, Handles, Quantizes, Kind, Targets
<1>3. /\ turn \in Nat /\ Len(Recipe) \in Nat /\ DOMAIN Recipe = 1 .. Len(Recipe)
      /\ pc # "initialize" => turn \in DOMAIN Recipe
      /\ Typed /\ IsQuantization(q)
  BY RecipeFacts DEF Inv, Typed, Turns
<1>4. ASSUME r.scheme = q.scheme, r.status = q.status, r.observers = q.observers, turn' = turn,
             pc' \in InTurn => pc \in InTurn,
             pc' \in {"finalize", "done"} => pc \in {"finalize", "done"}
      PROVE  FrozenModule(m)'
  BY <1>2, <1>4 DEF FrozenModule
<1>5. CASE Initializes
  <2>1. turn' = turn /\ turn = 1 /\ pc' \in {"initialize", "start"}
    BY <1>5 DEF Initializes, Inv, Turns
  <2>2. ASSUME r = q PROVE FrozenModule(m)'
    <3>1. q.scheme # 0 => q.scheme \in Nat /\ (q.scheme = 1 \/ 1 < q.scheme)
      BY <1>3 DEF FrozenModule
    <3> QED
      BY <1>2, <2>1, <2>2, <3>1 DEF FrozenModule, InTurn
  <2>3. ASSUME NEW i \in DOMAIN Recipe, Recipe[i].has_config, Handles(i, m),
               r = [Unquantized EXCEPT !.scheme = i, !.status = "initialized"]
        PROVE  FrozenModule(m)'
    <3>1. r.scheme = i /\ r.status = "initialized"
      BY <2>3 DEF Unquantized
    <3>2. i = 1 \/ 1 < i
      BY <1>3
    <3> QED
      BY <1>2, <2>1, <2>3, <3>1, <3>2 DEF FrozenModule, InTurn
  <2> QED
    BY <1>5, <2>2, <2>3 DEF Initializes, Handles
<1>6. CASE Starts
  <2>1. /\ pc = "start" /\ turn' = turn /\ pc' \in {"enter", "end"}
        /\ r = IF Quantizes(turn) THEN Started(turn)[m] ELSE q
    BY <1>6 DEF Starts
  <2>2. CASE r = q
    BY <1>4, <2>1, <2>2 DEF InTurn
  <2>3. CASE Quantizes(turn) /\ m \in Schemed(turn)
    <3>1. r.scheme = q.scheme /\ r.status = "calibration"
      BY <1>3, <2>1, <2>3, HandledScales
    <3>2. Handles(turn, m)
      BY <2>3 DEF Handles, Schemed
    <3> QED
      BY <1>2, <2>1, <3>1, <3>2 DEF FrozenModule
  <2> QED
    BY <1>3, <2>1, <2>2, <2>3, HandledScales
<1>7. CASE Calibrates
  <2>1. r = q \/ r = [q EXCEPT !.inputs = ObservedInputs(m)]
    BY <1>7 DEF Calibrates
  <2>2. r.scheme = q.scheme /\ r.status = q.status /\ r.observers = q.observers
    BY <1>3, <2>1 DEF IsQuantization
  <2> QED
    BY <1>4, <1>7, <2>2 DEF Calibrates, NextBatch, InTurn, Passing
<1>8. CASE EndsSubgraph
  <2>1. r = Rescaled(turn)[m] /\ turn \in DOMAIN Recipe
    BY <1>3, <1>8 DEF EndsSubgraph
  <2>2. r.scheme = q.scheme /\ r.status = q.status /\ r.observers = q.observers
    BY <1>3, <2>1, HandledScales
  <2> QED
    BY <1>4, <1>8, <2>2 DEF EndsSubgraph, InTurn, Passing
<1>9. CASE EndsTurn
  <2>1. /\ turn \in DOMAIN Recipe /\ pc = "end"
        /\ r = IF Quantizes(turn) /\ m \in Schemed(turn) THEN Frozen(EndScales(turn)[m])
               ELSE EndScales(turn)[m]
        /\ \/ turn < Len(Recipe) /\ turn' = turn + 1 /\ pc' = "start"
           \/ turn = Len(Recipe) /\ turn' = turn /\ pc' = "finalize"
    BY <1>3, <1>9 DEF EndsTurn
  <2>2. PICK s : s = EndScales(turn)[m]
    OBVIOUS
  <2>3. /\ s.scheme = q.scheme /\ s.status = q.status /\ s.observers = q.observers
        /\ IsQuantization(s)
    BY <1>3, <2>1, <2>2, HandledScales
  <2>4. CASE Quantizes(turn) /\ m \in Schemed(turn)
    <3>1. r = Frozen(s)
      BY <2>1, <2>2, <2>4
    <3>2. r.scheme = q.scheme /\ r.status = "frozen" /\ r.observers = {}
      BY <2>3, <3>1, FrozenScales DEF FrozenModule
    <3> QED
      BY <1>2, <3>2 DEF FrozenModule
  <2>5. CASE ~(Quantizes(turn) /\ m \in Schemed(turn))
    <3>1. r.scheme = q.scheme /\ r.status = q.status /\ r.observers = q.observers
      BY <2>1, <2>2, <2>3, <2>5
    <3>2. q.scheme # 0 => ~Handles(turn, m) /\ q.scheme \in 1 .. Len(Recipe)
      BY <1>3, <2>5 DEF FrozenModule, Handles, Schemed
    <3>3. q.scheme # 0 => q.status = "frozen" \/ turn < q.scheme
      BY <2>1, <3>2 DEF FrozenModule, InTurn
    <3>4. CASE q.status = "frozen" \/ q.scheme = 0
      BY <1>2, <3>1, <3>4 DEF FrozenModule
    <3>5. CASE q.scheme # 0 /\ turn < q.scheme
      <4>1. turn \in Nat /\ q.scheme \in Nat /\ Len(Recipe) \in Nat /\ q.scheme <= Len(Recipe)
        BY <1>3, <3>2, <3>5
      <4>2. turn # Len(Recipe)
        BY <4>1, <3>5
      <4>3. turn' = turn + 1 /\ pc' = "start"
        BY <2>1, <4>2
      <4>4. turn' < q.scheme \/ turn' = q.scheme
        BY <3>5, <4>1, <4>3
      <4> QED
        BY <1>2, <3>1, <4>3, <4>4 DEF FrozenModule
    <3> QED
      BY <3>3, <3>4, <3>5
  <2> QED
    BY <2>4, <2>5
<1>10. CASE Rest /\ (UNCHANGED pc \/ Enters \/ Propagates \/ Finalizes)
  BY <1>4, <1>10 DEF Rest, Enters, Propagates, Finalizes, InTurn, Passing
<1> QED
  BY <1>5, <1>6, <1>7, <1>8, <1>9, <1>10 DEF TurnStep, Enters, Propagates, Finalizes

LEMMA FrozenHolds == Spec => []FrozenSoFar
<1>1. Init => FrozenSoFar
  <2> SUFFICES ASSUME Init, NEW m \in Modules PROVE FrozenModule(m)
    BY DEF FrozenSoFar
  <2>1. quantization[m] = Unquantized /\ pc = "initialize"
    BY DEF Init
  <2> QED
    BY <2>1 DEF FrozenModule, Unquantized
<1>2. Inv /\ FrozenSoFar /\ [Next]_vars => FrozenSoFar'
  <2> SUFFICES ASSUME Inv, FrozenSoFar, [Next]_vars, Independent', pc' # "raised",
                      NEW m \in Modules'
               PROVE  FrozenModule(m)'
    BY DEF FrozenSoFar
  <2>1. config' = config
    BY WeightsChangeAtEvents
  <2>2. Modules' = Modules /\ Independent
    BY <2>1 DEF Modules, Model, Independent
  <2>3. TurnStep
    BY <2>2, StepsOfTurn
  <2>4. pc # "raised"
    BY <2>3 DEF TurnStep, Initializes, Starts, Enters, Calibrates, EndsSubgraph, Propagates,
                EndsTurn, Finalizes
  <2> QED
    BY <2>2, <2>3, <2>4, FrozenStep DEF FrozenSoFar
<1> QED
  BY <1>1, <1>2, InvHolds, PTL DEF Spec

-----------------------------------------------------------------------------
(* Scales are of the weights.                                              *)

TargetsOf(model, modifier) == modifier.targets \cap model.linear

(* The layers of the mappings a modifier takes.                            *)
MappingsOf(model, modifier) ==
  IF modifier.kind = "awq" THEN AWQResolved(model, TargetsOf(model, modifier))
                           ELSE SmoothQuantResolved(model, modifier.targets)

Balances(model, modifier, m) ==
  \E k \in MappingsOf(model, modifier) : m \in ToSet(model.mappings[k].balance)

Smooths(model, modifier, m) ==
  \/ Balances(model, modifier, m)
  \/ \E k \in MappingsOf(model, modifier) : m = model.mappings[k].smooth

(* By the end of its turn a modifier has computed the scale of m, if it    *)
(* has a scheme and some batch reaches it.                                 *)
Scales(model, modifier, m) ==
  \/ modifier.kind \in {"awq", "gptq", "quantization"} /\ m \in TargetsOf(model, modifier)
  \/ modifier.kind = "autoround" /\ m \in model.linear /\ \E t \in model.targets : m \in t

(* A modifier changes the weight of m, not its scale at once.              *)
Alters(model, modifier, m) ==
  \/ modifier.kind \in {"awq", "smoothquant"} /\ Smooths(model, modifier, m)
  \/ modifier.kind = "pruning" /\ m \in TargetsOf(model, modifier)

Spoils(model, modifier, m) == Alters(model, modifier, m) /\ ~Scales(model, modifier, m)

(* One of the first n modifiers has computed the scale of m, and none      *)
(* since has spoilt it.                                                    *)
ScaledAmong(model, recipe, n, m) ==
  \E j \in 1 .. n : /\ Scales(model, recipe[j], m)
                    /\ \A l \in j + 1 .. n : ~Spoils(model, recipe[l], m)

ScaledBy(n, m) == ScaledAmong(Model, Recipe, n, m)

(* Who has hooks, and what hessians there are.                             *)
HessiansCollected ==
  Independent /\ pc # "raised" =>
    /\ pc \in Passing \cup {"enter", "end"} => live = {turn}
    /\ pc \in {"calibrate", "subgraph_end"} /\ Kind(turn) = "pruning"
         => DOMAIN hessians[turn] \subseteq Targets(turn)
    /\ pc \in {"calibrate", "subgraph_end"} /\ Kind(turn) = "gptq" =>
         \A m \in Schemed(turn) \cap Running : \A b \in Batches :
           m \in config.reached[b] /\ (pc = "calibrate" => b < batch)
             => m \in DOMAIN hessians[turn]

LEMMA TurnFacts ==
  ASSUME Inv
  PROVE  /\ turn \in Nat /\ Len(Recipe) \in Nat /\ DOMAIN Recipe = 1 .. Len(Recipe)
         /\ pc # "initialize" => turn \in DOMAIN Recipe
         /\ Typed /\ batch \in Nat /\ subgraph \in Nat \ {0} /\ batch \in Batches
         /\ Batches = 1 .. NumBatches /\ NumBatches \in Nat \ {0}
         /\ \A m \in Modules : Model.subgraph[m] \in Nat \ {0}
<1>1. Typed /\ batch \in Batches /\ subgraph \in Nat \ {0} /\ turn \in Nat
  BY DEF Inv, Typed
<1>2. Batches = 1 .. NumBatches /\ NumBatches \in Nat \ {0}
  BY BatchesAssumption DEF Batches
<1> QED
  BY <1>1, <1>2, RecipeFacts, ModelFacts DEF Typed, Inv, Turns

LEMMA TurnKeeps ==
  ASSUME TurnStep
  PROVE  /\ config' = config
         /\ Modules' = Modules /\ Recipe' = Recipe /\ Model' = Model
         /\ (Independent' <=> Independent)
         /\ \A i : Kind(i)' = Kind(i) /\ Targets(i)' = Targets(i)
         /\ turn' = turn => Pipeline' = Pipeline /\ (Sequential' <=> Sequential)
<1>1. config' = config
  BY DEF TurnStep, Rest, Initializes, Starts, Enters, Calibrates, EndsSubgraph, Propagates,
         EndsTurn, Finalizes
<1> QED
  BY <1>1, Unchanging DEF Kind, Targets

(* Outside of `initialize` schemes stay.                                   *)
LEMMA SchemesStay ==
  ASSUME Inv, TurnStep, pc # "initialize", NEW m \in Modules
  PROVE  quantization'[m].scheme = quantization[m].scheme
<1>1. turn \in DOMAIN Recipe /\ Typed /\ IsQuantization(quantization[m])
  BY TurnFacts DEF Typed
<1>2. CASE Starts
  BY <1>1, <1>2, HandledScales DEF Starts
<1>3. CASE Calibrates
  <2>1. \/ quantization'[m] = quantization[m]
        \/ quantization'[m] = [quantization[m] EXCEPT !.inputs = ObservedInputs(m)]
    BY <1>3 DEF Calibrates
  <2> QED
    BY <1>1, <2>1 DEF IsQuantization
<1>4. CASE EndsSubgraph
  BY <1>1, <1>4, HandledScales DEF EndsSubgraph
<1>5. CASE EndsTurn
  <2>1. PICK s : s = EndScales(turn)[m]
    OBVIOUS
  <2>2. s.scheme = quantization[m].scheme /\ IsQuantization(s)
    BY <1>1, <2>1, HandledScales
  <2>3. quantization'[m] = Frozen(s) \/ quantization'[m] = s
    BY <1>5, <2>1 DEF EndsTurn
  <2> QED
    BY <2>2, <2>3, FrozenScales
<1>6. CASE Rest
  BY <1>6 DEF Rest
<1> QED
  BY <1>2, <1>3, <1>4, <1>5, <1>6 DEF TurnStep, Initializes, Enters, Propagates, Finalizes

LEMMA HessiansStep ==
  ASSUME Inv, Independent, HessiansCollected, TurnStep, pc # "raised"
  PROVE  HessiansCollected'
<1>1. /\ Modules' = Modules /\ Recipe' = Recipe /\ Model' = Model /\ config' = config
      /\ (Independent' <=> Independent)
      /\ \A i : Kind(i)' = Kind(i) /\ Targets(i)' = Targets(i)
      /\ turn' = turn => (Sequential' <=> Sequential)
  BY TurnKeeps
<1>2. CASE Initializes
  BY <1>2 DEF Initializes, HessiansCollected, Passing
<1>3. CASE Starts
  BY <1>3 DEF Starts, HessiansCollected, Passing
<1>4. ASSUME turn' = turn, live' = live, hessians' = hessians, batch' = 1, pc' = "calibrate",
             pc \in {"enter", "propagate"}
      PROVE  HessiansCollected'
  <2>1. DOMAIN hessians[turn] = {} /\ live = {turn}
    BY <1>4, TurnFacts DEF Inv, Holding, Empty, HessiansCollected, Passing
  <2>2. \A b \in Batches : ~(b < 1)
    BY TurnFacts
  <2> QED
    BY <1>4, <2>1, <2>2 DEF HessiansCollected
<1>5. CASE Enters
  BY <1>4, <1>5 DEF Enters, Rest
<1>6. CASE Calibrates
  <2>1. /\ pc = "calibrate" /\ turn' = turn /\ live' = live /\ live = {turn} /\ subgraph' = subgraph
        /\ pc' \in {"calibrate", "subgraph_end"}
        /\ pc' = "calibrate" => batch' = batch + 1
        /\ pc' = "subgraph_end" => ~(batch < NumBatches)
    BY <1>6 DEF Calibrates, NextBatch, HessiansCollected, Passing
  <2>2. Running' = Running
    BY <1>1, <2>1 DEF Running
  <2>3. Schemed(turn)' = Schemed(turn)
    <3>1. \A m \in Targets(turn) : quantization'[m].scheme = quantization[m].scheme
      <4>1. Targets(turn) \subseteq Modules
        BY TurnFacts, ModelFacts DEF Typed, Targets
      <4> QED
        BY <2>1, <4>1, SchemesStay
    <3> QED
      BY <1>1, <2>1, <3>1 DEF Schemed
  <2>4. PICK held : held = DOMAIN hessians[turn]
    OBVIOUS
  <2>5. Kind(turn) \in {"gptq", "pruning"} =>
          DOMAIN hessians'[turn]
            = held \cup (Ran \cap (IF Kind(turn) = "pruning" THEN Targets(turn) ELSE Schemed(turn)))
    BY <1>6, <2>1, <2>4 DEF Calibrates, OnlyKind, Accumulated
  <2>6. ASSUME Kind(turn) = "gptq", NEW m \in Schemed(turn) \cap Running, NEW b \in Batches,
               m \in config.reached[b], pc' = "calibrate" => b < batch'
        PROVE  m \in DOMAIN hessians'[turn]
    <3>1. b < batch \/ b = batch
      BY <2>1, <2>6, TurnFacts
    <3>2. b = batch => m \in Ran
      BY <2>6 DEF Ran
    <3>3. b < batch => m \in held
      BY <2>1, <2>4, <2>6 DEF HessiansCollected
    <3> QED
      BY <2>5, <2>6, <3>1, <3>2, <3>3
  <2>7. Kind(turn) = "pruning" => DOMAIN hessians'[turn] \subseteq Targets(turn)
    BY <2>1, <2>4, <2>5 DEF HessiansCollected
  <2> QED
    BY <1>1, <2>1, <2>2, <2>3, <2>6, <2>7 DEF HessiansCollected
<1>7. CASE EndsSubgraph
  BY <1>1, <1>7 DEF EndsSubgraph, HessiansCollected, Passing
<1>8. CASE Propagates
  <2>1. CASE pc' = "calibrate"
    BY <1>4, <1>8, <2>1 DEF Propagates, Rest
  <2>2. CASE pc' # "calibrate"
    BY <1>1, <1>8, <2>2 DEF Propagates, Rest, HessiansCollected, Passing
  <2> QED
    BY <2>1, <2>2
<1>9. CASE EndsTurn
  BY <1>9 DEF EndsTurn, HessiansCollected, Passing
<1>10. CASE Finalizes
  BY <1>10 DEF Finalizes, HessiansCollected, Passing
<1>11. CASE Rest /\ UNCHANGED <<pc, subgraph, batch>>
  <2>1. Running' = Running /\ Schemed(turn)' = Schemed(turn)
    BY <1>1, <1>11 DEF Rest, Running, Schemed
  <2> QED
    BY <1>1, <1>11, <2>1 DEF Rest, HessiansCollected
<1> QED
  BY <1>2, <1>3, <1>5, <1>6, <1>7, <1>8, <1>9, <1>10, <1>11 DEF TurnStep


(* Resolved and Targets by the model and the modifier.                     *)
LEMMA TakenOfModel ==
  ASSUME NEW i
  PROVE  /\ TargetsOf(Model, Recipe[i]) = Targets(i)
         /\ MappingsOf(Model, Recipe[i]) = Resolved(i)
BY DEF TargetsOf, Targets, MappingsOf, Resolved, Kind

(* A weight that changes is rescaled by the same handler or altered.       *)
LEMMA WeightsKept ==
  ASSUME Typed, NEW i \in DOMAIN Recipe, NEW m \in Modules,
         ~RescaledBy(i, m), ~Alters(Model, Recipe[i], m),
         Kind(i) = "pruning" => DOMAIN hessians[i] \subseteq Targets(i)
  PROVE  Updated(i).weights[m] = weights[m]
<1>1. CASE Kind(i) \in {"awq", "smoothquant"}
  <2>1. PICK n \in Nat : n = Len(Model.mappings)
    BY ModelFacts DEF Typed
  <2>2. PICK w : w = Updated(i).weights
    OBVIOUS
  <2>3. SmoothedSoFar(i, n, w)
    BY <1>1, <2>1, <2>2, SmoothedWeights, RecipeFacts DEF Updated, Typed
  <2>4. ~Smooths(Model, Recipe[i], m)
    BY <1>1 DEF Alters, Kind
  <2>5. \A j \in 1 .. n : Applies(i, j) => m # Mapping(j).smooth /\ m \notin ToSet(Mapping(j).balance)
    BY <2>4, TakenOfModel DEF Smooths, Balances, Applies, IsSmoothed, Mapping
  <2>6. w[m] \in Weight /\ weights[m] \in Weight
    BY <2>3 DEF SmoothedSoFar, Typed
  <2>7. /\ w[m].div = weights[m].div /\ w[m].mul = weights[m].mul
        /\ w[m].quantized = weights[m].quantized /\ w[m].pruned = weights[m].pruned
    BY <2>3, <2>5 DEF SmoothedSoFar
  <2> QED
    BY <2>2, <2>6, <2>7 DEF Weight
<1>2. CASE Kind(i) = "gptq"
  BY <1>2 DEF Updated, CompressedBy, RescaledBy
<1>3. CASE Kind(i) = "pruning"
  <2>1. m \notin Targets(i)
    BY <1>3, TakenOfModel DEF Alters, Kind
  <2> QED
    BY <1>3, <2>1 DEF Updated, CompressedBy
<1>4. CASE Kind(i) = "autoround"
  BY <1>4 DEF Updated, TunedBy, RescaledBy
<1>5. CASE Kind(i) \notin {"awq", "smoothquant", "gptq", "pruning", "autoround"}
  BY <1>5 DEF Updated
<1> QED
  BY <1>1, <1>2, <1>3, <1>4, <1>5

(* So a scale that fits goes on fitting, unless the weight is altered.     *)
LEMMA ScaleFollows ==
  ASSUME Typed, NEW i \in DOMAIN Recipe, NEW m \in Modules,
         Kind(i) = "pruning" => DOMAIN hessians[i] \subseteq Targets(i),
         RescaledBy(i, m) \/ (quantization[m].scale = weights[m] /\ ~Alters(Model, Recipe[i], m))
  PROVE  /\ Rescaled(i)[m].scale = Updated(i).weights[m]
         /\ EndScales(i)[m].scale = Updated(i).weights[m]
<1>1. PICK w : w = Updated(i).weights[m]
  OBVIOUS
<1>2. RescaledBy(i, m) \/ w = quantization[m].scale
  BY <1>1, WeightsKept
<1> QED
  BY <1>1, <1>2, HandledScales

LEMMA LastSubgraph ==
  ASSUME Typed, Sequential, NEW m \in Modules
  PROVE  NumSubgraphs \in Nat /\ Model.subgraph[m] <= NumSubgraphs
<1>1. PICK n \in Nat : n = Len(Model.source)
  BY ModelFacts DEF Typed
<1>2. Modules = 1 .. n
  BY <1>1, ModelFacts DEF Typed
<1>3. PICK f \in [1 .. n -> Nat] : f = Model.subgraph
  BY <1>2, ModelFacts DEF Typed
<1>4. PICK S : S = {k \in 0 .. n : k = 0 \/ \E j \in 1 .. k : \A i \in 1 .. k : f[i] <= f[j]}
  OBVIOUS
<1>5. ASSUME NEW k \in 0 .. n, k \in S, k < n PROVE k + 1 \in S
  <2>1. k + 1 \in 1 .. k + 1 /\ k + 1 \in 0 .. n /\ 1 .. k + 1 = 1 .. k \cup {k + 1}
        /\ 1 .. k + 1 \subseteq 1 .. n
    BY <1>5
  <2>2. \A i \in 1 .. k + 1 : f[i] \in Nat
    BY <1>3, <2>1
  <2>3. CASE k = 0
    BY <1>4, <2>1, <2>2, <2>3
  <2>4. CASE k # 0
    <3>1. PICK j \in 1 .. k : \A i \in 1 .. k : f[i] <= f[j]
      BY <1>4, <1>5, <2>4
    <3>2. CASE f[k + 1] <= f[j]
      BY <1>4, <2>1, <3>1, <3>2
    <3>3. CASE ~(f[k + 1] <= f[j])
      <4>1. \A i \in 1 .. k + 1 : f[i] <= f[k + 1]
        <5>1. f[k + 1] \in Nat /\ f[j] \in Nat /\ \A i \in 1 .. k : f[i] \in Nat
          BY <2>1, <2>2
        <5>2. f[j] <= f[k + 1] /\ f[k + 1] <= f[k + 1]
          BY <3>3, <5>1
        <5>3. ASSUME NEW i \in 1 .. k PROVE f[i] <= f[k + 1]
          <6>1. f[i] \in Nat /\ f[i] <= f[j]
            BY <3>1, <5>1
          <6> QED
            BY <5>1, <5>2, <6>1
        <5> QED
          BY <2>1, <5>2, <5>3
      <4> QED
        BY <1>4, <2>1, <4>1
    <3> QED
      BY <3>2, <3>3
  <2> QED
    BY <2>3, <2>4
<1>6. n \in S
  <2>1. 0 \in S
    BY <1>4
  <2>2. 0 .. n \subseteq S
    BY <1>5, <2>1, UpToN
  <2> QED
    BY <2>2
<1>7. PICK j \in 1 .. n : \A i \in 1 .. n : f[i] <= f[j]
  BY <1>2, <1>4, <1>6
<1>8. PICK T : T = {Model.subgraph[i] : i \in Modules}
  OBVIOUS
<1>9. f[j] \in T /\ \A x \in T : f[j] >= x
  BY <1>2, <1>3, <1>7, <1>8
<1>10. Max(T) \in T /\ \A x \in T : Max(T) >= x
  BY <1>9 DEF Max
<1>11. NumSubgraphs = Max(T)
  BY <1>8 DEF NumSubgraphs
<1> QED
  BY <1>2, <1>3, <1>8, <1>10, <1>11

(* By now the modifier whose turn it is has ended the subgraph of m.       *)
Ended(m) ==
  \/ pc = "end"
  \/ pc \in Passing /\ Model.subgraph[m] < subgraph
  \/ pc = "propagate" /\ Model.subgraph[m] = subgraph

(* The scale of m fits if it did before this turn and this modifier leaves *)
(* the weight alone, and as soon as this modifier has computed it.         *)
ScaledModule(m) ==
  LET fits == quantization[m].scale = weights[m]
  IN  quantization[m].scheme # 0 /\ ReachingBatches(m) # {} =>
        /\ pc \in InTurn =>
             /\ ScaledBy(turn - 1, m) /\ ~Alters(Model, Recipe[turn], m) => fits
             /\ Scales(Model, Recipe[turn], m) =>
                  /\ Kind(turn) = "quantization" /\ pc # "start" => fits
                  /\ Kind(turn) \in {"gptq", "autoround"} /\ Ended(m) => fits
        /\ pc \in {"finalize", "done"} /\ ScaledBy(Len(Recipe), m) => fits

ScaledSoFar == Independent /\ pc # "raised" => \A m \in Modules : ScaledModule(m)

(* The next modifier is not the one that scales m, or spoils it.           *)
LEMMA ScaledByNext ==
  ASSUME NEW n \in Nat \ {0}, NEW m
  PROVE  ScaledBy(n, m) => \/ Scales(Model, Recipe[n], m)
                           \/ ScaledBy(n - 1, m) /\ ~Alters(Model, Recipe[n], m)
<1> SUFFICES ASSUME ScaledBy(n, m), ~Scales(Model, Recipe[n], m)
             PROVE  ScaledBy(n - 1, m) /\ ~Alters(Model, Recipe[n], m)
  OBVIOUS
<1>1. PICK j \in 1 .. n : /\ Scales(Model, Recipe[j], m)
                          /\ \A l \in j + 1 .. n : ~Spoils(Model, Recipe[l], m)
  BY DEF ScaledBy, ScaledAmong
<1>2. j \in 1 .. n - 1 /\ n \in j + 1 .. n /\ j + 1 .. n - 1 \subseteq j + 1 .. n
  BY <1>1
<1> QED
  BY <1>1, <1>2 DEF ScaledBy, ScaledAmong, Spoils

(* Handlers of the end of a pass keep scales, or compute them.             *)
LEMMA ScaledAtEvent ==
  ASSUME Inv, Independent, HessiansCollected, pc \in {"subgraph_end", "end"}, NEW m \in Modules
  PROVE  /\ RescaledBy(turn, m) \/
              (quantization[m].scale = weights[m] /\ ~Alters(Model, Recipe[turn], m)) =>
              /\ Rescaled(turn)[m].scale = Updated(turn).weights[m]
              /\ EndScales(turn)[m].scale = Updated(turn).weights[m]
<1>1. turn \in DOMAIN Recipe /\ Typed
  BY TurnFacts
<1>2. Kind(turn) = "pruning" => DOMAIN hessians[turn] \subseteq Targets(turn)
  <2>1. CASE pc = "subgraph_end"
    BY <2>1 DEF HessiansCollected
  <2>2. CASE pc = "end"
    BY <1>1, <2>2 DEF Inv, Holding, Empty
  <2> QED
    BY <2>1, <2>2
<1> QED
  BY <1>1, <1>2, ScaleFollows

LEMMA ScaledStep ==
  ASSUME Inv, Independent, FrozenSoFar, HessiansCollected, NEW m \in Modules, ScaledModule(m),
         TurnStep, pc # "raised"
  PROVE  ScaledModule(m)'
<1>1. /\ Modules' = Modules /\ Recipe' = Recipe /\ Model' = Model /\ config' = config
      /\ \A i : Kind(i)' = Kind(i) /\ Targets(i)' = Targets(i)
  BY TurnKeeps
<1>2. /\ turn \in Nat /\ Len(Recipe) \in Nat /\ DOMAIN Recipe = 1 .. Len(Recipe)
      /\ pc # "initialize" => turn \in DOMAIN Recipe
      /\ Typed /\ subgraph \in Nat \ {0} /\ Model.subgraph[m] \in Nat \ {0}
  BY TurnFacts
<1>3. (ReachingBatches(m)' = ReachingBatches(m)) /\ \A n : (ScaledBy(n, m)' <=> ScaledBy(n, m))
  BY <1>1 DEF ReachingBatches, ScaledBy
<1>4. SUFFICES ASSUME quantization'[m].scheme # 0, ReachingBatches(m) # {}
               PROVE  ScaledModule(m)'
  BY <1>3 DEF ScaledModule
<1>5. pc # "initialize" => quantization'[m].scheme = quantization[m].scheme
  BY SchemesStay
<1>6. ASSUME turn' = turn, weights'[m] = weights[m], pc' \in InTurn => pc \in InTurn,
             pc' \in {"finalize", "done"} => pc \in {"finalize", "done"}, pc # "initialize",
             pc = "start" => Kind(turn) # "quantization",
             quantization'[m].scale = quantization[m].scale, Ended(m)' => Ended(m)
      PROVE  ScaledModule(m)'
  BY <1>1, <1>3, <1>4, <1>5, <1>6 DEF ScaledModule
<1>7. CASE Initializes
  <2>1. turn' = 1 /\ pc' \in {"initialize", "start"}
    BY <1>7 DEF Initializes, Inv, Turns
  <2>2. ~ScaledBy(0, m)
    BY DEF ScaledBy, ScaledAmong
  <2>3. ~Ended(m)' /\ pc' \notin {"finalize", "done"}
    BY <2>1 DEF Ended, Passing
  <2>4. pc' \in InTurn => pc' = "start"
    BY <2>1 DEF InTurn, Passing
  <2> QED
    BY <1>1, <1>3, <2>1, <2>2, <2>3, <2>4 DEF ScaledModule
<1>8. CASE Starts
  <2>1. /\ pc = "start" /\ turn' = turn /\ weights' = weights
        /\ pc' = IF Pipeline = "datafree" THEN "end" ELSE "enter"
        /\ quantization'[m] = IF Quantizes(turn) THEN Started(turn)[m] ELSE quantization[m]
    BY <1>8 DEF Starts
  <2>2. turn \in DOMAIN Recipe /\ quantization[m].scheme # 0
    BY <1>2, <1>4, <1>5, <2>1
  <2>3. CASE Kind(turn) = "quantization"
    <3>1. m \notin Schemed(turn) => quantization'[m].scale = quantization[m].scale
      BY <1>2, <2>1, <2>2, HandledScales
    <3>2. m \in Schemed(turn) => quantization'[m].scale = weights[m]
      BY <1>2, <2>1, <2>2, <2>3, HandledScales DEF Quantizes
    <3>3. Scales(Model, Recipe[turn], m) => m \in Schemed(turn)
      BY <2>2, <2>3, TakenOfModel DEF Scales, Schemed, Kind
    <3>4. ScaledBy(turn - 1, m) /\ ~Alters(Model, Recipe[turn], m)
            => quantization[m].scale = weights[m]
      BY <1>4, <2>1, <2>2 DEF ScaledModule, InTurn
    <3>5. pc' \notin {"finalize", "done"}
      BY <2>1
    <3> QED
      BY <1>1, <1>3, <2>1, <2>3, <3>1, <3>2, <3>3, <3>4, <3>5 DEF ScaledModule
  <2>4. CASE Kind(turn) # "quantization"
    <3>1. pc' = "enter"
      BY <2>1, <2>4 DEF Pipeline, Independent
    <3>2. quantization'[m].scale = quantization[m].scale
      BY <1>2, <2>1, <2>2, <2>4, HandledScales
    <3>3. ~Ended(m)' /\ pc' \notin {"finalize", "done"} /\ pc \in InTurn
      BY <2>1, <3>1 DEF Ended, Passing, InTurn
    <3> QED
      BY <1>6, <2>1, <2>4, <3>1, <3>2, <3>3
  <2> QED
    BY <2>3, <2>4
<1>9. CASE Enters
  <2>1. ~Ended(m)'
    BY <1>1, <1>2, <1>9 DEF Enters, Ended, Passing
  <2> QED
    BY <1>6, <1>9, <2>1 DEF Enters, Rest, InTurn, Passing
<1>10. CASE Calibrates
  <2>1. /\ pc = "calibrate" /\ pc' \in {"calibrate", "subgraph_end"} /\ subgraph' = subgraph
        /\ turn' = turn /\ weights' = weights
        /\ \/ quantization'[m] = quantization[m]
           \/ quantization'[m] = [quantization[m] EXCEPT !.inputs = ObservedInputs(m)]
    BY <1>10 DEF Calibrates, NextBatch
  <2>2. quantization'[m].scale = quantization[m].scale
    <3>1. IsQuantization(quantization[m])
      BY <1>2 DEF Typed
    <3> QED
      BY <2>1, <3>1 DEF IsQuantization
  <2>3. Ended(m)' => Ended(m)
    BY <1>1, <2>1 DEF Ended, Passing
  <2> QED
    BY <1>6, <2>1, <2>2, <2>3 DEF InTurn, Passing
<1>11. CASE EndsSubgraph
  <2>1. /\ pc = "subgraph_end" /\ pc' = "propagate" /\ turn' = turn /\ subgraph' = subgraph
        /\ weights'[m] = Updated(turn).weights[m]
        /\ quantization'[m] = Rescaled(turn)[m]
    BY <1>11 DEF EndsSubgraph
  <2>2. turn \in DOMAIN Recipe /\ quantization[m].scheme # 0 /\ Sequential
    BY <1>2, <1>4, <1>5, <2>1 DEF Inv, Turns
  <2>3. PICK fits \in BOOLEAN : fits = (quantization'[m].scale = weights'[m])
    OBVIOUS
  <2>4. RescaledBy(turn, m) \/ (quantization[m].scale = weights[m] /\ ~Alters(Model, Recipe[turn], m))
          => fits
    BY <2>1, <2>3, ScaledAtEvent
  <2>5. ScaledBy(turn - 1, m) /\ ~Alters(Model, Recipe[turn], m) => fits
    BY <1>4, <2>1, <2>2, <2>4 DEF ScaledModule, InTurn, Passing
  <2>6. Kind(turn) \notin {"awq", "smoothquant", "pruning"} => ~Alters(Model, Recipe[turn], m)
    BY DEF Alters, Kind
  <2>7. Scales(Model, Recipe[turn], m) /\ Kind(turn) = "quantization" => fits
    BY <1>4, <2>1, <2>2, <2>4, <2>6 DEF ScaledModule, InTurn, Passing
  <2>8. ASSUME Scales(Model, Recipe[turn], m), Kind(turn) \in {"gptq", "autoround"},
               Model.subgraph[m] < subgraph
        PROVE  fits
    BY <1>4, <2>1, <2>2, <2>4, <2>6, <2>8 DEF ScaledModule, InTurn, Passing, Ended
  <2>9. ASSUME Scales(Model, Recipe[turn], m), Kind(turn) = "gptq", Model.subgraph[m] = subgraph
        PROVE  fits
    <3>1. m \in Schemed(turn) \cap Running
      BY <2>2, <2>9, TakenOfModel DEF Scales, Kind, Schemed, Running
    <3>2. PICK b \in Batches : m \in config.reached[b]
      BY <1>4 DEF ReachingBatches
    <3>3. m \in DOMAIN hessians[turn]
      BY <2>1, <2>9, <3>1, <3>2 DEF HessiansCollected
    <3> QED
      BY <2>4, <2>9, <3>3 DEF RescaledBy
  <2>10. ASSUME Scales(Model, Recipe[turn], m), Kind(turn) = "autoround", Model.subgraph[m] = subgraph
         PROVE  fits
    <3>1. m \in Tuned
      BY <2>2, <2>10 DEF Scales, Kind, Tuned, Running, DecodingLayers
    <3> QED
      BY <2>1, <2>4, <2>10, <3>1 DEF RescaledBy
  <2>11. Ended(m)' => Model.subgraph[m] < subgraph \/ Model.subgraph[m] = subgraph
    BY <1>1, <2>1 DEF Ended
  <2> QED
    BY <1>1, <1>3, <2>1, <2>3, <2>5, <2>7, <2>8, <2>9, <2>10, <2>11 DEF ScaledModule
<1>12. CASE Propagates
  <2>1. /\ pc = "propagate" /\ pc' \in {"propagate", "calibrate", "end"} /\ Sequential
        /\ turn' = turn /\ weights' = weights /\ quantization' = quantization
    BY <1>12 DEF Propagates, Rest, Inv, Turns
  <2>2. Ended(m)' => Ended(m)
    <3>1. CASE pc' = "end"
      <4>1. ~(subgraph < NumSubgraphs)
        BY <1>12, <2>1, <3>1 DEF Propagates
      <4>2. NumSubgraphs \in Nat /\ Model.subgraph[m] <= NumSubgraphs
        BY <1>2, <2>1, LastSubgraph
      <4>3. Model.subgraph[m] < subgraph \/ Model.subgraph[m] = subgraph
        BY <1>2, <4>1, <4>2
      <4> QED
        BY <2>1, <4>3 DEF Ended, Passing
    <3>2. CASE pc' = "calibrate"
      <4>1. subgraph' = subgraph + 1
        BY <1>12, <2>1, <3>2 DEF Propagates
      <4>2. Model.subgraph[m] < subgraph + 1
              => Model.subgraph[m] < subgraph \/ Model.subgraph[m] = subgraph
        BY <1>2
      <4> QED
        BY <1>1, <2>1, <3>2, <4>1, <4>2 DEF Ended, Passing
    <3>3. CASE pc' = "propagate"
      <4>1. subgraph' = subgraph
        BY <1>12, <2>1, <3>3 DEF Propagates
      <4> QED
        BY <1>1, <2>1, <3>3, <4>1 DEF Ended, Passing
    <3> QED
      BY <2>1, <3>1, <3>2, <3>3
  <2> QED
    BY <1>6, <2>1, <2>2 DEF InTurn, Passing
<1>13. CASE EndsTurn
  <2>1. /\ pc = "end" /\ turn \in DOMAIN Recipe
        /\ \/ turn < Len(Recipe) /\ turn' = turn + 1 /\ pc' = "start"
           \/ turn = Len(Recipe) /\ turn' = turn /\ pc' = "finalize"
        /\ weights'[m] = Updated(turn).weights[m]
        /\ quantization'[m] = IF Quantizes(turn) /\ m \in Schemed(turn)
                                THEN Frozen(EndScales(turn)[m]) ELSE EndScales(turn)[m]
    BY <1>2, <1>13 DEF EndsTurn
  <2>2. quantization[m].scheme # 0
    BY <1>4, <1>5, <2>1
  <2>3. quantization'[m].scale = EndScales(turn)[m].scale
    <3>1. PICK s : s = EndScales(turn)[m]
      OBVIOUS
    <3>2. IsQuantization(s)
      BY <1>2, <2>1, <3>1, HandledScales
    <3>3. quantization'[m] = Frozen(s) \/ quantization'[m] = s
      BY <2>1, <3>1
    <3> QED
      BY <3>1, <3>2, <3>3, FrozenScales
  <2>4. PICK fits \in BOOLEAN : fits = (quantization'[m].scale = weights'[m])
    OBVIOUS
  <2>5. quantization[m].scale = weights[m] /\ ~Alters(Model, Recipe[turn], m) => fits
    BY <2>1, <2>3, <2>4, ScaledAtEvent
  <2>6. ScaledBy(turn - 1, m) /\ ~Alters(Model, Recipe[turn], m) => fits
    BY <1>4, <2>1, <2>2, <2>5 DEF ScaledModule, InTurn
  <2>7. ASSUME Scales(Model, Recipe[turn], m) PROVE fits
    <3>1. CASE Kind(turn) = "awq"
      <4>1. m \in Schemed(turn)
        BY <2>2, <2>7, <3>1, TakenOfModel DEF Scales, Kind, Schemed
      <4> QED
        BY <1>2, <2>1, <2>3, <2>4, <3>1, <4>1, HandledScales
    <3>2. CASE Kind(turn) \in {"gptq", "autoround", "quantization"}
      <4>1. ~Alters(Model, Recipe[turn], m)
        BY <3>2 DEF Alters, Kind
      <4>2. quantization[m].scale = weights[m]
        BY <1>4, <2>1, <2>2, <2>7, <3>2 DEF ScaledModule, InTurn, Ended
      <4> QED
        BY <2>5, <4>1, <4>2
    <3> QED
      BY <2>7, <3>1, <3>2 DEF Scales, Kind
  <2>8. ScaledBy(turn, m) => fits
    <3>1. turn \in Nat \ {0}
      BY DEF Inv, Typed
    <3> QED
      BY <2>6, <2>7, <3>1, ScaledByNext
  <2>9. CASE turn < Len(Recipe) /\ turn' = turn + 1 /\ pc' = "start"
    <3>1. turn' - 1 = turn /\ ~Ended(m)'
      BY <1>2, <2>9 DEF Ended, Passing
    <3> QED
      BY <1>1, <1>3, <2>4, <2>8, <2>9, <3>1 DEF ScaledModule
  <2>10. CASE turn = Len(Recipe) /\ turn' = turn /\ pc' = "finalize"
    <3>1. pc' \notin InTurn
      BY <2>10 DEF InTurn, Passing
    <3> QED
      BY <1>1, <1>3, <2>4, <2>8, <2>10, <3>1 DEF ScaledModule
  <2> QED
    BY <2>1, <2>9, <2>10
<1>14. CASE Finalizes
  <2>1. pc' \notin InTurn /\ ~Ended(m)'
    BY <1>14 DEF Finalizes, InTurn, Passing, Ended
  <2> QED
    BY <1>6, <1>14, <2>1 DEF Finalizes, Rest
<1>15. CASE Rest /\ UNCHANGED <<pc, subgraph, batch>>
  <2>1. Ended(m)' <=> Ended(m)
    BY <1>1, <1>15 DEF Ended
  <2> QED
    BY <1>1, <1>3, <1>15, <2>1 DEF Rest, ScaledModule
<1> QED
  BY <1>7, <1>8, <1>9, <1>10, <1>11, <1>12, <1>13, <1>14, <1>15 DEF TurnStep

(* Everything above holds together.                                        *)
Scaling == Inv /\ FrozenSoFar /\ HessiansCollected /\ ScaledSoFar

LEMMA ScalingHolds == Spec => []Scaling
<1>1. Init => HessiansCollected /\ ScaledSoFar
  <2> SUFFICES ASSUME Init PROVE HessiansCollected /\ ScaledSoFar
    OBVIOUS
  <2>1. pc = "initialize" /\ \A m \in Modules : quantization[m] = Unquantized
    BY DEF Init
  <2> QED
    BY <2>1 DEF HessiansCollected, ScaledSoFar, ScaledModule, Unquantized, Passing
<1>2. Inv /\ FrozenSoFar /\ HessiansCollected /\ ScaledSoFar /\ [Next]_vars
        => HessiansCollected' /\ ScaledSoFar'
  <2> SUFFICES ASSUME Inv, FrozenSoFar, HessiansCollected, ScaledSoFar, [Next]_vars,
                      Independent', pc' # "raised"
               PROVE  HessiansCollected' /\ ScaledSoFar'
    BY DEF HessiansCollected, ScaledSoFar
  <2>1. config' = config
    BY WeightsChangeAtEvents
  <2>2. Modules' = Modules /\ Independent
    BY <2>1 DEF Modules, Model, Independent
  <2>3. TurnStep
    BY <2>2, StepsOfTurn
  <2>4. pc # "raised"
    BY <2>3 DEF TurnStep, Initializes, Starts, Enters, Calibrates, EndsSubgraph, Propagates,
                EndsTurn, Finalizes
  <2>5. HessiansCollected'
    BY <2>2, <2>3, <2>4, HessiansStep
  <2>6. ASSUME NEW m \in Modules PROVE ScaledModule(m)'
    BY <2>2, <2>3, <2>4, ScaledStep DEF ScaledSoFar
  <2> QED
    BY <2>2, <2>5, <2>6 DEF ScaledSoFar
<1> QED
  BY <1>1, <1>2, InvHolds, FrozenHolds, PTL DEF Spec, Scaling

-----------------------------------------------------------------------------
(* Scales of inputs.                                                       *)

(* A modifier forgets what was observed before, observes itself, or does   *)
(* one of the former or smooths what m reads.                              *)
Resets(model, modifier, m) ==
  modifier.kind \in {"awq", "gptq", "quantization"} /\ m \in TargetsOf(model, modifier)

Watches(model, modifier, m) ==
  /\ Resets(model, modifier, m)
  /\ ~(modifier.kind = "quantization" /\ modifier.input_observer = "none")

Disturbs(model, modifier, m) ==
  \/ Resets(model, modifier, m)
  \/ modifier.kind = "smoothquant" /\ Balances(model, modifier, m)

(* One of the first n modifiers has observed m, and what has disturbed it  *)
(* since has observed it again.                                            *)
WatchedAmong(model, recipe, n, m) ==
  \E j \in 1 .. n :
    /\ Watches(model, recipe[j], m)
    /\ \A l \in j + 1 .. n : Disturbs(model, recipe[l], m) => Watches(model, recipe[l], m)

WatchedBy(n, m) == WatchedAmong(Model, Recipe, n, m)

Observation == [batch : Nat, scale : SUBSET Tags]

BatchesOf(seen) == [n \in DOMAIN seen |-> seen[n].batch]

(* Each of the batches was observed once, in order, or the last one is     *)
(* what is left.                                                           *)
Listed(observer, seen, batches) ==
  /\ seen \in Seq(Observation)
  /\ IF observer = "memoryless_minmax" /\ batches # {}
       THEN BatchesOf(seen) = <<Max(batches)>> ELSE InOrder(BatchesOf(seen), batches)

LEMMA LastOf ==
  ASSUME NEW S, S \subseteq Nat, NEW b \in Nat, \A x \in S : x < b
  PROVE  Max(S \cup {b}) = b
<1>1. PICK T : T = S \cup {b}
  OBVIOUS
<1>2. b \in T /\ T \subseteq Nat /\ \A y \in T : b >= y
  BY <1>1
<1>3. Max(T) \in T /\ \A y \in T : Max(T) >= y
  BY <1>2 DEF Max
<1>4. Max(T) \in Nat /\ Max(T) >= b /\ b >= Max(T)
  BY <1>2, <1>3
<1> QED
  BY <1>1, <1>4

LEMMA NothingListed ==
  ASSUME NEW observer
  PROVE  Listed(observer, <<>>, {})
BY DEF Listed, InOrder, ToSet, BatchesOf

(* The batches are earlier than the new observation.                       *)
Earlier(batches, new) == batches \subseteq Nat /\ \A x \in batches : x < new.batch

(* Nothing but the new observation is added.                               *)
Extends(after, seen, new) ==
  \A n \in DOMAIN after : after[n] = new \/ \E j \in DOMAIN seen : after[n] = seen[j]

LEMMA OneMoreListed ==
  ASSUME NEW observer, NEW seen, NEW S, Listed(observer, seen, S),
         NEW new \in Observation, Earlier(S, new),
         NEW after, after = Observe(observer, seen, new, 1)
  PROVE  Listed(observer, after, S \cup {new.batch}) /\ Extends(after, seen, new)
<1>1. PICK b \in Nat : b = new.batch /\ S \subseteq Nat /\ \A x \in S : x < b
  BY DEF Observation, Earlier
<1>2. CASE observer = "memoryless_minmax"
  <2>1. after = <<new>>
    BY <1>2 DEF Observe
  <2>2. Max(S \cup {b}) = b
    BY <1>1, LastOf
  <2>3. <<new>> \in Seq(Observation) /\ DOMAIN <<new>> = {1} /\ BatchesOf(<<new>>) = <<b>>
    BY <1>1 DEF BatchesOf
  <2>4. PICK T : T = S \cup {new.batch}
    OBVIOUS
  <2>5. T # {} /\ Max(T) = b
    BY <1>1, <2>2, <2>4
  <2>6. Listed(observer, <<new>>, T)
    BY <1>2, <2>3, <2>5 DEF Listed
  <2>7. Extends(<<new>>, seen, new)
    BY <2>3 DEF Extends
  <2> QED
    BY <2>1, <2>4, <2>6, <2>7
<1>3. CASE observer # "memoryless_minmax"
  <2>1. PICK n \in Nat : n = Len(seen)
    BY DEF Listed
  <2>3. after = seen \o <<new>>
    <3>1. [k \in 1 .. 1 |-> new] = <<new>>
      OBVIOUS
    <3> QED
      BY <1>3, <3>1 DEF Observe
  <2>4. /\ after \in Seq(Observation) /\ DOMAIN after = 1 .. n + 1 /\ DOMAIN seen = 1 .. n
        /\ \A k \in 1 .. n : after[k] = seen[k]
        /\ after[n + 1] = new
    <3>1. seen \in Seq(Observation) /\ <<new>> \in Seq(Observation) /\ Len(<<new>>) = 1
      BY DEF Listed
    <3>2. after \in Seq(Observation) /\ Len(after) = n + 1 /\ DOMAIN seen = 1 .. n
      BY <2>1, <2>3, <3>1
    <3>3. \A k \in 1 .. n : after[k] = seen[k]
      BY <2>1, <2>3, <3>1
    <3>4. after[n + 1] = new
      BY <2>1, <2>3, <3>1
    <3> QED
      BY <3>2, <3>3, <3>4
  <2>5. 1 .. n + 1 = 1 .. n \cup {n + 1} /\ n + 1 \notin 1 .. n
    BY <2>1
  <2>6. /\ DOMAIN BatchesOf(after) = 1 .. n + 1 /\ DOMAIN BatchesOf(seen) = 1 .. n
        /\ \A k \in 1 .. n : BatchesOf(after)[k] = BatchesOf(seen)[k]
        /\ BatchesOf(after)[n + 1] = b
    BY <1>1, <2>4, <2>5 DEF BatchesOf
  <2>7. InOrder(BatchesOf(seen), S)
    BY <1>3 DEF Listed
  <2>8. ToSet(BatchesOf(after)) = S \cup {b}
    BY <2>5, <2>6, <2>7 DEF InOrder, ToSet
  <2>9. ASSUME NEW i \in 1 .. n + 1, NEW j \in 1 .. n + 1, i < j
        PROVE  BatchesOf(after)[i] < BatchesOf(after)[j]
    <3>1. i \in 1 .. n
      BY <2>1, <2>9
    <3>2. CASE j \in 1 .. n
      BY <2>6, <2>7, <2>9, <3>1, <3>2 DEF InOrder
    <3>3. CASE j = n + 1
      BY <1>1, <2>6, <2>7, <3>1, <3>3 DEF InOrder, ToSet
    <3> QED
      BY <2>5, <3>2, <3>3
  <2>10. InOrder(BatchesOf(after), S \cup {b})
    BY <2>6, <2>8, <2>9 DEF InOrder
  <2>11. Extends(after, seen, new)
    BY <2>4, <2>5 DEF Extends
  <2> QED
    BY <1>1, <1>3, <2>4, <2>10, <2>11 DEF Listed
<1> QED
  BY <1>2, <1>3

(* Who observes.                                                           *)
LEMMA HooksOfTurn ==
  ASSUME live = {turn}, NEW m, quantization[m].scheme # 0, HasStaticInputs(m)
  PROVE  InputHooks(m) = IF Resets(Model, Recipe[turn], m) THEN {turn} ELSE {}
BY TakenOfModel DEF InputHooks, Resets, Schemed, Kind

LEMMA InputsAreTags ==
  ASSUME Typed, NEW m \in Modules
  PROVE  InputOf(m) \in SUBSET Tags
<1>1. PICK s \in {0} \cup Modules : s = Model.source[m]
  BY ModelFacts DEF Typed
<1>2. outputs[batch] \in [Modules -> SUBSET Tags] /\ weights \in [Modules -> Weight]
  BY DEF Typed
<1>3. s \in Modules => outputs[batch][s] \in SUBSET Tags /\ weights[s].div \in SUBSET Tags
  BY <1>2 DEF Weight
<1>4. InputOf(m) = IF s = 0 THEN {} ELSE IF s \in Running THEN weights[s].div ELSE outputs[batch][s]
  BY <1>1 DEF InputOf, InputScale
<1> QED
  BY <1>1, <1>3, <1>4

NoAWQ == \A i \in DOMAIN Recipe : Kind(i) # "awq"

(* Only SmoothQuant changes what m multiplies then.                        *)
LEMMA ReadingKept ==
  ASSUME Typed, NoAWQ, NEW i \in DOMAIN Recipe, NEW m \in Modules,
         ~(Kind(i) = "smoothquant" /\ Balances(Model, Recipe[i], m))
  PROVE  Updated(i).weights[m].mul = weights[m].mul
<1>1. CASE Kind(i) = "smoothquant"
  <2>1. PICK n \in Nat : n = Len(Model.mappings)
    BY ModelFacts DEF Typed
  <2>2. PICK w : w = Updated(i).weights
    OBVIOUS
  <2>3. SmoothedSoFar(i, n, w)
    BY <1>1, <2>1, <2>2, SmoothedWeights, RecipeFacts DEF Updated, Typed
  <2>4. \A j \in 1 .. n : Applies(i, j) => m \notin ToSet(Mapping(j).balance)
    BY <1>1, TakenOfModel DEF Balances, Applies, IsSmoothed, Mapping
  <2> QED
    BY <2>2, <2>3, <2>4 DEF SmoothedSoFar
<1>2. CASE Kind(i) # "smoothquant"
  BY <1>2, NewWeights DEF NoAWQ
<1> QED
  BY <1>1, <1>2

(* The inputs of m on batch b have been observed in this turn.             *)
Passed(m, b) ==
  \/ pc = "end"
  \/ pc \in Passing /\ Model.subgraph[m] < subgraph
  \/ pc \in Passing /\ Model.subgraph[m] = subgraph /\ (pc = "calibrate" => b < batch)

PassedBatches(m) == {b \in ReachingBatches(m) : Passed(m, b)}

InputsAreCurrent(m) ==
  NoAWQ => \A n \in DOMAIN quantization[m].inputs : quantization[m].inputs[n].scale = weights[m].mul

ObservedOnAll(m) ==
  /\ Listed(InputObserver(m), quantization[m].inputs, ReachingBatches(m))
  /\ InputsAreCurrent(m)

ObservedOnPassed(m) ==
  /\ Listed(InputObserver(m), quantization[m].inputs, PassedBatches(m))
  /\ InputsAreCurrent(m)

(* The inputs of m are observed by the last modifier that resets them.     *)
ObservedModule(m) ==
  quantization[m].scheme # 0 /\ HasStaticInputs(m) =>
    /\ pc \in InTurn =>
         /\ WatchedBy(turn - 1, m) /\ ~Disturbs(Model, Recipe[turn], m) => ObservedOnAll(m)
         /\ Watches(Model, Recipe[turn], m) /\ pc # "start" => ObservedOnPassed(m)
    /\ pc \in {"finalize", "done"} /\ WatchedBy(Len(Recipe), m) => ObservedOnAll(m)

InputsSoFar == Independent /\ pc # "raised" => \A m \in Modules : ObservedModule(m)

LEMMA WatchedByNext ==
  ASSUME NEW n \in Nat \ {0}, NEW m
  PROVE  WatchedBy(n, m) => \/ Watches(Model, Recipe[n], m)
                            \/ WatchedBy(n - 1, m) /\ ~Disturbs(Model, Recipe[n], m)
<1> SUFFICES ASSUME WatchedBy(n, m), ~Watches(Model, Recipe[n], m)
             PROVE  WatchedBy(n - 1, m) /\ ~Disturbs(Model, Recipe[n], m)
  OBVIOUS
<1>1. PICK j \in 1 .. n :
        /\ Watches(Model, Recipe[j], m)
        /\ \A l \in j + 1 .. n : Disturbs(Model, Recipe[l], m) => Watches(Model, Recipe[l], m)
  BY DEF WatchedBy, WatchedAmong
<1>2. j \in 1 .. n - 1 /\ n \in j + 1 .. n /\ j + 1 .. n - 1 \subseteq j + 1 .. n
  BY <1>1
<1> QED
  BY <1>1, <1>2 DEF WatchedBy, WatchedAmong

LEMMA CurrentStays ==
  ASSUME config' = config, NEW m, quantization'[m].scheme = quantization[m].scheme,
         quantization'[m].inputs = quantization[m].inputs,
         NoAWQ => weights'[m].mul = weights[m].mul
  PROVE  /\ InputObserver(m)' = InputObserver(m)
         /\ (HasStaticInputs(m)' <=> HasStaticInputs(m))
         /\ InputsAreCurrent(m) => InputsAreCurrent(m)'
         /\ ObservedOnAll(m) => ObservedOnAll(m)'
<1>1. /\ Recipe' = Recipe /\ ReachingBatches(m)' = ReachingBatches(m)
      /\ \A i : Kind(i)' = Kind(i)
  BY DEF Recipe, ReachingBatches, Batches, Kind
<1>2. InputObserver(m)' = InputObserver(m) /\ (NoAWQ' <=> NoAWQ)
  BY <1>1 DEF InputObserver, NoAWQ
<1> QED
  BY <1>1, <1>2 DEF HasStaticInputs, InputsAreCurrent, ObservedOnAll

LEMMA ObservedStep ==
  ASSUME Inv, Independent, HessiansCollected, NEW m \in Modules, ObservedModule(m),
         TurnStep, pc # "raised",
         NoAWQ /\ pc = "calibrate" /\ m \in Running => InputOf(m) = weights[m].mul
  PROVE  ObservedModule(m)'
<1> DEFINE disturbed == Kind(turn) = "smoothquant" /\ Balances(Model, Recipe[turn], m)
<1>1. /\ Modules' = Modules /\ Recipe' = Recipe /\ Model' = Model /\ config' = config
      /\ \A i : Kind(i)' = Kind(i) /\ Targets(i)' = Targets(i)
  BY TurnKeeps
<1>2. /\ turn \in Nat /\ Len(Recipe) \in Nat /\ DOMAIN Recipe = 1 .. Len(Recipe)
      /\ pc # "initialize" => turn \in DOMAIN Recipe
      /\ Typed /\ subgraph \in Nat \ {0} /\ Model.subgraph[m] \in Nat \ {0}
      /\ IsQuantization(quantization[m])
  BY TurnFacts DEF Typed
<1>3. /\ ReachingBatches(m)' = ReachingBatches(m) /\ ReachingBatches(m) \subseteq Batches
      /\ \A n : (WatchedBy(n, m)' <=> WatchedBy(n, m))
  BY <1>1 DEF ReachingBatches, WatchedBy, Batches
<1>4. /\ pc # "initialize" => quantization'[m].scheme = quantization[m].scheme
      /\ quantization'[m].scheme = quantization[m].scheme
           => InputObserver(m)' = InputObserver(m) /\ (HasStaticInputs(m)' <=> HasStaticInputs(m))
  BY <1>1, SchemesStay DEF InputObserver, HasStaticInputs
<1>5. Disturbs(Model, Recipe[turn], m) <=> Resets(Model, Recipe[turn], m) \/ disturbed
  BY DEF Disturbs, Kind
<1>6. Watches(Model, Recipe[turn], m) => Resets(Model, Recipe[turn], m) /\ ~disturbed
  BY DEF Watches, Resets, Kind
<1>7. ASSUME turn' = turn, pc \in InTurn \ {"start"}, pc' \in InTurn \ {"start"},
             quantization'[m].inputs = quantization[m].inputs,
             NoAWQ /\ ~disturbed => weights'[m].mul = weights[m].mul,
             PassedBatches(m)' = PassedBatches(m)
      PROVE  ObservedModule(m)'
  <2>1. SUFFICES ASSUME quantization[m].scheme # 0, HasStaticInputs(m), ~disturbed
                 PROVE  /\ ObservedOnAll(m) => ObservedOnAll(m)'
                        /\ ObservedOnPassed(m) => ObservedOnPassed(m)'
    <3>1. pc # "initialize" /\ pc' \notin {"start", "finalize", "done"}
      BY <1>7 DEF InTurn, Passing
    <3> QED
      BY <1>1, <1>3, <1>4, <1>5, <1>6, <1>7, <2>1, <3>1 DEF ObservedModule
  <2>2. pc # "initialize"
    BY <1>7 DEF InTurn, Passing
  <2> QED
    BY <1>1, <1>4, <1>7, <2>1, <2>2, CurrentStays DEF ObservedOnPassed
<1>8. CASE Initializes
  <2>1. turn' = 1 /\ pc' \in {"initialize", "start"}
    BY <1>8 DEF Initializes, Inv, Turns
  <2>2. ~WatchedBy(0, m)
    BY DEF WatchedBy, WatchedAmong
  <2>3. pc' \in InTurn => pc' = "start"
    BY <2>1 DEF InTurn, Passing
  <2> QED
    BY <1>1, <1>3, <2>1, <2>2, <2>3 DEF ObservedModule
<1>9. CASE Starts
  <2>1. /\ pc = "start" /\ turn' = turn /\ weights' = weights
        /\ pc' = IF Pipeline = "datafree" THEN "end" ELSE "enter"
        /\ quantization'[m] = IF Quantizes(turn) THEN Started(turn)[m] ELSE quantization[m]
    BY <1>9 DEF Starts
  <2>2. SUFFICES ASSUME quantization[m].scheme # 0, HasStaticInputs(m)
                 PROVE  ObservedModule(m)'
    BY <1>4, <2>1 DEF ObservedModule
  <2>3. turn \in DOMAIN Recipe /\ (m \in Schemed(turn) <=> m \in TargetsOf(Model, Recipe[turn]))
    BY <1>2, <2>1, <2>2, TakenOfModel DEF Schemed
  <2>4. ASSUME ~Resets(Model, Recipe[turn], m)
        PROVE  quantization'[m].inputs = quantization[m].inputs
    <3>1. CASE Quantizes(turn) /\ m \in Schemed(turn)
      <4>1. Kind(turn) = "autoround"
        BY <2>3, <2>4, <3>1 DEF Quantizes, Resets, Kind
      <4> QED
        BY <1>2, <2>1, <2>3, <3>1, <4>1, HandledScales
    <3>2. CASE ~(Quantizes(turn) /\ m \in Schemed(turn))
      BY <1>2, <2>1, <2>3, <3>2, HandledScales
    <3> QED
      BY <3>1, <3>2
  <2>5. ASSUME WatchedBy(turn - 1, m), ~Disturbs(Model, Recipe[turn], m) PROVE ObservedOnAll(m)'
    <3>1. ObservedOnAll(m)
      BY <2>1, <2>2, <2>5 DEF ObservedModule, InTurn
    <3> QED
      BY <1>1, <1>4, <1>5, <2>1, <2>4, <2>5, <3>1, CurrentStays
  <2>6. ASSUME Watches(Model, Recipe[turn], m) PROVE ObservedOnPassed(m)'
    <3>1. Kind(turn) \in {"awq", "gptq", "quantization"} /\ m \in Schemed(turn)
      BY <2>3, <2>6 DEF Watches, Resets, Kind
    <3>2. pc' = "enter"
      BY <2>1, <2>6 DEF Pipeline, Watches, Independent, Kind
    <3>3. quantization'[m].inputs = <<>>
      BY <1>2, <2>1, <2>3, <3>1, HandledScales DEF Quantizes
    <3>4. PassedBatches(m)' = {}
      BY <3>2 DEF PassedBatches, Passed, Passing
    <3>5. Listed(InputObserver(m)', quantization'[m].inputs, PassedBatches(m)')
      BY <3>3, <3>4, NothingListed
    <3>6. InputsAreCurrent(m)'
      BY <3>3 DEF InputsAreCurrent
    <3> QED
      BY <3>5, <3>6 DEF ObservedOnPassed
  <2> QED
    BY <1>1, <1>3, <2>1, <2>5, <2>6 DEF ObservedModule
<1>10. CASE Enters
  <2>1. /\ pc = "enter" /\ pc' = "calibrate" /\ turn' = turn /\ weights' = weights
        /\ quantization' = quantization /\ subgraph' = 1 /\ batch' = 1
    BY <1>10 DEF Enters, Rest
  <2>2. \A b \in Batches : ~(b < 1)
    BY TurnFacts
  <2>3. PassedBatches(m) = {}
    BY <2>1 DEF PassedBatches, Passed, Passing
  <2>4. PassedBatches(m)' = {}
    <3>1. ~(Model.subgraph[m] < 1)
      BY <1>2
    <3> QED
      BY <1>1, <1>3, <2>1, <2>2, <3>1 DEF PassedBatches, Passed
  <2> QED
    BY <1>7, <2>1, <2>3, <2>4 DEF InTurn, Passing
<1>11. CASE EndsSubgraph
  <2>1. /\ pc = "subgraph_end" /\ pc' = "propagate" /\ turn' = turn /\ subgraph' = subgraph
        /\ weights'[m] = Updated(turn).weights[m]
        /\ quantization'[m] = Rescaled(turn)[m]
    BY <1>11 DEF EndsSubgraph
  <2>2. turn \in DOMAIN Recipe
    BY <1>2, <2>1
  <2>3. quantization'[m].inputs = quantization[m].inputs
    BY <1>2, <2>1, <2>2, HandledScales
  <2>4. NoAWQ /\ ~disturbed => weights'[m].mul = weights[m].mul
    BY <1>2, <2>1, <2>2, ReadingKept
  <2>5. PassedBatches(m)' = PassedBatches(m)
    BY <1>1, <1>3, <2>1 DEF PassedBatches, Passed, Passing
  <2> QED
    BY <1>7, <2>1, <2>3, <2>4, <2>5 DEF InTurn, Passing
<1>12. CASE Propagates
  <2>1. /\ pc = "propagate" /\ pc' \in {"propagate", "calibrate", "end"} /\ Sequential
        /\ turn' = turn /\ weights' = weights /\ quantization' = quantization
    BY <1>12 DEF Propagates, Rest, Inv, Turns
  <2>2. \A b \in Batches : ~(b < 1)
    BY TurnFacts
  <2>3. \A b \in Batches : (Passed(m, b)' <=> Passed(m, b))
    <3>1. CASE pc' = "end"
      <4>1. ~(subgraph < NumSubgraphs)
        BY <1>12, <2>1, <3>1 DEF Propagates
      <4>2. NumSubgraphs \in Nat /\ Model.subgraph[m] <= NumSubgraphs
        BY <1>2, <2>1, LastSubgraph
      <4>3. Model.subgraph[m] < subgraph \/ Model.subgraph[m] = subgraph
        BY <1>2, <4>1, <4>2
      <4> QED
        BY <2>1, <3>1, <4>3 DEF Passed, Passing
    <3>2. CASE pc' = "calibrate"
      <4>1. subgraph' = subgraph + 1 /\ batch' = 1
        BY <1>12, <2>1, <3>2 DEF Propagates
      <4>2. Model.subgraph[m] < subgraph + 1
              <=> Model.subgraph[m] < subgraph \/ Model.subgraph[m] = subgraph
        BY <1>2
      <4> QED
        BY <1>1, <2>1, <2>2, <3>2, <4>1, <4>2 DEF Passed, Passing
    <3>3. CASE pc' = "propagate"
      <4>1. subgraph' = subgraph
        BY <1>12, <2>1, <3>3 DEF Propagates
      <4> QED
        BY <1>1, <2>1, <3>3, <4>1 DEF Passed, Passing
    <3> QED
      BY <2>1, <3>1, <3>2, <3>3
  <2>4. PassedBatches(m)' = PassedBatches(m)
    BY <1>3, <2>3 DEF PassedBatches
  <2> QED
    BY <1>7, <2>1, <2>4 DEF InTurn, Passing
<1>13. CASE EndsTurn
  <2>1. /\ pc = "end" /\ turn \in DOMAIN Recipe
        /\ \/ turn < Len(Recipe) /\ turn' = turn + 1 /\ pc' = "start"
           \/ turn = Len(Recipe) /\ turn' = turn /\ pc' = "finalize"
        /\ weights'[m] = Updated(turn).weights[m]
        /\ quantization'[m] = IF Quantizes(turn) /\ m \in Schemed(turn)
                                THEN Frozen(EndScales(turn)[m]) ELSE EndScales(turn)[m]
    BY <1>2, <1>13 DEF EndsTurn
  <2>2. quantization'[m].inputs = quantization[m].inputs
    <3>1. PICK s : s = EndScales(turn)[m]
      OBVIOUS
    <3>2. IsQuantization(s) /\ s.inputs = quantization[m].inputs
      BY <1>2, <2>1, <3>1, HandledScales
    <3>3. quantization'[m] = Frozen(s) \/ quantization'[m] = s
      BY <2>1, <3>1
    <3> QED
      BY <3>2, <3>3, FrozenScales
  <2>3. SUFFICES ASSUME quantization[m].scheme # 0, HasStaticInputs(m)
                 PROVE  ObservedModule(m)'
    BY <1>4, <2>1 DEF ObservedModule
  <2>4. NoAWQ /\ ~disturbed => weights'[m].mul = weights[m].mul
    BY <1>2, <2>1, ReadingKept
  <2>5. PassedBatches(m) = ReachingBatches(m)
    BY <2>1 DEF PassedBatches, Passed
  <2>6. ASSUME WatchedBy(turn, m) PROVE ObservedOnAll(m)'
    <3>1. turn \in Nat \ {0}
      BY DEF Inv, Typed
    <3>2. CASE Watches(Model, Recipe[turn], m)
      <4>1. ObservedOnPassed(m)
        BY <2>1, <2>3, <3>2 DEF ObservedModule, InTurn
      <4>2. ObservedOnAll(m) /\ ~disturbed
        BY <1>6, <2>5, <3>2, <4>1 DEF ObservedOnAll, ObservedOnPassed
      <4> QED
        BY <1>1, <1>4, <2>1, <2>2, <2>4, <4>2, CurrentStays
    <3>3. CASE WatchedBy(turn - 1, m) /\ ~Disturbs(Model, Recipe[turn], m)
      <4>1. ObservedOnAll(m) /\ ~disturbed
        BY <1>5, <2>1, <2>3, <3>3 DEF ObservedModule, InTurn
      <4> QED
        BY <1>1, <1>4, <2>1, <2>2, <2>4, <4>1, CurrentStays
    <3> QED
      BY <2>6, <3>1, <3>2, <3>3, WatchedByNext
  <2>7. CASE turn < Len(Recipe) /\ turn' = turn + 1 /\ pc' = "start"
    <3>1. turn' - 1 = turn
      BY <1>2, <2>7
    <3> QED
      BY <1>1, <1>3, <2>6, <2>7, <3>1 DEF ObservedModule
  <2>8. CASE turn = Len(Recipe) /\ turn' = turn /\ pc' = "finalize"
    <3>1. pc' \notin InTurn
      BY <2>8 DEF InTurn, Passing
    <3> QED
      BY <1>1, <1>3, <2>6, <2>8, <3>1 DEF ObservedModule
  <2> QED
    BY <2>1, <2>7, <2>8
<1>14. CASE Rest /\ (UNCHANGED <<pc, subgraph, batch>> \/ Finalizes)
  <2>1. turn' = turn /\ weights' = weights /\ quantization' = quantization
    BY <1>14 DEF Rest
  <2>2. CASE Finalizes
    <3>1. pc' \notin InTurn /\ pc = "finalize"
      BY <2>2 DEF Finalizes, InTurn, Passing
    <3> QED
      BY <1>1, <1>3, <1>4, <2>1, <3>1, CurrentStays DEF ObservedModule
  <2>3. CASE UNCHANGED <<pc, subgraph, batch>>
    <3>1. PassedBatches(m)' = PassedBatches(m)
      BY <1>1, <1>3, <2>3 DEF PassedBatches, Passed
    <3>2. InputObserver(m)' = InputObserver(m) /\ (HasStaticInputs(m)' <=> HasStaticInputs(m))
      BY <1>4, <2>1
    <3>3. /\ ObservedOnAll(m) => ObservedOnAll(m)'
          /\ ObservedOnPassed(m) => ObservedOnPassed(m)'
      BY <1>1, <2>1, <3>1, CurrentStays DEF ObservedOnPassed
    <3> QED
      BY <1>1, <1>3, <2>1, <2>3, <3>2, <3>3 DEF ObservedModule
  <2> QED
    BY <1>14, <2>2, <2>3
<1>15. CASE Calibrates
  <2>1. /\ pc = "calibrate" /\ turn' = turn /\ live = {turn} /\ subgraph' = subgraph
        /\ weights' = weights /\ Sequential /\ turn \in DOMAIN Recipe
        /\ quantization'[m] = IF m \in InputHooked
             THEN [quantization[m] EXCEPT !.inputs = ObservedInputs(m)] ELSE quantization[m]
    BY <1>2, <1>15 DEF Calibrates, HessiansCollected, Passing, Inv, Turns, Sequential, Pipeline,
                       Independent
  <2>2. SUFFICES ASSUME quantization[m].scheme # 0, HasStaticInputs(m)
                 PROVE  ObservedModule(m)'
    BY <1>4, <2>1 DEF ObservedModule
  <2>3. \/ pc' = "calibrate" /\ batch < NumBatches /\ batch' = batch + 1
        \/ pc' = "subgraph_end" /\ ~(batch < NumBatches) /\ batch' = 1
    BY <1>15, <2>1 DEF Calibrates, NextBatch
  <2>4. batch \in Nat /\ NumBatches \in Nat /\ batch <= NumBatches /\ Batches = 1 .. NumBatches
    BY TurnFacts
  <2>5. CASE m \notin InputHooked
    <3>1. quantization'[m] = quantization[m]
      BY <2>1, <2>5
    <3>2. ~Resets(Model, Recipe[turn], m) \/ m \notin Ran
      BY <2>1, <2>2, <2>5, HooksOfTurn DEF InputHooked
    <3>3. CASE m \notin Ran
      <4>1. m \notin Running \/ batch \notin ReachingBatches(m)
        BY <3>3, TurnFacts DEF Ran, ReachingBatches
      <4>2. CASE m \notin Running
        <5>1. Model.subgraph[m] # subgraph
          BY <2>1, <4>2 DEF Running
        <5>2. PassedBatches(m)' = PassedBatches(m)
          BY <1>1, <1>3, <2>1, <2>3, <5>1 DEF PassedBatches, Passed, Passing
        <5> QED
          BY <1>7, <2>1, <2>3, <3>1, <5>2 DEF InTurn, Passing
      <4>3. CASE batch \notin ReachingBatches(m)
        <5>1. ASSUME NEW b \in ReachingBatches(m)
              PROVE  /\ pc' = "calibrate" => (b < batch' <=> b < batch)
                     /\ pc' = "subgraph_end" => b < batch
          <6>1. b \in 1 .. NumBatches /\ b # batch
            BY <1>3, <2>4, <4>3
          <6> QED
            BY <2>3, <2>4, <6>1
        <5>2. \A b \in ReachingBatches(m) : (Passed(m, b)' <=> Passed(m, b))
          BY <1>1, <2>1, <2>3, <5>1 DEF Passed, Passing
        <5>3. PassedBatches(m)' = PassedBatches(m)
          BY <1>3, <5>2 DEF PassedBatches
        <5> QED
          BY <1>7, <2>1, <2>3, <3>1, <5>3 DEF InTurn, Passing
      <4> QED
        BY <4>1, <4>2, <4>3
    <3>4. CASE ~Resets(Model, Recipe[turn], m)
      <4>1. ObservedOnAll(m) => ObservedOnAll(m)'
        BY <1>1, <2>1, <3>1, CurrentStays
      <4>2. pc \in InTurn /\ pc' \notin {"finalize", "done"}
        BY <2>1, <2>3 DEF InTurn, Passing
      <4> QED
        BY <1>1, <1>3, <1>4, <1>6, <2>1, <2>2, <3>4, <4>1, <4>2 DEF ObservedModule
    <3> QED
      BY <3>2, <3>3, <3>4
  <2>6. CASE m \in InputHooked
    <3>1. m \in Ran /\ Resets(Model, Recipe[turn], m)
      BY <2>1, <2>2, <2>6, HooksOfTurn DEF InputHooked
    <3>2. m \in Running /\ Model.subgraph[m] = subgraph /\ batch \in ReachingBatches(m)
      BY <2>1, <3>1, TurnFacts DEF Ran, Running, ReachingBatches
    <3>3. PICK new : new = [batch |-> batch, scale |-> InputOf(m)]
      OBVIOUS
    <3>4. new \in Observation /\ new.batch = batch /\ new.scale = InputOf(m)
      BY <1>2, <2>4, <3>3, InputsAreTags DEF Observation
    <3>5. PICK S : S = PassedBatches(m)
      OBVIOUS
    <3>6. S = {b \in ReachingBatches(m) : b < batch}
      BY <1>2, <2>1, <3>2, <3>5 DEF PassedBatches, Passed, Passing
    <3>7. PassedBatches(m)' = S \cup {batch}
      <4>1. PassedBatches(m)' = {b \in ReachingBatches(m) : pc' = "calibrate" => b < batch'}
        BY <1>1, <1>2, <1>3, <2>1, <2>3, <3>2 DEF PassedBatches, Passed, Passing
      <4>2. ASSUME NEW b \in ReachingBatches(m)
            PROVE  (pc' = "calibrate" => b < batch') <=> b < batch \/ b = batch
        <5>1. b \in 1 .. NumBatches
          BY <1>3, <2>4
        <5> QED
          BY <2>3, <2>4, <5>1
      <4> QED
        BY <3>2, <3>6, <4>1, <4>2
    <3>8. PICK after : after = Observe(InputObserver(m), quantization[m].inputs, new, 1)
      OBVIOUS
    <3>9. quantization'[m].inputs = after
      <4>1. InputHooks(m) = {turn} /\ Cardinality({turn}) = 1
        BY <2>1, <2>2, <3>1, HooksOfTurn, FS_Singleton
      <4>2. ObservedInputs(m) = after
        BY <3>3, <3>8, <4>1 DEF ObservedInputs
      <4> QED
        BY <1>2, <2>1, <2>6, <4>2 DEF IsQuantization
    <3>10. ASSUME Watches(Model, Recipe[turn], m) PROVE ObservedOnPassed(m)'
      <4>1. ObservedOnPassed(m)
        BY <2>1, <2>2, <3>10 DEF ObservedModule, InTurn, Passing
      <4>2. Listed(InputObserver(m), quantization[m].inputs, S)
        BY <3>5, <4>1 DEF ObservedOnPassed
      <4>3. Earlier(S, new)
        BY <1>3, <2>4, <3>4, <3>6 DEF Earlier
      <4>4. /\ Listed(InputObserver(m), after, S \cup {batch})
            /\ Extends(after, quantization[m].inputs, new)
        <5>1. PICK seen : seen = quantization[m].inputs
          OBVIOUS
        <5>2. PICK observer : observer = InputObserver(m)
          OBVIOUS
        <5>3. Listed(observer, seen, S) /\ after = Observe(observer, seen, new, 1)
          BY <3>8, <4>2, <5>1, <5>2
        <5>4. Listed(observer, after, S \cup {new.batch}) /\ Extends(after, seen, new)
          BY <3>4, <4>3, <5>3, OneMoreListed
        <5> QED
          BY <3>4, <5>1, <5>2, <5>4
      <4>5. NoAWQ => \A n \in DOMAIN after : after[n].scale = weights[m].mul
        BY <2>1, <3>2, <3>4, <4>1, <4>4 DEF ObservedOnPassed, InputsAreCurrent, Extends
      <4>6. NoAWQ' <=> NoAWQ
        BY <1>1 DEF NoAWQ
      <4>7. InputsAreCurrent(m)'
        BY <2>1, <3>9, <4>5, <4>6 DEF InputsAreCurrent
      <4> QED
        BY <1>4, <2>1, <3>7, <3>9, <4>4, <4>7 DEF ObservedOnPassed
    <3>11. Disturbs(Model, Recipe[turn], m)
      BY <1>5, <3>1
    <3> QED
      BY <1>1, <2>1, <2>3, <3>10, <3>11 DEF ObservedModule
  <2> QED
    BY <2>5, <2>6
<1> QED
  BY <1>8, <1>9, <1>10, <1>11, <1>12, <1>13, <1>14, <1>15 DEF TurnStep, Finalizes

(* Inputs are observed as they are, if modules are run on what their       *)
(* weights expect.                                                         *)
Observing == Matching /\ Scaling /\ InputsSoFar

LEMMA ObservingHolds ==
  ASSUME \A model \in Models : Balanced(model) /\ HooksMeetMappings(model)
  PROVE  Spec => []Observing
<1>1. Init => InputsSoFar
  <2> SUFFICES ASSUME Init PROVE InputsSoFar
    OBVIOUS
  <2>1. pc = "initialize" /\ \A m \in Modules : quantization[m] = Unquantized
    BY DEF Init
  <2> QED
    BY <2>1 DEF InputsSoFar, ObservedModule, Unquantized
<1>2. Matching /\ Scaling /\ InputsSoFar /\ [Next]_vars => InputsSoFar'
  <2> SUFFICES ASSUME Matching, Scaling, InputsSoFar, [Next]_vars, Independent', pc' # "raised"
               PROVE  InputsSoFar'
    BY DEF InputsSoFar
  <2>1. config' = config
    BY WeightsChangeAtEvents
  <2>2. Modules' = Modules /\ Independent
    BY <2>1 DEF Modules, Model, Independent
  <2>3. TurnStep
    BY <2>2, StepsOfTurn DEF Scaling
  <2>4. pc # "raised"
    BY <2>3 DEF TurnStep, Initializes, Starts, Enters, Calibrates, EndsSubgraph, Propagates,
                EndsTurn, Finalizes
  <2>5. ASSUME NoAWQ, pc = "calibrate", NEW m \in Running PROVE InputOf(m) = weights[m].mul
    <3>1. Aligned
      BY <2>5 DEF NoAWQ, Aligned
    <3> QED
      BY <2>5, <3>1, InputsMatch
  <2>6. ASSUME NEW m \in Modules PROVE ObservedModule(m)'
    BY <2>2, <2>3, <2>4, <2>5, ObservedStep DEF InputsSoFar, Scaling
  <2> QED
    BY <2>2, <2>6 DEF InputsSoFar
<1> QED
  BY <1>1, <1>2, MatchingHolds, ScalingHolds, PTL DEF Spec, Observing

(* The recipe quantizes m, and statically its inputs.                      *)
Configured(model, modifier, m) ==
  /\ modifier.kind \in {"awq", "gptq", "quantization", "autoround"} /\ modifier.has_config
  /\ m \in TargetsOf(model, modifier)

(* Each module that is quantized is given a scale by some modifier, and no *)
(* later one alters the weight and leaves the scale.                       *)
WellScaled(model, recipe) ==
  \A m \in ModulesOf(model) :
    (\E i \in DOMAIN recipe : Configured(model, recipe[i], m))
      => ScaledAmong(model, recipe, Len(recipe), m)

(* Where inputs are quantized statically, some modifier observes them, and *)
(* no later one smooths them or drops what was observed.                   *)
WellWatched(model, recipe) ==
  \A m \in ModulesOf(model) :
    (\E i \in DOMAIN recipe : /\ Configured(model, recipe[i], m)
                              /\ recipe[i].input_observer # "none")
      => WatchedAmong(model, recipe, Len(recipe), m)

(* Who configured a module.                                                *)
LEMMA SchemesAreConfigured ==
  ASSUME Scaling, Independent, pc = "done", NEW m \in Modules, quantization[m].scheme # 0
  PROVE  /\ quantization[m].scheme \in DOMAIN Recipe
         /\ Configured(Model, Recipe[quantization[m].scheme], m)
         /\ m \in ModulesOf(Model) /\ Model \in Models /\ Recipe \in Recipes
<1>1. FrozenModule(m)
  BY DEF Scaling, FrozenSoFar
<1>2. PICK i \in DOMAIN Recipe : i = quantization[m].scheme
  BY <1>1 DEF FrozenModule
<1>3. Recipe[i].has_config /\ Handles(i, m)
  BY <1>1, <1>2 DEF FrozenModule
<1>4. Configured(Model, Recipe[i], m)
  BY <1>3, TakenOfModel DEF Configured, Handles, Quantizes, Kind
<1>5. Model \in Models /\ Recipe \in Recipes
  BY DEF Scaling, Inv, Typed, IsConfig
<1> QED
  BY <1>2, <1>4, <1>5 DEF Modules

(* Whatever the models, the recipe, the routings and the masks: with a     *)
(* pipeline per modifier, in any order, each module that ends up with a    *)
(* scheme is frozen and has no observers (QuantizationMixin's              *)
(* initialize_quantization, start_calibration and end_calibration).        *)
THEOREM QuantizedModulesEndFrozen == Spec => []QuantizationIsFrozen
<1>1. FrozenSoFar => QuantizationIsFrozen
  BY DEF FrozenSoFar, FrozenModule, QuantizationIsFrozen
<1> QED
  BY <1>1, FrozenHolds, PTL

(* The scale of a weight is that of the weight the module is saved with,   *)
(* for each module some batch reaches, if the recipe does not let a later  *)
(* modifier smooth or prune a weight and leave its scale alone (update_    *)
(* weight_zp_scale of QuantizationModifier and AWQ, GPTQ's compress_       *)
(* module_list, AutoRound's apply_autoround).                              *)
THEOREM WeightScalesAreOfTheWeights ==
  ASSUME \A model \in Models, recipe \in Recipes : WellScaled(model, recipe)
  PROVE  Spec => []WeightScalesFit
<1>1. ASSUME Scaling PROVE WeightScalesFit
  <2> SUFFICES ASSUME Independent, pc = "done", NEW m \in Modules,
                      quantization[m].scheme # 0, ReachingBatches(m) # {}
               PROVE  quantization[m].scale = weights[m]
    BY DEF WeightScalesFit
  <2>1. ScaledBy(Len(Recipe), m)
    BY <1>1, SchemesAreConfigured DEF WellScaled, ScaledBy
  <2>2. ScaledModule(m)
    BY <1>1 DEF Scaling, ScaledSoFar
  <2> QED
    BY <2>1, <2>2 DEF ScaledModule
<1> QED
  BY <1>1, ScalingHolds, PTL

(* So all that is saved with a quantized model fits it: also the scale of  *)
(* a module's inputs counts each batch that reaches it once, or the last   *)
(* for a memoryless observer, and without AWQ, of inputs scaled as they    *)
(* are in the end (the hooks of QuantizationMixin and calibrate_           *)
(* activations).  Mappings have to name all readers of what they smooth,   *)
(* with hooks that run with them, and the recipe has to observe inputs     *)
(* after it smooths them.                                                  *)
THEOREM SavedScalesFit ==
  ASSUME \A model \in Models : Balanced(model) /\ HooksMeetMappings(model),
         \A model \in Models, recipe \in Recipes :
           WellScaled(model, recipe) /\ WellWatched(model, recipe)
  PROVE  Spec => []ScalesFitTheModel
<1>1. ASSUME Observing PROVE InputScalesFit
  <2> SUFFICES ASSUME Independent, pc = "done", NEW m \in Modules, quantization[m].scheme # 0,
                      HasStaticInputs(m), ReachingBatches(m) # {}
               PROVE  /\ FitsInputs(m, ReachingBatches(m))
                      /\ NoAWQ => \A n \in DOMAIN quantization[m].inputs :
                                    quantization[m].inputs[n].scale = weights[m].mul
    BY DEF InputScalesFit, NoAWQ
  <2>1. WatchedBy(Len(Recipe), m)
    <3>1. PICK i \in DOMAIN Recipe : i = quantization[m].scheme /\ Configured(Model, Recipe[i], m)
      BY <1>1, SchemesAreConfigured DEF Observing
    <3>2. Recipe[i].input_observer # "none"
      BY <3>1 DEF HasStaticInputs, InputObserver
    <3> QED
      BY <1>1, <3>1, <3>2, SchemesAreConfigured DEF WellWatched, WatchedBy, Observing
  <2>2. ObservedModule(m)
    BY <1>1 DEF Observing, InputsSoFar
  <2>3. ObservedOnAll(m)
    BY <2>1, <2>2 DEF ObservedModule
  <2> QED
    BY <2>3 DEF ObservedOnAll, Listed, FitsInputs, BatchesOf, InputsAreCurrent
<1>2. \A model \in Models, recipe \in Recipes : WellScaled(model, recipe)
  OBVIOUS
<1> QED
  BY <1>1, <1>2, ObservingHolds, QuantizedModulesEndFrozen, WeightScalesAreOfTheWeights, PTL
     DEF ScalesFitTheModel

-----------------------------------------------------------------------------
(* Mappings are applied.  Applying counts, per mapping, what has been      *)
(* observed of it so far; once the event after the pass that runs it has   *)
(* been handled it has its one entry in the log, before that none.         *)

IsSmoother(i) == Kind(i) \in {"awq", "smoothquant"}

IsList(l) == \E S : l \in Seq(S)

(* A module that subgraphs call is one node of the traced graph and runs   *)
(* as a whole in one subgraph; the hooked module is the parent's (looked   *)
(* up from it by _set_resolved_mappings).                                  *)
ParentsRunAsOne(model) ==
  \A k \in DOMAIN model.mappings :
    LET mapping == model.mappings[k]
        parent == Parent(model, mapping)
    IN  mapping.balance # <<>> =>
          /\ AWQHook(mapping) \subseteq parent /\ parent \subseteq ModulesOf(model)
          /\ IsCalled(model, parent, TRUE) => \A a, b \in parent : model.subgraph[a] = model.subgraph[b]

(* What is hooked for a mapping, and when it runs.                         *)
Hooked(i, k) == IF Kind(i) = "awq" THEN AWQHook(Mapping(k)) ELSE {Mapping(k).smooth}

RunsIn(i, k) == Model.subgraph[CHOOSE m \in Hooked(i, k) : TRUE]

Here(i, k) == Sequential => RunsIn(i, k) = subgraph

(* Each modifier with a turn is called in the passes.                      *)
Attending ==
  /\ pc = "start" => \A j \in Active : j < handler => j \in live
  /\ pc \in Passing \cup {"enter"} => Active \subseteq live

ArgsAreKept ==
  \A i \in DOMAIN Recipe : \A p \in DOMAIN parent_args[i] :
    IsList(parent_args[i][p]) /\ parent_args[i][p] # <<>>

(* Statistics of these batches and no others.                              *)
Complete(st, batches) ==
  /\ st.batches \in Seq(Nat) /\ InOrder(st.batches, batches)
  /\ batches # {} /\ Min(batches) \notin config.masked => st.finite

(* The event after the pass that runs what is hooked has been handled.     *)
Closing == IF Sequential THEN "subgraph_end" ELSE "end"

Past(i, k) ==
  \/ pc \in {"finalize", "done"}
  \/ Independent /\ i < turn
  \/ /\ i \in Active
     /\ \/ pc = "end" /\ Sequential
        \/ pc = Closing /\ Here(i, k) /\ i < handler
        \/ pc = "propagate" /\ Here(i, k)
        \/ pc \in Passing /\ Sequential /\ RunsIn(i, k) < subgraph

(* Until then the statistics are of the batches that have passed.          *)
Collecting(i) == i \in Active /\ (pc = "calibrate" \/ (pc = Closing /\ handler <= i))

Collected(i, k) == {b \in Reaching(i, k) : Here(i, k) /\ (pc = "calibrate" => b < batch)}

HasCollected(i, k) ==
  LET s == Mapping(k).smooth
      batches == Collected(i, k)
  IN  /\ s \in DOMAIN statistics[i] <=> batches # {}
      /\ batches # {} => Complete(statistics[i][s], batches) /\ HasOutputs(i, k)

EntriesOf(l, i, k) == {n \in DOMAIN l : l[n].modifier = i /\ l[n].mapping = k}

HasEntry(l, i, k, st) == \E n : EntriesOf(l, i, k) = {n} /\ l[n].statistics = st

SmoothedOnce(i, k) == \E st : Complete(st, Reaching(i, k)) /\ HasEntry(log, i, k, st)

MappingSoFar(i, k) ==
  /\ IF Past(i, k) THEN SmoothedOnce(i, k) ELSE EntriesOf(log, i, k) = {}
  /\ Collecting(i) => HasCollected(i, k)

IsApplicable(i, k) ==
  IsSmoother(i) /\ k \in Resolved(i) /\ IsSearchable(i, k) /\ Reaching(i, k) # {}

Applying ==
  /\ config.pipeline # "datafree" /\ ParentsRunAsOne(Model)
  /\ pc # "raised" =>
       /\ Attending /\ ArgsAreKept /\ IsList(log)
       /\ \A i \in DOMAIN Recipe, k \in DOMAIN Model.mappings :
            IsApplicable(i, k) => MappingSoFar(i, k)

-----------------------------------------------------------------------------
(* What is asked of a mapping does not change.                             *)
LEMMA RequestStays ==
  ASSUME config' = config, NEW i, NEW k
  PROVE  /\ IsApplicable(i, k)' <=> IsApplicable(i, k)
         /\ Reaching(i, k)' = Reaching(i, k) /\ RunsIn(i, k)' = RunsIn(i, k)
         /\ Mapping(k)' = Mapping(k) /\ Kind(i)' = Kind(i)
         /\ \A st, batches : Complete(st, batches)' <=> Complete(st, batches)
<1>1. Model' = Model /\ Recipe' = Recipe
  BY DEF Model, Recipe
<1>2. /\ Mapping(k)' = Mapping(k) /\ Kind(i)' = Kind(i) /\ Targets(i)' = Targets(i)
      /\ Batches' = Batches
  BY <1>1 DEF Mapping, Kind, Targets, Batches
<1>3. Resolved(i)' = Resolved(i) /\ Hooked(i, k)' = Hooked(i, k) /\ Reaching(i, k)' = Reaching(i, k)
  BY <1>1, <1>2 DEF Resolved, Hooked, Reaching
<1>4. RunsIn(i, k)' = RunsIn(i, k) /\ (IsSearchable(i, k)' <=> IsSearchable(i, k))
  BY <1>1, <1>2, <1>3 DEF RunsIn, IsSearchable
<1>5. \A st, batches : Complete(st, batches)' <=> Complete(st, batches)
  BY DEF Complete
<1> QED
  BY <1>2, <1>3, <1>4, <1>5 DEF IsApplicable, IsSmoother

(* What is hooked runs in one subgraph, and the parent with it.            *)
LEMMA HookedFacts ==
  ASSUME Typed, ParentsRunAsOne(Model), NEW i \in DOMAIN Recipe, NEW k \in DOMAIN Model.mappings,
         IsApplicable(i, k)
  PROVE  /\ Mapping(k).smooth \in Modules
         /\ Hooked(i, k) \subseteq Modules /\ Hooked(i, k) # {}
         /\ Reaching(i, k) = {b \in Batches : Hooked(i, k) \cap config.reached[b] # {}}
         /\ Kind(i) = "awq" =>
              LET parent == Parent(Model, Mapping(k))
              IN  /\ Hooked(i, k) \subseteq parent /\ parent \subseteq Modules
                  /\ IsCalled(Model, Hooked(i, k), Sequential) /\ IsCalled(Model, parent, Sequential)
                  /\ Sequential => \A m \in parent : Model.subgraph[m] = RunsIn(i, k)
         /\ Sequential => /\ \A m \in Hooked(i, k) : Model.subgraph[m] = RunsIn(i, k)
                          /\ RunsIn(i, k) \in Nat \ {0} /\ NumSubgraphs \in Nat
                          /\ RunsIn(i, k) <= NumSubgraphs
<1>1. /\ Mapping(k) \in [smooth : Modules, balance : Seq(Modules), hook : SUBSET Modules]
      /\ ToSet(Mapping(k).balance) \subseteq Modules /\ Mapping(k).balance # <<>>
      /\ Model.subgraph \in [Modules -> Nat \ {0}]
  BY ModelFacts DEF Typed, IsApplicable
<1>2. PICK parent : parent = Parent(Model, Mapping(k))
  OBVIOUS
<1>3. PICK hook : hook = AWQHook(Mapping(k))
  OBVIOUS
<1>4. hook # {} /\ hook \subseteq parent /\ parent \subseteq Modules
  <2>1. hook # {}
    BY <1>3 DEF AWQHook
  <2>2. hook \subseteq parent /\ parent \subseteq Modules
    BY <1>1, <1>2, <1>3 DEF ParentsRunAsOne, Mapping, Modules
  <2> QED
    BY <2>1, <2>2
<1>5. Mapping(k).smooth \in Modules
  BY <1>1
<1>6. /\ Hooked(i, k) \subseteq Modules /\ Hooked(i, k) # {}
      /\ Kind(i) = "awq" => Hooked(i, k) = hook
  BY <1>3, <1>4, <1>5 DEF Hooked
<1>7. Reaching(i, k) = {b \in Batches : Hooked(i, k) \cap config.reached[b] # {}}
  BY DEF Reaching, Hooked
<1>8. PICK chosen \in Hooked(i, k) : RunsIn(i, k) = Model.subgraph[chosen]
  BY <1>6 DEF RunsIn
<1>9. ASSUME Kind(i) = "awq"
      PROVE  /\ IsCalled(Model, hook, Sequential) /\ IsCalled(Model, parent, Sequential)
             /\ Sequential => \A m \in parent : Model.subgraph[m] = Model.subgraph[chosen]
  <2>1. /\ IsCalled(Model, hook, config.pipeline # "basic")
        /\ IsCalled(Model, parent, config.pipeline # "basic")
    BY <1>2, <1>3, <1>9 DEF IsApplicable, IsSearchable
  <2>2. CASE Sequential
    <3>1. config.pipeline # "basic"
      BY <2>2 DEF Sequential, Pipeline, Independent
    <3>2. IsCalled(Model, hook, TRUE) /\ IsCalled(Model, parent, TRUE)
      BY <2>1, <3>1 DEF IsCalled
    <3>3. \A m \in parent : Model.subgraph[m] = Model.subgraph[chosen]
      <4>1. \A a, b \in parent : Model.subgraph[a] = Model.subgraph[b]
        BY <1>1, <1>2, <3>2 DEF ParentsRunAsOne, Mapping
      <4> QED
        BY <1>4, <1>6, <1>9, <4>1
    <3> QED
      BY <2>2, <3>2, <3>3 DEF IsCalled
  <2>3. CASE ~Sequential
    BY <2>3 DEF IsCalled
  <2> QED
    BY <2>2, <2>3
<1>10. ASSUME Sequential
       PROVE  /\ \A m \in Hooked(i, k) : Model.subgraph[m] = Model.subgraph[chosen]
              /\ Model.subgraph[chosen] \in Nat \ {0} /\ NumSubgraphs \in Nat
              /\ Model.subgraph[chosen] <= NumSubgraphs
  <2>1. \A m \in Hooked(i, k) : Model.subgraph[m] = Model.subgraph[chosen]
    BY <1>4, <1>6, <1>9, <1>10 DEF Hooked
  <2> QED
    BY <1>1, <1>6, <1>10, <2>1, LastSubgraph
<1> QED
  BY <1>2, <1>4, <1>5, <1>6, <1>7, <1>8, <1>9, <1>10

(* One more batch is counted.                                              *)
LEMMA OneMoreBatch ==
  ASSUME NEW S \in SUBSET Nat, NEW b \in Nat, \A x \in S : x < b,
         NEW st, IF S = {} THEN st = NoStatistics ELSE Complete(st, S),
         NEW tokens \in {0, 1}, b \notin config.masked => tokens = 1
  PROVE  Complete(AccumulateMean(st, b, tokens), S \cup {b})
<1>1. PICK s \in Seq(Nat) : s = st.batches /\ InOrder(s, S)
  <2>1. CASE S = {}
    <3>1. st.batches = <<>>
      BY <2>1 DEF NoStatistics
    <3>2. InOrder(<<>>, {})
      BY DEF InOrder, ToSet
    <3>3. <<>> \in Seq(Nat)
      OBVIOUS
    <3> QED
      BY <2>1, <3>1, <3>2, <3>3
  <2>2. CASE S # {}
    BY <2>2 DEF Complete
  <2> QED
    BY <2>1, <2>2
<1>2. PICK n \in Nat : n = Len(s) /\ DOMAIN s = 1 .. n
  BY <1>1
<1>3. PICK t : t = Append(s, b)
  OBVIOUS
<1>4. /\ DOMAIN t = 1 .. n + 1 /\ t[n + 1] = b
      /\ \A j \in 1 .. n : t[j] = s[j]
      /\ t \in Seq(Nat)
  BY <1>1, <1>2, <1>3
<1>5. 1 .. n + 1 = 1 .. n \cup {n + 1} /\ n + 1 \notin 1 .. n
  BY <1>2
<1>6. ToSet(t) = S \cup {b}
  <2>1. S = {s[j] : j \in 1 .. n}
    BY <1>1, <1>2 DEF InOrder, ToSet
  <2>2. ToSet(t) = {t[j] : j \in 1 .. n + 1}
    BY <1>4 DEF ToSet
  <2> QED
    BY <1>4, <1>5, <2>1, <2>2
<1>7. ASSUME NEW i \in 1 .. n + 1, NEW j \in 1 .. n + 1, i < j PROVE t[i] < t[j]
  <2>1. i \in 1 .. n
    BY <1>7
  <2>2. CASE j \in 1 .. n
    BY <1>1, <1>2, <1>4, <1>7, <2>1, <2>2 DEF InOrder
  <2>3. CASE j = n + 1
    BY <1>1, <1>2, <1>4, <2>1, <2>3 DEF InOrder, ToSet
  <2> QED
    BY <1>5, <2>2, <2>3
<1>8. InOrder(t, S \cup {b})
  BY <1>4, <1>6, <1>7 DEF InOrder
<1>9. PICK after : after = AccumulateMean(st, b, tokens)
  OBVIOUS
<1>10. after.batches = t /\ (st.finite /\ (s # <<>> \/ tokens > 0) => after.finite)
  BY <1>1, <1>3, <1>9 DEF AccumulateMean
<1>11. ASSUME Min(S \cup {b}) \notin config.masked PROVE after.finite
  <2>1. CASE S = {}
    <3>1. PICK T : T = S \cup {b}
      OBVIOUS
    <3>2. T = {b}
      BY <2>1, <3>1
    <3>3. Min(T) \in T
      BY <3>2, MinOfSet
    <3>4. tokens > 0 /\ st.finite
      BY <1>11, <2>1, <3>1, <3>2, <3>3 DEF NoStatistics
    <3> QED
      BY <1>10, <3>4
  <2>2. CASE S # {}
    <3>1. PICK T : T = S \cup {b}
      OBVIOUS
    <3>2. Min(T) \in T /\ Min(S) \in S /\ (\A x \in T : Min(T) <= x) /\ (\A x \in S : Min(S) <= x)
      <4>1. T \subseteq Nat /\ T # {} /\ S \subseteq Nat
        BY <3>1
      <4> QED
        BY <2>2, <4>1, MinOfSet
    <3>3. Min(T) = Min(S)
      <4>1. Min(S) < b /\ Min(S) \in Nat /\ Min(T) \in Nat /\ Min(T) <= Min(S)
        BY <3>1, <3>2
      <4>2. Min(T) \in S
        BY <3>1, <3>2, <4>1
      <4> QED
        BY <3>2, <4>1, <4>2
    <3>4. st.finite
      BY <1>11, <2>2, <3>1, <3>3 DEF Complete
    <3>5. s # <<>>
      BY <1>1, <2>2 DEF InOrder, ToSet
    <3> QED
      BY <1>10, <3>4, <3>5
  <2> QED
    BY <2>1, <2>2
<1> QED
  BY <1>4, <1>8, <1>9, <1>10, <1>11 DEF Complete

(* Nothing or one entry is appended to a log.                              *)
SameEntries(l, f, i, k) ==
  /\ EntriesOf(f, i, k) = EntriesOf(l, i, k)
  /\ \A n \in EntriesOf(l, i, k) : f[n] = l[n]

LEMMA EntryAppended ==
  ASSUME NEW l, IsList(l), NEW entry, NEW f, f = Append(l, entry), NEW i, NEW k
  PROVE  /\ IsList(f)
         /\ ~(entry.modifier = i /\ entry.mapping = k) => SameEntries(l, f, i, k)
         /\ entry.modifier = i /\ entry.mapping = k /\ EntriesOf(l, i, k) = {}
              => HasEntry(f, i, k, entry.statistics)
<1>1. PICK S : l \in Seq(S)
  BY DEF IsList
<1>2. PICK T : T = S \cup {entry}
  OBVIOUS
<1>3. l \in Seq(T) /\ entry \in T
  BY <1>1, <1>2, SeqMonotonic
<1>4. f \in Seq(T)
  BY <1>3
<1>5. PICK n \in Nat : n = Len(l) /\ DOMAIN l = 1 .. n
  BY <1>3
<1>6. DOMAIN f = 1 .. n + 1 /\ f[n + 1] = entry /\ \A j \in 1 .. n : f[j] = l[j]
  BY <1>3, <1>5
<1>7. 1 .. n + 1 = 1 .. n \cup {n + 1} /\ n + 1 \notin 1 .. n
  BY <1>5
<1>8. EntriesOf(f, i, k) = EntriesOf(l, i, k)
        \cup (IF entry.modifier = i /\ entry.mapping = k THEN {n + 1} ELSE {})
  BY <1>5, <1>6, <1>7 DEF EntriesOf
<1>9. \A j \in EntriesOf(l, i, k) : f[j] = l[j]
  BY <1>5, <1>6 DEF EntriesOf
<1>10. IsList(f)
  BY <1>4 DEF IsList
<1>11. ASSUME entry.modifier = i, entry.mapping = k, EntriesOf(l, i, k) = {}
       PROVE  HasEntry(f, i, k, entry.statistics)
  BY <1>6, <1>8, <1>11 DEF HasEntry
<1> QED
  BY <1>8, <1>9, <1>10, <1>11 DEF SameEntries

LEMMA SameEntriesCompose ==
  ASSUME NEW l, NEW f, NEW g, NEW i, NEW k, SameEntries(l, f, i, k), SameEntries(f, g, i, k)
  PROVE  SameEntries(l, g, i, k)
BY DEF SameEntries

LEMMA EntryStays ==
  ASSUME NEW l, NEW f, NEW i, NEW k, SameEntries(l, f, i, k)
  PROVE  /\ EntriesOf(l, i, k) = {} => EntriesOf(f, i, k) = {}
         /\ \A st : HasEntry(l, i, k, st) => HasEntry(f, i, k, st)
BY DEF SameEntries, HasEntry

(* A modifier logs the mappings it applies, once each.                     *)
Logs(i, k, x) == x = i /\ IsSmoother(i) /\ Applies(i, k)

LEMMA SmoothedLog ==
  ASSUME Typed, IsList(log), NEW i, NEW x, NEW k \in Nat \ {0}
  PROVE  LET after == SmoothedBy(i).log
         IN  /\ IsList(after)
             /\ ~(x = i /\ Applies(i, k)) => SameEntries(log, after, x, k)
             /\ x = i /\ Applies(i, k) /\ EntriesOf(log, i, k) = {}
                  => HasEntry(after, i, k, statistics[i][Mapping(k).smooth])
<1>1. PICK n \in Nat : n = Len(Model.mappings)
  BY ModelFacts DEF Typed
<1>2. PICK After : /\ After[0] = Start
                   /\ \A j \in 1 .. n : After[j] = Step(i, j, After[j - 1])
                   /\ SmoothedBy(i) = After[n]
  BY <1>1, SmoothingSteps
<1> DEFINE Logged(j) == x = i /\ Applies(i, k) /\ k <= j
           Right(j, l) == /\ IsList(l)
                          /\ ~Logged(j) => SameEntries(log, l, x, k)
                          /\ Logged(j) /\ EntriesOf(log, i, k) = {}
                               => HasEntry(l, i, k, statistics[i][Mapping(k).smooth])
<1>3. PICK S : S = {j \in 0 .. n : Right(j, After[j].log)}
  OBVIOUS
<1>4. 0 \in S
  <2>1. After[0].log = log /\ ~Logged(0)
    BY <1>2 DEF Start
  <2>2. Right(0, After[0].log)
    BY <2>1 DEF SameEntries
  <2> HIDE DEF Right
  <2> QED
    BY <1>1, <1>3, <2>2
<1>5. ASSUME NEW j \in 0 .. n, j \in S, j < n PROVE j + 1 \in S
  <2>1. j + 1 \in 1 .. n /\ (j + 1) - 1 = j /\ j + 1 \in 0 .. n
    BY <1>5
  <2>2. PICK m : m = j + 1
    OBVIOUS
  <2>3. PICK before : before = After[j]
    OBVIOUS
  <2>4. After[m] = Step(i, m, before)
    BY <1>2, <2>1, <2>2, <2>3
  <2>5. Right(j, before.log)
    BY <1>3, <1>5, <2>3
  <2>6. Right(m, After[m].log)
    <3>1. CASE ~Applies(i, m)
      <4>1. After[m].log = before.log
        BY <2>4, <3>1 DEF Step
      <4>2. Logged(m) <=> Logged(j)
        <5>1. Applies(i, k) => k # m
          BY <3>1
        <5>2. k # m => (k <= m <=> k <= j)
          BY <1>5, <2>2
        <5> QED
          BY <5>1, <5>2
      <4> HIDE DEF Logged
      <4> QED
        BY <2>5, <4>1, <4>2
    <3>2. CASE Applies(i, m)
      <4>1. PICK entry : entry = LogEntry(i, m, before.weights)
        OBVIOUS
      <4>2. After[m].log = Append(before.log, entry)
        BY <2>4, <3>2, <4>1 DEF Step
      <4>3. /\ entry.modifier = i /\ entry.mapping = m
            /\ entry.statistics = statistics[i][Mapping(m).smooth]
        BY <4>1 DEF LogEntry
      <4>4. IsList(before.log)
        BY <2>5
      <4>5. /\ IsList(After[m].log)
            /\ ~(i = x /\ m = k) => SameEntries(before.log, After[m].log, x, k)
            /\ i = x /\ m = k /\ EntriesOf(before.log, x, k) = {}
                 => HasEntry(After[m].log, x, k, entry.statistics)
        BY <4>2, <4>3, <4>4, EntryAppended
      <4>6. CASE i = x /\ m = k
        <5>1. ~Logged(j) /\ Logged(m)
          BY <1>5, <2>2, <3>2, <4>6
        <5>2. SameEntries(log, before.log, x, k)
          BY <2>5, <5>1
        <5>3. EntriesOf(log, i, k) = {} => HasEntry(After[m].log, i, k, statistics[i][Mapping(k).smooth])
          BY <4>3, <4>5, <4>6, <5>2, EntryStays
        <5> HIDE DEF Logged
        <5> QED
          BY <4>5, <5>1, <5>3
      <4>7. CASE ~(i = x /\ m = k)
        <5>1. Logged(m) <=> Logged(j)
          <6>1. x = i => (k <= m <=> k <= j)
            BY <1>5, <2>2, <4>7
          <6> QED
            BY <6>1
        <5>2. SameEntries(before.log, After[m].log, x, k)
          BY <4>5, <4>7
        <5>3. ~Logged(j) => SameEntries(log, After[m].log, x, k)
          <6> HIDE DEF Logged
          <6> QED
            BY <2>5, <5>2, SameEntriesCompose
        <5>4. Logged(j) /\ EntriesOf(log, i, k) = {}
                => HasEntry(After[m].log, i, k, statistics[i][Mapping(k).smooth])
          <6>1. SUFFICES ASSUME Logged(j), EntriesOf(log, i, k) = {}
                         PROVE  HasEntry(After[m].log, i, k, statistics[i][Mapping(k).smooth])
            OBVIOUS
          <6>2. x = i /\ HasEntry(before.log, i, k, statistics[i][Mapping(k).smooth])
            BY <2>5, <6>1
          <6> HIDE DEF Logged
          <6> QED
            BY <5>2, <6>2, EntryStays
        <5> HIDE DEF Logged
        <5> QED
          BY <4>5, <5>1, <5>3, <5>4
      <4> QED
        BY <4>6, <4>7
    <3> QED
      BY <3>1, <3>2
  <2> HIDE DEF Right
  <2> QED
    BY <1>3, <2>1, <2>2, <2>6
<1>6. n \in S
  <2>1. 0 .. n \subseteq S
    BY <1>4, <1>5, UpToN
  <2> QED
    BY <2>1
<1>7. Right(n, SmoothedBy(i).log)
  <2> HIDE DEF Right
  <2> QED
    BY <1>2, <1>3, <1>6
<1>8. Applies(i, k) => k <= n
  <2>1. Resolved(i) \subseteq 1 .. n
    BY <1>1, ModelFacts DEF Typed
  <2> QED
    BY <2>1 DEF Applies, IsSmoothed
<1> QED
  BY <1>7, <1>8

LEMMA UpdatedLog ==
  ASSUME Typed, IsList(log), NEW i, NEW x, NEW k \in Nat \ {0}
  PROVE  LET after == Updated(i).log
         IN  /\ IsList(after)
             /\ ~Logs(i, k, x) => SameEntries(log, after, x, k)
             /\ Logs(i, k, x) /\ EntriesOf(log, i, k) = {}
                  => HasEntry(after, i, k, statistics[i][Mapping(k).smooth])
<1>1. PICK after : after = Updated(i).log
  OBVIOUS
<1>2. CASE IsSmoother(i)
  <2>1. after = SmoothedBy(i).log
    BY <1>1, <1>2 DEF IsSmoother, Updated
  <2> QED
    BY <1>1, <1>2, <2>1, SmoothedLog DEF Logs
<1>3. CASE ~IsSmoother(i)
  <2>1. \/ after = log
        \/ \E entry : entry.mapping = 0 /\ after = Append(log, entry)
    <3>1. CASE Kind(i) \in {"gptq", "pruning"}
      <4>1. PICK entry : entry = [modifier |-> i, mapping |-> 0, statistics |-> NoStatistics,
                                  sound |-> \A m \in DOMAIN hessians[i] :
                                              hessians[i][m] = {weights[m].mul}]
        OBVIOUS
      <4>2. entry.mapping = 0
        BY <4>1
      <4>3. after = log \/ after = Append(log, entry)
        BY <1>1, <3>1, <4>1 DEF Updated, CompressedBy
      <4> QED
        BY <4>2, <4>3
    <3>2. CASE Kind(i) = "autoround"
      <4>1. PICK entry : entry = [modifier |-> i, mapping |-> 0, statistics |-> NoStatistics,
                                  sound |-> \A t \in DOMAIN parent_args[i] :
                                              SearchesOnTheModel(weights, t, parent_args[i][t])]
        OBVIOUS
      <4>2. entry.mapping = 0
        BY <4>1
      <4>3. after = log \/ after = Append(log, entry)
        BY <1>1, <3>2, <4>1 DEF Updated, TunedBy
      <4> QED
        BY <4>2, <4>3
    <3>3. CASE Kind(i) \notin {"gptq", "pruning", "autoround"}
      BY <1>1, <1>3, <3>3 DEF Updated, IsSmoother
    <3> QED
      BY <3>1, <3>2, <3>3
  <2>2. CASE after = log
    BY <1>1, <1>3, <2>2 DEF Logs, SameEntries
  <2>3. ASSUME NEW entry, entry.mapping = 0, after = Append(log, entry)
        PROVE  IsList(after) /\ SameEntries(log, after, x, k)
    <3>1. entry.mapping # k
      BY <2>3
    <3> QED
      BY <2>3, <3>1, EntryAppended
  <2> QED
    BY <1>1, <1>3, <2>1, <2>2, <2>3 DEF Logs
<1> QED
  BY <1>2, <1>3

(* A batch is counted when it runs what is hooked, and then the parent.    *)
HooksRun(i, k) == Here(i, k) /\ batch \in Reaching(i, k)

LEMMA HooksRunHere ==
  ASSUME Typed, ParentsRunAsOne(Model), NEW i \in DOMAIN Recipe, NEW k \in DOMAIN Model.mappings,
         IsApplicable(i, k)
  PROVE  /\ HooksRun(i, k) <=> IF Kind(i) = "awq" THEN Runs(AWQHook(Mapping(k)))
                                                 ELSE Mapping(k).smooth \in Ran
         /\ Kind(i) = "awq" /\ HooksRun(i, k) => Runs(Parent(Model, Mapping(k)))
<1>1. PICK hooked : hooked = Hooked(i, k)
  OBVIOUS
<1>2. /\ hooked \subseteq Modules /\ hooked # {} /\ batch \in Batches
      /\ Reaching(i, k) = {b \in Batches : hooked \cap config.reached[b] # {}}
      /\ Sequential => \A m \in hooked : Model.subgraph[m] = RunsIn(i, k)
  BY <1>1, HookedFacts DEF Typed
<1>3. Running = {m \in Modules : Sequential => Model.subgraph[m] = subgraph}
      /\ Ran = Running \cap config.reached[batch]
  BY DEF Running, Ran
<1>4. Here(i, k) <=> hooked \subseteq Running
  BY <1>2, <1>3 DEF Here
<1>5. hooked \subseteq Running => (hooked \cap Ran # {} <=> batch \in Reaching(i, k))
  BY <1>2, <1>3
<1>6. HooksRun(i, k) <=> hooked \subseteq Running /\ hooked \cap Ran # {}
  BY <1>4, <1>5 DEF HooksRun
<1>7. CASE Kind(i) = "awq"
  <2>1. hooked = AWQHook(Mapping(k))
    BY <1>1, <1>7 DEF Hooked
  <2>2. PICK parent : parent = Parent(Model, Mapping(k))
    OBVIOUS
  <2>3. /\ hooked \subseteq parent /\ parent \subseteq Modules
        /\ IsCalled(Model, hooked, Sequential) /\ IsCalled(Model, parent, Sequential)
        /\ Sequential => \A m \in parent : Model.subgraph[m] = RunsIn(i, k)
    BY <1>1, <1>7, <2>2, HookedFacts
  <2>4. Here(i, k) => parent \subseteq Running
    BY <1>3, <2>3 DEF Here
  <2>5. HooksRun(i, k) <=> Runs(hooked)
    BY <1>6, <2>3 DEF Runs
  <2>6. HooksRun(i, k) => Runs(parent)
    BY <1>4, <1>6, <2>3, <2>4 DEF Runs
  <2> QED
    BY <1>7, <2>1, <2>2, <2>5, <2>6
<1>8. CASE Kind(i) # "awq"
  <2>1. hooked = {Mapping(k).smooth}
    BY <1>1, <1>8 DEF Hooked
  <2>2. HooksRun(i, k) <=> Mapping(k).smooth \in Ran
    BY <1>3, <1>6, <2>1
  <2> QED
    BY <1>8, <2>2
<1> QED
  BY <1>7, <1>8

LEMMA StatisticsOfMapping ==
  ASSUME Typed, ParentsRunAsOne(Model), NEW i \in DOMAIN Recipe, NEW k \in DOMAIN Model.mappings,
         IsApplicable(i, k)
  PROVE  LET s == Mapping(k).smooth
         IN  /\ s \in DOMAIN Observed(i) <=> s \in DOMAIN statistics[i] \/ HooksRun(i, k)
             /\ HooksRun(i, k) =>
                  Observed(i)[s] = AccumulateMean(Get(statistics[i], s, NoStatistics), batch,
                                                  IF Kind(i) = "awq" THEN Tokens ELSE 1)
             /\ s \in DOMAIN statistics[i] /\ ~HooksRun(i, k) => Observed(i)[s] = statistics[i][s]
<1>1. PICK s : s = Mapping(k).smooth
  OBVIOUS
<1>2. PICK hooked : hooked = {j \in Resolved(i) : IF Kind(i) = "awq" THEN Runs(AWQHook(Mapping(j)))
                                                                    ELSE Mapping(j).smooth \in Ran}
  OBVIOUS
<1>3. PICK smooth : smooth = {Mapping(j).smooth : j \in hooked}
  OBVIOUS
<1>4. PICK tokens : tokens = IF Kind(i) = "awq" THEN Tokens ELSE 1
  OBVIOUS
<1>5. Observed(i) = [r \in DOMAIN statistics[i] \cup smooth |->
         LET before == Get(statistics[i], r, NoStatistics)
         IN  IF r \notin smooth THEN before ELSE AccumulateMean(before, batch, tokens)]
  BY <1>2, <1>3, <1>4 DEF Observed
<1>6. s \in smooth <=> HooksRun(i, k)
  <2>1. k \in hooked <=> HooksRun(i, k)
    BY <1>2, HooksRunHere DEF IsApplicable
  <2>2. ASSUME NEW j \in hooked, s = Mapping(j).smooth PROVE j = k
    <3>1. j \in DOMAIN Model.mappings
      BY <1>2, ModelFacts DEF Typed
    <3> QED
      BY <1>1, <2>2, <3>1, MappingsAssumption DEF Typed, IsConfig, Mapping
  <2> QED
    BY <1>1, <1>3, <2>1, <2>2
<1>7. ASSUME HooksRun(i, k)
      PROVE  Observed(i)[s] = AccumulateMean(Get(statistics[i], s, NoStatistics), batch, tokens)
  BY <1>5, <1>6, <1>7
<1>8. ASSUME s \in DOMAIN statistics[i], ~HooksRun(i, k) PROVE Observed(i)[s] = statistics[i][s]
  BY <1>5, <1>6, <1>8 DEF Get
<1>9. s \in DOMAIN Observed(i) <=> s \in DOMAIN statistics[i] \/ HooksRun(i, k)
  BY <1>5, <1>6
<1> QED
  BY <1>1, <1>4, <1>7, <1>8, <1>9

LEMMA CachedArgsAreKept ==
  ASSUME NEW i, \A p \in DOMAIN parent_args[i] : IsList(parent_args[i][p]) /\ parent_args[i][p] # <<>>
  PROVE  /\ \A p \in DOMAIN CachedArgs(i) : IsList(CachedArgs(i)[p]) /\ CachedArgs(i)[p] # <<>>
         /\ DOMAIN parent_args[i] \subseteq DOMAIN CachedArgs(i)
         /\ \A k \in Resolved(i) : Kind(i) = "awq" /\ Runs(Parent(Model, Mapping(k)))
              => Parent(Model, Mapping(k)) \in DOMAIN CachedArgs(i)
<1>1. PICK parents : parents = IF Kind(i) = "autoround" THEN DecodingLayers
                               ELSE {Parent(Model, Mapping(k)) : k \in Resolved(i)}
  OBVIOUS
<1>2. PICK run : run = {p \in parents : Runs(p)}
  OBVIOUS
<1>3. CachedArgs(i) = [p \in DOMAIN parent_args[i] \cup run |->
         LET before == Get(parent_args[i], p, <<>>)
         IN  IF p \notin run THEN before
             ELSE Append(before, [m \in EntersAt(p) |-> InputOf(m)])]
  BY <1>1, <1>2 DEF CachedArgs
<1>4. ASSUME NEW p \in DOMAIN parent_args[i] \cup run
      PROVE  IsList(CachedArgs(i)[p]) /\ CachedArgs(i)[p] # <<>>
  <2>1. PICK before : before = Get(parent_args[i], p, <<>>)
    OBVIOUS
  <2>2. PICK new : new = [m \in EntersAt(p) |-> InputOf(m)]
    OBVIOUS
  <2>3. CachedArgs(i)[p] = IF p \notin run THEN before ELSE Append(before, new)
    BY <1>3, <2>1, <2>2
  <2>4. IsList(before)
    <3>1. CASE p \in DOMAIN parent_args[i]
      BY <2>1, <3>1 DEF Get
    <3>2. CASE p \notin DOMAIN parent_args[i]
      <4>1. before = <<>> /\ <<>> \in Seq({})
        BY <2>1, <3>2 DEF Get
      <4> QED
        BY <4>1 DEF IsList
    <3> QED
      BY <3>1, <3>2
  <2>5. IsList(Append(before, new)) /\ Append(before, new) # <<>>
    <3>1. PICK S : before \in Seq(S)
      BY <2>4 DEF IsList
    <3>2. PICK T : T = S \cup {new}
      OBVIOUS
    <3>3. before \in Seq(T) /\ new \in T
      BY <3>1, <3>2, SeqMonotonic
    <3>4. Append(before, new) \in Seq(T) /\ Append(before, new) # <<>>
      BY <3>3, AppendProperties
    <3> QED
      BY <3>4 DEF IsList
  <2>6. p \notin run => before # <<>>
    BY <2>1 DEF Get
  <2> QED
    BY <2>3, <2>4, <2>5, <2>6
<1>5. DOMAIN CachedArgs(i) = DOMAIN parent_args[i] \cup run
  BY <1>3
<1>6. ASSUME NEW k \in Resolved(i), Kind(i) = "awq", Runs(Parent(Model, Mapping(k)))
      PROVE  Parent(Model, Mapping(k)) \in DOMAIN CachedArgs(i)
  BY <1>1, <1>2, <1>5, <1>6
<1> QED
  BY <1>4, <1>5, <1>6

LEMMA OutputsKept ==
  ASSUME NEW i \in DOMAIN Recipe, NEW k, ArgsAreKept
  PROVE  HasOutputs(i, k) <=> (Kind(i) = "awq" => Parent(Model, Mapping(k)) \in DOMAIN parent_args[i])
BY DEF HasOutputs, Get, ArgsAreKept

(* A pass counts its batch.                                                *)
LEMMA Collects ==
  ASSUME Inv, ParentsRunAsOne(Model), Attending, ArgsAreKept, Calibrate, pc' # "raised"
  PROVE  /\ ArgsAreKept'
         /\ \A i \in DOMAIN Recipe, k \in DOMAIN Model.mappings :
              IsApplicable(i, k) /\ i \in Active /\ HasCollected(i, k) => HasCollected(i, k)'
<1>1. /\ UNCHANGED <<config, turn, subgraph, live>> /\ pc = "calibrate"
      /\ statistics' = [i \in DOMAIN Recipe |->
           OnlyKind({"awq", "smoothquant"}, i, Observed(i), statistics[i])]
      /\ parent_args' = [i \in DOMAIN Recipe |->
           OnlyKind({"awq", "autoround"}, i, CachedArgs(i), parent_args[i])]
      /\ IF batch < NumBatches THEN batch' = batch + 1 /\ pc' = "calibrate"
                               ELSE pc' # "calibrate"
  BY DEF Calibrate, Raise
<1>2. /\ Recipe' = Recipe /\ Model' = Model /\ (Sequential' <=> Sequential) /\ Active' = Active
  BY <1>1, Unchanging
<1>3. ArgsAreKept'
  <2> SUFFICES ASSUME NEW i \in DOMAIN Recipe, NEW p \in DOMAIN parent_args'[i]
               PROVE  IsList(parent_args'[i][p]) /\ parent_args'[i][p] # <<>>
    BY <1>2 DEF ArgsAreKept, IsList
  <2>1. \A q \in DOMAIN parent_args[i] : IsList(parent_args[i][q]) /\ parent_args[i][q] # <<>>
    BY DEF ArgsAreKept
  <2>2. parent_args'[i] = CachedArgs(i) \/ parent_args'[i] = parent_args[i]
    BY <1>1 DEF OnlyKind
  <2> QED
    BY <2>1, <2>2, CachedArgsAreKept
<1>4. ASSUME NEW i \in DOMAIN Recipe, NEW k \in DOMAIN Model.mappings,
             IsApplicable(i, k), i \in Active, HasCollected(i, k)
      PROVE  HasCollected(i, k)'
  <2>1. PICK s : s = Mapping(k).smooth
    OBVIOUS
  <2>2. PICK S : S = Collected(i, k)
    OBVIOUS
  <2>3. PICK T : T = S \cup (IF HooksRun(i, k) THEN {batch} ELSE {})
    OBVIOUS
  <2>4. Collected(i, k)' = T
    <3>1. Reaching(i, k)' = Reaching(i, k) /\ (Here(i, k)' <=> Here(i, k))
      BY <1>1, <1>2, RequestStays DEF Here
    <3>2. PICK R : R = Reaching(i, k) /\ R \subseteq Batches
      BY DEF Reaching
    <3>3. \A b \in R : b \in 1 .. NumBatches
      BY <3>2 DEF Batches
    <3>4. batch \in 1 .. NumBatches /\ NumBatches \in Nat
      BY BatchesAssumption DEF Inv, Typed, Batches
    <3>5. \A b \in R : (pc' = "calibrate" => b < batch') <=> b < batch \/ b = batch
      BY <1>1, <3>3, <3>4
    <3>6. T = {b \in R : Here(i, k) /\ (b < batch \/ b = batch)}
      BY <1>1, <2>2, <2>3, <3>2 DEF Collected, HooksRun
    <3> QED
      BY <3>1, <3>2, <3>5, <3>6 DEF Collected
  <2>5. i \in live /\ IsSmoother(i) /\ k \in Resolved(i)
    BY <1>1, <1>4 DEF Attending, Passing, IsApplicable
  <2>6. statistics'[i] = Observed(i)
    BY <1>1, <2>5 DEF OnlyKind, IsSmoother
  <2>7. Kind(i) = "awq" => parent_args'[i] = CachedArgs(i)
    BY <1>1, <2>5 DEF OnlyKind
  <2>8. /\ s \in DOMAIN statistics[i] <=> S # {}
        /\ S # {} => Complete(statistics[i][s], S) /\ HasOutputs(i, k)
    BY <1>4, <2>1, <2>2 DEF HasCollected
  <2>9. PICK tokens : tokens = IF Kind(i) = "awq" THEN Tokens ELSE 1
    OBVIOUS
  <2>10. /\ s \in DOMAIN statistics'[i] <=> s \in DOMAIN statistics[i] \/ HooksRun(i, k)
         /\ HooksRun(i, k) => statistics'[i][s]
              = AccumulateMean(Get(statistics[i], s, NoStatistics), batch, tokens)
         /\ s \in DOMAIN statistics[i] /\ ~HooksRun(i, k) => statistics'[i][s] = statistics[i][s]
    BY <1>4, <2>1, <2>6, <2>9, StatisticsOfMapping DEF Inv
  <2>11. HasOutputs(i, k)' <=> (Kind(i) = "awq" => Parent(Model, Mapping(k)) \in DOMAIN parent_args'[i])
    <3>1. Kind(i)' = Kind(i) /\ Mapping(k)' = Mapping(k)
      BY <1>1, RequestStays
    <3>2. parent_args'[i] = parent_args'[i] /\ \A p \in DOMAIN parent_args'[i] : parent_args'[i][p] # <<>>
      BY <1>2, <1>3 DEF ArgsAreKept
    <3> QED
      BY <1>2, <3>1, <3>2 DEF HasOutputs, Get
  <2>12. T # {} => HasOutputs(i, k)'
    <3> SUFFICES ASSUME T # {}, Kind(i) = "awq"
                 PROVE  Parent(Model, Mapping(k)) \in DOMAIN CachedArgs(i)
      BY <2>7, <2>11
    <3>1. /\ DOMAIN parent_args[i] \subseteq DOMAIN CachedArgs(i)
          /\ Runs(Parent(Model, Mapping(k))) => Parent(Model, Mapping(k)) \in DOMAIN CachedArgs(i)
      BY <2>5, CachedArgsAreKept DEF ArgsAreKept
    <3>2. CASE HooksRun(i, k)
      BY <1>4, <3>1, <3>2, HooksRunHere DEF Inv
    <3>3. CASE ~HooksRun(i, k)
      BY <2>3, <2>8, <3>1, <3>3, OutputsKept
    <3> QED
      BY <3>2, <3>3
  <2>13. T # {} => Complete(statistics'[i][s], T)
    <3>1. CASE HooksRun(i, k)
      <4>1. PICK st : st = Get(statistics[i], s, NoStatistics)
        OBVIOUS
      <4>2. IF S = {} THEN st = NoStatistics ELSE Complete(st, S)
        BY <2>8, <4>1 DEF Get
      <4>3. S \in SUBSET Nat /\ batch \in Nat /\ \A x \in S : x < batch
        <5>1. S \subseteq Batches /\ \A x \in S : x < batch
          BY <1>1, <2>2 DEF Collected, Reaching
        <5> QED
          BY <5>1 DEF Batches, Inv, Typed
      <4>4. tokens \in {0, 1} /\ (batch \notin config.masked => tokens = 1)
        BY <2>9 DEF Tokens
      <4>5. Complete(AccumulateMean(st, batch, tokens), S \cup {batch})
        BY <4>2, <4>3, <4>4, OneMoreBatch
      <4> QED
        BY <2>3, <2>10, <3>1, <4>1, <4>5
    <3>2. CASE ~HooksRun(i, k)
      BY <2>3, <2>8, <2>10, <3>2
    <3> QED
      BY <3>1, <3>2
  <2>14. s \in DOMAIN statistics'[i] <=> T # {}
    BY <2>3, <2>8, <2>10
  <2>15. Mapping(k)'.smooth = s /\ \A st, batches : Complete(st, batches)' <=> Complete(st, batches)
    BY <1>1, <2>1, RequestStays
  <2> QED
    BY <2>4, <2>12, <2>13, <2>14, <2>15 DEF HasCollected
<1> QED
  BY <1>3, <1>4

(* What a step does to one mapping.                                        *)
Keeps(i, k) ==
  /\ Past(i, k)' <=> Past(i, k)
  /\ Collecting(i)' => HasCollected(i, k)'

LEMMA MappingKept ==
  ASSUME config' = config, NEW i, NEW k, MappingSoFar(i, k), Keeps(i, k),
         SameEntries(log, log', i, k)
  PROVE  MappingSoFar(i, k)'
<1>1. /\ EntriesOf(log, i, k) = {} => EntriesOf(log', i, k) = {}
      /\ \A st : HasEntry(log, i, k, st) => HasEntry(log', i, k, st)
  BY EntryStays
<1>2. /\ Reaching(i, k)' = Reaching(i, k)
      /\ \A st, batches : Complete(st, batches)' <=> Complete(st, batches)
  BY RequestStays
<1>3. SmoothedOnce(i, k) => SmoothedOnce(i, k)'
  <2> SUFFICES ASSUME NEW st, Complete(st, Reaching(i, k)), HasEntry(log, i, k, st)
               PROVE  SmoothedOnce(i, k)'
    BY DEF SmoothedOnce
  <2>1. Complete(st, Reaching(i, k))' /\ HasEntry(log', i, k, st)
    BY <1>1, <1>2
  <2>2. \A r : HasEntry(log, i, k, r)' <=> HasEntry(log', i, k, r)
    BY DEF HasEntry, EntriesOf
  <2> QED
    BY <1>2, <2>1, <2>2 DEF SmoothedOnce
<1>4. EntriesOf(log, i, k)' = EntriesOf(log', i, k)
  BY DEF EntriesOf
<1> QED
  BY <1>1, <1>3, <1>4 DEF Keeps, MappingSoFar

(* With nothing logged, what is kept is kept.                              *)
LEMMA QuietStep ==
  ASSUME Applying, [Next]_vars, pc # "raised", log' = log, ArgsAreKept', Attending',
         \A i \in DOMAIN Recipe, k \in DOMAIN Model.mappings : IsApplicable(i, k) => Keeps(i, k)
  PROVE  Applying'
<1>1. config' = config
  BY WeightsChangeAtEvents
<1>2. Model' = Model /\ Recipe' = Recipe /\ (ParentsRunAsOne(Model)' <=> ParentsRunAsOne(Model))
  <2>1. Model' = Model /\ Recipe' = Recipe
    BY <1>1, Unchanging
  <2> QED
    BY <2>1 DEF ParentsRunAsOne
<1>3. ASSUME NEW i \in DOMAIN Recipe, NEW k \in DOMAIN Model.mappings, IsApplicable(i, k)'
      PROVE  MappingSoFar(i, k)'
  <2>1. IsApplicable(i, k)
    BY <1>1, <1>3, RequestStays
  <2>2. SameEntries(log, log', i, k)
    BY DEF SameEntries
  <2> QED
    BY <1>1, <2>1, <2>2, MappingKept DEF Applying
<1>4. IsList(log)'
  BY DEF Applying, IsList
<1> QED
  BY <1>1, <1>2, <1>3, <1>4 DEF Applying

(* Where nothing is collected no statistics are expected.                  *)
LEMMA NothingCollected ==
  ASSUME NEW i, NEW k, DOMAIN statistics[i] = {}, Collected(i, k) = {}
  PROVE  HasCollected(i, k)
BY DEF HasCollected

LEMMA InitializeApplies ==
  ASSUME Inv, Inv', Applying, NEW a \in DOMAIN Recipe, InitializeModifier(a)
  PROVE  Applying'
<1>1. /\ UNCHANGED <<config, turn, log, parent_args>> /\ pc = "initialize"
      /\ pc' \in {"initialize", "start"} /\ (pc' = "start" => handler' = 1)
  BY DEF InitializeModifier
<1>2. /\ Recipe' = Recipe /\ Active' = Active /\ (Independent' <=> Independent)
      /\ (Sequential' <=> Sequential)
  BY <1>1, Unchanging
<1>3. ArgsAreKept'
  BY <1>1, <1>2 DEF Applying, ArgsAreKept, IsList
<1>4. Attending'
  <2>1. DOMAIN Recipe \subseteq Nat \ {0} /\ turn \in Nat \ {0}
    BY RecipeFacts DEF Inv, Typed
  <2>2. Active \subseteq Nat \ {0}
    BY <2>1 DEF Active
  <2>3. \A j \in Active : ~(j < 1)
    BY <2>2
  <2> QED
    BY <1>1, <1>2, <2>3 DEF Attending, Passing
<1>5. ASSUME NEW i, NEW k PROVE Keeps(i, k)
  BY <1>1, <1>2 DEF Keeps, Past, Collecting, Closing, Passing
<1> QED
  BY <1>1, <1>3, <1>4, <1>5, QuietStep DEF Next

LEMMA DataFreeModifiers ==
  ASSUME config.pipeline # "datafree", Pipeline = "datafree", NEW i \in Active
  PROVE  ~IsSmoother(i) /\ ~Sequential
BY DEF Pipeline, Sequential, Active, IsSmoother

LEMMA StartApplies ==
  ASSUME Inv, Inv', Applying, NEW a \in DOMAIN Recipe, StartModifier(a), pc' # "raised"
  PROVE  Applying'
<1>1. PICK following : following = IF Pipeline = "datafree" THEN "end" ELSE "enter"
  OBVIOUS
<1>2. /\ UNCHANGED <<config, log, parent_args>> /\ pc = "start" /\ handler = a
      /\ live' = live \cup {a} /\ DeliverNext(a, following)
  BY <1>1 DEF StartModifier, Raise
<1>3. turn \in DOMAIN Recipe /\ a \in Active /\ Active \subseteq DOMAIN Recipe
      /\ DOMAIN Recipe \subseteq Nat \ {0}
  BY <1>2, RecipeFacts DEF Inv, Typed, Turns, Active
<1>4. DeliversTo(a) \/ Proceeds(a, following)
  <2>1. following # "end of pipeline"
    BY <1>1
  <2> QED
    BY <1>2, <1>3, <2>1, Delivery DEF Inv
<1>5. turn' = turn /\ (pc' = pc \/ pc' = following)
  BY <1>1, <1>4 DEF DeliversTo, Proceeds
<1>6. /\ Recipe' = Recipe /\ Active' = Active /\ (Independent' <=> Independent)
      /\ (Sequential' <=> Sequential)
  BY <1>2, <1>5, Unchanging
<1>7. ArgsAreKept'
  BY <1>2, <1>6 DEF Applying, ArgsAreKept, IsList
<1>8. Attending'
  <2>1. \A j \in Active : j < a => j \in live
    BY <1>2 DEF Applying, Attending
  <2>2. CASE DeliversTo(a)
    <3>1. ASSUME NEW j \in Active, j < handler' PROVE j \in live'
      <4>1. j \in Nat /\ a \in Nat /\ handler' \in Nat /\ ~(a < j)
        BY <1>3, <2>2, <3>1 DEF DeliversTo
      <4>2. j = a \/ j < a
        BY <4>1
      <4> QED
        BY <1>2, <2>1, <4>2
    <3> QED
      BY <1>2, <1>6, <2>2, <3>1 DEF Attending, DeliversTo, Passing
  <2>3. CASE Proceeds(a, following)
    <3>1. pc' = following
      BY <1>1, <2>3 DEF Proceeds
    <3>2. ASSUME NEW j \in Active PROVE j \in live'
      <4>1. j <= a /\ j \in Nat /\ a \in Nat
        BY <1>3, <2>3 DEF Proceeds
      <4>2. j = a \/ j < a
        BY <4>1
      <4> QED
        BY <1>2, <2>1, <4>2
    <3> QED
      BY <1>1, <1>6, <3>1, <3>2 DEF Attending
  <2> QED
    BY <1>4, <2>2, <2>3
<1>9. ASSUME NEW i \in DOMAIN Recipe, NEW k \in DOMAIN Model.mappings, IsApplicable(i, k)
      PROVE  Keeps(i, k)
  <2>1. pc' = "end" => i \notin Active
    <3> SUFFICES ASSUME pc' = "end" PROVE i \notin Active
      OBVIOUS
    <3>1. Pipeline = "datafree"
      BY <1>1, <1>2, <1>5
    <3> QED
      BY <1>9, <3>1, DataFreeModifiers DEF Applying, IsApplicable
  <2>2. pc' \in {"start", "enter", "end"}
    BY <1>1, <1>2, <1>5
  <2> QED
    BY <1>2, <1>5, <1>6, <2>1, <2>2 DEF Keeps, Past, Collecting, Closing, Passing
<1> QED
  BY <1>2, <1>7, <1>8, <1>9, QuietStep DEF Next

LEMMA EnterApplies ==
  ASSUME Inv, Inv', Applying, EnterPasses
  PROVE  Applying'
<1>1. /\ UNCHANGED <<config, turn, log, live, statistics, parent_args>> /\ pc = "enter"
      /\ pc' = "calibrate" /\ subgraph' = 1 /\ batch' = 1
  BY DEF EnterPasses
<1>2. /\ Recipe' = Recipe /\ Active' = Active /\ (Independent' <=> Independent)
      /\ (Sequential' <=> Sequential)
  BY <1>1, Unchanging
<1>3. ArgsAreKept'
  BY <1>1, <1>2 DEF Applying, ArgsAreKept, IsList
<1>4. Attending'
  BY <1>1, <1>2 DEF Applying, Attending, Passing
<1>5. ASSUME NEW i \in DOMAIN Recipe, NEW k \in DOMAIN Model.mappings, IsApplicable(i, k)
      PROVE  Keeps(i, k)
  <2>1. RunsIn(i, k)' = RunsIn(i, k) /\ (Sequential => ~(RunsIn(i, k) < 1))
    <3>1. Sequential => RunsIn(i, k) \in Nat \ {0}
      BY <1>5, HookedFacts DEF Applying, Inv
    <3> QED
      BY <1>1, <3>1, RequestStays
  <2>2. HasCollected(i, k)'
    <3>1. DOMAIN statistics'[i] = {}
      BY <1>1 DEF Inv, Holding, Empty
    <3>2. Collected(i, k)' = {}
      <4>1. \A b \in Reaching(i, k)' : ~(b < 1)
        BY DEF Reaching, Batches
      <4> QED
        BY <1>1, <4>1 DEF Collected
    <3> QED
      BY <3>1, <3>2, NothingCollected DEF HasCollected
  <2>3. Past(i, k)' <=> Past(i, k)
    BY <1>1, <1>2, <2>1 DEF Past, Closing, Passing
  <2> QED
    BY <2>2, <2>3 DEF Keeps
<1> QED
  BY <1>1, <1>3, <1>4, <1>5, QuietStep DEF Next

LEMMA CalibrateApplies ==
  ASSUME Inv, Inv', Applying, Calibrate, pc' # "raised"
  PROVE  Applying'
<1>1. /\ UNCHANGED <<config, turn, subgraph, live, log>> /\ pc = "calibrate"
      /\ \/ pc' = "calibrate"
         \/ handler' = Min(Active) /\ pc' = IF Sequential THEN "subgraph_end" ELSE "end"
  BY DEF Calibrate, Raise
<1>2. /\ Recipe' = Recipe /\ Model' = Model /\ Active' = Active /\ (Independent' <=> Independent)
      /\ (Sequential' <=> Sequential)
  BY <1>1, Unchanging
<1>3. /\ ArgsAreKept'
      /\ \A i \in DOMAIN Recipe, k \in DOMAIN Model.mappings :
           IsApplicable(i, k) /\ i \in Active /\ HasCollected(i, k) => HasCollected(i, k)'
  BY <1>1, Collects DEF Applying
<1>4. Attending'
  BY <1>1, <1>2 DEF Applying, Attending, Passing
<1>5. \A i \in Active : ~(i < Min(Active))
  <2>1. Active \subseteq Nat
    BY <1>1, RecipeFacts DEF Inv, Typed, Turns, Active
  <2>2. ASSUME NEW i \in Active PROVE ~(i < Min(Active))
    <3>1. Min(Active) \in Nat /\ i \in Nat /\ Min(Active) <= i
      BY <2>1, MinOfSet
    <3> QED
      BY <3>1
  <2> QED
    BY <2>2
<1>6. ASSUME NEW i \in DOMAIN Recipe, NEW k \in DOMAIN Model.mappings, IsApplicable(i, k)
      PROVE  Keeps(i, k)
  <2>1. RunsIn(i, k)' = RunsIn(i, k)
    BY <1>1, RequestStays
  <2>2. Past(i, k)' <=> Past(i, k)
    BY <1>1, <1>2, <1>5, <2>1 DEF Past, Closing, Passing
  <2>3. ASSUME Collecting(i)' PROVE HasCollected(i, k)'
    <3>1. i \in Active /\ HasCollected(i, k)
      BY <1>1, <1>2, <1>6, <2>3 DEF Applying, MappingSoFar, Collecting
    <3> QED
      BY <1>3, <1>6, <3>1
  <2> QED
    BY <2>2, <2>3 DEF Keeps
<1> QED
  BY <1>1, <1>3, <1>4, <1>6, QuietStep DEF Next

LEMMA PropagateApplies ==
  ASSUME Inv, Inv', Applying, Propagate
  PROVE  Applying'
<1>1. /\ UNCHANGED <<config, turn, live, log, statistics, parent_args>> /\ pc = "propagate"
      /\ \/ pc' = pc /\ subgraph' = subgraph
         \/ pc' = "calibrate" /\ subgraph' = subgraph + 1 /\ batch' = 1
         \/ pc' = "end" /\ subgraph' = subgraph /\ ~(subgraph < NumSubgraphs)
  BY DEF Propagate
<1>2. /\ Recipe' = Recipe /\ Model' = Model /\ Active' = Active /\ (Independent' <=> Independent)
      /\ (Sequential' <=> Sequential) /\ Sequential /\ subgraph \in Nat
  BY <1>1, Unchanging DEF Inv, Turns, Typed
<1>3. ArgsAreKept'
  BY <1>1, <1>2 DEF Applying, ArgsAreKept, IsList
<1>4. Attending'
  BY <1>1, <1>2 DEF Applying, Attending, Passing
<1>5. ASSUME NEW i \in DOMAIN Recipe, NEW k \in DOMAIN Model.mappings, IsApplicable(i, k)
      PROVE  Keeps(i, k)
  <2>1. /\ RunsIn(i, k)' = RunsIn(i, k) /\ RunsIn(i, k) \in Nat
        /\ NumSubgraphs \in Nat /\ RunsIn(i, k) <= NumSubgraphs
    BY <1>1, <1>2, <1>5, HookedFacts, RequestStays DEF Applying, Inv
  <2>2. /\ Here(i, k) <=> RunsIn(i, k) = subgraph
        /\ Here(i, k)' <=> RunsIn(i, k) = subgraph'
    BY <1>2, <2>1 DEF Here
  <2>3. Past(i, k) <=> \/ Independent /\ i < turn
                       \/ i \in Active /\ (RunsIn(i, k) = subgraph \/ RunsIn(i, k) < subgraph)
    BY <1>1, <1>2, <2>2 DEF Past, Closing, Passing
  <2>4. CASE pc' = pc /\ subgraph' = subgraph
    BY <1>1, <1>2, <2>1, <2>2, <2>3, <2>4 DEF Keeps, Past, Collecting, Closing, Passing
  <2>5. CASE pc' = "calibrate" /\ subgraph' = subgraph + 1 /\ batch' = 1
    <3>1. RunsIn(i, k) < subgraph' <=> RunsIn(i, k) = subgraph \/ RunsIn(i, k) < subgraph
      BY <1>2, <2>1, <2>5
    <3>2. Past(i, k)' <=> Past(i, k)
      BY <1>1, <1>2, <2>1, <2>3, <2>5, <3>1 DEF Past, Closing, Passing
    <3>3. HasCollected(i, k)'
      <4>1. DOMAIN statistics'[i] = {}
        BY <1>1 DEF Inv, Holding, Empty
      <4>2. Collected(i, k)' = {}
        <5>1. \A b \in Reaching(i, k)' : ~(b < 1)
          BY DEF Reaching, Batches
        <5> QED
          BY <2>5, <5>1 DEF Collected
      <4> QED
        BY <4>1, <4>2, NothingCollected DEF HasCollected
    <3> QED
      BY <3>2, <3>3 DEF Keeps
  <2>6. CASE pc' = "end" /\ subgraph' = subgraph /\ ~(subgraph < NumSubgraphs)
    <3>1. RunsIn(i, k) = subgraph \/ RunsIn(i, k) < subgraph
      BY <1>2, <2>1, <2>6
    <3>2. Past(i, k)' <=> Past(i, k)
      BY <1>1, <1>2, <2>3, <2>6, <3>1 DEF Past, Closing, Passing
    <3>3. ~Collecting(i)'
      BY <1>2, <2>6 DEF Collecting, Closing
    <3> QED
      BY <3>2, <3>3 DEF Keeps
  <2> QED
    BY <1>1, <2>4, <2>5, <2>6
<1> QED
  BY <1>1, <1>3, <1>4, <1>5, QuietStep DEF Next

LEMMA FinalizeApplies ==
  ASSUME Inv, Inv', Applying, NEW a \in DOMAIN Recipe, FinalizeModifier(a), pc' # "raised"
  PROVE  Applying'
<1>1. /\ UNCHANGED <<config, log, parent_args>> /\ pc = "finalize"
      /\ pc' \in {"finalize", "done"}
  BY DEF FinalizeModifier, Raise
<1>2. Recipe' = Recipe
  BY <1>1, Unchanging
<1>3. ArgsAreKept'
  BY <1>1, <1>2 DEF Applying, ArgsAreKept, IsList
<1>4. Attending'
  BY <1>1 DEF Attending, Passing
<1>5. ASSUME NEW i, NEW k PROVE Keeps(i, k)
  BY <1>1 DEF Keeps, Past, Collecting, Closing
<1> QED
  BY <1>1, <1>3, <1>4, <1>5, QuietStep DEF Next

LEMMA StutterApplies ==
  ASSUME Applying, UNCHANGED vars, pc # "raised"
  PROVE  Applying'
<1>1. UNCHANGED <<config, pc, turn, handler, subgraph, batch, live, log, statistics, parent_args>>
  BY DEF vars
<1>2. /\ Recipe' = Recipe /\ Model' = Model /\ Active' = Active /\ (Independent' <=> Independent)
      /\ (Sequential' <=> Sequential)
  BY <1>1, Unchanging
<1>3. ArgsAreKept'
  BY <1>1, <1>2 DEF Applying, ArgsAreKept, IsList
<1>4. Attending'
  BY <1>1, <1>2 DEF Applying, Attending, Passing
<1>5. ASSUME NEW i \in DOMAIN Recipe, NEW k \in DOMAIN Model.mappings, IsApplicable(i, k)
      PROVE  Keeps(i, k)
  <2>1. RunsIn(i, k)' = RunsIn(i, k) /\ Reaching(i, k)' = Reaching(i, k)
        /\ Mapping(k)' = Mapping(k) /\ Kind(i)' = Kind(i)
        /\ \A st, batches : Complete(st, batches)' <=> Complete(st, batches)
    BY <1>1, RequestStays
  <2>2. Here(i, k)' <=> Here(i, k)
    BY <1>1, <1>2, <2>1 DEF Here
  <2>3. Past(i, k)' <=> Past(i, k)
    BY <1>1, <1>2, <2>1, <2>2 DEF Past, Closing, Passing
  <2>4. ASSUME Collecting(i)' PROVE HasCollected(i, k)'
    <3>1. HasCollected(i, k)
      BY <1>1, <1>2, <1>5, <2>4 DEF Applying, MappingSoFar, Collecting, Closing
    <3>2. Collected(i, k)' = Collected(i, k) /\ (HasOutputs(i, k)' <=> HasOutputs(i, k))
      BY <1>1, <1>2, <2>1, <2>2 DEF Collected, HasOutputs, Get
    <3> QED
      BY <1>1, <2>1, <3>1, <3>2 DEF HasCollected
  <2> QED
    BY <2>3, <2>4 DEF Keeps
<1> QED
  BY <1>1, <1>3, <1>4, <1>5, QuietStep

(* The event after a pass applies the mappings of what the pass has run.   *)
ClosesPass(a) ==
  /\ config' = config /\ subgraph' = subgraph
  /\ pc = Closing /\ handler = a /\ Consume(a) /\ ~SmoothingFails(a)
  /\ Sequential \/ ~Independent
  /\ \/ DeliversTo(a)
     \/ Proceeds(a, IF Sequential THEN "propagate" ELSE "end of pipeline")

LEMMA ClosedMappings ==
  ASSUME Inv, Applying, NEW a \in DOMAIN Recipe, ClosesPass(a),
         NEW i \in DOMAIN Recipe, NEW k \in DOMAIN Model.mappings, IsApplicable(i, k)
  PROVE  MappingSoFar(i, k)'
<1>1. /\ UNCHANGED <<config, subgraph, turn>> /\ pc = Closing /\ handler = a
      /\ log' = Updated(a).log /\ (Sequential \/ ~Independent)
      /\ pc \in {"subgraph_end", "end"}
  BY DEF ClosesPass, Consume, DeliversTo, Proceeds, Closing
<1>2. /\ Recipe' = Recipe /\ Model' = Model /\ Active' = Active /\ (Independent' <=> Independent)
      /\ (Sequential' <=> Sequential) /\ Closing' = Closing
  <2>1. /\ Recipe' = Recipe /\ Model' = Model /\ Active' = Active /\ (Independent' <=> Independent)
        /\ (Sequential' <=> Sequential)
    BY <1>1, Unchanging
  <2> QED
    BY <2>1 DEF Closing
<1>3. /\ turn \in DOMAIN Recipe /\ DOMAIN Recipe \subseteq Nat \ {0} /\ a \in Active
      /\ Active \subseteq DOMAIN Recipe /\ (Independent => Active = {turn} /\ a = turn)
      /\ ~Independent => Active = DOMAIN Recipe
  BY <1>1, RecipeFacts DEF Inv, Typed, Turns, Active
<1>4. /\ Reaching(i, k)' = Reaching(i, k) /\ RunsIn(i, k)' = RunsIn(i, k)
      /\ Mapping(k)' = Mapping(k) /\ Kind(i)' = Kind(i)
      /\ \A st, batches : Complete(st, batches)' <=> Complete(st, batches)
  BY <1>1, RequestStays
<1>5. Here(i, k)' <=> Here(i, k)
  BY <1>1, <1>2, <1>4 DEF Here
<1>6. Past(i, k) <=> \/ Independent /\ i < turn
                     \/ i \in Active /\ Here(i, k) /\ i < a
                     \/ i \in Active /\ Sequential /\ RunsIn(i, k) < subgraph
  BY <1>1 DEF Past, Closing, Passing
<1>7. Past(i, k)' <=> \/ Independent /\ i < turn
                      \/ i \in Active /\ Here(i, k) /\ i <= a
                      \/ i \in Active /\ Sequential /\ RunsIn(i, k) < subgraph
  <2>1. CASE DeliversTo(a)
    <3>1. i \in Active => (i < handler' <=> i <= a)
      <4>1. i \in Nat /\ a \in Nat /\ handler' \in Nat
        BY <1>3, <2>1 DEF DeliversTo
      <4> QED
        BY <2>1, <4>1 DEF DeliversTo
    <3>2. pc' = pc
      BY <2>1 DEF DeliversTo
    <3> QED
      BY <1>1, <1>2, <1>4, <1>5, <3>1, <3>2 DEF Past, Closing, Passing
  <2>2. CASE Proceeds(a, IF Sequential THEN "propagate" ELSE "end of pipeline")
    <3>1. \A j \in Active : j <= a
      BY <2>2 DEF Proceeds
    <3>2. CASE Sequential
      <4>1. pc' = "propagate"
        BY <2>2, <3>2 DEF Proceeds
      <4> QED
        BY <1>1, <1>2, <1>4, <1>5, <3>1, <3>2, <4>1 DEF Past, Closing, Passing
    <3>3. CASE ~Sequential
      <4>1. pc' = "finalize" /\ Here(i, k) /\ i \in Active
        BY <1>1, <1>3, <2>2, <3>3 DEF Proceeds, Here
      <4> QED
        BY <3>1, <4>1 DEF Past
    <3> QED
      BY <3>2, <3>3
  <2> QED
    BY <2>1, <2>2 DEF ClosesPass
<1>8. Collecting(i)' => i \in Active /\ a < i /\ pc' = pc
  <2> SUFFICES ASSUME Collecting(i)' PROVE i \in Active /\ a < i /\ pc' = pc
    OBVIOUS
  <2>1. CASE DeliversTo(a)
    <3>1. pc' = pc /\ a < handler' /\ handler' \in Nat /\ i \in Nat /\ a \in Nat
      BY <1>3, <2>1 DEF DeliversTo
    <3>2. i \in Active /\ handler' <= i
      BY <1>1, <1>2, <3>1 DEF Collecting
    <3> QED
      BY <3>1, <3>2
  <2>2. CASE Proceeds(a, IF Sequential THEN "propagate" ELSE "end of pipeline")
    <3>1. pc' \in {"propagate", "finalize"}
      BY <2>2 DEF Proceeds
    <3> QED
      BY <1>2, <3>1 DEF Collecting, Closing
  <2> QED
    BY <2>1, <2>2 DEF ClosesPass
<1>9. /\ ~Logs(a, k, i) => SameEntries(log, log', i, k)
      /\ Logs(a, k, i) /\ EntriesOf(log, a, k) = {}
           => HasEntry(log', a, k, statistics[a][Mapping(k).smooth])
  <2>1. k \in Nat \ {0}
    BY ModelFacts DEF Inv, Typed
  <2> QED
    BY <1>1, <2>1, UpdatedLog DEF Inv, Applying
<1>10. MappingSoFar(i, k)
  BY <1>1 DEF Applying
<1>11. CASE i = a
  <2>1. HasCollected(i, k)
    <3>1. a \in Nat /\ a <= a
      BY <1>3
    <3>2. Collecting(a)
      BY <1>1, <1>3, <3>1 DEF Collecting
    <3> QED
      BY <1>10, <1>11, <3>2 DEF MappingSoFar
  <2>2. ~Collecting(i)' /\ ~(i < a) /\ i <= a /\ ~(Independent /\ i < turn)
    <3>1. a \in Nat
      BY <1>3
    <3>2. ~(a < a) /\ a <= a
      BY <3>1
    <3> QED
      BY <1>3, <1>8, <1>11, <3>2
  <2>3. Collected(i, k) = IF Here(i, k) THEN Reaching(i, k) ELSE {}
    BY <1>1 DEF Collected
  <2>4. IsSmoother(i) /\ k \in Resolved(i) /\ Reaching(i, k) # {}
    BY DEF IsApplicable
  <2>5. CASE Here(i, k)
    <3>1. PICK st : st = statistics[i][Mapping(k).smooth]
      OBVIOUS
    <3>2. /\ Mapping(k).smooth \in DOMAIN statistics[i] /\ HasOutputs(i, k)
          /\ Complete(st, Reaching(i, k))
      BY <2>1, <2>3, <2>4, <2>5, <3>1 DEF HasCollected
    <3>3. Logs(a, k, i)
      <4>1. ~ \E j \in 1 .. k : NoFiniteLoss(a, j)
        <5> SUFFICES ASSUME NEW j \in 1 .. k, NoFiniteLoss(a, j) PROVE FALSE
          OBVIOUS
        <5>1. Resolved(a) \subseteq DOMAIN Model.mappings
          BY ModelFacts DEF Inv, Typed
        <5>2. j \in DOMAIN Model.mappings
          BY <5>1 DEF NoFiniteLoss, IsSmoothed
        <5> QED
          BY <5>2 DEF ClosesPass, SmoothingFails
      <4> QED
        BY <1>11, <2>4, <3>2, <4>1 DEF Logs, Applies, IsSmoothed
    <3>4. ~Past(i, k)
      <4>1. Sequential => ~(RunsIn(i, k) < subgraph)
        <5>1. subgraph \in Nat
          BY DEF Inv, Typed
        <5> QED
          BY <2>5, <5>1 DEF Here
      <4> QED
        BY <1>6, <2>2, <4>1
    <3>5. HasEntry(log', i, k, st)
      BY <1>9, <1>10, <1>11, <3>1, <3>3, <3>4 DEF MappingSoFar
    <3>6. SmoothedOnce(i, k)'
      <4>1. \A r : HasEntry(log, i, k, r)' <=> HasEntry(log', i, k, r)
        BY DEF HasEntry, EntriesOf
      <4>2. Complete(st, Reaching(i, k))'
        BY <1>4, <3>2
      <4> QED
        BY <1>4, <3>5, <4>1, <4>2 DEF SmoothedOnce
    <3>7. Past(i, k)'
      BY <1>3, <1>7, <1>11, <2>2, <2>5
    <3> QED
      BY <2>2, <3>6, <3>7 DEF MappingSoFar
  <2>6. CASE ~Here(i, k)
    <3>1. ~Logs(a, k, i)
      BY <1>11, <2>1, <2>3, <2>6 DEF HasCollected, Logs, Applies, IsSmoothed
    <3>2. Keeps(i, k)
      BY <1>6, <1>7, <2>2, <2>6 DEF Keeps
    <3> QED
      BY <1>1, <1>9, <1>10, <3>1, <3>2, MappingKept
  <2> QED
    BY <2>5, <2>6
<1>12. CASE i # a
  <2>1. SameEntries(log, log', i, k)
    BY <1>9, <1>12 DEF Logs
  <2>2. i < a <=> i <= a
    <3>1. i \in Nat /\ a \in Nat
      BY <1>3
    <3> QED
      BY <1>12, <3>1
  <2>3. ASSUME Collecting(i)' PROVE HasCollected(i, k)'
    <3>1. HasCollected(i, k)
      <4>1. i \in Active /\ handler <= i
        BY <1>1, <1>3, <1>8, <2>3
      <4> QED
        BY <1>1, <1>10, <4>1 DEF MappingSoFar, Collecting
    <3>2. statistics'[i] = statistics[i] /\ parent_args'[i] = parent_args[i]
      BY <1>1, <1>12, Consumed DEF ClosesPass, Inv
    <3>3. pc' = pc
      BY <1>8, <2>3
    <3>4. Collected(i, k)' = {b \in Reaching(i, k)' : Here(i, k)' /\ (pc' = "calibrate" => b < batch')}
      BY DEF Collected
    <3>5. Collected(i, k)' = Collected(i, k)
      BY <1>1, <1>4, <1>5, <3>3, <3>4 DEF Collected
    <3>6. HasOutputs(i, k)' <=> HasOutputs(i, k)
      BY <1>2, <1>4, <3>2 DEF HasOutputs, Get
    <3> QED
      BY <1>4, <3>1, <3>2, <3>5, <3>6 DEF HasCollected
  <2>4. Keeps(i, k)
    BY <1>6, <1>7, <2>2, <2>3 DEF Keeps
  <2> QED
    BY <1>1, <1>10, <2>1, <2>4, MappingKept
<1> QED
  BY <1>11, <1>12

LEMMA ArgsConsumed ==
  ASSUME Inv, ArgsAreKept, NEW a \in DOMAIN Recipe, Consume(a), config' = config
  PROVE  ArgsAreKept'
<1>1. Recipe' = Recipe
  BY Unchanging
<1>2. SUFFICES ASSUME NEW j \in DOMAIN Recipe, NEW p \in DOMAIN parent_args'[j]
               PROVE  IsList(parent_args'[j][p]) /\ parent_args'[j][p] # <<>>
  BY <1>1 DEF ArgsAreKept, IsList
<1>3. DOMAIN parent_args'[a] = {} /\ (j # a => parent_args'[j] = parent_args[j])
  BY Consumed DEF Inv, Empty
<1> QED
  BY <1>2, <1>3 DEF ArgsAreKept

LEMMA ClosingApplies ==
  ASSUME Inv, Applying, NEW a \in DOMAIN Recipe, ClosesPass(a), Attending'
  PROVE  Applying'
<1>1. /\ config' = config /\ Consume(a) /\ log' = Updated(a).log
      /\ pc \in {"subgraph_end", "end"}
  BY DEF ClosesPass, Consume, Closing
<1>2. Model' = Model /\ Recipe' = Recipe /\ (ParentsRunAsOne(Model)' <=> ParentsRunAsOne(Model))
  <2>1. Model' = Model /\ Recipe' = Recipe
    BY <1>1, Unchanging
  <2> QED
    BY <2>1 DEF ParentsRunAsOne
<1>3. ArgsAreKept'
  BY <1>1, ArgsConsumed DEF Applying
<1>4. IsList(log)'
  <2>1. 1 \in Nat \ {0} /\ IsList(log) /\ Typed
    BY <1>1 DEF Applying, Inv
  <2>2. IsList(Updated(a).log)
    BY <2>1, UpdatedLog
  <2> QED
    BY <1>1, <2>2 DEF IsList
<1>5. ASSUME NEW i \in DOMAIN Recipe, NEW k \in DOMAIN Model.mappings, IsApplicable(i, k)'
      PROVE  MappingSoFar(i, k)'
  BY <1>1, <1>5, RequestStays, ClosedMappings
<1> QED
  BY <1>1, <1>2, <1>3, <1>4, <1>5 DEF Applying

LEMMA EndSubgraphApplies ==
  ASSUME Inv, Applying, NEW a \in DOMAIN Recipe, EndSubgraph(a), pc' # "raised"
  PROVE  Applying'
<1>1. /\ UNCHANGED <<config, subgraph, live>> /\ pc = "subgraph_end" /\ handler = a
      /\ Consume(a) /\ DeliverNext(a, "propagate") /\ ~SmoothingFails(a)
  BY DEF EndSubgraph, Raise
<1>2. turn \in DOMAIN Recipe /\ a \in Active /\ Sequential
  BY <1>1 DEF Inv, Turns, Active
<1>3. DeliversTo(a) \/ Proceeds(a, "propagate")
  <2>1. PICK following : following = "propagate"
    OBVIOUS
  <2>2. DeliverNext(a, following) /\ following # "end of pipeline"
    BY <1>1, <2>1
  <2>3. DeliversTo(a) \/ Proceeds(a, following)
    BY <1>2, <2>2, Delivery DEF Inv
  <2> QED
    BY <2>1, <2>3
<1>4. turn' = turn /\ pc' \in Passing
  BY <1>1, <1>3 DEF DeliversTo, Proceeds, Passing
<1>5. Active' = Active
  BY <1>1, <1>4, Unchanging
<1>6. Attending'
  BY <1>1, <1>4, <1>5 DEF Applying, Attending, Passing
<1>7. ClosesPass(a)
  BY <1>1, <1>2, <1>3 DEF ClosesPass, Closing
<1> QED
  BY <1>6, <1>7, ClosingApplies

LEMMA EndCalibrationApplies ==
  ASSUME Inv, Applying, NEW a \in DOMAIN Recipe, EndCalibration(a), pc' # "raised"
  PROVE  Applying'
<1>1. /\ UNCHANGED <<config, subgraph>> /\ pc = "end" /\ handler = a
      /\ Consume(a) /\ DeliverNext(a, "end of pipeline") /\ ~SmoothingFails(a)
  BY DEF EndCalibration, Raise
<1>2. /\ turn \in DOMAIN Recipe /\ a \in Active /\ (Independent => a = turn)
      /\ DOMAIN Recipe = 1 .. Len(Recipe) /\ Len(Recipe) \in Nat
      /\ Independent => Active = {turn}
      /\ ~Independent => Active = DOMAIN Recipe
  BY <1>1, RecipeFacts DEF Inv, Typed, Turns, Active
<1>3. DeliversTo(a) \/ NextTurn(a) \/ Proceeds(a, "end of pipeline")
  BY <1>1, <1>2, Delivery DEF Inv
<1>4. /\ Recipe' = Recipe /\ Model' = Model /\ (Independent' <=> Independent)
      /\ turn' = turn => Active' = Active /\ (Sequential' <=> Sequential)
  <2>1. config' = config
    BY <1>1
  <2> QED
    BY <2>1, Unchanging
<1>5. Attending'
  <2>1. CASE NextTurn(a)
    <3>1. /\ Active' = {turn + 1} /\ handler' = turn + 1 /\ pc' = "start" /\ turn + 1 \in Nat
      BY <1>2, <1>4, <2>1 DEF NextTurn, Active
    <3>2. \A j \in Active' : ~(j < handler')
      BY <3>1
    <3> QED
      BY <3>1, <3>2 DEF Attending, Passing
  <2>2. CASE ~NextTurn(a)
    <3>1. pc' \in {"end", "finalize"}
      BY <1>1, <1>3, <2>2 DEF DeliversTo, Proceeds
    <3> QED
      BY <3>1 DEF Attending, Passing
  <2> QED
    BY <2>1, <2>2
<1>6. CASE Sequential \/ Independent
  <2>1. \A j \in DOMAIN Recipe : Empty(j)
    BY <1>1, <1>6 DEF Inv, Holding
  <2>2. log' = log
    BY <1>1, <2>1, EndLogsNothing DEF Consume
  <2>3. ArgsAreKept'
    BY <1>1, ArgsConsumed DEF Applying
  <2>4. ASSUME NEW i \in DOMAIN Recipe, NEW k \in DOMAIN Model.mappings, IsApplicable(i, k)
        PROVE  Keeps(i, k)
    <3>1. i \in Active => Sequential
      <4> SUFFICES ASSUME i \in Active, ~Sequential PROVE FALSE
        OBVIOUS
      <4>1. Independent /\ Pipeline = "datafree"
        BY <1>6 DEF Sequential, Pipeline
      <4>2. ~IsSmoother(i)
        BY <4>1, DataFreeModifiers DEF Applying
      <4> QED
        BY <2>4, <4>2 DEF IsApplicable
    <3>2. Past(i, k) <=> (Independent /\ i < turn) \/ i \in Active
      BY <1>1, <3>1 DEF Past, Closing, Passing
    <3>3. CASE DeliversTo(a)
      <4>1. pc' = "end" /\ turn' = turn /\ ~Independent
        BY <1>1, <3>3 DEF DeliversTo
      <4>2. Sequential /\ Sequential' /\ Active' = Active
        BY <1>4, <1>6, <4>1
      <4> QED
        BY <1>4, <3>2, <4>1, <4>2 DEF Keeps, Past, Collecting, Closing, Passing
    <3>4. CASE NextTurn(a)
      <4>1. pc' = "start" /\ turn' = turn + 1 /\ Independent
        BY <3>4 DEF NextTurn
      <4>2. i < turn' <=> i < turn \/ i = turn
        BY <1>2, <4>1
      <4>3. Past(i, k)' <=> i < turn'
        BY <1>4, <4>1 DEF Past, Closing, Passing
      <4> QED
        BY <1>2, <3>2, <4>1, <4>2, <4>3 DEF Keeps, Collecting, Closing
    <3>5. CASE Proceeds(a, "end of pipeline")
      <4>1. pc' = "finalize"
        BY <3>5 DEF Proceeds
      <4>2. Independent => ~(turn < Len(Recipe))
        <5> SUFFICES ASSUME Independent, turn < Len(Recipe) PROVE FALSE
          OBVIOUS
        <5>1. {j \in Active : j > a} = {}
          BY <1>2
        <5>2. pc' = "start"
          BY <1>1, <5>1 DEF DeliverNext
        <5> QED
          BY <4>1, <5>2
      <4>3. Past(i, k)
        <5>1. Independent => i < turn \/ i = turn
          BY <1>2, <4>2
        <5> QED
          BY <1>2, <3>2, <5>1
      <4> QED
        BY <4>1, <4>3 DEF Keeps, Past, Collecting, Closing
    <3> QED
      BY <1>3, <3>3, <3>4, <3>5
  <2> QED
    BY <1>1, <1>5, <2>2, <2>3, <2>4, QuietStep DEF Next
<1>7. CASE ~Sequential /\ ~Independent
  <2>1. ClosesPass(a)
    BY <1>1, <1>3, <1>7 DEF ClosesPass, Closing, NextTurn
  <2> QED
    BY <1>5, <2>1, ClosingApplies
<1> QED
  BY <1>6, <1>7

LEMMA ApplyingNext == Inv /\ Inv' /\ Applying /\ [Next]_vars => Applying'
<1> SUFFICES ASSUME Inv, Inv', Applying, [Next]_vars PROVE Applying'
  OBVIOUS
<1>1. CASE pc' = "raised"
  <2>1. config' = config
    BY WeightsChangeAtEvents
  <2>2. Model' = Model /\ (ParentsRunAsOne(Model)' <=> ParentsRunAsOne(Model))
    <3>1. Model' = Model
      BY <2>1, Unchanging
    <3> QED
      BY <3>1 DEF ParentsRunAsOne
  <2> QED
    BY <1>1, <2>1, <2>2 DEF Applying
<1>2. CASE pc' # "raised"
  <2>1. CASE UNCHANGED vars
    <3>1. pc # "raised"
      BY <1>2, <2>1 DEF vars
    <3> QED
      BY <2>1, <3>1, StutterApplies
  <2>2. ASSUME NEW a \in DOMAIN Recipe,
               \/ InitializeModifier(a) \/ StartModifier(a)
               \/ EndSubgraph(a) \/ EndCalibration(a) \/ FinalizeModifier(a)
        PROVE  Applying'
    BY <1>2, <2>2, InitializeApplies, StartApplies, EndSubgraphApplies, EndCalibrationApplies,
       FinalizeApplies
  <2>3. ~RejectTargets
    BY <1>2 DEF RejectTargets, Raise
  <2> QED
    BY <1>2, <2>1, <2>2, <2>3, EnterApplies, CalibrateApplies, PropagateApplies DEF Next
<1> QED
  BY <1>1, <1>2

LEMMA ApplyingInit ==
  ASSUME "datafree" \notin Pipelines, \A model \in Models : ParentsRunAsOne(model)
  PROVE  Init => Applying
<1> SUFFICES ASSUME Init PROVE Applying
  OBVIOUS
<1>1. pc = "initialize" /\ turn = 1 /\ log = <<>>
      /\ parent_args = [i \in DOMAIN Recipe |-> Nothing]
  BY DEF Init
<1>2. config.pipeline # "datafree" /\ ParentsRunAsOne(Model)
  <2>1. PICK model \in Models :
          config \in [model : {model}, recipe : Recipes, pipeline : Pipelines,
                      reached : [Batches -> model.routings], masked : SUBSET Batches]
    BY DEF Init
  <2> QED
    BY <2>1 DEF Model
<1>3. Attending
  BY <1>1 DEF Attending, Passing
<1>4. ArgsAreKept
  BY <1>1 DEF ArgsAreKept, Nothing
<1>5. IsList(log)
  <2>1. <<>> \in Seq({})
    OBVIOUS
  <2> QED
    BY <1>1, <2>1 DEF IsList
<1>6. ASSUME NEW i \in DOMAIN Recipe, NEW k PROVE MappingSoFar(i, k)
  <2>1. ~(i < turn)
    <3>1. i \in Nat \ {0}
      BY InitInv, RecipeFacts DEF Inv, Typed
    <3> QED
      BY <1>1, <3>1
  <2>2. EntriesOf(log, i, k) = {}
    BY <1>1 DEF EntriesOf
  <2> QED
    BY <1>1, <2>1, <2>2 DEF MappingSoFar, Past, Collecting, Closing, Passing
<1> QED
  BY <1>2, <1>3, <1>4, <1>5, <1>6 DEF Applying

(* Each mapping whose layer some batch has reached is applied, once, by    *)
(* each AWQ or SmoothQuant modifier that resolved it, from statistics that *)
(* count each batch that reaches what is hooked exactly once, in whatever  *)
(* subgraph that is and whichever pipeline runs; and unless the first of   *)
(* these batches is masked, they are numbers (_apply_smoothing and the     *)
(* hooks of _setup_activation_cache_hooks in modifiers/awq/base.py, and    *)
(* of _setup_scale_hooks in modifiers/transform/smoothquant/base.py).      *)
THEOREM MappingsAreApplied ==
  ASSUME "datafree" \notin Pipelines, \A model \in Models : ParentsRunAsOne(model)
  PROVE  Spec => []MappingsAppliedInFull
<1>1. Init => Inv /\ Applying
  BY InitInv, ApplyingInit
<1>2. Inv /\ Applying /\ [Next]_vars => (Inv /\ Applying)'
  BY NextInv, ApplyingNext
<1>3. Inv /\ Applying => MappingsAppliedInFull
  <2> SUFFICES ASSUME Inv, Applying, pc = "done",
                      NEW i \in DOMAIN Recipe, Kind(i) \in {"awq", "smoothquant"},
                      NEW k \in Resolved(i), IsSearchable(i, k), Reaching(i, k) # {}
               PROVE  /\ Cardinality(Entries(i, k)) = 1
                      /\ \A n \in Entries(i, k) :
                           /\ InOrder(log[n].statistics.batches, Reaching(i, k))
                           /\ Min(Reaching(i, k)) \notin config.masked => log[n].statistics.finite
    BY DEF MappingsAppliedInFull
  <2>1. k \in DOMAIN Model.mappings
    BY ModelFacts DEF Inv, Typed
  <2>2. SmoothedOnce(i, k)
    BY <2>1 DEF Applying, IsApplicable, IsSmoother, MappingSoFar, Past
  <2>3. PICK st : Complete(st, Reaching(i, k)) /\ HasEntry(log, i, k, st)
    BY <2>2 DEF SmoothedOnce
  <2>4. PICK n : EntriesOf(log, i, k) = {n} /\ log[n].statistics = st
    BY <2>3 DEF HasEntry
  <2>5. Entries(i, k) = {n}
    BY <2>4 DEF Entries, EntriesOf
  <2>6. Cardinality(Entries(i, k)) = 1
    BY <2>5, FS_Singleton
  <2> QED
    BY <2>3, <2>4, <2>5, <2>6 DEF Complete
<1> QED
  BY <1>1, <1>2, <1>3, PTL DEF Spec

=============================================================================
