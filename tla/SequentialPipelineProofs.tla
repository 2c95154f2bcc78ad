---------------------- MODULE SequentialPipelineProofs ----------------------
(***************************************************************************)
(* Proofs about SequentialPipeline for every traced graph, any number of   *)
(* batches, with and without prefetching.                                  *)
(*                                                                         *)
(* The inductive invariant says, for each stage, what the main thread and  *)
(* the worker have done so far: what has been sampled and compressed is a  *)
(* function of stage, subgraph and batch, what each batch holds in the     *)
(* cache a function of the subgraph it goes through next.                  *)
(***************************************************************************)
EXTENDS SequentialPipeline, TopologicalPartitionProofs

Stages == {"tracing", "calibrating", "compressing", "propagating", "finishing", "finished",
           "raised", "fetch_failed", "out_of_memory"}

(* The stages that an exception ends.                                      *)
Aborted == stage \in {"raised", "fetch_failed", "out_of_memory"}

PipelineTypeOK ==
  /\ stage \in Stages
  /\ prefetch \in BOOLEAN
  /\ subgraph \in Subgraphs
  /\ batch \in Batches
  /\ inputs \in Values \cup {NoInputs}
  /\ future \in Futures \cup {NoFuture}
  /\ activations \in [Batches -> Values]
  /\ num_samples \in [Quantizable -> [Batches -> Nat]]
  /\ compressions \in [Quantizable -> Nat]
  /\ hooks_disabled \in BOOLEAN

Walked == stage # "tracing" => Done

(* Where a pass starts and ends.                                           *)
PassBounds ==
  /\ stage = "tracing" => subgraph = 1
  /\ stage \in {"tracing", "compressing", "finishing", "finished"}
       => batch = 1 /\ inputs = NoInputs /\ future = NoFuture
  /\ stage \in {"finishing", "finished"} => subgraph = LastSubgraph

(* The worker is one batch ahead; what was fetched is what the cache held  *)
(* and the subgraph reads.                                                 *)
Fetched ==
  InPass =>
    /\ inputs # NoInputs => DOMAIN inputs = FetchedNames(batch)
    /\ future # NoFuture =>
         /\ future.batch = IF inputs = NoInputs THEN batch ELSE batch + 1
         /\ future.status = "done" =>
              future.inputs # NoInputs /\ DOMAIN future.inputs = FetchedNames(future.batch)

HooksFollowStage ==
  ~Aborted => (hooks_disabled <=> stage = "propagating")

SamplesSoFar ==
  ~Aborted =>
    \A m \in Quantizable : \A b \in Batches :
      num_samples[m][b] =
        IF stage = "compressing" \/ (stage = "calibrating" /\ b < batch)
          THEN Calls(m, subgraph) ELSE 0

(* The last subgraph that has been compressed.                             *)
LastCompressed ==
  IF stage \in {"propagating", "finishing", "finished"} THEN subgraph ELSE subgraph - 1

CompressedSoFar ==
  ~Aborted =>
    \A m \in Quantizable :
      compressions[m] > 0 <=> \E p \in 1 .. LastCompressed : Calls(m, p) > 0

AllCompressed(values) == \A m \in DOMAIN values : values[m].compressed

ValuesCompressed ==
  /\ \A b \in Batches : AllCompressed(activations[b])
  /\ inputs # NoInputs => AllCompressed(inputs)
  /\ future # NoFuture /\ future.inputs # NoInputs => AllCompressed(future.inputs)

PipelineInv ==
  /\ IndInv
  /\ PipelineTypeOK
  /\ Walked
  /\ PassBounds
  /\ Fetched
  /\ HooksFollowStage
  /\ SamplesSoFar
  /\ CompressedSoFar
  /\ ValuesCompressed
  /\ CacheHoldsLiveValues

-----------------------------------------------------------------------------
(* Dictionaries and the cache.                                             *)

LEMMA ValuesAre ==
  ASSUME NEW v
  PROVE  v \in Values <=> DOMAIN v \subseteq Node /\ v \in [DOMAIN v -> Value]
<1>1. ASSUME v \in Values PROVE DOMAIN v \subseteq Node /\ v \in [DOMAIN v -> Value]
  <2>1. PICK names \in SUBSET Node : v \in [names -> Value]
    BY <1>1 DEF Values
  <2> QED
    BY <2>1
<1>2. ASSUME DOMAIN v \subseteq Node, v \in [DOMAIN v -> Value] PROVE v \in Values
  <2>1. [DOMAIN v -> Value] \in {[names -> Value] : names \in SUBSET Node}
    BY <1>2
  <2> QED
    BY <2>1, <1>2 DEF Values
<1> QED
  BY <1>1, <1>2

(* What a fetch returns.                                                   *)
LEMMA FetchedValuesAre ==
  ASSUME activations \in [Batches -> Values], NEW b \in Batches
  PROVE  /\ FetchedValues(b) \in Values
         /\ FetchedValues(b) # NoInputs
         /\ DOMAIN FetchedValues(b) = FetchedNames(b)
         /\ AllCompressed(activations[b]) => AllCompressed(FetchedValues(b))
<1>1. /\ activations[b] \in Values
      /\ Held(b) \subseteq Node /\ activations[b] \in [Held(b) -> Value]
  BY ValuesAre DEF Held
<1>2. DOMAIN FetchedValues(b) = FetchedNames(b)
  BY DEF FetchedValues
<1>3. FetchedNames(b) \subseteq Held(b)
  BY DEF FetchedNames
<1>4. /\ \A m \in FetchedNames(b) : FetchedValues(b)[m] = activations[b][m]
      /\ FetchedValues(b) \in [FetchedNames(b) -> Value]
  BY <1>1, <1>3 DEF FetchedValues
<1>5. FetchedValues(b) \in Values
  BY <1>1, <1>2, <1>3, <1>4, ValuesAre
<1>6. FetchedValues(b) # NoInputs
  BY <1>5, NullsAssumption
<1>7. AllCompressed(activations[b]) => AllCompressed(FetchedValues(b))
  BY <1>2, <1>3, <1>4 DEF AllCompressed, Held
<1> QED
  BY <1>2, <1>5, <1>6, <1>7

(* What a fetch does to the cache: dataclasses are onloaded in place, and  *)
(* nothing is added, removed or computed.                                  *)
LEMMA AfterFetchIs ==
  ASSUME activations \in [Batches -> Values], NEW b \in Batches,
         activations' = AfterFetch(b)
  PROVE  /\ activations' \in [Batches -> Values]
         /\ \A c \in Batches : Held(c)' = Held(c)
         /\ \A c \in Batches : AllCompressed(activations[c]) => AllCompressed(activations[c])'
<1> DEFINE onloaded(m) == IF m \in FetchedNames(b) \cap Dataclasses
                            THEN [activations[b][m] EXCEPT !.offloaded = FALSE]
                            ELSE activations[b][m]
           values == [m \in Held(b) |-> onloaded(m)]
<1>1. /\ activations[b] \in Values
      /\ Held(b) \subseteq Node /\ activations[b] \in [Held(b) -> Value]
  BY ValuesAre DEF Held
<1>2. \A m \in Held(b) : /\ onloaded(m) \in Value
                         /\ onloaded(m).compressed = activations[b][m].compressed
  <2> SUFFICES ASSUME NEW m \in Held(b)
               PROVE  /\ onloaded(m) \in Value
                      /\ onloaded(m).compressed = activations[b][m].compressed
    OBVIOUS
  <2>1. activations[b][m] \in Value
    BY <1>1
  <2> QED
    BY <2>1 DEF Value
<1> HIDE DEF onloaded
<1>3. DOMAIN values = Held(b) /\ values \in [Held(b) -> Value]
  BY <1>2
<1>4. values \in Values
  BY <1>1, <1>3, ValuesAre
<1>5. activations' = [activations EXCEPT ![b] = values]
  BY DEF AfterFetch, onloaded
<1>6. AllCompressed(activations[b]) => AllCompressed(values)
  BY <1>2 DEF AllCompressed, Held
<1> HIDE DEF values
<1>7. \A c \in Batches : activations'[c] = IF c = b THEN values ELSE activations[c]
  BY <1>5
<1>8. activations' \in [Batches -> Values]
  BY <1>4, <1>5
<1>9. \A c \in Batches : Held(c)' = Held(c)
  BY <1>3, <1>7 DEF Held
<1>10. ASSUME NEW c \in Batches, AllCompressed(activations[c])
       PROVE  AllCompressed(activations[c])'
  <2>1. CASE c = b
    BY <2>1, <1>6, <1>7, <1>10 DEF AllCompressed
  <2>2. CASE c # b
    BY <2>2, <1>7, <1>10 DEF AllCompressed
  <2> QED
    BY <2>1, <2>2
<1> QED
  BY <1>8, <1>9, <1>10

LEMMA SubmittedIs ==
  ASSUME batch \in Batches
  PROVE  /\ Submitted \in Futures \cup {NoFuture}
         /\ Submitted # NoFuture =>
              /\ Submitted.batch = batch + 1
              /\ Submitted.status = "pending" /\ Submitted.inputs = NoInputs
<1>1. CASE prefetch /\ batch < NumBatches
  <2>1. batch + 1 \in Batches
    BY <1>1, NumBatchesAssumption DEF Batches
  <2>2. Submitted = [batch |-> batch + 1, status |-> "pending", inputs |-> NoInputs]
    BY <1>1 DEF Submitted, Future
  <2> QED
    BY <2>1, <2>2 DEF Futures
<1>2. CASE ~(prefetch /\ batch < NumBatches)
  <2>1. Submitted = NoFuture
    BY <1>2 DEF Submitted
  <2> QED
    BY <2>1
<1> QED
  BY <1>1, <1>2

(* A step after the walk leaves the subgraphs as they are.                 *)
LEMMA SubgraphsStay ==
  ASSUME UNCHANGED vars
  PROVE  /\ graph' = graph /\ partitions' = partitions
         /\ Subgraphs' = Subgraphs /\ LastSubgraph' = LastSubgraph
         /\ \A p : NodesOf(p)' = NodesOf(p)
         /\ \A p : InputNames(p)' = InputNames(p)
         /\ \A p : OutputNames(p)' = OutputNames(p)
         /\ \A p : ConsumedNames(p)' = ConsumedNames(p)
         /\ \A m, p : Calls(m, p)' = Calls(m, p)
         /\ Done' <=> Done
<1>1. graph' = graph /\ partitions' = partitions /\ queue' = queue /\ unplaced' = unplaced
  BY DEF vars
<1>2. Subgraphs' = Subgraphs /\ LastSubgraph' = LastSubgraph /\ (Done' <=> Done)
  BY <1>1 DEF Subgraphs, LastSubgraph, Done
<1>3. \A p : NodesOf(p)' = NodesOf(p)
  BY <1>1 DEF NodesOf
<1>4. \A p : InputNames(p)' = InputNames(p)
  BY <1>1, <1>3 DEF InputNames
<1>5. \A p : OutputNames(p)' = OutputNames(p)
  BY <1>1, <1>3 DEF OutputNames, Users
<1>6. \A p : ConsumedNames(p)' = ConsumedNames(p)
  BY <1>2, <1>4 DEF ConsumedNames
<1>7. \A m, p : Calls(m, p)' = Calls(m, p)
  BY <1>1, <1>3 DEF Calls
<1> QED
  BY <1>1, <1>2, <1>3, <1>4, <1>5, <1>6, <1>7

LEMMA CallsAreCounted ==
  ASSUME partitions \in Seq(Seq(Node)), NEW p \in Subgraphs, NEW m
  PROVE  Calls(m, p) \in Nat
<1> DEFINE calls == {n \in NodesOf(p) : graph.module[n] = m}
<1>1. partitions[p] \in Seq(Node)
  BY DEF Subgraphs
<1>2. calls \subseteq Node
  BY <1>1 DEF NodesOf
<1>3. IsFiniteSet(calls)
  BY <1>2, NodesFinite, FS_Subset
<1> QED
  BY <1>3, FS_CardinalityType DEF Calls

-----------------------------------------------------------------------------
(* What the subgraphs from k on still need: CacheHoldsLiveValues says that *)
(* a batch holds Live(k) before it goes through subgraph k.                *)

Live(k) ==
  {m \in UNION {InputNames(q) : q \in k .. LastSubgraph} :
     \/ graph.op[m] = "placeholder"
     \/ \E p \in 1 .. (k - 1) : m \in OutputNames(p)}

LEMMA LiveIs ==
  ASSUME NEW k, NEW m
  PROVE  m \in Live(k) <=>
           /\ \E q \in k .. LastSubgraph : m \in InputNames(q)
           /\ \/ graph.op[m] = "placeholder"
              \/ \E p \in 1 .. (k - 1) : m \in OutputNames(p)
<1>1. m \in UNION {InputNames(q) : q \in k .. LastSubgraph}
        <=> \E q \in k .. LastSubgraph : m \in InputNames(q)
  OBVIOUS
<1> QED
  BY <1>1 DEF Live

(* The model's inputs are what the first subgraphs need.                   *)
LEMMA LiveAtFirst ==
  ASSUME IndInv, Done
  PROVE  Live(1) = {n \in Node : graph.op[n] = "placeholder"}
<1>1. IsTraced(graph) /\ QueueIsReady /\ queue = <<>> /\ partitions \in Seq(Seq(Node))
  BY DEF IndInv, TypeOK, Done
<1>2. ASSUME NEW m \in Live(1) PROVE m \in Node /\ graph.op[m] = "placeholder"
  <2>1. graph.op[m] = "placeholder"
    BY <1>2, LiveIs
  <2>2. PICK q \in Subgraphs : m \in InputNames(q)
    BY <1>2, LiveIs DEF LastSubgraph, Subgraphs
  <2>3. InputNames(q) \subseteq Node
    BY <1>1, <2>2, InputsAreNodes
  <2> QED
    BY <2>1, <2>2, <2>3
<1>3. ASSUME NEW m \in Node, graph.op[m] = "placeholder" PROVE m \in Live(1)
  <2>1. ~IsGetAttr(m)
    BY <1>3 DEF IsGetAttr
  <2>2. Placed(m)
    BY <1>1, <2>1, WalkIsComplete
  <2>3. PICK q \in 1 .. LastSubgraph : m \in NodesOf(q)
    BY <2>2 DEF Placed, NodesOf, LastSubgraph
  <2>4. m \in InputNames(q)
    BY <1>3, <2>3 DEF InputNames
  <2> QED
    BY <1>3, <2>3, <2>4, LiveIs
<1> QED
  BY <1>2, <1>3

(* Updating a batch with what subgraph k returns and deleting what it      *)
(* consumes leaves what the subgraphs behind k need.                       *)
LEMMA LiveAfter ==
  ASSUME IndInv, Done, NEW k \in Subgraphs, k < LastSubgraph
  PROVE  Live(k + 1) = (Live(k) \cup OutputNames(k)) \ ConsumedNames(k)
<1>1. Len(partitions) \in Nat /\ NothingLeaks
  BY NothingIsLeaked DEF IndInv, TypeOK
<1>2. LastSubgraph \in Nat /\ Subgraphs = 1 .. LastSubgraph /\ k \in Nat /\ k >= 1
  BY <1>1 DEF LastSubgraph, Subgraphs
<1>3. ASSUME NEW m \in Live(k + 1) PROVE m \in (Live(k) \cup OutputNames(k)) \ ConsumedNames(k)
  <2>1. PICK q \in (k + 1) .. LastSubgraph : m \in InputNames(q)
    BY <1>3, LiveIs
  <2>2. q \in Subgraphs /\ q > k /\ q \in k .. LastSubgraph
    BY <1>2, <2>1
  <2>3. m \notin ConsumedNames(k)
    BY <2>1, <2>2 DEF ConsumedNames
  <2>4. graph.op[m] = "placeholder" \/ \E p \in 1 .. k : m \in OutputNames(p)
    BY <1>2, <1>3, LiveIs
  <2>5. CASE \/ graph.op[m] = "placeholder"
             \/ \E p \in 1 .. (k - 1) : m \in OutputNames(p)
    BY <2>1, <2>2, <2>3, <2>5, LiveIs
  <2>6. CASE m \in OutputNames(k)
    BY <2>3, <2>6
  <2>7. \A p \in 1 .. k : p \in 1 .. (k - 1) \/ p = k
    BY <1>2
  <2> QED
    BY <2>4, <2>5, <2>6, <2>7
<1>4. ASSUME NEW m \in Live(k) \cup OutputNames(k), m \notin ConsumedNames(k)
      PROVE  m \in Live(k + 1)
  <2>1. PICK q \in Subgraphs : q >= k /\ m \in InputNames(q)
    <3>1. CASE m \in Live(k)
      <4>1. PICK r \in k .. LastSubgraph : m \in InputNames(r)
        BY <3>1, LiveIs
      <4> QED
        BY <1>2, <4>1
    <3>2. CASE m \in OutputNames(k)
      <4>1. PICK r \in Subgraphs : r >= k /\ m \in ConsumedNames(r)
        BY <1>1, <3>2 DEF NothingLeaks
      <4> QED
        BY <4>1 DEF ConsumedNames
    <3> QED
      BY <3>1, <3>2
  <2>2. PICK r \in (k + 1) .. LastSubgraph : m \in InputNames(r)
    <3>1. CASE q > k
      BY <1>2, <2>1, <3>1
    <3>2. CASE q = k
      <4>1. PICK r \in Subgraphs : r > k /\ m \in InputNames(r)
        BY <1>4, <2>1, <3>2 DEF ConsumedNames
      <4> QED
        BY <1>2, <4>1
    <3> QED
      BY <1>2, <2>1, <3>1, <3>2
  <2>3. graph.op[m] = "placeholder" \/ \E p \in 1 .. k : m \in OutputNames(p)
    <3>1. \A p \in 1 .. (k - 1) : p \in 1 .. k
      BY <1>2
    <3>2. k \in 1 .. k
      BY <1>2
    <3>3. \/ graph.op[m] = "placeholder" \/ m \in OutputNames(k)
          \/ \E p \in 1 .. (k - 1) : m \in OutputNames(p)
      BY <1>4, LiveIs
    <3> QED
      BY <3>1, <3>2, <3>3
  <2>4. (k + 1) - 1 = k
    BY <1>2
  <2> QED
    BY <2>2, <2>3, <2>4, LiveIs
<1> QED
  BY <1>3, <1>4

-----------------------------------------------------------------------------
(* One lemma per action.                                                   *)

LEMMA InitPipelineInv == PipelineInit => PipelineInv
<1> SUFFICES ASSUME PipelineInit PROVE PipelineInv
  OBVIOUS
<1>1. IndInv
  BY InitIndInv DEF PipelineInit
<1>2. /\ stage = "tracing" /\ prefetch \in BOOLEAN /\ subgraph = 1 /\ batch = 1
      /\ inputs = NoInputs /\ future = NoFuture /\ hooks_disabled = FALSE
      /\ num_samples = [m \in Quantizable |-> [b \in Batches |-> 0]]
      /\ compressions = [m \in Quantizable |-> 0]
  BY DEF PipelineInit
<1>3. \A b \in Batches : activations[b] \in Values /\ DOMAIN activations[b] = {}
  <2> SUFFICES ASSUME NEW b \in Batches
               PROVE  activations[b] \in Values /\ DOMAIN activations[b] = {}
    OBVIOUS
  <2>1. activations[b] = [m \in {} |-> [compressed |-> TRUE, offloaded |-> TRUE]]
    BY DEF PipelineInit
  <2>2. DOMAIN activations[b] = {} /\ activations[b] \in [{} -> Value]
    BY <2>1
  <2> QED
    BY <2>2, ValuesAre
<1>4. activations \in [Batches -> Values]
  BY <1>3 DEF PipelineInit
<1>5. 1 \in Batches /\ 1 \in Subgraphs
  BY <1>1, NumBatchesAssumption DEF Batches, Subgraphs, IndInv, TypeOK
<1>6. PipelineTypeOK
  BY <1>2, <1>4, <1>5 DEF PipelineTypeOK, Stages
<1>7. Walked /\ PassBounds /\ Fetched /\ HooksFollowStage
  BY <1>2 DEF Walked, PassBounds, Fetched, InPass, HooksFollowStage
<1>8. SamplesSoFar
  BY <1>2 DEF SamplesSoFar
<1>9. CompressedSoFar
  BY <1>2 DEF CompressedSoFar, LastCompressed
<1>10. ValuesCompressed
  BY <1>2, <1>3 DEF ValuesCompressed, AllCompressed
<1>11. CacheHoldsLiveValues
  BY <1>2 DEF CacheHoldsLiveValues
<1> QED
  BY <1>1, <1>6, <1>7, <1>8, <1>9, <1>10, <1>11 DEF PipelineInv

(* The walk takes steps while the pipeline is tracing only.                *)
LEMMA TraceStep == PipelineInv /\ Trace => PipelineInv'
<1> SUFFICES ASSUME PipelineInv, Trace PROVE PipelineInv'
  OBVIOUS
<1>1. /\ stage' = stage /\ prefetch' = prefetch /\ subgraph' = subgraph /\ batch' = batch
      /\ inputs' = inputs /\ future' = future /\ activations' = activations
      /\ num_samples' = num_samples /\ compressions' = compressions
      /\ hooks_disabled' = hooks_disabled
  BY DEF Trace, pipeline
<1>2. IndInv'
  BY IndInvStep DEF PipelineInv, Trace
<1>3. ~Done
  BY DEF Trace, Next, Pop, PlaceGetAttr, Done
<1>4. stage = "tracing" /\ subgraph = 1
  BY <1>3 DEF PipelineInv, Walked, PassBounds
<1>5. 1 \in Subgraphs'
  BY <1>2 DEF Subgraphs, IndInv, TypeOK
<1>6. PipelineTypeOK'
  BY <1>1, <1>4, <1>5 DEF PipelineInv, PipelineTypeOK
<1>7. Walked' /\ PassBounds' /\ Fetched' /\ HooksFollowStage' /\ CacheHoldsLiveValues'
  BY <1>1, <1>4 DEF PipelineInv, Walked, PassBounds, Fetched, InPass, HooksFollowStage, Aborted,
                    CacheHoldsLiveValues
<1>8. SamplesSoFar'
  BY <1>1, <1>4 DEF PipelineInv, SamplesSoFar, Aborted
<1>9. CompressedSoFar'
  BY <1>1, <1>4 DEF PipelineInv, CompressedSoFar, Aborted, LastCompressed
<1>10. ValuesCompressed'
  BY <1>1 DEF PipelineInv, ValuesCompressed, AllCompressed
<1> QED
  BY <1>2, <1>6, <1>7, <1>8, <1>9, <1>10 DEF PipelineInv

(* What a step that leaves the subgraphs alone has to show.                *)
LEMMA AfterWalk ==
  ASSUME PipelineInv, UNCHANGED vars, stage # "tracing",
         PipelineTypeOK', PassBounds', Fetched', HooksFollowStage', SamplesSoFar',
         CompressedSoFar', ValuesCompressed', CacheHoldsLiveValues'
  PROVE  PipelineInv'
<1>1. IndInv'
  BY IndInvStep DEF PipelineInv
<1>2. Walked'
  BY SubgraphsStay DEF PipelineInv, Walked
<1> QED
  BY <1>1, <1>2 DEF PipelineInv

(* The cache in terms of what is live.                                     *)
LEMMA CacheIs ==
  /\ CacheHoldsLiveValues <=>
       (stage \in {"calibrating", "compressing", "propagating", "finishing", "finished"}
          => \A b \in Batches : Held(b) = Live(NextSubgraph(b)))
  /\ CacheHoldsLiveValues' <=>
       (stage' \in {"calibrating", "compressing", "propagating", "finishing", "finished"}
          => \A b \in Batches : Held(b)' = Live(NextSubgraph(b))')
BY DEF CacheHoldsLiveValues, Live

LEMMA LiveStays ==
  ASSUME UNCHANGED vars PROVE \A k : Live(k)' = Live(k)
<1>1. /\ graph' = graph /\ LastSubgraph' = LastSubgraph
      /\ \A p : InputNames(p)' = InputNames(p)
      /\ \A p : OutputNames(p)' = OutputNames(p)
  BY SubgraphsStay
<1> QED
  BY <1>1 DEF Live

LEMMA PrepareCacheStep == PipelineInv /\ PrepareCache => PipelineInv'
<1> SUFFICES ASSUME PipelineInv, PrepareCache PROVE PipelineInv'
  OBVIOUS
<1> DEFINE placeholders == {n \in Node : graph.op[n] = "placeholder"}
           filled == [m \in placeholders |-> [compressed |-> TRUE, offloaded |-> TRUE]]
<1>1. /\ UNCHANGED vars
      /\ stage = "tracing" /\ stage' = "calibrating" /\ Done
      /\ prefetch' = prefetch /\ subgraph' = subgraph /\ batch' = batch
      /\ inputs' = inputs /\ future' = future /\ activations' = [b \in Batches |-> filled]
      /\ num_samples' = num_samples /\ compressions' = compressions
      /\ hooks_disabled' = hooks_disabled
  BY DEF PrepareCache
<1>2. /\ Subgraphs' = Subgraphs /\ (Done' <=> Done)
      /\ \A m, p : Calls(m, p)' = Calls(m, p)
  BY <1>1, SubgraphsStay
<1>3. subgraph = 1 /\ batch = 1 /\ inputs = NoInputs /\ future = NoFuture /\ ~hooks_disabled
  BY <1>1 DEF PipelineInv, PassBounds, HooksFollowStage, Aborted
<1>4. /\ DOMAIN filled = placeholders
      /\ \A m \in placeholders : filled[m] = [compressed |-> TRUE, offloaded |-> TRUE]
  OBVIOUS
<1>5. filled \in Values
  <2>1. placeholders \subseteq Node /\ filled \in [placeholders -> Value]
    BY DEF Value
  <2> HIDE DEF filled, placeholders
  <2> QED
    BY <2>1, <1>4, ValuesAre
<1> HIDE DEF filled
<1>6. IndInv'
  BY <1>1, IndInvStep DEF PipelineInv
<1>7. Walked'
  BY <1>1, <1>2 DEF Walked
<1>8. PipelineTypeOK'
  <2>1. activations' \in [Batches -> Values]
    BY <1>1, <1>5
  <2>2. stage' \in Stages
    BY <1>1 DEF Stages
  <2> QED
    BY <2>1, <2>2, <1>1, <1>2 DEF PipelineInv, PipelineTypeOK
<1>9. PassBounds'
  BY <1>1, <1>3 DEF PassBounds
<1>10. Fetched'
  BY <1>1, <1>3 DEF Fetched
<1>11. HooksFollowStage'
  BY <1>1, <1>3 DEF HooksFollowStage
<1>12. SamplesSoFar'
  <2>1. \A b \in Batches : ~(b < 1)
    BY DEF Batches
  <2> QED
    BY <2>1, <1>1, <1>3 DEF PipelineInv, SamplesSoFar, Aborted
<1>13. CompressedSoFar'
  BY <1>1, <1>3 DEF PipelineInv, CompressedSoFar, Aborted, LastCompressed
<1>14. ValuesCompressed'
  <2>1. AllCompressed(filled)
    BY <1>4 DEF AllCompressed
  <2>2. \A b \in Batches : activations'[b] = filled
    BY <1>1
  <2> QED
    BY <2>1, <2>2, <1>1, <1>3 DEF ValuesCompressed, AllCompressed
<1>15. CacheHoldsLiveValues'
  <2>1. \A b \in Batches : Held(b)' = placeholders
    BY <1>1, <1>4 DEF Held
  <2>2. \A b \in Batches : NextSubgraph(b)' = 1
    BY <1>1, <1>3 DEF NextSubgraph
  <2>3. Live(1)' = placeholders
    BY <1>1, LiveAtFirst, LiveStays DEF PipelineInv
  <2> HIDE DEF placeholders
  <2>4. \A b \in Batches : Held(b)' = Live(NextSubgraph(b))'
    BY <2>1, <2>2, <2>3 DEF Live
  <2> QED
    BY <2>4, CacheIs
<1> QED
  BY <1>6, <1>7, <1>8, <1>9, <1>10, <1>11, <1>12, <1>13, <1>14, <1>15 DEF PipelineInv

(* What no fetch disturbs, whether it succeeds or not.                     *)
LEMMA FetchKeeps ==
  ASSUME PipelineInv, UNCHANGED vars,
         stage' = stage \/ stage' = "fetch_failed",
         UNCHANGED <<prefetch, subgraph, batch, num_samples, compressions, hooks_disabled>>,
         \A b \in Batches : Held(b)' = Held(b)
  PROVE  /\ HooksFollowStage' /\ SamplesSoFar' /\ CompressedSoFar' /\ CacheHoldsLiveValues'
         /\ \A b \in Batches : FetchedNames(b)' = FetchedNames(b)
         /\ Subgraphs' = Subgraphs
<1>1. /\ Subgraphs' = Subgraphs /\ LastSubgraph' = LastSubgraph
      /\ \A m, p : Calls(m, p)' = Calls(m, p)
      /\ \A p : InputNames(p)' = InputNames(p)
      /\ \A k : Live(k)' = Live(k)
  BY SubgraphsStay, LiveStays
<1>2. subgraph' = subgraph /\ batch' = batch /\ num_samples' = num_samples
      /\ compressions' = compressions /\ hooks_disabled' = hooks_disabled
  OBVIOUS
<1>3. Aborted' \/ (stage' = stage /\ (Aborted' <=> Aborted))
  BY DEF Aborted
<1>4. HooksFollowStage'
  BY <1>2, <1>3 DEF PipelineInv, HooksFollowStage
<1>5. SamplesSoFar'
  BY <1>1, <1>2, <1>3 DEF PipelineInv, SamplesSoFar
<1>6. CompressedSoFar'
  BY <1>1, <1>2, <1>3 DEF PipelineInv, CompressedSoFar, LastCompressed
<1>7. \A b \in Batches : FetchedNames(b)' = FetchedNames(b)
  BY <1>1, <1>2 DEF FetchedNames
<1>8. CacheHoldsLiveValues'
  <2>1. ASSUME stage' = stage PROVE \A b : NextSubgraph(b)' = NextSubgraph(b)
    BY <1>1, <1>2, <2>1 DEF NextSubgraph
  <2>2. ASSUME stage' = stage PROVE \A b : Live(NextSubgraph(b))' = Live(NextSubgraph(b))
    BY <1>1, <2>1, <2>2 DEF Live
  <2>3. CASE stage' = stage
    BY <2>2, <2>3, CacheIs DEF PipelineInv
  <2>4. CASE stage' = "fetch_failed"
    BY <2>4, CacheIs
  <2> QED
    BY <2>3, <2>4
<1> QED
  BY <1>1, <1>4, <1>5, <1>6, <1>7, <1>8

LEMMA FetchBatchStep == PipelineInv /\ FetchBatch => PipelineInv'
<1> SUFFICES ASSUME PipelineInv, FetchBatch PROVE PipelineInv'
  OBVIOUS
<1>1. /\ UNCHANGED vars
      /\ InPass /\ inputs = NoInputs /\ future = NoFuture
      /\ UNCHANGED <<prefetch, subgraph, batch, num_samples, compressions, hooks_disabled>>
  BY DEF FetchBatch
<1>2. PipelineTypeOK /\ batch \in Batches /\ activations \in [Batches -> Values]
  BY DEF PipelineInv, PipelineTypeOK
<1>3. CASE /\ stage' = "fetch_failed"
           /\ UNCHANGED <<inputs, future, activations>>
  <2>1. \A b \in Batches : Held(b)' = Held(b)
    BY <1>3 DEF Held
  <2>2. /\ HooksFollowStage' /\ SamplesSoFar' /\ CompressedSoFar' /\ CacheHoldsLiveValues'
        /\ Subgraphs' = Subgraphs
    BY <1>1, <1>3, <2>1, FetchKeeps
  <2>3. PipelineTypeOK'
    BY <1>1, <1>2, <1>3, <2>2 DEF PipelineTypeOK, Stages
  <2>4. PassBounds' /\ Fetched'
    BY <1>3 DEF PassBounds, Fetched, InPass
  <2>5. ValuesCompressed'
    BY <1>3 DEF PipelineInv, ValuesCompressed, AllCompressed
  <2> QED
    BY <1>1, <2>2, <2>3, <2>4, <2>5, AfterWalk DEF InPass
<1>4. CASE /\ inputs' = FetchedValues(batch)
           /\ activations' = AfterFetch(batch)
           /\ future' = Submitted
           /\ stage' = stage
  <2>1. /\ FetchedValues(batch) \in Values
        /\ FetchedValues(batch) # NoInputs
        /\ DOMAIN FetchedValues(batch) = FetchedNames(batch)
        /\ AllCompressed(activations[batch]) => AllCompressed(FetchedValues(batch))
    BY <1>2, FetchedValuesAre
  <2>2. /\ activations' \in [Batches -> Values]
        /\ \A c \in Batches : Held(c)' = Held(c)
        /\ \A c \in Batches : AllCompressed(activations[c]) => AllCompressed(activations[c])'
    BY <1>2, <1>4, AfterFetchIs
  <2>3. /\ HooksFollowStage' /\ SamplesSoFar' /\ CompressedSoFar' /\ CacheHoldsLiveValues'
        /\ \A b \in Batches : FetchedNames(b)' = FetchedNames(b)
        /\ Subgraphs' = Subgraphs
    BY <1>1, <1>4, <2>2, FetchKeeps
  <2>4. /\ Submitted \in Futures \cup {NoFuture}
        /\ Submitted # NoFuture => /\ Submitted.batch = batch + 1
                                   /\ Submitted.status = "pending" /\ Submitted.inputs = NoInputs
    BY <1>2, SubmittedIs
  <2>5. PipelineTypeOK'
    BY <1>1, <1>2, <1>4, <2>1, <2>2, <2>3, <2>4 DEF PipelineTypeOK
  <2>6. PassBounds'
    BY <1>1, <1>4 DEF InPass, PassBounds
  <2>7. Fetched'
    <3>1. inputs' # NoInputs /\ DOMAIN inputs' = FetchedNames(batch) /\ batch' = batch
      BY <1>1, <1>4, <2>1
    <3>2. DOMAIN inputs' = FetchedNames(batch)'
      BY <1>1, <1>2, <2>2, <3>1, SubgraphsStay DEF FetchedNames
    <3> QED
      BY <3>1, <3>2, <1>4, <2>4 DEF Fetched
  <2>8. ValuesCompressed'
    <3>1. \A b \in Batches : AllCompressed(activations[b])'
      BY <2>2 DEF PipelineInv, ValuesCompressed
    <3>2. AllCompressed(inputs)'
      BY <1>2, <1>4, <2>1 DEF PipelineInv, ValuesCompressed, AllCompressed
    <3> QED
      BY <3>1, <3>2, <1>4, <2>4 DEF ValuesCompressed, AllCompressed
  <2> QED
    BY <1>1, <2>3, <2>5, <2>6, <2>7, <2>8, AfterWalk DEF InPass
<1> QED
  BY <1>3, <1>4 DEF FetchBatch

LEMMA PrefetchStep == PipelineInv /\ Prefetch => PipelineInv'
<1> SUFFICES ASSUME PipelineInv, Prefetch PROVE PipelineInv'
  OBVIOUS
<1> DEFINE b == future.batch
<1>1. /\ UNCHANGED vars
      /\ future # NoFuture /\ future.status = "pending"
      /\ stage' = stage /\ inputs' = inputs
      /\ UNCHANGED <<prefetch, subgraph, batch, num_samples, compressions, hooks_disabled>>
  BY DEF Prefetch
<1>2. PipelineTypeOK /\ b \in Batches /\ activations \in [Batches -> Values]
  BY <1>1 DEF PipelineInv, PipelineTypeOK, Futures
<1>3. stage # "tracing"
  BY <1>1 DEF PipelineInv, PassBounds
<1>4. CASE future' = Future(b, "failed", NoInputs) /\ activations' = activations
  <2>1. \A c \in Batches : Held(c)' = Held(c)
    BY <1>4 DEF Held
  <2>2. /\ HooksFollowStage' /\ SamplesSoFar' /\ CompressedSoFar' /\ CacheHoldsLiveValues'
        /\ \A c \in Batches : FetchedNames(c)' = FetchedNames(c)
        /\ Subgraphs' = Subgraphs
    BY <1>1, <2>1, FetchKeeps
  <2>3. /\ future' \in Futures /\ future' # NoFuture
        /\ future'.batch = b /\ future'.status = "failed" /\ future'.inputs = NoInputs
    BY <1>2, <1>4, NullsAssumption DEF Future, Futures
  <2>4. PipelineTypeOK'
    BY <1>1, <1>2, <1>4, <2>2, <2>3 DEF PipelineTypeOK
  <2>5. PassBounds'
    BY <1>1 DEF PipelineInv, PassBounds, LastSubgraph, vars
  <2>6. Fetched'
    <3> SUFFICES ASSUME InPass
                 PROVE  /\ inputs # NoInputs => DOMAIN inputs = FetchedNames(batch)'
                        /\ future'.batch = IF inputs = NoInputs THEN batch ELSE batch + 1
      BY <1>1, <2>3 DEF Fetched, InPass
    <3>1. FetchedNames(batch)' = FetchedNames(batch)
      BY <1>1, <1>4, SubgraphsStay DEF FetchedNames, Held
    <3> QED
      BY <3>1, <2>3, <1>1 DEF PipelineInv, Fetched
  <2>7. ValuesCompressed'
    BY <1>1, <1>4, <2>3 DEF PipelineInv, ValuesCompressed, AllCompressed
  <2> QED
    BY <1>1, <1>3, <2>2, <2>4, <2>5, <2>6, <2>7, AfterWalk
<1>5. CASE /\ future' = Future(b, "done", FetchedValues(b))
           /\ activations' = AfterFetch(b)
  <2>1. /\ FetchedValues(b) \in Values
        /\ FetchedValues(b) # NoInputs
        /\ DOMAIN FetchedValues(b) = FetchedNames(b)
        /\ AllCompressed(activations[b]) => AllCompressed(FetchedValues(b))
    BY <1>2, FetchedValuesAre
  <2>2. /\ activations' \in [Batches -> Values]
        /\ \A c \in Batches : Held(c)' = Held(c)
        /\ \A c \in Batches : AllCompressed(activations[c]) => AllCompressed(activations[c])'
    BY <1>2, <1>5, AfterFetchIs
  <2>3. /\ HooksFollowStage' /\ SamplesSoFar' /\ CompressedSoFar' /\ CacheHoldsLiveValues'
        /\ Subgraphs' = Subgraphs
    BY <1>1, <2>2, FetchKeeps
  <2> DEFINE fetched == FetchedValues(b)
  <2> HIDE DEF fetched
  <2>4. /\ future' \in Futures /\ future' # NoFuture
        /\ future'.batch = b /\ future'.status = "done" /\ future'.inputs = fetched
    BY <1>2, <1>5, <2>1, NullsAssumption DEF Future, Futures, fetched
  <2>5. PipelineTypeOK'
    BY <1>1, <1>2, <2>2, <2>3, <2>4 DEF PipelineTypeOK
  <2>6. PassBounds'
    BY <1>1 DEF PipelineInv, PassBounds, LastSubgraph, vars
  <2>7. Fetched'
    <3> SUFFICES ASSUME InPass
                 PROVE  /\ inputs # NoInputs => DOMAIN inputs = FetchedNames(batch)'
                        /\ b = IF inputs = NoInputs THEN batch ELSE batch + 1
                        /\ fetched # NoInputs /\ DOMAIN fetched = FetchedNames(b)'
      BY <1>1, <2>4 DEF Fetched, InPass
    <3>1. FetchedNames(batch)' = FetchedNames(batch)
      BY <1>1, <1>2, <2>2, SubgraphsStay DEF FetchedNames, PipelineTypeOK
    <3>2. b = future'.batch
      BY <2>4
    <3>3. FetchedNames(b)' = FetchedNames(b)
      BY <1>1, <1>2, <2>2, <3>2, SubgraphsStay DEF FetchedNames
    <3>4. inputs # NoInputs => DOMAIN inputs = FetchedNames(batch)
      BY DEF PipelineInv, Fetched
    <3>5. b = IF inputs = NoInputs THEN batch ELSE batch + 1
      BY <1>1 DEF PipelineInv, Fetched
    <3> QED
      BY <3>1, <3>3, <3>4, <3>5, <2>1 DEF fetched
  <2>8. ValuesCompressed'
    <3>1. \A c \in Batches : AllCompressed(activations[c])'
      BY <2>2 DEF PipelineInv, ValuesCompressed
    <3>2. AllCompressed(fetched)
      BY <1>2, <2>1 DEF PipelineInv, ValuesCompressed, fetched
    <3> QED
      BY <3>1, <3>2, <1>1, <2>4 DEF PipelineInv, ValuesCompressed, AllCompressed
  <2> QED
    BY <1>1, <1>3, <2>3, <2>5, <2>6, <2>7, <2>8, AfterWalk
<1> QED
  BY <1>4, <1>5 DEF Prefetch

LEMMA TakePrefetchedStep == PipelineInv /\ TakePrefetched => PipelineInv'
<1> SUFFICES ASSUME PipelineInv, TakePrefetched PROVE PipelineInv'
  OBVIOUS
<1>1. /\ UNCHANGED vars
      /\ InPass /\ inputs = NoInputs /\ future # NoFuture
      /\ activations' = activations
      /\ UNCHANGED <<prefetch, subgraph, batch, num_samples, compressions, hooks_disabled>>
      /\ stage' = stage \/ stage' = "fetch_failed"
  BY DEF TakePrefetched
<1>2. PipelineTypeOK /\ batch \in Batches
  BY DEF PipelineInv, PipelineTypeOK
<1>3. \A b \in Batches : Held(b)' = Held(b)
  BY <1>1 DEF Held
<1>4. /\ HooksFollowStage' /\ SamplesSoFar' /\ CompressedSoFar' /\ CacheHoldsLiveValues'
      /\ Subgraphs' = Subgraphs
  BY <1>1, <1>3, FetchKeeps
<1>5. CASE stage' = "fetch_failed" /\ inputs' = inputs /\ future' = future
  <2>1. PipelineTypeOK'
    BY <1>1, <1>2, <1>4, <1>5 DEF PipelineTypeOK, Stages
  <2>2. PassBounds' /\ Fetched'
    BY <1>5 DEF PassBounds, Fetched, InPass
  <2>3. ValuesCompressed'
    BY <1>1, <1>5 DEF PipelineInv, ValuesCompressed, AllCompressed
  <2> QED
    BY <1>1, <1>4, <2>1, <2>2, <2>3, AfterWalk DEF InPass
<1>6. CASE future.status = "done" /\ inputs' = future.inputs /\ future' = Submitted /\ stage' = stage
  <2>1. future.inputs # NoInputs /\ DOMAIN future.inputs = FetchedNames(batch)
    BY <1>1, <1>6 DEF PipelineInv, Fetched
  <2>2. future.inputs \in Values
    BY <1>1, <1>2, <2>1 DEF PipelineTypeOK, Futures
  <2>3. /\ Submitted \in Futures \cup {NoFuture}
        /\ Submitted # NoFuture => /\ Submitted.batch = batch + 1
                                   /\ Submitted.status = "pending" /\ Submitted.inputs = NoInputs
    BY <1>2, SubmittedIs
  <2>4. PipelineTypeOK'
    BY <1>1, <1>2, <1>4, <1>6, <2>2, <2>3 DEF PipelineTypeOK
  <2>5. PassBounds'
    BY <1>1, <1>6 DEF PassBounds, InPass
  <2>6. Fetched'
    <3>1. FetchedNames(batch)' = FetchedNames(batch)
      BY <1>1, SubgraphsStay DEF FetchedNames, Held
    <3> QED
      BY <1>1, <1>6, <2>1, <2>3, <3>1 DEF Fetched
  <2>7. ValuesCompressed'
    BY <1>1, <1>6, <2>1, <2>3 DEF PipelineInv, ValuesCompressed, AllCompressed
  <2> QED
    BY <1>1, <1>4, <2>4, <2>5, <2>6, <2>7, AfterWalk DEF InPass
<1> QED
  BY <1>5, <1>6 DEF TakePrefetched

(* An exception: nothing that is left behind is relied upon.               *)
LEMMA AbortStep ==
  ASSUME PipelineInv, stage # "tracing",
         NEW how \in {"raised", "out_of_memory"}, Abort(how)
  PROVE  PipelineInv'
<1>1. /\ UNCHANGED vars /\ stage' = how /\ hooks_disabled' = FALSE
      /\ inputs' = inputs /\ future' = future /\ activations' = activations
      /\ UNCHANGED <<prefetch, subgraph, batch, num_samples, compressions>>
  BY DEF Abort
<1>2. Aborted'
  BY <1>1 DEF Aborted
<1>3. PipelineTypeOK'
  <2>1. Subgraphs' = Subgraphs
    BY <1>1, SubgraphsStay
  <2> QED
    BY <1>1, <2>1 DEF PipelineInv, PipelineTypeOK, Stages
<1>4. PassBounds' /\ Fetched'
  BY <1>1 DEF PassBounds, Fetched, InPass
<1>5. HooksFollowStage' /\ SamplesSoFar' /\ CompressedSoFar'
  BY <1>2 DEF HooksFollowStage, SamplesSoFar, CompressedSoFar
<1>6. ValuesCompressed'
  BY <1>1 DEF PipelineInv, ValuesCompressed, AllCompressed
<1>7. CacheHoldsLiveValues'
  BY <1>1, CacheIs
<1> QED
  BY <1>1, <1>3, <1>4, <1>5, <1>6, <1>7, AfterWalk

LEMMA OutOfMemoryStep == PipelineInv /\ OutOfMemory => PipelineInv'
BY AbortStep DEF OutOfMemory, InPass

(* A forward pass uses up what was fetched; the worker is on the batch     *)
(* that follows in the same pass.                                          *)
LEMMA LastBatchIsAlone ==
  ASSUME PipelineInv, InPass, inputs # NoInputs
  PROVE  /\ ~(batch < NumBatches) => future = NoFuture /\ batch = NumBatches
         /\ batch < NumBatches => batch + 1 \in Batches
         /\ 1 \in Batches
<1>1. batch \in Batches /\ NumBatches \in Nat /\ NumBatches # 0
  BY NumBatchesAssumption DEF PipelineInv, PipelineTypeOK
<1>2. ASSUME future # NoFuture PROVE batch + 1 \in Batches
  <2>1. future.batch = batch + 1
    BY <1>2 DEF PipelineInv, Fetched
  <2>2. future.batch \in Batches
    BY <1>2 DEF PipelineInv, PipelineTypeOK, Futures
  <2> QED
    BY <2>1, <2>2
<1> QED
  BY <1>1, <1>2 DEF Batches

LEMMA CalibrateStep == PipelineInv /\ Calibrate => PipelineInv'
<1> SUFFICES ASSUME PipelineInv, Calibrate PROVE PipelineInv'
  OBVIOUS
<1>1. stage = "calibrating" /\ inputs # NoInputs
  BY DEF Calibrate
<1>2. CASE Abort("raised")
  BY <1>1, <1>2, AbortStep
<1>3. CASE /\ num_samples' = Observed
           /\ NextBatch("compressing")
           /\ UNCHANGED <<vars, prefetch, subgraph, future, activations, compressions,
                          hooks_disabled>>
  <2>1. /\ UNCHANGED vars /\ prefetch' = prefetch /\ subgraph' = subgraph
        /\ future' = future /\ activations' = activations /\ compressions' = compressions
        /\ hooks_disabled' = hooks_disabled /\ inputs' = NoInputs
        /\ batch < NumBatches => stage' = "calibrating" /\ batch' = batch + 1
        /\ ~(batch < NumBatches) => stage' = "compressing" /\ batch' = 1
    BY <1>1, <1>3 DEF NextBatch
  <2>2. /\ ~(batch < NumBatches) => future = NoFuture /\ batch = NumBatches
        /\ batch < NumBatches => batch + 1 \in Batches
        /\ 1 \in Batches
    BY <1>1, LastBatchIsAlone DEF InPass
  <2>3. PipelineTypeOK /\ batch \in Batches /\ subgraph \in Subgraphs
        /\ NumBatches \in Nat /\ partitions \in Seq(Seq(Node))
        /\ num_samples \in [Quantizable -> [Batches -> Nat]]
    BY NumBatchesAssumption DEF PipelineInv, PipelineTypeOK, IndInv, TypeOK
  <2>4. /\ Subgraphs' = Subgraphs /\ LastSubgraph' = LastSubgraph
        /\ \A m, p : Calls(m, p)' = Calls(m, p)
        /\ \A p : InputNames(p)' = InputNames(p)
        /\ \A k : Live(k)' = Live(k)
    BY <2>1, SubgraphsStay, LiveStays
  <2>5. \A m \in Quantizable : Calls(m, subgraph) \in Nat
    BY <2>3, CallsAreCounted
  <2>6. ~hooks_disabled
    BY <1>1 DEF PipelineInv, HooksFollowStage, Aborted
  <2>7. num_samples' = [m \in Quantizable |->
                          [num_samples[m] EXCEPT ![batch] = @ + Calls(m, subgraph)]]
    BY <1>3, <2>6 DEF Observed
  <2>8. /\ num_samples' \in [Quantizable -> [Batches -> Nat]]
        /\ \A m \in Quantizable : \A b \in Batches :
             num_samples'[m][b] = IF b = batch THEN num_samples[m][b] + Calls(m, subgraph)
                                               ELSE num_samples[m][b]
    BY <2>3, <2>5, <2>7
  <2>9. PipelineTypeOK'
    BY <2>1, <2>2, <2>3, <2>4, <2>8 DEF PipelineTypeOK, Stages
  <2>10. PassBounds'
    BY <2>1, <2>2 DEF PassBounds
  <2>11. \A b \in Batches : FetchedNames(b)' = FetchedNames(b)
    BY <2>1, <2>4 DEF FetchedNames, Held
  <2>12. Fetched'
    <3> SUFFICES ASSUME batch < NumBatches, future # NoFuture
                 PROVE  /\ future.batch = batch + 1
                        /\ future.status = "done" =>
                             /\ future.inputs # NoInputs
                             /\ DOMAIN future.inputs = FetchedNames(future.batch)'
      BY <2>1, <2>2 DEF Fetched, InPass
    <3>1. /\ future.batch = batch + 1
          /\ future.status = "done" =>
               future.inputs # NoInputs /\ DOMAIN future.inputs = FetchedNames(future.batch)
      BY <1>1 DEF PipelineInv, Fetched, InPass
    <3>2. FetchedNames(future.batch)' = FetchedNames(future.batch)
      BY <2>1, <2>4 DEF FetchedNames, Held
    <3> QED
      BY <3>1, <3>2
  <2>13. HooksFollowStage'
    BY <2>1, <2>6 DEF HooksFollowStage
  <2>14. SamplesSoFar'
    <3>1. \A m \in Quantizable : \A b \in Batches :
            num_samples[m][b] = IF b < batch THEN Calls(m, subgraph) ELSE 0
      BY <1>1 DEF PipelineInv, SamplesSoFar, Aborted
    <3> SUFFICES ASSUME NEW m \in Quantizable, NEW b \in Batches
                 PROVE  num_samples'[m][b] =
                          IF stage' = "compressing" \/ (stage' = "calibrating" /\ b < batch')
                            THEN Calls(m, subgraph) ELSE 0
      BY <2>1, <2>4 DEF SamplesSoFar
    <3>2. num_samples'[m][b] = IF b < batch \/ b = batch THEN Calls(m, subgraph) ELSE 0
      BY <2>3, <2>5, <2>8, <3>1 DEF Batches
    <3>3. CASE batch < NumBatches
      BY <3>2, <3>3, <2>1, <2>3 DEF Batches
    <3>4. CASE ~(batch < NumBatches)
      BY <3>2, <3>4, <2>1, <2>2, <2>3 DEF Batches
    <3> QED
      BY <3>3, <3>4
  <2>15. CompressedSoFar'
    <3>1. LastCompressed' = LastCompressed
      BY <1>1, <2>1 DEF LastCompressed
    <3>2. \A m \in Quantizable :
            compressions[m] > 0 <=> \E p \in 1 .. LastCompressed : Calls(m, p) > 0
      BY <1>1 DEF PipelineInv, CompressedSoFar, Aborted
    <3> QED
      BY <3>1, <3>2, <2>1, <2>4 DEF CompressedSoFar
  <2>16. ValuesCompressed'
    BY <2>1 DEF PipelineInv, ValuesCompressed, AllCompressed
  <2>17. CacheHoldsLiveValues'
    <3>1. \A b : NextSubgraph(b) = subgraph /\ NextSubgraph(b)' = subgraph
      BY <1>1, <2>1 DEF NextSubgraph
    <3>2. \A b \in Batches : Held(b) = Live(subgraph)
      BY <1>1, <3>1, CacheIs DEF PipelineInv
    <3>3. \A b \in Batches : Held(b)' = Held(b)
      BY <2>1 DEF Held
    <3>4. \A b \in Batches : Live(NextSubgraph(b))' = Live(subgraph)
      BY <2>4, <3>1 DEF Live
    <3> QED
      BY <3>2, <3>3, <3>4, CacheIs
  <2> QED
    BY <1>1, <2>1, <2>9, <2>10, <2>12, <2>13, <2>14, <2>15, <2>16, <2>17, AfterWalk
<1> QED
  BY <1>2, <1>3 DEF Calibrate

(* Between the passes exactly the modules of the subgraph have samples; at *)
(* the end of calibration none has.                                        *)
LEMMA SampledIs ==
  ASSUME PipelineInv
  PROVE  /\ stage = "compressing" => Sampled = Hooked(subgraph)
         /\ stage \in {"propagating", "finishing", "finished"} => Sampled = {}
<1>1. 1 \in Batches
  BY NumBatchesAssumption DEF Batches
<1>2. ASSUME ~Aborted
      PROVE  \A m \in Quantizable : \A b \in Batches :
               num_samples[m][b] =
                 IF stage = "compressing" \/ (stage = "calibrating" /\ b < batch)
                   THEN Calls(m, subgraph) ELSE 0
  BY <1>2 DEF PipelineInv, SamplesSoFar
<1>3. CASE stage = "compressing"
  BY <1>1, <1>2, <1>3 DEF Aborted, Sampled, Hooked
<1>4. CASE stage \in {"propagating", "finishing", "finished"}
  <2>1. \A m \in Quantizable : \A b \in Batches : num_samples[m][b] = 0
    BY <1>2, <1>4 DEF Aborted
  <2> QED
    BY <2>1, <1>4 DEF Sampled
<1> QED
  BY <1>3, <1>4

(* What compress_modules leaves.                                           *)
LEMMA CompressModulesIs ==
  ASSUME compressions \in [Quantizable -> Nat], CompressModules
  PROVE  /\ compressions' \in [Quantizable -> Nat]
         /\ num_samples' \in [Quantizable -> [Batches -> Nat]]
         /\ \A m \in Quantizable : \A b \in Batches : num_samples'[m][b] = 0
         /\ \A m \in Quantizable : compressions'[m] > 0 <=> m \in Sampled \/ compressions[m] > 0
         /\ Sampled' = {}
<1>1. compressions' = [m \in Quantizable |-> IF m \in Sampled THEN compressions[m] + 1
                                                              ELSE compressions[m]]
  BY DEF CompressModules
<1>2. num_samples' = [m \in Quantizable |-> [b \in Batches |-> 0]]
  BY DEF CompressModules
<1>3. \A m \in Quantizable : compressions[m] \in Nat
  OBVIOUS
<1> HIDE DEF Sampled
<1>4. \A m \in Quantizable :
        compressions'[m] = IF m \in Sampled THEN compressions[m] + 1 ELSE compressions[m]
  BY <1>1
<1>5. compressions' \in [Quantizable -> Nat]
  BY <1>1, <1>3
<1>6. \A m \in Quantizable : \A b \in Batches : num_samples'[m][b] = 0
  BY <1>2
<1>7. Sampled' = {}
  BY <1>6 DEF Sampled
<1> QED
  BY <1>2, <1>3, <1>4, <1>5, <1>6, <1>7

LEMMA SequentialEpochEndStep == PipelineInv /\ SequentialEpochEnd => PipelineInv'
<1> SUFFICES ASSUME PipelineInv, SequentialEpochEnd PROVE PipelineInv'
  OBVIOUS
<1>1. /\ stage = "compressing" /\ stage' = "propagating" /\ hooks_disabled' = TRUE
      /\ UNCHANGED vars /\ prefetch' = prefetch /\ subgraph' = subgraph /\ batch' = batch
      /\ inputs' = inputs /\ future' = future /\ activations' = activations
      /\ CompressModules
  BY DEF SequentialEpochEnd
<1>2. batch = 1 /\ inputs = NoInputs /\ future = NoFuture
  BY <1>1 DEF PipelineInv, PassBounds
<1>3. PipelineTypeOK /\ subgraph \in Subgraphs /\ compressions \in [Quantizable -> Nat]
  BY DEF PipelineInv, PipelineTypeOK
<1>4. /\ Subgraphs' = Subgraphs
      /\ \A m, p : Calls(m, p)' = Calls(m, p)
      /\ \A k : Live(k)' = Live(k)
  BY <1>1, SubgraphsStay, LiveStays
<1>5. /\ compressions' \in [Quantizable -> Nat]
      /\ num_samples' \in [Quantizable -> [Batches -> Nat]]
      /\ \A m \in Quantizable : \A b \in Batches : num_samples'[m][b] = 0
      /\ \A m \in Quantizable : compressions'[m] > 0 <=> m \in Sampled \/ compressions[m] > 0
  BY <1>1, <1>3, CompressModulesIs
<1>6. PipelineTypeOK'
  BY <1>1, <1>3, <1>4, <1>5 DEF PipelineTypeOK, Stages
<1>7. PassBounds' /\ Fetched' /\ HooksFollowStage'
  BY <1>1, <1>2 DEF PassBounds, Fetched, HooksFollowStage
<1>8. SamplesSoFar'
  BY <1>1, <1>5 DEF SamplesSoFar
<1>9. CompressedSoFar'
  <2>1. \A m \in Quantizable : m \in Sampled <=> Calls(m, subgraph) > 0
    BY <1>1, SampledIs DEF Hooked
  <2>2. \A m \in Quantizable :
          compressions[m] > 0 <=> \E p \in 1 .. (subgraph - 1) : Calls(m, p) > 0
    BY <1>1 DEF PipelineInv, CompressedSoFar, Aborted, LastCompressed
  <2>3. subgraph \in 1 .. subgraph /\ \A p : p \in 1 .. subgraph <=> p \in 1 .. (subgraph - 1) \/ p = subgraph
    BY <1>3 DEF Subgraphs
  <2>4. \A m \in Quantizable :
          compressions'[m] > 0 <=> \E p \in 1 .. subgraph : Calls(m, p) > 0
    BY <1>5, <2>1, <2>2, <2>3
  <2>5. LastCompressed' = subgraph
    BY <1>1 DEF LastCompressed
  <2> QED
    BY <1>4, <2>4, <2>5 DEF CompressedSoFar
<1>10. ValuesCompressed'
  BY <1>1 DEF PipelineInv, ValuesCompressed, AllCompressed
<1>11. CacheHoldsLiveValues'
  <2>1. \A b \in Batches : NextSubgraph(b) = subgraph /\ NextSubgraph(b)' = subgraph
    BY <1>1, <1>2 DEF NextSubgraph, Batches
  <2>2. \A b \in Batches : Held(b)' = Live(subgraph)
    BY <1>1, <2>1, CacheIs DEF PipelineInv, Held
  <2>3. \A b \in Batches : Live(NextSubgraph(b))' = Live(subgraph)
    BY <1>4, <2>1 DEF Live
  <2> QED
    BY <2>2, <2>3, CacheIs
<1> QED
  BY <1>1, <1>6, <1>7, <1>8, <1>9, <1>10, <1>11, AfterWalk

(* calibration_epoch_end has nothing left to compress.                     *)
LEMMA CalibrationEpochEndStep == PipelineInv /\ CalibrationEpochEnd => PipelineInv'
<1> SUFFICES ASSUME PipelineInv, CalibrationEpochEnd PROVE PipelineInv'
  OBVIOUS
<1>1. /\ stage = "finishing" /\ stage' = "finished" /\ hooks_disabled' = hooks_disabled
      /\ UNCHANGED vars /\ prefetch' = prefetch /\ subgraph' = subgraph /\ batch' = batch
      /\ inputs' = inputs /\ future' = future /\ activations' = activations
      /\ CompressModules
  BY DEF CalibrationEpochEnd
<1>2. PipelineTypeOK /\ compressions \in [Quantizable -> Nat]
  BY DEF PipelineInv, PipelineTypeOK
<1>3. /\ Subgraphs' = Subgraphs /\ LastSubgraph' = LastSubgraph
      /\ \A m, p : Calls(m, p)' = Calls(m, p)
      /\ \A k : Live(k)' = Live(k)
  BY <1>1, SubgraphsStay, LiveStays
<1>4. /\ compressions' \in [Quantizable -> Nat]
      /\ num_samples' \in [Quantizable -> [Batches -> Nat]]
      /\ \A m \in Quantizable : \A b \in Batches : num_samples'[m][b] = 0
      /\ \A m \in Quantizable : compressions'[m] > 0 <=> m \in Sampled \/ compressions[m] > 0
  BY <1>1, <1>2, CompressModulesIs
<1>5. PipelineTypeOK'
  BY <1>1, <1>2, <1>3, <1>4 DEF PipelineTypeOK, Stages
<1>6. PassBounds' /\ Fetched' /\ HooksFollowStage'
  BY <1>1, <1>3 DEF PipelineInv, PassBounds, Fetched, InPass, HooksFollowStage, Aborted
<1>7. SamplesSoFar'
  BY <1>1, <1>4 DEF SamplesSoFar
<1>8. CompressedSoFar'
  <2>1. Sampled = {}
    BY <1>1, SampledIs
  <2>2. LastCompressed' = LastCompressed
    BY <1>1 DEF LastCompressed
  <2>3. \A m \in Quantizable :
          compressions[m] > 0 <=> \E p \in 1 .. LastCompressed : Calls(m, p) > 0
    BY <1>1 DEF PipelineInv, CompressedSoFar, Aborted
  <2> QED
    BY <1>3, <1>4, <2>1, <2>2, <2>3 DEF CompressedSoFar
<1>9. ValuesCompressed'
  BY <1>1 DEF PipelineInv, ValuesCompressed, AllCompressed
<1>10. CacheHoldsLiveValues'
  <2>1. \A b \in Batches : NextSubgraph(b) = subgraph /\ NextSubgraph(b)' = subgraph
    BY <1>1 DEF NextSubgraph
  <2>2. \A b \in Batches : Held(b)' = Live(subgraph)
    BY <1>1, <2>1, CacheIs DEF PipelineInv, Held
  <2>3. \A b \in Batches : Live(NextSubgraph(b))' = Live(subgraph)
    BY <1>3, <2>1 DEF Live
  <2> QED
    BY <2>2, <2>3, CacheIs
<1> QED
  BY <1>1, <1>5, <1>6, <1>7, <1>8, <1>9, <1>10, AfterWalk

(* What the second pass stores of a batch: as every input is compressed    *)
(* and every module the subgraph runs, so are its outputs.                 *)
LEMMA AfterSubgraphIs ==
  ASSUME PipelineInv, stage = "propagating", inputs # NoInputs,
         activations' = AfterSubgraph(batch)
  PROVE  /\ activations' \in [Batches -> Values]
         /\ \A c \in Batches :
              Held(c)' = IF c = batch
                           THEN (Held(c) \cup OutputNames(subgraph)) \ ConsumedNames(subgraph)
                           ELSE Held(c)
         /\ \A c \in Batches : AllCompressed(activations[c])'
<1> DEFINE updated == Updated(batch, Outputs)
           values == Deleted(updated, ConsumedNames(subgraph))
<1>1. /\ batch \in Batches /\ subgraph \in Subgraphs /\ activations \in [Batches -> Values]
      /\ IsTraced(graph) /\ partitions \in Seq(Seq(Node))
      /\ AllCompressed(inputs) /\ \A b \in Batches : AllCompressed(activations[b])
  BY DEF PipelineInv, PipelineTypeOK, IndInv, TypeOK, ValuesCompressed
<1>2. OutputNames(subgraph) \subseteq Node
  BY <1>1, InputsAreNodes DEF OutputNames
<1>3. /\ Held(batch) \subseteq Node /\ activations[batch] \in [Held(batch) -> Value]
  BY <1>1, ValuesAre DEF Held
<1>4. \A m \in Hooked(subgraph) : compressions[m] > 0
  <2>1. subgraph \in 1 .. subgraph
    BY <1>1 DEF Subgraphs
  <2> QED
    BY <2>1 DEF PipelineInv, CompressedSoFar, Aborted, LastCompressed, Hooked
<1>5. Outputs = [m \in OutputNames(subgraph) |-> [compressed |-> TRUE, offloaded |-> TRUE]]
  <2>1. /\ \A m \in DOMAIN inputs : inputs[m].compressed
        /\ \A m \in Hooked(subgraph) : compressions[m] > 0
    BY <1>1, <1>4 DEF AllCompressed
  <2> QED
    BY <2>1 DEF Outputs
<1>6. /\ DOMAIN Outputs = OutputNames(subgraph)
      /\ \A m \in OutputNames(subgraph) : Outputs[m] \in Value /\ Outputs[m].compressed
  BY <1>5 DEF Value
<1>7. /\ DOMAIN updated = Held(batch) \cup OutputNames(subgraph)
      /\ \A m \in DOMAIN updated : updated[m] \in Value /\ updated[m].compressed
  <2>1. DOMAIN updated = Held(batch) \cup OutputNames(subgraph)
    BY <1>6 DEF Updated
  <2>2. ASSUME NEW m \in DOMAIN updated PROVE updated[m] \in Value /\ updated[m].compressed
    <3>1. CASE m \in OutputNames(subgraph)
      BY <3>1, <1>6, <2>1 DEF Updated
    <3>2. CASE m \notin OutputNames(subgraph)
      <4>1. m \in Held(batch) /\ updated[m] = activations[batch][m]
        BY <3>2, <1>6, <2>1, <2>2 DEF Updated
      <4> QED
        BY <4>1, <1>1, <1>3 DEF AllCompressed, Held
    <3> QED
      BY <3>1, <3>2
  <2> QED
    BY <2>1, <2>2
<1> HIDE DEF updated
<1>8. /\ DOMAIN values = (Held(batch) \cup OutputNames(subgraph)) \ ConsumedNames(subgraph)
      /\ \A m \in DOMAIN values : values[m] = updated[m] /\ m \in DOMAIN updated
      /\ values = [m \in DOMAIN values |-> updated[m]]
  BY <1>7 DEF Deleted
<1>9. activations' = [activations EXCEPT ![batch] = values]
  BY DEF AfterSubgraph, updated
<1> HIDE DEF values
<1>10. values \in Values /\ AllCompressed(values)
  <2>1. DOMAIN values \subseteq Node
    BY <1>2, <1>3, <1>8
  <2>2. values \in [DOMAIN values -> Value]
    BY <1>7, <1>8
  <2>3. AllCompressed(values)
    BY <1>7, <1>8 DEF AllCompressed
  <2> QED
    BY <2>1, <2>2, <2>3, ValuesAre
<1>11. \A c \in Batches : activations'[c] = IF c = batch THEN values ELSE activations[c]
  BY <1>1, <1>9
<1>12. activations' \in [Batches -> Values]
  BY <1>1, <1>9, <1>10
<1>13. \A c \in Batches :
         Held(c)' = IF c = batch
                      THEN (Held(c) \cup OutputNames(subgraph)) \ ConsumedNames(subgraph)
                      ELSE Held(c)
  BY <1>8, <1>11 DEF Held
<1>14. \A c \in Batches : AllCompressed(activations[c])'
  BY <1>1, <1>10, <1>11 DEF AllCompressed
<1> QED
  BY <1>12, <1>13, <1>14

LEMMA PropagateStep == PipelineInv /\ Propagate => PipelineInv'
<1> SUFFICES ASSUME PipelineInv, Propagate PROVE PipelineInv'
  OBVIOUS
<1>1. stage = "propagating" /\ inputs # NoInputs
  BY DEF Propagate
<1>2. CASE Abort("raised")
  BY <1>1, <1>2, AbortStep
<1> DEFINE following == IF subgraph < LastSubgraph THEN "calibrating" ELSE "finishing"
<1>3. CASE /\ num_samples' = Observed
           /\ NextBatch(following)
           /\ activations' = IF subgraph < LastSubgraph THEN AfterSubgraph(batch) ELSE activations
           /\ subgraph' = IF stage' = "calibrating" THEN subgraph + 1 ELSE subgraph
           /\ hooks_disabled' = (hooks_disabled /\ stage' = "propagating")
           /\ UNCHANGED <<vars, prefetch, future, compressions>>
  <2>1. /\ UNCHANGED vars /\ prefetch' = prefetch /\ future' = future
        /\ compressions' = compressions /\ inputs' = NoInputs
        /\ batch < NumBatches => stage' = "propagating" /\ batch' = batch + 1
        /\ ~(batch < NumBatches) => stage' = following /\ batch' = 1
    BY <1>1, <1>3 DEF NextBatch
  <2>2. /\ ~(batch < NumBatches) => future = NoFuture /\ batch = NumBatches
        /\ batch < NumBatches => batch + 1 \in Batches
        /\ 1 \in Batches
    BY <1>1, LastBatchIsAlone DEF InPass
  <2>3. /\ batch \in Batches /\ subgraph \in Subgraphs
        /\ NumBatches \in Nat /\ LastSubgraph \in Nat /\ Subgraphs = 1 .. LastSubgraph
        /\ activations \in [Batches -> Values] /\ IndInv /\ Done /\ PipelineTypeOK
    BY <1>1, NumBatchesAssumption
       DEF PipelineInv, PipelineTypeOK, IndInv, TypeOK, Walked, LastSubgraph, Subgraphs
  <2>4. /\ Subgraphs' = Subgraphs /\ LastSubgraph' = LastSubgraph
        /\ \A m, p : Calls(m, p)' = Calls(m, p)
        /\ \A p : InputNames(p)' = InputNames(p)
        /\ \A k : Live(k)' = Live(k)
    BY <2>1, SubgraphsStay, LiveStays
  <2>5. hooks_disabled /\ (hooks_disabled' <=> stage' = "propagating")
    BY <1>1, <1>3 DEF PipelineInv, HooksFollowStage, Aborted
  <2>6. num_samples' = num_samples
    BY <1>3, <2>5 DEF Observed
  <2>7. /\ activations' \in [Batches -> Values]
        /\ \A c \in Batches : AllCompressed(activations[c])'
        /\ \A c \in Batches :
             Held(c)' = IF c = batch /\ subgraph < LastSubgraph
                          THEN (Held(c) \cup OutputNames(subgraph)) \ ConsumedNames(subgraph)
                          ELSE Held(c)
    <3>1. CASE subgraph < LastSubgraph
      BY <1>1, <1>3, <3>1, AfterSubgraphIs
    <3>2. CASE ~(subgraph < LastSubgraph)
      <4>1. activations' = activations
        BY <1>3, <3>2
      <4> QED
        BY <4>1, <3>2, <2>3 DEF PipelineInv, ValuesCompressed, AllCompressed, Held
    <3> QED
      BY <3>1, <3>2
  <2>8. /\ stage' = "propagating" <=> batch < NumBatches
        /\ subgraph' = IF batch < NumBatches \/ ~(subgraph < LastSubgraph)
                         THEN subgraph ELSE subgraph + 1
        /\ stage' = IF batch < NumBatches THEN "propagating" ELSE following
    <3>1. stage' = IF batch < NumBatches THEN "propagating" ELSE following
      BY <2>1
    <3>2. following # "propagating" /\ (following = "calibrating" <=> subgraph < LastSubgraph)
      OBVIOUS
    <3> QED
      BY <3>1, <3>2, <1>3
  <2>9. subgraph' \in Subgraphs
    BY <2>3, <2>8
  <2>10. PipelineTypeOK'
    <3>1. stage' \in Stages
      BY <2>8 DEF Stages
    <3>2. batch' \in Batches
      BY <2>1, <2>2
    <3>3. hooks_disabled' \in BOOLEAN
      BY <1>3
    <3> QED
      BY <3>1, <3>2, <3>3, <2>1, <2>3, <2>4, <2>6, <2>7, <2>9 DEF PipelineTypeOK
  <2>11. PassBounds'
    <3>1. stage' = "finishing" => subgraph' = LastSubgraph'
      BY <2>3, <2>4, <2>8
    <3> QED
      BY <3>1, <2>1, <2>2, <2>8 DEF PassBounds
  <2>12. Fetched'
    <3> SUFFICES ASSUME batch < NumBatches, future # NoFuture
                 PROVE  /\ future.batch = batch + 1
                        /\ future.status = "done" =>
                             /\ future.inputs # NoInputs
                             /\ DOMAIN future.inputs = FetchedNames(future.batch)'
      BY <2>1, <2>2 DEF Fetched, InPass
    <3>1. /\ future.batch = batch + 1
          /\ future.status = "done" =>
               future.inputs # NoInputs /\ DOMAIN future.inputs = FetchedNames(future.batch)
      BY <1>1 DEF PipelineInv, Fetched, InPass
    <3>2. FetchedNames(future.batch)' = FetchedNames(future.batch)
      <4>1. future'.batch = batch + 1 /\ batch + 1 \in Batches /\ batch + 1 # batch
        BY <2>1, <2>2, <2>3, <3>1 DEF Batches
      <4>2. \A c \in Batches : c = batch + 1 => Held(c)' = Held(c)
        BY <2>7, <4>1
      <4>3. Held(future.batch)' = Held(future.batch)
        BY <2>1, <3>1, <4>1, <4>2 DEF Held
      <4>4. subgraph' = subgraph
        BY <2>8
      <4> QED
        BY <2>4, <4>3, <4>4 DEF FetchedNames
    <3> QED
      BY <3>1, <3>2
  <2>13. HooksFollowStage'
    BY <2>5 DEF HooksFollowStage
  <2>14. SamplesSoFar'
    <3>1. \A m \in Quantizable : \A b \in Batches : num_samples[m][b] = 0
      BY <1>1 DEF PipelineInv, SamplesSoFar, Aborted
    <3>2. stage' # "compressing"
      BY <2>8
    <3>3. \A b \in Batches : ~(stage' = "calibrating" /\ b < batch')
      BY <2>1 DEF Batches
    <3> QED
      BY <2>6, <3>1, <3>2, <3>3 DEF SamplesSoFar
  <2>15. CompressedSoFar'
    <3>1. LastCompressed = subgraph
      BY <1>1 DEF LastCompressed
    <3>2. LastCompressed' = subgraph
      <4>1. CASE stage' \in {"propagating", "finishing"}
        BY <4>1, <2>8 DEF LastCompressed
      <4>2. CASE stage' = "calibrating"
        BY <4>2, <2>3, <2>8 DEF LastCompressed
      <4> QED
        BY <4>1, <4>2, <2>8
    <3>3. \A m \in Quantizable :
            compressions[m] > 0 <=> \E p \in 1 .. LastCompressed : Calls(m, p) > 0
      BY <1>1 DEF PipelineInv, CompressedSoFar, Aborted
    <3> QED
      BY <2>1, <2>4, <3>1, <3>2, <3>3 DEF CompressedSoFar
  <2>16. ValuesCompressed'
    BY <2>1, <2>7 DEF PipelineInv, ValuesCompressed, AllCompressed
  <2>17. CacheHoldsLiveValues'
    <3> SUFFICES ASSUME NEW c \in Batches
                 PROVE  Held(c)' = Live(NextSubgraph(c))'
      BY CacheIs
    <3>1. Held(c) = Live(NextSubgraph(c))
      BY <1>1, CacheIs DEF PipelineInv
    <3>2. CASE subgraph < LastSubgraph
      <4>1. Live(subgraph + 1) = (Live(subgraph) \cup OutputNames(subgraph))
                                   \ ConsumedNames(subgraph)
        BY <2>3, <3>2, LiveAfter
      <4>2. NextSubgraph(c) = IF c < batch THEN subgraph + 1 ELSE subgraph
        BY <1>1, <3>2 DEF NextSubgraph
      <4>3. Held(c)' = IF c < batch \/ c = batch THEN Live(subgraph + 1) ELSE Live(subgraph)
        BY <2>3, <2>7, <3>1, <3>2, <4>1, <4>2 DEF Batches
      <4>4. NextSubgraph(c)' = IF c < batch \/ c = batch THEN subgraph + 1 ELSE subgraph
        <5>1. CASE batch < NumBatches
          BY <5>1, <3>2, <2>1, <2>3, <2>4, <2>8 DEF NextSubgraph, Batches
        <5>2. CASE ~(batch < NumBatches)
          BY <5>2, <3>2, <2>2, <2>3, <2>8 DEF NextSubgraph, Batches
        <5> QED
          BY <5>1, <5>2
      <4>5. Live(NextSubgraph(c))' = IF c < batch \/ c = batch THEN Live(subgraph + 1)
                                                               ELSE Live(subgraph)
        BY <2>4, <4>4 DEF Live
      <4> QED
        BY <4>3, <4>5
    <3>3. CASE ~(subgraph < LastSubgraph)
      <4>1. NextSubgraph(c) = subgraph
        BY <3>3 DEF NextSubgraph
      <4>2. NextSubgraph(c)' = subgraph
        BY <3>3, <2>4, <2>8 DEF NextSubgraph
      <4>3. Live(NextSubgraph(c))' = Live(subgraph)
        BY <2>4, <4>2 DEF Live
      <4> QED
        BY <3>1, <3>3, <2>7, <4>1, <4>3
    <3> QED
      BY <3>2, <3>3
  <2> QED
    BY <1>1, <2>1, <2>10, <2>11, <2>12, <2>13, <2>14, <2>15, <2>16, <2>17, AfterWalk
<1> QED
  BY <1>2, <1>3 DEF Propagate

LEMMA StutterStep == PipelineInv /\ UNCHANGED pipelineVars => PipelineInv'
<1> SUFFICES ASSUME PipelineInv, UNCHANGED pipelineVars PROVE PipelineInv'
  OBVIOUS
<1>1. /\ UNCHANGED vars
      /\ stage' = stage /\ prefetch' = prefetch /\ subgraph' = subgraph /\ batch' = batch
      /\ inputs' = inputs /\ future' = future /\ activations' = activations
      /\ num_samples' = num_samples /\ compressions' = compressions
      /\ hooks_disabled' = hooks_disabled
  BY DEF pipelineVars, pipeline
<1>2. \A b \in Batches : Held(b)' = Held(b)
  BY <1>1 DEF Held
<1>3. /\ HooksFollowStage' /\ SamplesSoFar' /\ CompressedSoFar' /\ CacheHoldsLiveValues'
      /\ \A b \in Batches : FetchedNames(b)' = FetchedNames(b)
      /\ Subgraphs' = Subgraphs
  BY <1>1, <1>2, FetchKeeps
<1>4. PipelineTypeOK'
  BY <1>1, <1>3 DEF PipelineInv, PipelineTypeOK
<1>5. PassBounds' /\ Walked'
  <2>1. LastSubgraph' = LastSubgraph /\ (Done' <=> Done)
    BY <1>1, SubgraphsStay
  <2> QED
    BY <1>1, <2>1 DEF PipelineInv, PassBounds, Walked
<1>6. Fetched'
  <2>1. InPass' <=> InPass
    BY <1>1 DEF InPass
  <2>2. FetchedNames(batch)' = FetchedNames(batch)
    BY <1>1, <1>3 DEF PipelineInv, PipelineTypeOK
  <2>3. FetchedNames(future.batch)' = FetchedNames(future.batch)
    BY <1>1, SubgraphsStay DEF FetchedNames, Held
  <2> QED
    BY <1>1, <2>1, <2>2, <2>3 DEF PipelineInv, Fetched
<1>7. ValuesCompressed'
  BY <1>1 DEF PipelineInv, ValuesCompressed, AllCompressed
<1>8. IndInv'
  BY <1>1, IndInvStep DEF PipelineInv
<1> QED
  BY <1>3, <1>4, <1>5, <1>6, <1>7, <1>8 DEF PipelineInv

LEMMA PipelineStep == PipelineInv /\ [PipelineNext]_pipelineVars => PipelineInv'
BY TraceStep, PrepareCacheStep, FetchBatchStep, PrefetchStep, TakePrefetchedStep, CalibrateStep,
   SequentialEpochEndStep, PropagateStep, CalibrationEpochEndStep, OutOfMemoryStep, StutterStep
   DEF PipelineNext, Main

LEMMA PipelineInvHolds == PipelineSpec => []PipelineInv
BY InitPipelineInv, PipelineStep, PTL DEF PipelineSpec

-----------------------------------------------------------------------------
(* What the invariant shows of the pipeline.                               *)

(* Type correctness of the pipeline: indices stay within the subgraphs and *)
(* the batches, the cache holds dictionaries of values.                    *)
THEOREM PipelineTypeCorrect == PipelineSpec => []PipelineTypeOK
<1>1. PipelineInv => PipelineTypeOK
  BY DEF PipelineInv
<1> QED
  BY <1>1, PipelineInvHolds, PTL

(* For every graph, dead calls or not, and every interleaving of the       *)
(* worker thread: between subgraphs the cache holds what is still needed.  *)
THEOREM CacheStaysExact == PipelineSpec => []CacheHoldsLiveValues
<1>1. PipelineInv => CacheHoldsLiveValues
  BY DEF PipelineInv
<1> QED
  BY <1>1, PipelineInvHolds, PTL

(* When a subgraph is compressed its modules have seen each batch once per *)
(* call, and no other module has any sample.                               *)
THEOREM EveryBatchIsCounted == PipelineSpec => []CalibratedOnEveryBatch
<1>1. PipelineInv => CalibratedOnEveryBatch
  BY DEF PipelineInv, SamplesSoFar, Aborted, CalibratedOnEveryBatch
<1> QED
  BY <1>1, PipelineInvHolds, PTL

(* Every subgraph runs, in both passes, on values that compressed modules  *)
(* computed.                                                               *)
THEOREM CalibrationSeesCompressedInputs == PipelineSpec => []InputsComeFromCompressedModel
<1>1. PipelineInv => InputsComeFromCompressedModel
  BY DEF PipelineInv, ValuesCompressed, AllCompressed, InputsComeFromCompressedModel
<1> QED
  BY <1>1, PipelineInvHolds, PTL

(* The main thread never writes the dictionary the worker is reading: it   *)
(* stores batch b while the worker is on b + 1, and fills the cache before *)
(* the first fetch.                                                        *)
THEOREM WorkerReadsAlone == PipelineSpec => NoWriteWhileFetching
<1> DEFINE Reads == future # NoFuture /\ future.status = "pending" /\ future' = future
           Kept == activations'[future.batch] = activations[future.batch]
<1>1. PipelineInv /\ [PipelineNext]_pipelineVars => (Reads => Kept)
  <2> SUFFICES ASSUME PipelineInv, [PipelineNext]_pipelineVars, Reads PROVE Kept
    OBVIOUS
  <2>1. CASE activations' = activations
    BY <2>1
  <2>2. CASE PrepareCache
    BY <2>2 DEF PipelineInv, PassBounds, PrepareCache
  <2>3. CASE FetchBatch
    BY <2>3 DEF FetchBatch
  <2>4. CASE Prefetch
    <3>1. future'.status \in {"failed", "done"}
      BY <2>4 DEF Prefetch, Future
    <3> QED
      BY <3>1
  <2>5. CASE Propagate /\ activations' = AfterSubgraph(batch)
    <3>1. stage = "propagating" /\ inputs # NoInputs
      BY <2>5 DEF Propagate
    <3>2. future.batch = batch + 1 /\ batch \in Nat
      BY <3>1 DEF PipelineInv, PipelineTypeOK, Fetched, InPass, Batches
    <3> DEFINE values == Deleted(Updated(batch, Outputs), ConsumedNames(subgraph))
    <3>3. activations' = [activations EXCEPT ![batch] = values]
      BY <2>5 DEF AfterSubgraph
    <3> HIDE DEF values
    <3>4. \A b \in Batches : b # batch => activations'[b] = activations[b]
      BY <3>3 DEF PipelineInv, PipelineTypeOK
    <3>5. future.batch \in Batches /\ future.batch # batch
      BY <3>2 DEF PipelineInv, PipelineTypeOK, Futures
    <3> QED
      BY <3>4, <3>5
  <2>6. CASE Propagate /\ activations' = activations
    BY <2>6
  <2> QED
    BY <2>1, <2>2, <2>3, <2>4, <2>5, <2>6
       DEF PipelineNext, Main, Trace, pipeline, TakePrefetched, Calibrate, Abort,
           SequentialEpochEnd, Propagate, CalibrationEpochEnd, OutOfMemory, pipelineVars
<1> QED
  BY <1>1, PipelineInvHolds, PTL DEF PipelineSpec, NoWriteWhileFetching

-----------------------------------------------------------------------------
(* No call of a subgraph and no `delete` asks for what is not there.       *)

LEMMA InputsAreThere ==
  ASSUME PipelineInv, NoDeadCalls(graph), InPass, inputs # NoInputs
  PROVE  /\ ~MissingInput
         /\ stage = "propagating" /\ subgraph < LastSubgraph => ~DeleteFails
<1>1. /\ IndInv /\ Done /\ subgraph \in Subgraphs /\ batch \in Batches
      /\ LastSubgraph \in Nat /\ Subgraphs = 1 .. LastSubgraph
  BY DEF PipelineInv, PipelineTypeOK, Walked, InPass, IndInv, TypeOK, LastSubgraph, Subgraphs
<1>2. NamesAvailable
  BY <1>1, NamesAreAvailable
<1>3. InputNames(subgraph) \subseteq Live(subgraph)
  <2> SUFFICES ASSUME NEW m \in InputNames(subgraph) PROVE m \in Live(subgraph)
    OBVIOUS
  <2>1. subgraph \in subgraph .. LastSubgraph
    BY <1>1
  <2>2. graph.op[m] = "placeholder" \/ \E p \in 1 .. (subgraph - 1) : m \in OutputNames(p)
    BY <1>1, <1>2 DEF NamesAvailable
  <2> QED
    BY <2>1, <2>2, LiveIs
<1>4. Held(batch) = Live(subgraph)
  <2>1. NextSubgraph(batch) = subgraph
    BY <1>1 DEF NextSubgraph, Batches
  <2> QED
    BY <1>1, <2>1, CacheIs DEF PipelineInv, InPass
<1>5. DOMAIN inputs = InputNames(subgraph)
  BY <1>3, <1>4 DEF PipelineInv, Fetched, FetchedNames
<1>6. ConsumedNames(subgraph) \subseteq Held(batch)
  BY <1>3, <1>4 DEF ConsumedNames
<1> QED
  BY <1>5, <1>6 DEF MissingInput, DeleteFails

LEMMA GraphStays == [PipelineNext]_pipelineVars => graph' = graph
<1> SUFFICES ASSUME [PipelineNext]_pipelineVars PROVE graph' = graph
  OBVIOUS
<1>1. [Next]_vars
  BY DEF PipelineNext, Main, Trace, PrepareCache, FetchBatch, Prefetch, TakePrefetched, Calibrate,
         Abort, SequentialEpochEnd, Propagate, CalibrationEpochEnd, OutOfMemory, pipelineVars
<1> QED
  BY <1>1 DEF Next, Pop, PlaceGetAttr, vars

(* If the graphs have no dead calls, every subgraph is called with all its *)
(* arguments and every name it deletes from the cache is in the cache.     *)
THEOREM PipelineNeverRaises ==
  ASSUME \A g \in Graphs : NoDeadCalls(g)
  PROVE  PipelineSpec => []NeverRaises
<1>1. PipelineInit => NoDeadCalls(graph) /\ NeverRaises
  BY DEF PipelineInit, Init, NeverRaises
<1>2. NoDeadCalls(graph) /\ [PipelineNext]_pipelineVars => NoDeadCalls(graph)'
  BY GraphStays DEF NoDeadCalls
<1>3. PipelineInv /\ NoDeadCalls(graph) /\ NeverRaises /\ [PipelineNext]_pipelineVars
        => NeverRaises'
  <2> SUFFICES ASSUME PipelineInv, NoDeadCalls(graph), stage # "raised",
                      [PipelineNext]_pipelineVars
               PROVE  stage' # "raised"
    BY DEF NeverRaises
  <2>1. CASE Calibrate
    <3>1. ~MissingInput
      BY <2>1, InputsAreThere DEF Calibrate, InPass
    <3> QED
      BY <2>1, <3>1 DEF Calibrate, NextBatch
  <2>2. CASE Propagate
    <3>1. ~MissingInput /\ ~(subgraph < LastSubgraph /\ DeleteFails)
      BY <2>2, InputsAreThere DEF Propagate, InPass
    <3> QED
      BY <2>2, <3>1 DEF Propagate, NextBatch
  <2> QED
    BY <2>1, <2>2 DEF PipelineNext, Main, Trace, pipeline, PrepareCache, FetchBatch, Prefetch,
         TakePrefetched, SequentialEpochEnd, CalibrationEpochEnd, OutOfMemory, Abort, pipelineVars
<1> QED
  BY <1>1, <1>2, <1>3, PipelineInvHolds, PTL DEF PipelineSpec

-----------------------------------------------------------------------------
(* The pipeline implements layerwise compression.                          *)

LEMMA CallsOfSubgraph ==
  ASSUME partitions \in Seq(Seq(Node)), NEW p \in Subgraphs, NEW m
  PROVE  Calls(m, p) > 0 <=> \E n \in NodesOf(p) : graph.module[n] = m
<1> DEFINE calls == {n \in NodesOf(p) : graph.module[n] = m}
<1>1. partitions[p] \in Seq(Node)
  BY DEF Subgraphs
<1>2. calls \subseteq Node
  BY <1>1 DEF NodesOf
<1>3. IsFiniteSet(calls)
  BY <1>2, NodesFinite, FS_Subset
<1>4. Cardinality(calls) \in Nat /\ (Cardinality(calls) = 0 <=> calls = {})
  BY <1>3, FS_CardinalityType, FS_EmptySet
<1>5. Calls(m, p) = Cardinality(calls)
  BY DEF Calls
<1> QED
  BY <1>4, <1>5

(* No module to compress is called by two nodes: the second call might be  *)
(* in another subgraph, which calibrates and compresses the module again.  *)
OneCallEach(g) ==
  \A m, n \in Node : g.module[m] = g.module[n] /\ g.module[m] \in Quantizable => m = n

CompressedModules == {m \in Quantizable : compressions[m] > 0}

(* The modules of a subgraph are not compressed before, and what they      *)
(* depend on is compressed or among them.                                  *)
LEMMA SubgraphIsGroup ==
  ASSUME PipelineInv, OneCallEach(graph), stage = "calibrating"
  PROVE  /\ Hooked(subgraph) \subseteq Layerwise!Called \ CompressedModules
         /\ \A m \in Hooked(subgraph) :
              Layerwise!DependsOn(m) \subseteq Hooked(subgraph) \cup CompressedModules
<1>1. /\ IsTraced(graph) /\ partitions \in Seq(Seq(Node)) /\ PlacesDistinct
      /\ InputsComputedFirst /\ unplaced = {} /\ Len(partitions) \in Nat
      /\ subgraph \in Subgraphs /\ subgraph \in Nat /\ subgraph >= 1
  BY DEF PipelineInv, PipelineTypeOK, Walked, Done, IndInv, TypeOK, Subgraphs
<1>2. \A p \in Subgraphs : NodesOf(p) \subseteq Node
  BY <1>1, InputsAreNodes
<1>3. \A p \in 1 .. subgraph : p \in Subgraphs
  BY <1>1 DEF Subgraphs
<1>4. \A m \in Quantizable :
        m \in CompressedModules
          <=> \E p \in 1 .. (subgraph - 1) : \E n \in NodesOf(p) : graph.module[n] = m
  <2>1. \A m \in Quantizable :
          m \in CompressedModules <=> \E p \in 1 .. (subgraph - 1) : Calls(m, p) > 0
    BY DEF PipelineInv, CompressedSoFar, Aborted, LastCompressed, CompressedModules
  <2>2. \A p \in 1 .. (subgraph - 1) : p \in Subgraphs
    BY <1>1 DEF Subgraphs
  <2> QED
    BY <1>1, <2>1, <2>2, CallsOfSubgraph
<1>5. \A m \in Quantizable :
        m \in Hooked(subgraph) <=> \E n \in NodesOf(subgraph) : graph.module[n] = m
  BY <1>1, CallsOfSubgraph DEF Hooked
<1>6. ASSUME NEW m \in Hooked(subgraph)
      PROVE  m \in Layerwise!Called /\ m \notin CompressedModules
  <2>1. m \in Quantizable
    BY DEF Hooked
  <2>2. PICK n \in NodesOf(subgraph) : graph.module[n] = m
    BY <1>5, <2>1
  <2>3. n \in Node
    BY <1>1, <1>2
  <2>4. m \in Layerwise!Called
    BY <2>1, <2>2, <2>3 DEF Layerwise!Called, Layerwise!CallsOf
  <2>5. ASSUME NEW p \in 1 .. (subgraph - 1), NEW o \in NodesOf(p), graph.module[o] = m
        PROVE  FALSE
    <3>1. p \in Subgraphs /\ p # subgraph
      BY <1>1 DEF Subgraphs
    <3>2. o = n
      BY <1>2, <2>1, <2>2, <2>3, <2>5, <3>1 DEF OneCallEach
    <3> QED
      BY <1>1, <2>2, <3>1, <3>2, OnePlace DEF Subgraphs
  <2> QED
    BY <1>4, <2>1, <2>4, <2>5
<1>7. ASSUME NEW m \in Hooked(subgraph), NEW k \in Layerwise!DependsOn(m)
      PROVE  k \in Hooked(subgraph) \cup CompressedModules
  <2>1. m \in Quantizable /\ k \in Quantizable
    BY DEF Hooked, Layerwise!DependsOn
  <2>2. PICK n \in Layerwise!CallsOf(m) : \E i \in Layerwise!Ancestors(n) : graph.module[i] = k
    BY DEF Layerwise!DependsOn
  <2>3. PICK i \in Layerwise!Ancestors(n) : graph.module[i] = k
    BY <2>2
  <2>4. n \in Node /\ graph.module[n] = m
    BY DEF Layerwise!CallsOf
  <2>5. n \in NodesOf(subgraph)
    <3>1. PICK o \in NodesOf(subgraph) : graph.module[o] = m
      BY <1>5, <2>1
    <3> QED
      BY <1>1, <1>2, <2>1, <2>4, <3>1 DEF OneCallEach
  <2> DEFINE Run == {o \in Node : \E p \in 1 .. subgraph : o \in NodesOf(p)}
  <2>6. ASSUME NEW p \in 1 .. subgraph, NEW o \in NodesOf(p)
        PROVE  graph.inputs[o] \subseteq Run
    <3> SUFFICES ASSUME NEW r \in graph.inputs[o] PROVE r \in Run
      OBVIOUS
    <3>1. p \in 1 .. Len(partitions)
      BY <1>3 DEF Subgraphs
    <3>2. PICK q \in 1 .. p : r \in NodesOf(q)
      BY <1>1, <3>1, ReadFromEarlier
    <3>3. q \in 1 .. subgraph
      BY <1>1
    <3> QED
      BY <1>2, <1>3, <3>2, <3>3
  <2>7. graph.inputs[n] \subseteq Run
    <3>1. subgraph \in 1 .. subgraph
      BY <1>1
    <3> QED
      BY <2>5, <2>6, <3>1
  <2>8. \A j \in Run : graph.inputs[j] \subseteq Run
    BY <2>6
  <2>9. i \in Run
    <3>1. Run \in SUBSET Node
      OBVIOUS
    <3> HIDE DEF Run
    <3> QED
      BY <2>7, <2>8, <3>1 DEF Layerwise!Ancestors
  <2>10. PICK p \in 1 .. subgraph : i \in NodesOf(p)
    BY <2>9
  <2>11. p = subgraph \/ p \in 1 .. (subgraph - 1)
    BY <1>1
  <2> QED
    BY <1>4, <1>5, <2>1, <2>3, <2>10, <2>11
<1> QED
  BY <1>6, <1>7

(* When the last subgraph is done every module the model calls is          *)
(* compressed.                                                             *)
LEMMA CalledAreCompressed ==
  ASSUME PipelineInv, stage = "propagating", subgraph = LastSubgraph
  PROVE  Layerwise!Called \subseteq CompressedModules
<1> SUFFICES ASSUME NEW m \in Layerwise!Called PROVE m \in CompressedModules
  OBVIOUS
<1>1. /\ IsTraced(graph) /\ partitions \in Seq(Seq(Node)) /\ QueueIsReady /\ queue = <<>>
  BY DEF PipelineInv, Walked, Done, IndInv, TypeOK
<1>2. PICK n \in Node : graph.module[n] = m
  BY DEF Layerwise!Called, Layerwise!CallsOf
<1>3. m \in Quantizable
  BY DEF Layerwise!Called
<1>4. ~IsGetAttr(n)
  BY <1>1, <1>2, <1>3, QuantizableAssumption DEF IsTraced, IsGetAttr
<1>5. Placed(n)
  BY <1>1, <1>4, WalkIsComplete
<1>6. PICK p \in Subgraphs : n \in NodesOf(p)
  BY <1>5 DEF Placed, NodesOf, Subgraphs
<1>7. Calls(m, p) > 0
  BY <1>1, <1>2, <1>6, CallsOfSubgraph
<1>8. p \in 1 .. subgraph
  BY <1>6 DEF Subgraphs, LastSubgraph
<1> QED
  BY <1>3, <1>7, <1>8
     DEF PipelineInv, CompressedSoFar, Aborted, LastCompressed, CompressedModules

(* The first batch through a subgraph with modules to compress is where    *)
(* the abstract group gets its samples.                                    *)
LEMMA CalibrateImplements ==
  ASSUME PipelineInv, OneCallEach(graph), Calibrate
  PROVE  [Layerwise!Next]_<<graph, Sampled, CompressedModules, stage \in {"finishing", "finished"}>>
<1> DEFINE calling == Hooked(subgraph)
<1>1. stage = "calibrating" /\ inputs # NoInputs
  BY DEF Calibrate
<1>2. graph' = graph /\ compressions' = compressions
  BY DEF Calibrate, Abort, vars
<1>3. CompressedModules' = CompressedModules
  BY <1>2 DEF CompressedModules
<1>4. stage' \notin {"finishing", "finished"}
  BY <1>1 DEF Calibrate, Abort, NextBatch
<1>5. CASE num_samples' = num_samples
  <2>1. Sampled' = Sampled
    BY <1>5 DEF Sampled
  <2> QED
    BY <1>1, <1>2, <1>3, <1>4, <2>1
<1>6. CASE num_samples' = Observed
  <2>1. /\ batch \in Batches /\ subgraph \in Subgraphs /\ partitions \in Seq(Seq(Node))
        /\ num_samples \in [Quantizable -> [Batches -> Nat]] /\ 1 \in Batches
    BY NumBatchesAssumption DEF PipelineInv, PipelineTypeOK, IndInv, TypeOK, Batches
  <2>2. \A m \in Quantizable : Calls(m, subgraph) \in Nat
    BY <2>1, CallsAreCounted
  <2>3. \A m \in Quantizable : \A b \in Batches :
          num_samples[m][b] = IF b < batch THEN Calls(m, subgraph) ELSE 0
    BY <1>1 DEF PipelineInv, SamplesSoFar, Aborted
  <2>4. ~hooks_disabled
    BY <1>1 DEF PipelineInv, HooksFollowStage, Aborted
  <2>5. num_samples' = [m \in Quantizable |->
                          [num_samples[m] EXCEPT ![batch] = @ + Calls(m, subgraph)]]
    BY <1>6, <2>4 DEF Observed
  <2>6. \A m \in Quantizable : \A b \in Batches :
          num_samples'[m][b] = IF b = batch THEN num_samples[m][b] + Calls(m, subgraph)
                                            ELSE num_samples[m][b]
    BY <2>1, <2>2, <2>5
  <2>7. ASSUME NEW m \in Quantizable, NEW b \in Batches
        PROVE  num_samples'[m][b] > 0 <=> (b < batch \/ b = batch) /\ Calls(m, subgraph) > 0
    <3>1. CASE b = batch
      <4>1. num_samples[m][b] = 0
        BY <2>1, <2>3, <3>1 DEF Batches
      <4>2. num_samples'[m][b] = num_samples[m][b] + Calls(m, subgraph)
        BY <2>6, <3>1
      <4> QED
        BY <2>2, <3>1, <4>1, <4>2
    <3>2. CASE b # batch
      <4>1. num_samples'[m][b] = IF b < batch THEN Calls(m, subgraph) ELSE 0
        BY <2>3, <2>6, <3>2
      <4> QED
        BY <3>2, <4>1
    <3> QED
      BY <3>1, <3>2
  <2>8. Sampled' = calling
    <3>1. Sampled' = {m \in Quantizable : \E b \in Batches : num_samples'[m][b] > 0}
      BY DEF Sampled
    <3>2. \A m \in Quantizable :
            (\E b \in Batches : num_samples'[m][b] > 0) <=> Calls(m, subgraph) > 0
      BY <2>1, <2>7
    <3> QED
      BY <3>1, <3>2 DEF Hooked
  <2>9. CASE batch = 1
    <3>1. Sampled = {}
      BY <2>3, <2>9 DEF Sampled, Batches
    <3>2. CASE calling = {}
      BY <1>1, <1>2, <1>3, <1>4, <2>8, <3>1, <3>2
    <3>3. CASE calling # {}
      <4>1. /\ calling \subseteq Layerwise!Called \ CompressedModules
            /\ \A m \in calling :
                 Layerwise!DependsOn(m) \subseteq calling \cup CompressedModules
        BY <1>1, SubgraphIsGroup
      <4> HIDE DEF calling
      <4>2. Layerwise!Calibrate
        BY <1>1, <1>2, <1>3, <1>4, <2>8, <3>1, <3>3, <4>1
           DEF Layerwise!Calibrate, CompressedModules
      <4> QED
        BY <4>2 DEF Layerwise!Next
    <3> QED
      BY <3>2, <3>3
  <2>10. CASE batch # 1
    <3>1. 1 < batch
      BY <2>1, <2>10 DEF Batches
    <3>2. Sampled = calling
      BY <2>1, <2>2, <2>3, <3>1 DEF Sampled, Hooked
    <3> QED
      BY <1>1, <1>2, <1>3, <1>4, <2>8, <3>2
  <2> QED
    BY <2>9, <2>10
<1> QED
  BY <1>5, <1>6 DEF Calibrate, Abort

(* Every other step.                                                       *)
LEMMA StepImplements ==
  ASSUME PipelineInv, OneCallEach(graph), [PipelineNext]_pipelineVars
  PROVE  [Layerwise!Next]_<<graph, Sampled, CompressedModules, stage \in {"finishing", "finished"}>>
<1>1. graph' = graph
  BY GraphStays
<1>2. ASSUME num_samples' = num_samples, compressions' = compressions
      PROVE  Sampled' = Sampled /\ CompressedModules' = CompressedModules
  BY <1>2 DEF Sampled, CompressedModules
<1>3. CASE Calibrate
  BY <1>3, CalibrateImplements
<1>4. CASE SequentialEpochEnd
  <2>1. /\ stage = "compressing" /\ stage' = "propagating" /\ CompressModules
        /\ compressions \in [Quantizable -> Nat]
    BY <1>4 DEF SequentialEpochEnd, PipelineInv, PipelineTypeOK
  <2>2. /\ \A m \in Quantizable : compressions'[m] > 0 <=> m \in Sampled \/ compressions[m] > 0
        /\ Sampled' = {}
    BY <2>1, CompressModulesIs
  <2>3. Sampled \subseteq Quantizable
    BY DEF Sampled
  <2>4. CompressedModules' = CompressedModules \cup Sampled
    BY <2>2, <2>3 DEF CompressedModules
  <2>5. CASE Sampled = {}
    BY <1>1, <2>1, <2>2, <2>4, <2>5
  <2>6. CASE Sampled # {}
    <3>1. Layerwise!Compress
      BY <1>1, <2>1, <2>2, <2>4, <2>6 DEF Layerwise!Compress, CompressedModules
    <3> QED
      BY <3>1 DEF Layerwise!Next
  <2> QED
    BY <2>5, <2>6
<1>5. CASE Propagate
  <2>1. stage = "propagating" /\ compressions' = compressions
    BY <1>5 DEF Propagate, Abort
  <2>2. num_samples' = num_samples
    BY <1>5, <2>1 DEF Propagate, Abort, Observed, PipelineInv, HooksFollowStage, Aborted
  <2>3. Sampled' = Sampled /\ CompressedModules' = CompressedModules
    BY <1>2, <2>1, <2>2
  <2>4. CASE stage' \notin {"finishing", "finished"}
    BY <1>1, <2>1, <2>3, <2>4
  <2>5. CASE stage' \in {"finishing", "finished"}
    <3>1. ~(subgraph < LastSubgraph)
      BY <1>5, <2>5 DEF Propagate, Abort, NextBatch
    <3>2. subgraph = LastSubgraph
      BY <3>1 DEF PipelineInv, PipelineTypeOK, Subgraphs, LastSubgraph, IndInv, TypeOK
    <3>3. Layerwise!Called \subseteq CompressedModules
      BY <2>1, <3>2, CalledAreCompressed
    <3>4. Sampled = {}
      BY <2>1, SampledIs
    <3>5. Layerwise!Finish
      BY <1>1, <2>3, <2>5, <3>3, <3>4 DEF Layerwise!Finish, CompressedModules
    <3> QED
      BY <3>5 DEF Layerwise!Next
  <2> QED
    BY <2>4, <2>5
<1>6. CASE CalibrationEpochEnd
  <2>1. /\ stage = "finishing" /\ stage' = "finished" /\ CompressModules
        /\ compressions \in [Quantizable -> Nat]
    BY <1>6 DEF CalibrationEpochEnd, PipelineInv, PipelineTypeOK
  <2>2. Sampled = {}
    BY <2>1, SampledIs
  <2>3. /\ \A m \in Quantizable : compressions'[m] > 0 <=> m \in Sampled \/ compressions[m] > 0
        /\ Sampled' = {}
    BY <2>1, CompressModulesIs
  <2>4. CompressedModules' = CompressedModules
    BY <2>2, <2>3 DEF CompressedModules
  <2> QED
    BY <1>1, <2>1, <2>2, <2>3, <2>4
<1>7. CASE Trace \/ PrepareCache \/ FetchBatch \/ TakePrefetched \/ Prefetch \/ OutOfMemory
           \/ UNCHANGED pipelineVars
  <2>1. num_samples' = num_samples /\ compressions' = compressions
    BY <1>7 DEF Trace, pipeline, PrepareCache, FetchBatch, TakePrefetched, Prefetch, OutOfMemory,
                Abort, pipelineVars
  <2>2. stage' \in {"finishing", "finished"} <=> stage \in {"finishing", "finished"}
    BY <1>7 DEF Trace, pipeline, PrepareCache, FetchBatch, TakePrefetched, Prefetch, OutOfMemory,
                InPass, Abort, pipelineVars
  <2> QED
    BY <1>1, <1>2, <2>1, <2>2
<1> QED
  BY <1>3, <1>4, <1>5, <1>6, <1>7 DEF PipelineNext, Main

(* If no module to compress is called by two nodes, the two passes per     *)
(* subgraph, with any number of batches, prefetched or not, and stopped by *)
(* exceptions or not, implement layerwise compression.                     *)
THEOREM PipelineRefinesLayerwise ==
  ASSUME \A g \in Graphs : OneCallEach(g)
  PROVE  PipelineSpec => ImplementsLayerwiseCompression
<1>1. PipelineInit => OneCallEach(graph) /\ Layerwise!Init
  <2> SUFFICES ASSUME PipelineInit PROVE OneCallEach(graph) /\ Layerwise!Init
    OBVIOUS
  <2>1. OneCallEach(graph)
    BY DEF PipelineInit, Init
  <2>2. /\ \A m \in Quantizable : compressions[m] = 0
        /\ \A m \in Quantizable : \A b \in Batches : num_samples[m][b] = 0
        /\ stage = "tracing"
    BY DEF PipelineInit
  <2>3. Sampled = {} /\ CompressedModules = {}
    BY <2>2 DEF Sampled, CompressedModules
  <2> QED
    BY <2>1, <2>2, <2>3 DEF Layerwise!Init, CompressedModules
<1>2. OneCallEach(graph) /\ [PipelineNext]_pipelineVars => OneCallEach(graph)'
  BY GraphStays DEF OneCallEach
<1>3. PipelineInv /\ OneCallEach(graph) /\ [PipelineNext]_pipelineVars
        => [Layerwise!Next]_<<graph, Sampled, {m \in Quantizable : compressions[m] > 0},
                              stage \in {"finishing", "finished"}>>
  BY StepImplements DEF CompressedModules
<1> QED
  BY <1>1, <1>2, <1>3, PipelineInvHolds, PTL
     DEF PipelineSpec, ImplementsLayerwiseCompression, Layerwise!Spec

=============================================================================
