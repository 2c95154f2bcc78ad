------------------------ MODULE TopologicalPartition ------------------------
(***************************************************************************)
(* How sequential onloading cuts a traced model into subgraphs             *)
(* (pipelines/sequential/helpers.py): `topological_partition` walks the FX *)
(* graph and assigns its nodes to partitions, `partition_graph` turns each *)
(* partition into a subgraph with named inputs and outputs, and            *)
(* `trace_consumed_names` decides when an intermediate value may leave the *)
(* cache.                                                                  *)
(*                                                                         *)
(* A node is its position in the graph.  FX graphs are in SSA form, so a   *)
(* node's inputs come before it.  The walk is a state machine: one step is *)
(* one iteration of the `while len(queue)` loop or of the `get_attr` loop. *)
(* The order in which the graph lists its entry nodes and a node lists its *)
(* users is left open (Orders).                                            *)
(***************************************************************************)
EXTENDS Naturals, Sequences, FiniteSets, Functions

CONSTANTS
  N,        \* number of nodes in the graph
  Modules,  \* submodules a call_module node may name
  NoModule, \* "target" of a node that is not a call_module
  Targets,  \* modules matched by `sequential_targets`
  Graphs    \* the traced graphs considered

Node == 1 .. N

Op == {"placeholder", "get_attr", "call", "output"}

Graph == [inputs : [Node -> SUBSET Node],
          op     : [Node -> Op],
          module : [Node -> Modules \cup {NoModule}]]

(* What tracing guarantees: SSA order, only calls and the output read, and *)
(* nobody reads the output.                                                *)
IsTraced(g) ==
  /\ g \in Graph
  /\ \A n \in Node : g.inputs[n] \subseteq 1 .. (n - 1)
  /\ \A n \in Node : g.op[n] \in {"placeholder", "get_attr"} => g.inputs[n] = {}
  /\ \A m, n \in Node : g.op[m] = "output" => m \notin g.inputs[n]
  /\ \A n \in Node : g.module[n] \in Modules => g.op[n] = "call"

ASSUME NAssumption == N \in Nat
ASSUME TargetsAssumption == Targets \subseteq Modules /\ NoModule \notin Modules
ASSUME GraphsAssumption == \A g \in Graphs : IsTraced(g)

VARIABLES
  graph,      \* the traced graph, never changed
  remaining,  \* remaining_indegrees
  queue,      \* nodes whose inputs are all assigned, in the order they became so
  partitions, \* sequence of partitions, each a sequence of nodes
  unplaced    \* get_attr nodes the second loop has still to visit

vars == <<graph, remaining, queue, partitions, unplaced>>

-----------------------------------------------------------------------------
(* The graph as the walk sees it.                                          *)

Users(n) == {u \in Node : n \in graph.inputs[u]}

IsGetAttr(n) == graph.op[n] = "get_attr"

TargetNodes == {n \in Node : graph.module[n] \in Targets}

CountedInputs_SkipPlaceholders(n) == {m \in graph.inputs[n] : graph.op[m] = "call"}

(* Inputs that count towards the indegree.                                 *)
CountedInputs(n) == {m \in graph.inputs[n] : ~IsGetAttr(m)}

(* Every way of listing the members of S once each.                        *)
Orders(S) == Bijection(1 .. Cardinality(S), S)

NodesOf(p) == {partitions[p][j] : j \in 1 .. Len(partitions[p])}

PartitionsOf(n) == {p \in 1 .. Len(partitions) : n \in NodesOf(p)}

Assigned(n) == PartitionsOf(n) # {}

Assign_TargetsShare(n) == [partitions EXCEPT ![Len(partitions)] = Append(@, n)]

(* Append to the current partition; a target closes it.                    *)
Assign(n) ==
  LET k     == Len(partitions)
      grown == [partitions EXCEPT ![k] = Append(@, n)]
  IN  IF n \in TargetNodes THEN Append(grown, <<>>) ELSE grown

-----------------------------------------------------------------------------
(* topological_partition                                                   *)

Init ==
  /\ graph \in Graphs
  /\ remaining = [n \in Node |-> Cardinality(CountedInputs(n))]
  /\ queue \in Orders({n \in Node : remaining[n] = 0 /\ ~IsGetAttr(n)})
  /\ partitions = << <<>> >>
  /\ unplaced = {n \in Node : IsGetAttr(n)}

(* A user whose last counted input was just computed joins the queue.      *)
Released_OnFirstInput(users, indegrees) == users

Released(users, indegrees) == {u \in users : indegrees[u] = 0}

Pop ==
  /\ queue # <<>>
  /\ LET node == Head(queue)
     IN  /\ partitions' = Assign(node)
         /\ remaining' = [n \in Node |-> IF n \in Users(node)
                                           THEN remaining[n] - 1
                                           ELSE remaining[n]]
         /\ \E released \in Orders(Released(Users(node), remaining')) :
               queue' = Tail(queue) \o released
  /\ UNCHANGED <<graph, unplaced>>

UserPartitions_First(n) == {1}

(* A get_attr node is computed in the first partition with one of its      *)
(* users; one with no users is left out.                                   *)
UserPartitions(n) ==
  {p \in 1 .. Len(partitions) : Users(n) \cap NodesOf(p) # {}}

PlaceGetAttr_MinOfNone ==
  /\ queue = <<>>
  /\ \E n \in unplaced :
       /\ \A m \in unplaced : n <= m
       /\ \E p \in UserPartitions(n) :
            /\ \A q \in UserPartitions(n) : p <= q
            /\ partitions' = [partitions EXCEPT ![p] = <<n>> \o @]
       /\ unplaced' = unplaced \ {n}
  /\ UNCHANGED <<graph, remaining, queue>>

PlaceGetAttr ==
  /\ queue = <<>>
  /\ \E n \in unplaced :
       /\ \A m \in unplaced : n <= m
       /\ unplaced' = unplaced \ {n}
       /\ \/ /\ UserPartitions(n) = {}
             /\ UNCHANGED partitions
          \/ \E p \in UserPartitions(n) :
               /\ \A q \in UserPartitions(n) : p <= q
               /\ partitions' = [partitions EXCEPT ![p] = <<n>> \o @]
  /\ UNCHANGED <<graph, remaining, queue>>

Next == Pop \/ PlaceGetAttr

Spec == Init /\ [][Next]_vars

FairSpec == Spec /\ WF_vars(Next)

Done == queue = <<>> /\ unplaced = {}

-----------------------------------------------------------------------------
(* partition_graph and trace_consumed_names: a name stands for the node    *)
(* that computes it.                                                       *)

Subgraphs == 1 .. Len(partitions)

(* Placeholders of the subgraph: those made for values computed elsewhere, *)
(* and the graph's own placeholders copied into it.                        *)
InputNames(p) ==
  ((UNION {graph.inputs[n] : n \in NodesOf(p)}) \ NodesOf(p))
    \cup {n \in NodesOf(p) : graph.op[n] = "placeholder"}

(* The dictionary a subgraph returns.  The subgraph that holds the model's *)
(* own output node returns the model output instead.                       *)
OutputNames(p) ==
  IF \E n \in NodesOf(p) : graph.op[n] = "output"
    THEN {}
    ELSE {n \in NodesOf(p) : ~(Users(n) \subseteq NodesOf(p))}

ConsumedNames_FirstUse(p) ==
  {m \in InputNames(p) : \A q \in Subgraphs : q < p => m \notin InputNames(q)}

ConsumedNames_OnlyUse(p) ==
  {m \in InputNames(p) : \A q \in Subgraphs \ {p} : m \notin InputNames(q)}

ConsumedNames(p) ==
  {m \in InputNames(p) : \A q \in Subgraphs : q > p => m \notin InputNames(q)}

-----------------------------------------------------------------------------
(* Properties.                                                             *)

TypeOK ==
  /\ IsTraced(graph)
  /\ remaining \in [Node -> Nat]
  /\ queue \in Seq(Node)
  /\ partitions \in Seq(Seq(Node)) /\ Len(partitions) >= 1
  /\ unplaced \subseteq {n \in Node : IsGetAttr(n)}

(* m is computed before the j-th node of partition p runs.                 *)
ComputedBefore(m, p, j) ==
  \E q \in 1 .. p : \E i \in 1 .. Len(partitions[q]) :
     partitions[q][i] = m /\ (q < p \/ i < j)

(* "Executing each partition depends only on intermediate values produced  *)
(* by executing the partitions before it", and the nodes of a partition    *)
(* are listed so that they can be copied and run in that order.  A         *)
(* get_attr the second loop has not visited yet is still missing.          *)
InputsComputedFirst ==
  \A p \in 1 .. Len(partitions) : \A j \in 1 .. Len(partitions[p]) :
    \A m \in graph.inputs[partitions[p][j]] :
      m \in unplaced \/ ComputedBefore(m, p, j)

(* The walk is one execution of the model: no node is put in two places,   *)
(* and when it ends none is left out but get_attr nodes nobody reads.      *)
AssignedOnce ==
  /\ \A p, q \in 1 .. Len(partitions) :
       \A i \in 1 .. Len(partitions[p]), j \in 1 .. Len(partitions[q]) :
         partitions[p][i] = partitions[q][j] => p = q /\ i = j
  /\ Done => \A n \in Node : Assigned(n) \/ (IsGetAttr(n) /\ Users(n) = {})

(* Targets are in disjoint partitions: each partition but the last ends    *)
(* with the one target call it holds, and the last one holds none.         *)
TargetClosesPartition ==
  \A p \in 1 .. Len(partitions) : \A j \in 1 .. Len(partitions[p]) :
    partitions[p][j] \in TargetNodes
      <=> p < Len(partitions) /\ j = Len(partitions[p])

(* The `sequential` pipeline keeps, per batch, the model inputs and what   *)
(* earlier subgraphs returned, minus what they consumed.  Everything a     *)
(* subgraph reads is there, and whatever is deleted is there to delete.    *)
NamesAvailable ==
  Done =>
    \A p \in Subgraphs : \A m \in InputNames(p) :
      /\ graph.op[m] = "placeholder" \/ \E q \in 1 .. (p - 1) : m \in OutputNames(q)
      /\ \A q \in 1 .. (p - 1) : m \notin ConsumedNames(q)

(* The cache does not grow with the model: every value a subgraph returns  *)
(* is deleted by a subgraph that runs later (a model input by the same one *)
(* at the earliest).                                                       *)
NothingLeaks ==
  Done =>
    \A p \in Subgraphs : \A m \in OutputNames(p) :
      \E q \in Subgraphs : q >= p /\ m \in ConsumedNames(q)

(* A get_attr value is onloaded no earlier than the first subgraph that    *)
(* reads it.                                                               *)
GetAttrDelayed ==
  \A n \in Node : IsGetAttr(n) =>
    \A p \in PartitionsOf(n) : Users(n) \cap NodesOf(p) # {}

(* Both loops end, whatever the graph.                                     *)
Terminates == <>Done

(* The docstring of topological_partition says that "each `target` belongs *)
(* to exactly one partition".  A target module, not a call of one.         *)
TargetInOnePartition ==
  \A t \in Targets : \A p, q \in 1 .. Len(partitions) :
    /\ \E n \in NodesOf(p) : graph.module[n] = t
    /\ \E n \in NodesOf(q) : graph.module[n] = t
    => p = q

=============================================================================
