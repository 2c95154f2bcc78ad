------------------------ MODULE LayerwiseCompression ------------------------
(***************************************************************************)
(* What sequential calibration promises, whatever the partitions, the      *)
(* batches and the cache: modules are calibrated in groups, one group      *)
(* after the other, a group only when everything its inputs depend on,     *)
(* outside the group, is compressed; then the whole group is compressed,   *)
(* once and for all.                                                       *)
(***************************************************************************)
EXTENDS FiniteSets

CONSTANTS
  Node,    \* nodes of the model's graph
  Module   \* the modules to compress

VARIABLES
  graph,       \* the inputs of each node and the module it calls
  calibrating, \* modules with samples that are not used yet
  compressed,  \* modules that have been compressed
  finished     \* calibration is over

CallsOf(m) == {n \in Node : graph.module[n] = m}

Called == {m \in Module : CallsOf(m) # {}}

(* The nodes a node reads, itself or through others: those in every set    *)
(* that holds its inputs and the inputs of its own members.                *)
Ancestors(n) ==
  {i \in Node : \A S \in SUBSET Node :
                   graph.inputs[n] \subseteq S /\ (\A j \in S : graph.inputs[j] \subseteq S)
                     => i \in S}

(* The modules the inputs of a module depend on.                           *)
DependsOn(m) ==
  {k \in Module : \E n \in CallsOf(m) : \E i \in Ancestors(n) : graph.module[i] = k}

Init ==
  /\ calibrating = {}
  /\ compressed = {}
  /\ finished = FALSE

(* A group of modules is given its first samples.                          *)
Calibrate ==
  /\ ~finished /\ calibrating = {}
  /\ calibrating' \in (SUBSET (Called \ compressed)) \ {{}}
  /\ \A m \in calibrating' : DependsOn(m) \subseteq calibrating' \cup compressed
  /\ UNCHANGED <<graph, compressed, finished>>

Compress ==
  /\ calibrating # {}
  /\ compressed' = compressed \cup calibrating
  /\ calibrating' = {}
  /\ UNCHANGED <<graph, finished>>

Finish ==
  /\ calibrating = {} /\ Called \subseteq compressed
  /\ finished' = TRUE
  /\ UNCHANGED <<graph, calibrating, compressed>>

Next == Calibrate \/ Compress \/ Finish

Spec == Init /\ [][Next]_<<graph, calibrating, compressed, finished>>

=============================================================================
