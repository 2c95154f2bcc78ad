----------------------- MODULE MCTopologicalPartition -----------------------
(***************************************************************************)
(* Every traced graph with MCN nodes: inputs first, the output last, any   *)
(* data flow between them.  A call may be a call of a module; `Shared`     *)
(* says whether all of these name the same module (a layer that the model  *)
(* calls several times) or one of their own.  Only calls nobody reads are  *)
(* left out: tracing may record them, see the README.  A "layer" calls a   *)
(* target, a "module" calls a module that is no target.                    *)
(***************************************************************************)
EXTENDS TopologicalPartition, SequencesExt

CONSTANTS MCN, Shared, Kinds

MCTargets == 1 .. MCN

MCModules == 1 .. 2 * MCN

MayRead(n) == SUBSET (1 .. (n - 1))

(* Inputs of the nodes, given what kind of node each is.                   *)
Wirings(kind) ==
  FoldLeft(LAMBDA ws, k : {Append(w, r) : w \in ws,
                             r \in IF k = MCN \/ kind[k] \in {"call", "layer", "module"}
                                     THEN MayRead(k) ELSE {{}}},
           {<<>>}, [k \in 1 .. MCN |-> k])

InputsFirst(kind) ==
  /\ kind[1] = "placeholder"
  /\ \A i, j \in 1 .. (MCN - 1) : i < j /\ kind[j] = "placeholder" => kind[i] = "placeholder"

GraphOf(kind, wiring) ==
  [inputs |-> wiring,
   op     |-> [n \in 1 .. MCN |->
                 IF n = MCN THEN "output"
                 ELSE IF kind[n] \in {"layer", "module"} THEN "call" ELSE kind[n]],
   module |-> [n \in 1 .. MCN |->
                 CASE n < MCN /\ kind[n] = "layer"  -> IF Shared THEN 1 ELSE n
                   [] n < MCN /\ kind[n] = "module" -> MCN + n
                   [] OTHER                         -> 0]]

AllCallsRead(g) ==
  /\ g.inputs[MCN] # {}
  /\ \A n \in 1 .. (MCN - 1) : g.op[n] = "call" => \E u \in 1 .. MCN : n \in g.inputs[u]

MCGraphs ==
  {g \in UNION {{GraphOf(kind, w) : w \in Wirings(kind)} :
                kind \in {k \in [1 .. (MCN - 1) -> Kinds] : InputsFirst(k)}} :
     AllCallsRead(g)}

=============================================================================
