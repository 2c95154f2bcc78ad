---------------------------- MODULE NameAnalysis ----------------------------
(***************************************************************************)
(* The two analyses of a piece of code that source rewriting decides by:   *)
(* pipelines/sequential/ast_utils/name_analyzer.py and                     *)
(* control_flow_analyzer.py.                                               *)
(***************************************************************************)
EXTENDS PythonCode

(* NameAnalyzer: names that are read before they are assigned, that are    *)
(* assigned, and that may be.  omit are the names of the module and the    *)
(* builtins.                                                               *)
NoNames == [unbound |-> {}, assigned |-> {}, conditional |-> {}]

VisitLoads(names, found, omit) ==
  [found EXCEPT !.unbound = @ \cup (names \ (found.assigned \cup omit))]

VisitStores(names, found, omit) == [found EXCEPT !.assigned = @ \cup (names \ omit)]

(* The element of a comprehension is visited before its variables.         *)
VisitExpression(e, found, omit) ==
  VisitStores(e.iterators \cup e.walrus,
              VisitLoads(e.reads \cup e.iterators, found, omit), omit)

(* After the branches of an if statement.                                  *)
Joined(found, in_true, in_false) ==
  [unbound     |-> in_false.unbound,
   assigned    |-> found.assigned \cup (in_true.assigned \cap in_false.assigned),
   conditional |-> in_false.conditional
                     \cup ((in_true.assigned \ in_false.assigned)
                             \cup (in_false.assigned \ in_true.assigned))]

RECURSIVE Analyze(_, _, _)
Analyze(code, found, omit) ==
  IF code = <<>> THEN found
  ELSE LET s == Head(code)
           Then(first) == Analyze(Tail(code), first, omit)
       IN  CASE s.kind = "assign" ->
                  Then(VisitStores({s.target}, VisitExpression(s.value, found, omit), omit))
             [] s.kind = "augment" ->
                  Then(VisitExpression(s.value, VisitStores({s.target}, found, omit), omit))
             [] s.kind = "delete" -> Then(VisitStores({s.target}, found, omit))
             [] s.kind = "if" ->
                  LET tested == VisitExpression(s.test, found, omit)
                      in_true == Analyze(s.body, [tested EXCEPT !.assigned = {}], omit)
                      in_false == Analyze(s.orelse, [in_true EXCEPT !.assigned = {}], omit)
                  IN  Then(Joined(tested, in_true, in_false))
             [] s.kind = "for" ->
                  LET entered == VisitStores({s.target}, found, omit)
                  IN  Then(Analyze(s.body, VisitExpression(s.iter, entered, omit), omit))
             [] s.kind = "return" -> Then(VisitExpression(s.value, found, omit))
             [] OTHER -> Then(found)

-----------------------------------------------------------------------------
(* ControlFlowAnalyzer: no return, and no break or continue of a loop      *)
(* outside.                                                                *)
RECURSIVE IsValid(_, _)
IsValid(code, in_loop) ==
  \A i \in DOMAIN code :
    LET s == code[i]
    IN  /\ s.kind # "return"
        /\ s.kind \in {"break", "continue"} => in_loop
        /\ s.kind = "if" => IsValid(s.body, in_loop) /\ IsValid(s.orelse, in_loop)
        /\ s.kind = "for" => IsValid(s.body, TRUE)

=============================================================================
