----------------------------- MODULE AutoWrapper -----------------------------
(***************************************************************************)
(* Before a model is traced, AutoWrapper rewrites the forward method of    *)
(* its modules (pipelines/sequential/ast_utils/auto_wrapper.py): code that *)
(* cannot be traced, if statements that depend on inputs and starred       *)
(* expressions, moves into wrapper functions that tracing does not enter.  *)
(* The wrapped method must compute what the original does.                 *)
(***************************************************************************)
EXTENDS NameAnalysis

CONSTANTS
  Programs,    \* bodies of forward methods
  Parameters,  \* their parameters
  Namespaces   \* sets of names a module, or builtins, may define

VARIABLES
  program, namespace,
  pc,
  position,         \* of the statement of the body to visit next
  body,             \* the new body so far
  local_names,      \* _local_names
  wrapper_fn_defs   \* _wrapper_fn_defs: [args, kwargs, returns, body]

vars == <<program, namespace, pc, position, body, local_names, wrapper_fn_defs>>

(* visit_FunctionDef starts with the parameters.                           *)
Init ==
  /\ program \in Programs
  /\ namespace \in Namespaces
  /\ pc = "visit" /\ position = 1 /\ body = <<>>
  /\ local_names = Parameters
  /\ wrapper_fn_defs = <<>>

-----------------------------------------------------------------------------
(* _wrap_stmt: a wrapper returns all that the code may have assigned.      *)

Args_OnlyUnbound(found, locals) == found.unbound \cap locals

Args(found, locals) == (found.unbound \cup found.conditional) \cap locals

Wrapper(code, locals) ==
  LET found == Analyze(code, NoNames, namespace)
  IN  [args    |-> Args(found, locals),
       kwargs  |-> found.conditional \ locals,
       returns |-> found.assigned \cup found.conditional,
       body    |-> code]

(* The state of the visitor.                                               *)
Visited(code, locals, defs, raised) ==
  [code |-> code, locals |-> locals, defs |-> defs, raised |-> raised]

Define(code, at) ==
  LET wrapper == Wrapper(code, at.locals)
  IN  [at EXCEPT !.locals = @ \cup wrapper.returns, !.defs = Append(@, wrapper)]

(* _wrap_expr wraps a return statement and calls the function in place of  *)
(* the expression; an expression that stays may bind names.                *)
VisitExpr(e, at) ==
  IF e.untraced
    THEN Define(<<Return(e)>>, at)
    ELSE [at EXCEPT !.locals = @ \cup e.iterators \cup e.walrus]

Rewritten(e, at) == IF e.untraced THEN Call(Len(at.defs) + 1) ELSE e

Emit(s, at) == [at EXCEPT !.code = Append(@, s)]

Store(names, at) == [at EXCEPT !.locals = @ \cup names]

-----------------------------------------------------------------------------
(* The visit methods.                                                      *)

(* visit_If can evaluate a test that needs no more than the namespace; it  *)
(* does not when there is an assignment expression anywhere in the if.     *)
IsStatic(s) ==
  /\ s.test.reads \subseteq namespace
  /\ \A t \in Statements(<<s>>) : \A e \in ExpressionsOf(t) : e.walrus = {}

(* An if statement that is neither static nor wrapped is not visited.      *)
RECURSIVE Visit(_, _)
Visit(code, at) ==
  IF code = <<>> THEN at
  ELSE LET s == Head(code)
           Then(next) == Visit(Tail(code), next)
           Inside(block, from) == Visit(block, [from EXCEPT !.code = <<>>])
       IN  CASE s.kind \in {"assign", "augment"} ->
                  LET stored == Store({s.target}, at)
                  IN  Then(Emit([s EXCEPT !.value = Rewritten(@, stored)],
                                VisitExpr(s.value, stored)))
             [] s.kind = "return" ->
                  Then(Emit([s EXCEPT !.value = Rewritten(@, at)], VisitExpr(s.value, at)))
             [] s.kind = "delete" ->
                  Then(Emit(s, [at EXCEPT !.locals = @ \ {s.target},
                                          !.raised = @ \/ s.target \notin at.locals]))
             [] s.kind = "for" ->
                  LET stored == Store({s.target}, at)
                      inside == Inside(s.body, VisitExpr(s.iter, stored))
                  IN  Then(Emit([s EXCEPT !.iter = Rewritten(@, stored), !.body = inside.code],
                                [inside EXCEPT !.code = at.code]))
             [] s.kind = "if" /\ IsStatic(s) ->
                  LET in_true == Inside(s.body, at)
                      in_false == Inside(s.orelse, in_true)
                  IN  Then(Emit([s EXCEPT !.test.reads = {}, !.test.untraced = FALSE,
                                          !.body = in_true.code, !.orelse = in_false.code],
                                [in_false EXCEPT !.code = at.code]))
             [] s.kind = "if" /\ ~IsStatic(s) /\ IsValid(<<s>>, FALSE) ->
                  LET defined == Define(<<s>>, at)
                  IN  Then(Emit(Call(Len(defined.defs)), defined))
             [] OTHER -> Then(Emit(s, at))

(* One statement of the body; auto_wrap returns after the last.            *)
VisitStatement ==
  /\ pc = "visit" /\ position <= Len(program)
  /\ LET after == Visit(<<program[position]>>,
                        Visited(<<>>, local_names, wrapper_fn_defs, FALSE))
     IN  IF after.raised
           THEN pc' = "raised" /\ UNCHANGED <<position, body, local_names, wrapper_fn_defs>>
           ELSE /\ body' = body \o after.code
                /\ local_names' = after.locals
                /\ wrapper_fn_defs' = after.defs
                /\ position' = position + 1
                /\ UNCHANGED pc
  /\ UNCHANGED <<program, namespace>>

AutoWrap ==
  /\ pc = "visit" /\ position > Len(program)
  /\ pc' = "wrapped"
  /\ UNCHANGED <<program, namespace, position, body, local_names, wrapper_fn_defs>>

Next == VisitStatement \/ AutoWrap

Spec == Init /\ [][Next]_vars

-----------------------------------------------------------------------------
(* What the two methods compute.                                           *)
Arguments == [n \in Parameters |-> Term(n, <<>>)]

(* The outcome of a test out of loops, of tests in loops, in the first     *)
(* round and later, and the number of rounds.                              *)
TestsOf(statements) == {s.test.id : s \in {t \in statements : t.kind = "if"}}

Outcomes ==
  LET loops == {s \in Statements(program) : s.kind = "for"}
      repeated == TestsOf(UNION {Statements(s.body) : s \in loops})
      once == TestsOf(Statements(program)) \ repeated
  IN  {tests @@ rounds @@ others :
         tests \in [repeated -> (0..1) \X (0..1)],
         rounds \in [{s.iter.id : s \in loops} -> (0..2) \X {0}],
         others \in [once -> (0..1) \X {0}]}

Original(outcome) ==
  Run(program, Enter(Arguments, <<>>),
      Frame(Parameters \cup Stored(program), namespace, <<>>, outcome))

Wrapped(outcome) ==
  Run(body, Enter(Arguments, <<>>),
      Frame(Parameters \cup Stored(body) \cup StoredByCalls(body, wrapper_fn_defs),
            namespace, wrapper_fn_defs, outcome))

(* Code the rewriting is known to get wrong.  Wrapped code that            *)
(*   - augments a name: the name is not passed, for NameAnalyzer sees a    *)
(*     name that is stored, not one that is read;                          *)
(*   - deletes a name: it is returned like one that is assigned;           *)
(*   - has comprehensions: their variables are returned, or passed, like   *)
(*     variables of the method.                                            *)
WrapsKnownDefect ==
  \E f \in Range(wrapper_fn_defs) :
    \/ \E s \in Statements(f.body) : s.kind \in {"augment", "delete"}
    \/ Iterators(f.body) # {}

(* A variable named like a global is taken for the global.                 *)
ShadowsGlobals == (Parameters \cup Stored(program)) \cap namespace # {}

(* Names that a wrapper reads or stores.                                   *)
Mentioned ==
  LET code == FlattenSeq([k \in DOMAIN wrapper_fn_defs |-> wrapper_fn_defs[k].body])
  IN  Stored(code)
        \cup UNION {UNION {e.reads : e \in ExpressionsOf(s)} : s \in Statements(code)}

DeletedIn(code) == {s.target : s \in {t \in Statements(code) : t.kind = "delete"}}

BoundBefore(k) ==
  (Parameters \ DeletedIn(SubSeq(program, 1, k - 1)))
    \cup UNION {{program[j].target} \ DeletedIn(SubSeq(program, j + 1, k - 1)) :
                  j \in {i \in 1..(k - 1) : program[i].kind = "assign"}}

(* Names first assigned in a loop or a branch that stays, which a wrapper  *)
(* mentions.  visit_If does not record those of a branch that stays as it  *)
(* is; the others are passed to wrappers although the loop or branch may   *)
(* not have run; one that a wrapper may assign in a loop starts as None in *)
(* every round.                                                            *)
AssignedInBlock(s) == Stored(<<s>>) \ (IF s.kind = "for" THEN {s.target} ELSE {})

MentionsBlocks ==
  \E k \in DOMAIN body :
    /\ body[k].kind \in {"if", "for"}
    /\ Mentioned \cap (AssignedInBlock(program[k]) \ BoundBefore(k)) # {}

(* Loops that run: the variable of a loop before a wrapper is passed to    *)
(* it, and what a loop inside assigns is returned, whether they ran or not. *)
RunsLoops(outcome) ==
  \A s \in Statements(program) :
    s.kind = "for" /\ s.target \in Mentioned => outcome[s.iter.id][1] > 0

-----------------------------------------------------------------------------
(* Where none of the above applies, the rewritten method does what the     *)
(* original does: for all outcomes of tests and loops for which the        *)
(* original returns, it returns the same value after the same tests on the *)
(* same values; in particular wrappers are passed every variable they      *)
(* read, and give back every variable that is read after them.             *)
ForwardIsPreserved ==
  pc = "wrapped" /\ ~WrapsKnownDefect /\ ~ShadowsGlobals /\ ~MentionsBlocks =>
    \A outcome \in Outcomes :
      LET before == Original(outcome)
          after == Wrapped(outcome)
      IN  RunsLoops(outcome) /\ before.signal = "return" =>
            /\ after.signal = "return"
            /\ after.value = before.value
            /\ after.tested = before.tested

=============================================================================
