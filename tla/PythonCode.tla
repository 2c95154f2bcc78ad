----------------------------- MODULE PythonCode -----------------------------
(***************************************************************************)
(* Code of a forward method, as far as the sequential pipeline's source    *)
(* rewriting tells it apart, and what python does when it runs.            *)
(*                                                                         *)
(* A statement is a record with a kind: assign, augment (x += ...),        *)
(* delete, if, for, break, continue, return.  An expression has an id (two *)
(* expressions of one id are the same function of what they read) and      *)
(*   reads      the names it reads                                         *)
(*   iterators  the variables of its comprehensions, which it reads too    *)
(*   walrus     the names it assigns by :=, after it has read              *)
(*   untraced   it unpacks with a star, or calls a function of the ignore  *)
(*              list                                                       *)
(* A call is a statement, or an expression, that rewriting put in place of *)
(* a statement or expression; it names a function by its number.           *)
(***************************************************************************)
EXTENDS Naturals, Sequences, SequencesExt

Expression(id, reads) ==
  [kind |-> "expression", id |-> id, reads |-> reads,
   iterators |-> {}, walrus |-> {}, untraced |-> FALSE]

Assign(target, value) == [kind |-> "assign", target |-> target, value |-> value]
Augment(target, value) == [kind |-> "augment", target |-> target, value |-> value]
Delete(target) == [kind |-> "delete", target |-> target]
If(test, body, orelse) == [kind |-> "if", test |-> test, body |-> body, orelse |-> orelse]
For(target, iter, body) == [kind |-> "for", target |-> target, iter |-> iter, body |-> body]
Return(value) == [kind |-> "return", value |-> value]
Break == [kind |-> "break"]
Continue == [kind |-> "continue"]
Call(function) == [kind |-> "call", function |-> function]

(* The statements at any depth, and the names that are variables of a      *)
(* function because its code stores them.                                  *)
RECURSIVE Statements(_)
Statements(code) ==
  UNION {LET s == code[i]
         IN  {s} \cup (IF s.kind = "if" THEN Statements(s.body \o s.orelse)
                       ELSE IF s.kind = "for" THEN Statements(s.body) ELSE {}) :
           i \in DOMAIN code}

ExpressionsOf(s) ==
  {e \in (IF s.kind \in {"assign", "augment", "return"} THEN {s.value}
          ELSE IF s.kind = "if" THEN {s.test} ELSE IF s.kind = "for" THEN {s.iter} ELSE {}) :
     e.kind = "expression"}

TargetsOf(s) == IF s.kind \in {"assign", "augment", "delete", "for"} THEN {s.target} ELSE {}

Iterators(code) ==
  UNION {UNION {e.iterators : e \in ExpressionsOf(s)} : s \in Statements(code)}

Stored(code) ==
  UNION {TargetsOf(s) \cup UNION {e.walrus : e \in ExpressionsOf(s)} : s \in Statements(code)}

(* Those that a call of one of the functions stores.                       *)
StoredByCalls(code, functions) ==
  UNION {functions[s.function].returns : s \in {t \in Statements(code) : t.kind = "call"}}

-----------------------------------------------------------------------------
(* Values are terms: an operation and the values it was applied to.        *)
(* Globals never change, so a term leaves them out.                        *)
Term(by, of) == [by |-> by, of |-> of]
None == Term("None", <<>>)

Item(iterable, round) == Term("item", [i \in 1..round |-> iterable])

(* What runs: the variables of the function, the globals, the functions    *)
(* that calls name, and the outcome of every test or loop: whether the     *)
(* test succeeds, the number of items, the first time and later ones.      *)
Frame(own, namespace, functions, outcome) ==
  [own |-> own, namespace |-> namespace, functions |-> functions, outcome |-> outcome]

(* Where it is: the variables that are bound, the tests made so far, how   *)
(* the last statement ended, and the last value.                           *)
Enter(arguments, tested) ==
  [bound |-> arguments, tested |-> tested, signal |-> "next", value |-> None]

Bind(at, names, value) ==
  [at EXCEPT !.bound = [n \in names |-> value] @@ @, !.value = value]

Raise(at) == [at EXCEPT !.signal = "error"]

Operands(names, at) == [n \in names \cap DOMAIN at.bound |-> at.bound[n]]

Outcome(id, at, in) ==
  in.outcome[id][IF \E tested \in Range(at.tested) : tested.by = id THEN 2 ELSE 1]

RECURSIVE Run(_, _, _)

(* The statement or expression of a function that rewriting made.          *)
RunFunction(f, at, in) ==
  Run(f.body,
      Enter([n \in f.args |-> at.bound[n]] @@ [n \in f.kwargs |-> None], at.tested),
      [in EXCEPT !.own = f.args \cup f.kwargs \cup Stored(f.body)])

Evaluate(e, at, in) ==
  CASE e.kind = "expression" ->
         IF e.reads \subseteq DOMAIN at.bound \cup (in.namespace \ in.own)
           THEN Bind(at, e.walrus, Term(e.id, Operands(e.reads, at)))
           ELSE Raise(at)
    [] e.kind = "call" ->
         LET f == in.functions[e.function]
             inner == RunFunction(f, at, in)
         IN  IF f.args \subseteq DOMAIN at.bound /\ inner.signal = "return"
               THEN [at EXCEPT !.tested = inner.tested, !.value = inner.value]
               ELSE Raise(at)

(* The tuple of returned names is read in the function.                    *)
RunCall(s, at, in) ==
  LET f == in.functions[s.function]
      inner == RunFunction(f, at, in)
  IN  IF /\ f.args \subseteq DOMAIN at.bound
         /\ inner.signal = "next"
         /\ f.returns \subseteq DOMAIN inner.bound
        THEN [at EXCEPT !.tested = inner.tested,
                        !.bound = [n \in f.returns |-> inner.bound[n]] @@ @]
        ELSE Raise(at)

RECURSIVE Repeat(_, _, _, _, _, _)
Repeat(s, iterable, round, items, at, in) ==
  IF round > items THEN at
  ELSE LET after == Run(s.body, Bind(at, {s.target}, Item(iterable, round)), in)
       IN  CASE after.signal \in {"next", "continue"} ->
                  Repeat(s, iterable, round + 1, items, [after EXCEPT !.signal = "next"], in)
             [] after.signal = "break" -> [after EXCEPT !.signal = "next"]
             [] OTHER -> after

(* A statement whose expression has been evaluated.                        *)
Complete(s, at, in) ==
  CASE s.kind = "assign" -> Bind(at, {s.target}, at.value)
    [] s.kind = "augment" ->
         IF s.target \in DOMAIN at.bound
           THEN Bind(at, {s.target}, Term("augment", <<at.bound[s.target], at.value>>))
           ELSE Raise(at)
    [] s.kind = "return" -> [at EXCEPT !.signal = "return"]
    [] s.kind = "if" ->
         Run(IF Outcome(s.test.id, at, in) > 0 THEN s.body ELSE s.orelse,
             [at EXCEPT !.tested = Append(@, at.value)], in)
    [] s.kind = "for" ->
         Repeat(s, at.value, 1, Outcome(s.iter.id, at, in),
                [at EXCEPT !.tested = Append(@, at.value)], in)

ExpressionOf(s) == IF s.kind = "if" THEN s.test ELSE IF s.kind = "for" THEN s.iter ELSE s.value

Execute(s, at, in) ==
  CASE s.kind \in {"break", "continue"} -> [at EXCEPT !.signal = s.kind]
    [] s.kind = "call" -> RunCall(s, at, in)
    [] s.kind = "delete" ->
         IF s.target \in DOMAIN at.bound
           THEN [at EXCEPT !.bound = [n \in DOMAIN @ \ {s.target} |-> @[n]]]
           ELSE Raise(at)
    [] OTHER -> LET evaluated == Evaluate(ExpressionOf(s), at, in)
                IN  IF evaluated.signal = "next" THEN Complete(s, evaluated, in) ELSE evaluated

Run(code, at, in) ==
  IF code = <<>> \/ at.signal # "next" THEN at
  ELSE Run(Tail(code), Execute(Head(code), at, in), in)

=============================================================================
