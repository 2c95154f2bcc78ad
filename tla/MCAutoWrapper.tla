---------------------------- MODULE MCAutoWrapper ----------------------------
(***************************************************************************)
(* Instance of AutoWrapper: every body made of at most three of the        *)
(* statements below and a return, over a parameter x, a variable y, the    *)
(* variable i of loops, which a global may be named like, and a global g.  *)
(***************************************************************************)
EXTENDS AutoWrapper

E(id, name) == Expression(id, {name})
Untraced(id, name) == [E(id, name) EXCEPT !.untraced = TRUE]

Blocks(id) ==
  {<<>>,
   <<Assign("y", E(id, "x"))>>, <<Assign("y", E(id, "y"))>>, <<Assign("x", E(id, "y"))>>,
   <<Assign("y", E(id, "x")), Assign("x", E(id \o "2", "y"))>>,
   <<If(E(id \o "2", "x"), <<Assign("y", E(id, "x"))>>, <<>>)>>,
   <<Return(E(id, "x"))>>}

Branches(id) ==
  {If(E(id, n), in_true, in_false) :
     n \in {"x", "g"}, in_true \in Blocks(id \o "t"), in_false \in Blocks(id \o "e")}

Loops(id) ==
  {For("i", E(id, "x"), <<s, Assign("x", E(id \o "l", n))>>) :
     n \in {"x", "y"},
     s \in {If(E(id \o "t", "i"), <<s1>>, <<>>) :
              s1 \in {Continue, Break, Assign("y", E(id \o "a", "i"))}}
             \cup {Assign("y", Untraced(id \o "a", "i"))}}

Simple(id) ==
  {Assign("y", Untraced(id, "x")), Assign("y", Untraced(id, "y")),
   Assign("x", [E(id, "x") EXCEPT !.walrus = {"y"}]),
   If(E(id, "g"), <<Assign("x", [E(id \o "w", "x") EXCEPT !.walrus = {"y"}])>>, <<>>),
   Augment("y", E(id, "x")), Delete("y")}

(* Code of the kinds that rewriting gets wrong.                            *)
Difficult(id) ==
  {Assign("y", [Untraced(id, "x") EXCEPT !.iterators = {"i"}]),
   If(E(id, "x"), <<Assign("y", E(id \o "a", "i"))>>, <<>>),
   If(E(id, "x"), <<Augment("y", E(id \o "a", "x"))>>, <<Augment("y", E(id \o "e", "x"))>>),
   If(E(id, "x"), <<Delete("y")>>, <<>>),
   If(E(id, "x"),
      <<For("i", E(id \o "l", "x"), <<Assign("y", E(id \o "a", "i"))>>)>>,
      <<Assign("y", E(id \o "e", "x"))>>)}

Some(id) == Branches(id) \cup Loops(id) \cup Simple(id) \cup Difficult(id)

MCPrograms ==
  {first \o <<s1, s2, Return(Expression("r", {"x", "y"}))>> :
     first \in {<<>>, <<Assign("y", E("a", "x"))>>}, s1 \in Some("b"), s2 \in Some("c")}

MCNamespaces == {{"g"}, {"g", "i"}}
=============================================================================
