------------------------------ MODULE MCOneshot ------------------------------
(***************************************************************************)
(* Two calibrating modifiers, of which "ptq" reports nothing from          *)
(* on_finalize.  Runs follow each other in one session; their recipes      *)
(* share modifier objects.                                                 *)
(***************************************************************************)
EXTENDS Oneshot

MCModifiers == {"gptq", "ptq"}

MCReturnsNone == {"ptq"}

MCStart == [m \in MCModifiers |-> NoStep]

MCMoEModules == <<"moe1", "moe2">>

MCRecipes == {<<>>, <<"gptq">>, <<"gptq", "ptq">>, <<"ptq", "gptq">>}

=============================================================================
