---------------------------- MODULE MCModelFree -----------------------------
(* A checkpoint of three layers, the third of which sorts before the second  *)
(* when the names are sorted alphabetically.                                 *)
EXTENDS ModelFree

T(l, r) == [layer |-> l, role |-> r]

MCNames == {T(l, r) : l \in {1, 2, 10}, r \in {"gate", "up"}} \cup {T(1, "down")}
MCRoleOrder == <<"down", "gate", "up">>
MCFusedMappings == {{"gate", "up"}}
MCLayerOrders == {<<1, 2, 10>>, <<1, 10, 2>>}
MCCheckpoints == {MCNames, MCNames \ {T(10, "up")}}
MCIgnores == {{}, {T(2, "up"), T(1, "down")}}
MCMalformed == {{}, {T(1, "down")}}
=============================================================================
