------------------------ MODULE MCModifierCalibration ------------------------
(***************************************************************************)
(* One decoder layer and the start of the next, cut in three ways; a layer *)
(* whose attention and MLP run in parallel; a layer of two experts with    *)
(* its router.                                                             *)
(***************************************************************************)
EXTENDS ModifierCalibration

Map(smooth, balance) == [smooth |-> smooth, balance |-> balance, hook |-> {}]

(* 1 input_layernorm, 2 q_proj, 3 v_proj, 4 o_proj, 5 post_attention       *)
(* _layernorm, 6 up_proj, 7 down_proj, 8 input_layernorm, 9 q_proj.        *)
Dense(targets, runs_in, incompatible) ==
  [source |-> <<0, 1, 1, 3, 4, 5, 6, 7, 8>>, linear |-> {2, 3, 4, 6, 7, 9},
   containers |-> {2 .. 4, 6 .. 7, 1 .. 7, 8 .. 9, 1 .. 9},
   mappings |-> <<Map(1, <<2, 3>>), Map(3, <<4>>), Map(5, <<6>>), Map(6, <<7>>), Map(8, <<9>>)>>,
   targets |-> targets, subgraph |-> runs_in, incompatible |-> incompatible,
   expert_pairs |-> {}, routings |-> {1 .. 9}]

(* 1 input_layernorm, 2 q_proj, 3 v_proj, 4 o_proj, 5 up_proj, 6 down_proj.*)
Parallel ==
  [source |-> <<0, 1, 1, 3, 1, 5>>, linear |-> 2 .. 6,
   containers |-> {2 .. 4, 5 .. 6, 1 .. 6},
   mappings |-> <<Map(1, <<2, 3, 5>>), Map(3, <<4>>), Map(5, <<6>>)>>,
   targets |-> {1 .. 6}, subgraph |-> [m \in 1 .. 6 |-> 1], incompatible |-> {},
   expert_pairs |-> {}, routings |-> {1 .. 6}]

(* 1 post_attention_layernorm, 2 gate, 3 and 4 up_proj and down_proj of    *)
(* one expert, 5 and 6 those of the other.                                 *)
Experts(mapping) ==
  [source |-> <<0, 1, 1, 3, 1, 5>>, linear |-> 2 .. 6,
   containers |-> {3 .. 4, 5 .. 6, 2 .. 6, 1 .. 6},
   mappings |-> <<mapping, Map(3, <<4>>), Map(5, <<6>>)>>,
   targets |-> {1 .. 6}, subgraph |-> [m \in 1 .. 6 |-> 1], incompatible |-> {},
   expert_pairs |-> {<<3, 4>>, <<5, 6>>}, routings |-> {1 .. 6, 1 .. 4, {1, 2, 5, 6}}]

MCModels ==
  {Dense({1 .. 7, 8 .. 9}, <<1, 1, 1, 1, 1, 1, 1, 2, 2>>, {}),
   Dense({2 .. 4, 6 .. 7, {9}}, <<1, 1, 1, 1, 2, 2, 2, 3, 3>>, {<<3, 4>>}),
   Dense({{2}, {3}, {4}, {6}, {7}, {9}}, <<1, 1, 2, 3, 4, 4, 5, 6, 6>>, {}),
   Parallel,
   Experts([smooth |-> 1, balance |-> <<3, 5, 2>>, hook |-> 2 .. 6])}

(* _moe_default_mappings do not mention the gate.                          *)
MCRouterModels == {Experts(Map(1, <<3, 5>>))}

Modifier(kind, targets, has_config, input_observer) ==
  [kind |-> kind, targets |-> targets, has_config |-> has_config,
   input_observer |-> input_observer]

MCRecipes ==
  LET all == 1 .. 9
      awq(configured) == Modifier("awq", all, configured, "none")
      smoothquant == Modifier("smoothquant", all, FALSE, "none")
      gptq(configured) == Modifier("gptq", all, configured, "none")
      pruning == Modifier("pruning", all, FALSE, "none")
      autoround(targets) == Modifier("autoround", targets, TRUE, "none")
      quantizer(targets, observer) == Modifier("quantization", targets, TRUE, observer)
  IN  {<<awq(TRUE)>>, <<smoothquant, gptq(TRUE)>>, <<smoothquant, quantizer(all, "memoryless_minmax")>>,
       <<awq(FALSE), quantizer(all, "none")>>, <<quantizer(all, "minmax"), awq(FALSE)>>,
       <<quantizer(1 .. 5, "static_minmax"), gptq(TRUE)>>, <<quantizer(all, "none"), gptq(FALSE)>>,
       <<gptq(FALSE)>>, <<smoothquant, awq(TRUE)>>,
       <<pruning, gptq(TRUE)>>, <<smoothquant, autoround(all)>>, <<pruning, autoround(all)>>,
       <<quantizer(1 .. 5, "minmax"), autoround(6 .. 9)>>}

MCRouterRecipes == {<<Modifier("awq", 1 .. 9, TRUE, "none")>>}

MCPipelines == {"independent", "sequential", "basic"}

=============================================================================
