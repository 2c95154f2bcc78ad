--------------------------- MODULE ExpertRouting ---------------------------
(***************************************************************************)
(* The forward pass of the blocks of experts that replace those of a model *)
(* during calibration (modeling/*.py): which experts are called, on which  *)
(* tokens, and whose outputs a token gets.  A block is a record of         *)
(*   experts   the sequence of its experts                                 *)
(*   routes    per token the experts the router selects for it             *)
(*   all       calibrate_all_experts                                       *)
(*   skips     an expert without input is not called (DeepSeek, GLM,       *)
(*             GPT-OSS); otherwise it is called with no rows (Qwen, Llama) *)
(***************************************************************************)
EXTENDS Naturals, Sequences, SequencesExt

(* torch.where(expert_mask[e])                                             *)
RoutedTo(block, e, tokens) == {t \in tokens : e \in block.routes[t]}

ExpertInput_Routed(block, e, tokens) == RoutedTo(block, e, tokens)

ExpertInput(block, e, tokens) ==
  IF block.all THEN tokens ELSE RoutedTo(block, e, tokens)

IsCalled(block, e, tokens) ==
  block.skips => ExpertInput(block, e, tokens) # {}

(* The rows of an expert's output that are kept.                           *)
Selected_All(block, e, tokens) == ExpertInput(block, e, tokens)

Selected(block, e, tokens) ==
  ExpertInput(block, e, tokens) \cap RoutedTo(block, e, tokens)

(* Per token the experts whose outputs were added to its own, in order.    *)
Forward(block, tokens) ==
  LET IndexAdd(output, e) ==
        [t \in tokens |-> IF IsCalled(block, e, tokens) /\ t \in Selected(block, e, tokens)
                            THEN Append(output[t], e) ELSE output[t]]
  IN  FoldLeft(IndexAdd, [t \in tokens |-> <<>>], block.experts)

=============================================================================
