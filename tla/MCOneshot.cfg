CONSTANTS
  Modifiers <- MCModifiers
  Calibrating <- MCModifiers
  ReturnsNone <- MCReturnsNone
  Start <- MCStart
  End <- MCStart
  NoStep = NoStep
  Recipes <- MCRecipes
  EventTypes = {"calibration_epoch_start", "sequential_epoch_end", "calibration_epoch_end"}
  Steps = {0}
  NoCall = NoCall
  NumSubgraphs = 2
  MoEModules <- MCMoEModules
  Permanent = {"moe2"}
SPECIFICATION FairOneshotSpec
INVARIANTS
  ExpertsRestored
  NoAbandonedModifiers
  AppliedInFull
PROPERTY RunsEnd
