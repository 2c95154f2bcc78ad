CONSTANTS
  Modifiers <- MCModifiers
  Calibrating <- MCCalibrating
  ReturnsNone <- MCCalibrating
  Start <- MCStart
  End <- MCEnd
  NoStep = NoStep
  Recipes <- MCRecipes
  EventTypes <- MCEventTypes
  Steps = {0}
  NoCall = NoCall
SPECIFICATION Spec
INVARIANTS
  TypeOK
  StartsAndEndsOnce
  FinalizesOnceWhenReported
  FinalizedMeansAll
  AcceptedEventsAreDelivered
PROPERTY BatchEventsInOrder
