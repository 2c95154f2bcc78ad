----------------------- MODULE MCCompressionLifecycle -----------------------
(***************************************************************************)
(* Two modifiers: "calibrating" is started by the calibration events and   *)
(* ended by them or, its field `end` being 0, by the end of a batch;       *)
(* "stepped" starts at step 0.  A recipe lists both in either order, or    *)
(* one, or is missing.                                                     *)
(***************************************************************************)
EXTENDS CompressionLifecycle

MCModifiers == {"calibrating", "stepped"}

MCCalibrating == {"calibrating"}

MCNothing == {}

MCStart == [m \in MCModifiers |-> IF m = "stepped" THEN 0 ELSE NoStep]

MCEnd == [m \in MCModifiers |-> IF m = "stepped" THEN NoStep ELSE 0]

MCRecipes == {<<>>, <<"calibrating">>, <<"calibrating", "stepped">>,
              <<"stepped", "calibrating">>}

MCEventTypes == {"batch_start", "loss_calculated", "batch_end",
                 "calibration_epoch_start", "calibration_epoch_end"}

=============================================================================
