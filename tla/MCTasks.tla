------------------------------ MODULE MCTasks -------------------------------
(***************************************************************************)
(* The instance of TaskLifecycle for TLC; tasks.cfg gives the constants.   *)
(* Users and validations are interchangeable, but symmetry would not be    *)
(* sound here: the run checks liveness.                                    *)
(***************************************************************************)
EXTENDS TaskLifecycle
=============================================================================
