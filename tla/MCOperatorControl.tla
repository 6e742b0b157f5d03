--------------------------- MODULE MCOperatorControl ---------------------------
(***************************************************************************)
(* Instances of OperatorControl for TLC.  The keys are not symmetric for   *)
(* it: one run checks liveness, the other has a single key.                *)
(***************************************************************************)
EXTENDS OperatorControl
=============================================================================
