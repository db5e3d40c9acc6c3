---------------------------- MODULE MCJobHistory ----------------------------
(* Instances of JobHistory for TLC. *)
EXTENDS JobHistory

CONSTANT e1
=============================================================================
