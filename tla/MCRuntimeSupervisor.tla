------------------------ MODULE MCRuntimeSupervisor ------------------------
(* Instances of RuntimeSupervisor for TLC. *)
EXTENDS RuntimeSupervisor
=============================================================================
