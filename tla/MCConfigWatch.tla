--------------------------- MODULE MCConfigWatch ---------------------------
(* An instance of ConfigWatch for TLC: one project that is edited twice, and
   one CLI check that probes the lock. *)
EXTENDS ConfigWatch

CONSTANTS p1, c1
=============================================================================
