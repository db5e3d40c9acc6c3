------------------------- MODULE MCManagedResources -------------------------
(* Instances of ManagedResources for TLC. *)
EXTENDS ManagedResources

CONSTANTS p1, p2, t1, t2

Declares(t, alloc) == [valid |-> TRUE, track |-> t, alloc |-> alloc]
Nothing == Declares(None, FALSE)
Invalid == [Nothing EXCEPT !.valid = FALSE]

MCConfigs == {Declares(t1, TRUE), Declares(t2, TRUE), Declares(Latest, FALSE), Nothing, Invalid}
MCInitConfig == [p \in Projects |-> IF p = p1 THEN Declares(t1, TRUE) ELSE Declares(Latest, FALSE)]
=============================================================================
