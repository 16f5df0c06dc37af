------------------------------ MODULE MC_Dialog ------------------------------
(* Instances of Dialog for TLC: one username is known, one is not.          *)
EXTENDS Dialog

CONSTANTS u1, u2, known, unknown

MCName == {known, unknown}
MCOwner == [name \in MCName |-> IF name = known THEN u2 ELSE None]
=============================================================================
