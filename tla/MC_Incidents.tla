---------------------------- MODULE MC_Incidents ----------------------------
(* Instances of Incidents for TLC.                                          *)
EXTENDS Incidents, TLC

\* Admins and servers are told apart by nothing.
Symmetry == Permutations(Admin) \cup Permutations(Server)
=============================================================================
