----------------------------- MODULE MC_Accounts -----------------------------
(* Instances of Accounts for TLC: users and names are all alike.            *)
EXTENDS Accounts, TLC

Symmetry == Permutations(User) \cup Permutations(Name)
=============================================================================
