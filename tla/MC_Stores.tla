------------------------------ MODULE MC_Stores ------------------------------
(* Instances of Stores for TLC.                                             *)
EXTENDS Stores, TLC

Symmetry ==
    UNION {Permutations(S) : S \in {User, Name, Server, Key, IP, Message}}
=============================================================================
