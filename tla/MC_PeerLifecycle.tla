-------------------------- MODULE MC_PeerLifecycle --------------------------
(* Instances of PeerLifecycle for TLC.                                      *)
EXTENDS PeerLifecycle, TLC

\* Users are told apart by Admin alone, keys and workers by nothing.
Symmetry == Permutations(Key) \cup Permutations(Worker)
                \cup Permutations(Admin) \cup Permutations(User \ Admin)
=============================================================================
