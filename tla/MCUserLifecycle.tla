-------------------------- MODULE MCUserLifecycle --------------------------
(* Small instances of UserLifecycle for TLC. *)
EXTENDS UserLifecycle, TLC

Symmetry == Permutations(Admin) \cup Permutations(Client) \cup Permutations(File)
=============================================================================
