--------------------------- MODULE MCConnManager ---------------------------
(* Small instances of ConnManager for TLC. *)
EXTENDS ConnManager, TLC

Symmetry == Permutations(User) \cup Permutations(Request) \cup Permutations(Conn)
=============================================================================
