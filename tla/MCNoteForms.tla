---------------------------- MODULE MCNoteForms ----------------------------
(* Small instances of NoteForms for TLC. *)
EXTENDS NoteForms, TLC

Symmetry == Permutations(Title) \cup Permutations(TagName)
=============================================================================
