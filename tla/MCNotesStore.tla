--------------------------- MODULE MCNotesStore ---------------------------
(* Small instances of NotesStore for TLC. *)
EXTENDS NotesStore, TLC

Symmetry == Permutations(Title) \cup Permutations(Content) \cup Permutations(TagName)
=============================================================================
