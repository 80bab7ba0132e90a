---------------------------- MODULE MCDeskReadback ----------------------------
(* Small instances of DeskReadback for TLC. *)
EXTENDS DeskReadback, TLC

Interchangeable == Permutations(Actors) \cup Permutations(Fresh) \cup Permutations(Keys)
=============================================================================
