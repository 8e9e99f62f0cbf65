---------------------------- MODULE MCDetailPage ----------------------------
(* A small instance of DetailPage for TLC. *)
EXTENDS DetailPage, TLC

Symmetry == Permutations(Docs) \cup Permutations(Paths)

=============================================================================
