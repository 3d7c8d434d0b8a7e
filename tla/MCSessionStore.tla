--------------------------- MODULE MCSessionStore ---------------------------
(* Interchangeable handlers for TLC. *)
EXTENDS SessionStore, TLC

CONSTANTS p1, p2

Symmetry == Permutations(Procs)
=============================================================================
