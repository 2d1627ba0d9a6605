------------------------ MODULE MCProcessRepository -------------------------
(* Small instances of ProcessRepository for TLC. *)
EXTENDS ProcessRepository, TLC

\* Requests are told apart only by their local variables.
Symmetry == Permutations(Requests)
=============================================================================
