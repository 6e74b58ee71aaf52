--------------------------- MODULE MCRepositories ---------------------------
(* Symmetries of Repositories for the model checker. *)
EXTENDS Repositories, TLC

Symmetry == Permutations(Drinks) \cup Permutations(AuthCodes)
=============================================================================
