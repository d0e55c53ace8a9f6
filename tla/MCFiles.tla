------------------------------ MODULE MCFiles ------------------------------
(* Bounded instances of Files. *)
EXTENDS Files, TLC

FilesSymmetry == Permutations(Handlers)
=============================================================================
