----------------------------- MODULE MCLibrary -----------------------------
(* Bounded instances of Library. *)
EXTENDS Library, TLC

CONSTANTS draft, folder

\* A backup with a drawing in a collection, and an old database whose trash has
\* an id of its own.
MCArchives ==
  {[collections |-> {folder}, place |-> draft :> folder, legacy |-> FALSE, named |-> FALSE],
   [collections |-> {Trash}, place |-> draft :> Trash, legacy |-> TRUE, named |-> TRUE]}
=============================================================================
