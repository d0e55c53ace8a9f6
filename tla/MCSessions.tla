----------------------------- MODULE MCSessions -----------------------------
(* Bounded instances of Sessions. *)
EXTENDS Sessions, TLC

Leave == [role |-> None, active |-> None, mustReset |-> None]

Deactivation == {[Leave EXCEPT !.active = FALSE]}

\* The patches that can take an administrator away.
Removals == Deactivation \cup {[Leave EXCEPT !.role = "USER"]}

\* Neither a handler, a browser nor an account has a role of its own.
SessionSymmetry ==
  {p @@ q @@ r : p \in Permutations(Handlers), q \in Permutations(Browsers),
                 r \in Permutations(Accounts)}
=============================================================================
