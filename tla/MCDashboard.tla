---------------------------- MODULE MCDashboard ----------------------------
(* Bounded instances of Dashboard. *)
EXTENDS Dashboard, TLC

\* No drawing and no request has a role of its own.
DashSymmetry == {p @@ q : p \in Permutations(Drawings), q \in Permutations(Handlers)}

\* One drawing at a time is selected though it is not shown, while no refresh has
\* gone wrong and no other tab asks for anything.
StaleBound ==
  page.stale # {} =>
    /\ \A c, d \in page.stale : c = d
    /\ ~page.missed /\ ~page.strayed
    /\ \A h \in Handlers : asked[h] = Nothing \/ asked[h].for # "other"
=============================================================================
