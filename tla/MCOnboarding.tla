--------------------------- MODULE MCOnboarding ---------------------------
(* Bounded instances of Onboarding. *)
EXTENDS Onboarding
=============================================================================
