---------------------------- MODULE MCOidcSignIn ----------------------------
(* Bounded instances of OidcSignIn. *)
EXTENDS OidcSignIn, TLC

\* Nobody and nothing has a role of its own.
OidcSymmetry ==
  Permutations(Persons) \cup Permutations(Addresses) \cup Permutations(Accounts)
    \cup Permutations(Browsers) \cup Permutations(Handlers)
=============================================================================
