---------------------------- MODULE MCApiClient ----------------------------
(* Bounded instances of ApiClient. *)
EXTENDS ApiClient
=============================================================================
