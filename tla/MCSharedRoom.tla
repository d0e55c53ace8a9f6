---------------------------- MODULE MCSharedRoom ----------------------------
(* Bounded instances of SharedRoom. *)
EXTENDS SharedRoom, TLC

\* No socket has a role of its own.
SocketSymmetry == Permutations(Sockets)
=============================================================================
