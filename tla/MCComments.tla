---------------------------- MODULE MCComments ----------------------------
(* Bounded instances of Comments. *)
EXTENDS Comments, TLC

\* Neither a tab nor a click has a role of its own.
CommentsSymmetry == {p @@ q : p \in Permutations(Tabs), q \in Permutations(Clicks)}

\* The owner has reacted to the first comment, its author has not: two tabs of
\* either then react, or take it back, at once.
MCInit == CommentsInit /\ comment[1].reacted = {Owner}
MCSpec == MCInit /\ [][CommentsNext]_commentsVars
=============================================================================
