---------------------------- MODULE MCEditorSync ----------------------------
(* Bounded instances of EditorSync. *)
EXTENDS EditorSync, TLC

CONSTANTS a, b

\* One user saves by hand, once.
MCPresses == a :> 1 @@ b :> 0
=============================================================================
