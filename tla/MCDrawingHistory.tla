-------------------------- MODULE MCDrawingHistory --------------------------
(* Bounded instances of DrawingHistory. *)
EXTENDS DrawingHistory, TLC

CONSTANTS e1, e2, isDeleted, link, yes, no

WithKeys(gone, linked) == [k \in Keys |-> IF k = isDeleted THEN gone ELSE linked]

Shape == WithKeys(no, NoKey)
Deleted == WithKeys(yes, NoKey)

MCGone == {element \in Element : element[isDeleted] = yes}

\* A drawing with one element, with both, and with one of them deleted.
MCBodies ==
  { (e1 :> Shape @@ e2 :> Absent), (e1 :> Shape @@ e2 :> Shape),
    (e1 :> Deleted @@ e2 :> Shape) }

\* One element, drawn with a link, then without it and marked deleted; trimming
\* takes it away.
MCOneElement == { (e1 :> WithKeys(no, yes)), (e1 :> Deleted) }

\* A backup of the first version.
MCBackups == { [version |-> 1, scene |-> (e1 :> WithKeys(no, yes))] }

HandlerSymmetry == Permutations(Handlers)
=============================================================================
