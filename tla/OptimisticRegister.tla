------------------------- MODULE OptimisticRegister -------------------------
(***************************************************************************)
(* What the drawing endpoints promise about the stored scene, with the     *)
(* snapshot table, the handlers' steps and the database hidden.            *)
(*                                                                         *)
(* A drawing is a log of scenes; version v of the drawing is log[v].       *)
(* A save is submitted with the version its author last saw, or with none. *)
(* A save that names a version is appended only on top of that version; a  *)
(* save is rejected only if its version is stale or the drawing is gone.   *)
(* Maintenance (restore, trim, orphan removal) appends without naming one. *)
(***************************************************************************)
EXTENDS Naturals, Sequences

CONSTANTS
  Clients,    \* the concurrent writers
  Scene,      \* the contents a drawing can have
  NoVersion,  \* the version of a save that names none
  None        \* no save is pending

VARIABLES
  log,        \* log[v] is the scene that version v named
  pending,    \* pending[c] is the save client c waits for, or None
  live        \* the drawing has not been deleted

vars == <<log, pending, live>>

Init ==
  /\ \E s \in Scene : log = <<s>>
  /\ pending = [c \in Clients |-> None]
  /\ live = TRUE

\* A client can only name a version it has been told of.
Submit(c, seen, body) ==
  /\ live
  /\ pending[c] = None
  /\ seen \in 1..Len(log) \cup {NoVersion}
  /\ pending' = [pending EXCEPT ![c] = [seen |-> seen, body |-> body]]
  /\ UNCHANGED <<log, live>>

Current(seen) == seen \in {NoVersion, Len(log)}

Commit(c) ==
  /\ live
  /\ pending[c] # None
  /\ Current(pending[c].seen)
  /\ log' = Append(log, pending[c].body)
  /\ pending' = [pending EXCEPT ![c] = None]
  /\ UNCHANGED live

Reject(c) ==
  /\ pending[c] # None
  /\ ~live \/ ~Current(pending[c].seen)
  /\ pending' = [pending EXCEPT ![c] = None]
  /\ UNCHANGED <<log, live>>

Override(body) ==
  /\ live
  /\ log' = Append(log, body)
  /\ UNCHANGED <<pending, live>>

Retire ==
  /\ live' = FALSE
  /\ UNCHANGED <<log, pending>>

\* The server restarts: the saves it was handling are forgotten.
Forget ==
  /\ pending' = [c \in Clients |-> None]
  /\ UNCHANGED <<log, live>>

Next ==
  \/ \E c \in Clients :
       \/ \E seen \in 1..Len(log) \cup {NoVersion}, body \in Scene : Submit(c, seen, body)
       \/ Commit(c)
       \/ Reject(c)
  \/ \E body \in Scene : Override(body)
  \/ Retire
  \/ Forget

Spec == Init /\ [][Next]_vars
=============================================================================
