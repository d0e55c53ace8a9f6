----------------------------- MODULE EditorSync -----------------------------
(***************************************************************************)
(* Several editor tabs on one drawing. Each tab keeps the scene it shows,  *)
(* relays edits to the others through the socket room, saves through a     *)
(* throttle, a debounce and a queue, merges the server's scene when a save *)
(* conflicts or the tab finds itself stale, and flushes as it goes away.   *)
(*                                                                         *)
(* The server is OptimisticRegister, which DrawingHistory implements.      *)
(* An element is reduced to the fields reconcileElements compares; a       *)
(* request to the server and its response are steps of their own.          *)
(***************************************************************************)
EXTENDS Integers, Sequences

CONSTANTS
  Editors,        \* editor tabs
  Elements,       \* element ids
  Stamps,         \* what an element's updated field can hold
  Nobody,         \* the nonce of an element that is not there
  NoVersion,      \* a save that names no version (the register's)
  None,           \* nothing captured, nothing in flight
  RevisionBound,  \* an element is edited up to this version
  LogBound,       \* the server stores this many versions
  QueueBound,     \* saves in a tab's queue
  Presses         \* how often each tab's user saves by hand or adds images

ASSUME ConstantsAssumption ==
  /\ Stamps \subseteq Nat /\ Stamps # {}
  /\ Nobody \notin Editors
  /\ RevisionBound \in Nat /\ LogBound \in Nat /\ QueueBound \in Nat \ {0}
  /\ Presses \in [Editors -> Nat]
  /\ NoVersion \notin Nat

VARIABLES
  log,      \* the server: the drawing's versions, as in OptimisticRegister
  pending,  \* the server: the saves in flight
  answer,   \* the responses on their way back
  tab,      \* what each tab holds in memory
  net       \* element-update messages on their way to each tab

vars == <<log, pending, answer, tab, net>>

-----------------------------------------------------------------------------
(* utils/sync.ts. The nonce stands for the random versionNonce of an edit. *)

Revision == [version : Nat, updated : Nat, nonce : Editors \cup {Nobody}]
Absent == [version |-> 0, updated |-> 0, nonce |-> Nobody]
Scene == [Elements -> Revision]
EmptyScene == [x \in Elements |-> Absent]

Present(scene) == {x \in Elements : scene[x] # Absent}

\* With all metadata equal the contents are equal too: frames of a drag that
\* move no field are not told apart here.
Supersedes(remote, local) ==
  \/ remote.version > local.version
  \/ /\ remote.version = local.version
     /\ \/ remote.updated > local.updated
        \/ remote.updated = local.updated /\ remote.nonce # local.nonce

ReconcileElements(local, remote) ==
  [x \in Elements |-> IF Supersedes(remote[x], local[x]) THEN remote[x] ELSE local[x]]

\* Every element of one scene is there in the other, as new or newer.
Covers(newer, older) == \A x \in Elements : newer[x].version >= older[x].version

-----------------------------------------------------------------------------
(* The server. A tab has one autosave, one retry and one unload flush in   *)
(* flight at most; nobody reads the answer to a flush, or to a tab that is *)
(* gone.                                                                   *)

Kinds == {"save", "retry", "flush"}
Channels == Editors \X Kinds

\* Nobody deletes the drawing here, so it has a version at all times.
Register == INSTANCE OptimisticRegister WITH Clients <- Channels, live <- log # <<>>

Version == Len(log)

Request(c, seen, body) == Register!Submit(c, seen, body) /\ UNCHANGED answer

Commit(c) ==
  /\ Version < LogBound
  /\ Register!Commit(c)
  /\ answer' = [answer EXCEPT ![c] =
                  IF c[2] = "flush" \/ tab[c[1]].phase = "gone" THEN None ELSE Version + 1]
  /\ UNCHANGED <<tab, net>>

\* The 409 reaches nobody; a tab that waits for it has an action of its own,
\* as a save that is stale stays stale.
Reject(c) ==
  /\ c[2] = "flush" \/ tab[c[1]].phase = "gone"
  /\ Register!Reject(c)
  /\ UNCHANGED <<answer, tab, net>>

\* Another client puts an earlier scene back, from the history panel. Putting
\* back the scene that is there is left out, to bound the log.
Restore(v) ==
  /\ Version < LogBound
  /\ log[v] # log[Version]
  /\ Register!Override(log[v])
  /\ UNCHANGED <<answer, tab, net>>

ServerUnchanged == UNCHANGED <<log, pending, answer>>

-----------------------------------------------------------------------------
(* A tab. *)

\* phase: whoever opens the drawing again is another tab
\* base: currentDrawingVersionRef
\* scene: the canvas, and latestElementsRef
\* saved: lastPersistedElementsRef
\* sent: elementVersionMap, what the others know from this tab or told it
\* timer: what the debounced save was last called with
\* presses: how often the user saved or added images, only to bound it
\* queue: the scenes in saveQueueRef, the first being saved
\* save: the step of that save; at is the version a reconciliation read
\* recover: the staleness recovery, likewise
Idle(phase) ==
  [phase |-> phase, base |-> 0, scene |-> EmptyScene, saved |-> EmptyScene,
   sent |-> EmptyScene, timer |-> None, presses |-> 0, queue |-> <<>>,
   save |-> [pc |-> "idle", at |-> 0], recover |-> [pc |-> "idle", at |-> 0]]

Tab ==
  [phase : {"new", "open", "gone"}, base : Nat, scene : Scene, saved : Scene,
   sent : Scene, timer : Scene \cup {None}, presses : Nat, queue : Seq(Scene),
   save : [pc : {"idle", "first", "reconcile", "retry"}, at : Nat],
   recover : [pc : {"idle", "read"}, at : Nat]]

Init ==
  /\ log = <<EmptyScene>>
  /\ pending = [c \in Channels |-> None]
  /\ answer = [c \in Channels |-> None]
  /\ tab = [e \in Editors |-> Idle("new")]
  /\ net = [e \in Editors |-> {}]

Open(e) == tab[e].phase = "open"

\* loadData: the drawing is shown as it was when the request was served, which
\* may be some versions ago. Only then does the tab join the room.
Load(e, v) ==
  /\ tab[e].phase = "new"
  /\ tab' = [tab EXCEPT ![e].phase = "open", ![e].base = v, ![e].scene = log[v],
                        ![e].saved = log[v], ![e].sent = log[v]]
  /\ ServerUnchanged /\ UNCHANGED net

\* The user changes an element; onChange sets latestElementsRef. The stamp is
\* the clock of the user's machine, and clocks differ.
Edit(e, x, stamp) ==
  /\ Open(e)
  /\ tab[e].scene[x].version < RevisionBound
  /\ tab' = [tab EXCEPT ![e].scene[x] =
               [version |-> @.version + 1, updated |-> stamp, nonce |-> e]]
  /\ ServerUnchanged /\ UNCHANGED net

HasChanged(t) == {x \in Present(t.scene) : t.scene[x] # t.sent[x]}

Patch(scene, changes, xs) == [x \in Elements |-> IF x \in xs THEN changes[x] ELSE scene[x]]

\* broadcastChanges, throttled: onChange runs after every edit and every merge,
\* so it sees the canvas. What the others have not been told goes out, some of
\* them may be out of reach, and the debounced save is called with the canvas.
BroadcastChanges(e, reached) ==
  LET changes == HasChanged(tab[e])
      update  == Patch(EmptyScene, tab[e].scene, changes)
  IN  /\ Open(e)
      /\ changes # {}
      /\ tab' = [tab EXCEPT ![e].timer = tab[e].scene,
                            ![e].sent = Patch(@, tab[e].scene, changes)]
      /\ net' = [d \in Editors |->
                   IF d \in reached /\ Open(d) THEN net[d] \cup {update} ELSE net[d]]
      /\ ServerUnchanged

\* socket.on('element-update') and flushRemoteUpdates, in the next animation
\* frame: of the updates that arrived since the last frame the last one is
\* kept for each element, and they arrive in any order.
LastArrived(arrived) ==
  {inbox \in [Elements -> {Absent} \cup {m[x] : m \in arrived, x \in Elements}] :
     \A x \in Elements :
       LET sent == {m[x] : m \in arrived} \ {Absent}
       IN  IF sent = {} THEN inbox[x] = Absent ELSE inbox[x] \in sent}

FlushRemoteUpdates(e, arrived) ==
  /\ Open(e)
  /\ arrived # {}
  /\ net' = [net EXCEPT ![e] = @ \ arrived]
  /\ \E inbox \in LastArrived(arrived) :
       tab' = [tab EXCEPT ![e].scene = ReconcileElements(@, inbox),
                          ![e].sent = Patch(@, inbox, Present(inbox))]
  /\ ServerUnchanged

\* The debounce fires: the scene it was called with joins the queue.
DebounceFires(e) ==
  /\ Open(e)
  /\ tab[e].timer # None
  /\ Len(tab[e].queue) < QueueBound
  /\ tab' = [tab EXCEPT ![e].timer = None, ![e].queue = Append(@, tab[e].timer)]
  /\ ServerUnchanged /\ UNCHANGED net

\* emitFilesDeltaIfNeeded, once a second and when an image is added: files that
\* the others were not sent are sent to them (files themselves are left out), and
\* the debounced save is called with the canvas though no element has changed.
FilesChange(e) ==
  /\ Open(e)
  /\ tab[e].presses < Presses[e]
  /\ tab' = [tab EXCEPT ![e].timer = tab[e].scene, ![e].presses = @ + 1]
  /\ ServerUnchanged /\ UNCHANGED net

\* The canvas joins the queue at once.
QueueCanvas(e) ==
  /\ Open(e)
  /\ Len(tab[e].queue) < QueueBound
  /\ tab[e].presses < Presses[e]
  /\ tab' = [tab EXCEPT ![e].queue = Append(@, tab[e].scene), ![e].presses = @ + 1]
  /\ ServerUnchanged /\ UNCHANGED net

\* Ctrl+S. "Saved changes to server" is shown once this save is off the queue, by
\* SaveDone, SaveGivesUp or SaveFails alike: enqueueSceneSave suppresses errors
\* unless it is told not to. The message changes nothing else.
SaveNow(e) == QueueCanvas(e)

\* The back button, once something has changed since the drawing was loaded: the
\* user leaves (Leave) when the save is done, and stays when it failed. Nothing
\* stops edits and other saves meanwhile.
BackClick(e) == QueueCanvas(e)

\* persistScene: the scene that was queued goes out under the version the tab
\* holds now.
SaveSend(e) ==
  /\ Open(e)
  /\ tab[e].queue # <<>>
  /\ tab[e].save.pc = "idle"
  /\ Request(<<e, "save">>, tab[e].base, Head(tab[e].queue))
  /\ tab' = [tab EXCEPT ![e].save.pc = "first"]
  /\ UNCHANGED net

SavingOn(e) == <<e, IF tab[e].save.pc = "first" THEN "save" ELSE "retry">>
Waits(e) == Open(e) /\ tab[e].save.pc \in {"first", "retry"}
AnswerRead(e) == answer' = [answer EXCEPT ![SavingOn(e)] = None]
NextInQueue(t) == [t EXCEPT !.queue = Tail(@), !.save = [pc |-> "idle", at |-> 0]]

\* Mutant: a response without a version is not told apart.
MutantUncheckedVersion(e) ==
  /\ Waits(e)
  /\ answer[SavingOn(e)] # None
  /\ tab' = [tab EXCEPT ![e] = [NextInQueue(@) EXCEPT !.base = None]]
  /\ AnswerRead(e)
  /\ UNCHANGED <<log, pending, net>>

SaveDone(e) ==
  /\ Waits(e)
  /\ answer[SavingOn(e)] # None
  /\ LET version == answer[SavingOn(e)]
     IN  tab' = [tab EXCEPT ![e] = [NextInQueue(@) EXCEPT !.base = version,
                                                          !.saved = log[version]]]
  /\ AnswerRead(e)
  /\ UNCHANGED <<log, pending, net>>

\* saveWithConflictRetry: the server answers 409 and its scene is read.
SaveConflicts(e) ==
  /\ Open(e) /\ tab[e].save.pc = "first"
  /\ Register!Reject(<<e, "save">>)
  /\ tab' = [tab EXCEPT ![e].save = [pc |-> "reconcile", at |-> Version]]
  /\ UNCHANGED <<answer, net>>

\* Mutant: the version is asked for again after the scene was read.
MutantNewestVersion(t, v) ==
  LET scene == ReconcileElements(t.scene, log[v])
  IN  [t EXCEPT !.scene = scene, !.sent = scene, !.base = Version]

\* Mutant: the server's scene takes the place of the tab's.
MutantReplaceScene(t, v) ==
  [t EXCEPT !.scene = log[v], !.sent = log[v], !.base = v]

\* reconcileRemoteScene: the version read is merged into the tab.
Merged(t, v) ==
  LET scene == ReconcileElements(t.scene, log[v])
  IN  [t EXCEPT !.scene = scene, !.sent = scene, !.base = v]

\* Mutant: the retry sends what was read from the server.
MutantRetryRemote(e) ==
  /\ Open(e) /\ tab[e].save.pc = "reconcile"
  /\ LET merged == Merged(tab[e], tab[e].save.at)
     IN  /\ Request(<<e, "retry">>, merged.base, log[merged.base])
         /\ tab' = [tab EXCEPT ![e] = [merged EXCEPT !.save.pc = "retry"]]
  /\ UNCHANGED net

\* Mutant: the retry sends the scene that was queued again.
MutantRetryQueued(e) ==
  /\ Open(e) /\ tab[e].save.pc = "reconcile"
  /\ LET merged == Merged(tab[e], tab[e].save.at)
     IN  /\ Request(<<e, "retry">>, merged.base, Head(merged.queue))
         /\ tab' = [tab EXCEPT ![e] = [merged EXCEPT !.save.pc = "retry"]]
  /\ UNCHANGED net

SaveRetry(e) ==
  /\ Open(e) /\ tab[e].save.pc = "reconcile"
  /\ LET merged == Merged(tab[e], tab[e].save.at)
     IN  /\ Request(<<e, "retry">>, merged.base, merged.scene)
         /\ tab' = [tab EXCEPT ![e] = [merged EXCEPT !.save.pc = "retry"]]
  /\ UNCHANGED net

\* A second conflict is shown to the user and the save is given up.
SaveGivesUp(e) ==
  /\ Open(e) /\ tab[e].save.pc = "retry"
  /\ Register!Reject(<<e, "retry">>)
  /\ tab' = [tab EXCEPT ![e] = NextInQueue(@)]
  /\ UNCHANGED <<answer, net>>

\* A request of the save fails: it, or its answer, is lost on the way.
SaveFails(e) ==
  /\ Open(e) /\ tab[e].save.pc # "idle"
  /\ tab' = [tab EXCEPT ![e] = NextInQueue(@)]
  /\ pending' = [pending EXCEPT ![SavingOn(e)] = None]
  /\ AnswerRead(e)
  /\ UNCHANGED <<log, net>>

\* Mutant: one version behind is not behind.
MutantLateRecovery(e) ==
  /\ Open(e)
  /\ tab[e].recover.pc = "idle"
  /\ Version > tab[e].base + 1
  /\ tab' = [tab EXCEPT ![e].recover = [pc |-> "read", at |-> Version]]
  /\ ServerUnchanged /\ UNCHANGED net

\* useStalenessRecovery, on reconnection, on becoming visible and on every
\* heartbeat: if the server is ahead its scene is read and merged, beside
\* whatever the save queue is doing.
RecoverRead(e) ==
  /\ Open(e)
  /\ tab[e].recover.pc = "idle"
  /\ Version > tab[e].base
  /\ tab' = [tab EXCEPT ![e].recover = [pc |-> "read", at |-> Version]]
  /\ ServerUnchanged /\ UNCHANGED net

RecoverApply(e) ==
  /\ Open(e)
  /\ tab[e].recover.pc = "read"
  /\ tab' = [tab EXCEPT ![e] = [Merged(@, @.recover.at) EXCEPT
                                  !.recover = [pc |-> "idle", at |-> 0]]]
  /\ ServerUnchanged /\ UNCHANGED net

RecoverFails(e) ==
  /\ Open(e)
  /\ tab[e].recover.pc # "idle"
  /\ tab' = [tab EXCEPT ![e].recover = [pc |-> "idle", at |-> 0]]
  /\ ServerUnchanged /\ UNCHANGED net

Forgotten(e) ==
  /\ tab' = [tab EXCEPT ![e] = Idle("gone")]
  /\ net' = [net EXCEPT ![e] = {}]

\* useUnloadSave: pagehide sends what is unsaved, in one request that survives
\* the page; a save still in flight may yet reach the server.
Unload(e) ==
  /\ Open(e)
  /\ Forgotten(e)
  /\ answer' = [c \in Channels |-> IF c[1] = e THEN None ELSE answer[c]]
  /\ IF tab[e].scene # tab[e].saved
     THEN Register!Submit(<<e, "flush">>, tab[e].base, tab[e].scene)
     ELSE UNCHANGED <<log, pending>>

\* Leaving the page inside the application, where the debounce is cancelled and
\* the queue runs to its end first, or a crash: nothing is flushed.
Leave(e) ==
  /\ Open(e)
  /\ Forgotten(e)
  /\ answer' = [c \in Channels |-> IF c[1] = e THEN None ELSE answer[c]]
  /\ UNCHANGED <<log, pending>>

TabStep(e) ==
  \/ \E v \in 1..Version : Load(e, v)
  \/ \E x \in Elements, stamp \in Stamps : Edit(e, x, stamp)
  \/ \E reached \in SUBSET (Editors \ {e}) : BroadcastChanges(e, reached)
  \/ \E arrived \in SUBSET net[e] : FlushRemoteUpdates(e, arrived)
  \/ DebounceFires(e)
  \/ FilesChange(e)
  \/ SaveNow(e)
  \/ BackClick(e)
  \/ SaveSend(e)
  \/ SaveDone(e)
  \/ SaveConflicts(e)
  \/ SaveRetry(e)
  \/ SaveGivesUp(e)
  \/ SaveFails(e)
  \/ RecoverRead(e)
  \/ RecoverApply(e)
  \/ RecoverFails(e)
  \/ Unload(e)
  \/ Leave(e)

Next ==
  \/ \E e \in Editors : TabStep(e)
  \/ \E c \in Channels : Commit(c) \/ Reject(c)
  \/ \E v \in 1..Version : Restore(v)

Spec == Init /\ [][Next]_vars

\* The heartbeat asks again and again while the tab is visible, and requests
\* do not fail for ever.
FairSpec ==
  /\ Spec
  /\ \A e \in Editors : WF_vars(RecoverRead(e)) /\ SF_vars(RecoverApply(e))
-----------------------------------------------------------------------------
(* Properties. *)

TypeOK ==
  /\ log \in Seq(Scene) /\ log # <<>>
  /\ pending \in [Channels -> {None} \cup [seen : Nat, body : Scene]]
  /\ answer \in [Channels -> Nat \cup {None}]
  /\ tab \in [Editors -> Tab]
  /\ net \in [Editors -> SUBSET Scene]

\* A tab has merged the version it holds: no element of that version is newer
\* than what the tab shows, whatever saves, recoveries, updates and restores
\* went on at once. A save of the canvas under that version discards nothing.
BaseIsCovered ==
  \A e \in Editors : Open(e) =>
    tab[e].base \in 1..Version /\ Covers(tab[e].scene, log[tab[e].base])

\* The retry after a conflict and the flush of a closing tab never discard
\* what the version they name holds.
MergedSavesKeepRivals ==
  \A c \in Channels : pending[c] # None /\ c[2] # "save" =>
    Covers(pending[c].body, log[pending[c].seen])

\* The answer that a save waits for names a version that holds all the scene that
\* was queued, also after a conflict and a merge, with recoveries in between. It
\* speaks of saves that are answered: the back button leaves the page only after one
\* (or when there was nothing to save), Ctrl+S shows its message after any.
AcknowledgedIsSaved ==
  \A e \in Editors : Waits(e) /\ answer[SavingOn(e)] # None =>
    Covers(log[answer[SavingOn(e)]], Head(tab[e].queue))

\* What a tab shows never goes back: no merge, whatever it reads and in
\* whichever order updates arrive, replaces an element by an older one.
ScenesNeverGoBack ==
  [][\A e \in Editors : Open(e) /\ Open(e)' => Covers(tab'[e].scene, tab[e].scene)]_vars

\* Once nobody saves any more, a tab that stays open shows all the server has,
\* though every update of the room may have been lost.
TabsCatchUp ==
  \A e \in Editors :
    []<>(Open(e) => tab[e].base = Version /\ Covers(tab[e].scene, log[Version]))

\* What the code does not keep (TLC refutes it): a save covers the version it
\* names, the first attempt included, though "re-sending our stale scene under
\* their version number would silently discard their work" (Editor.tsx).
SavesKeepRivals ==
  \A c \in Channels : pending[c] # None => Covers(pending[c].body, log[pending[c].seen])
=============================================================================
