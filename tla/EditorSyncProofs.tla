-------------------------- MODULE EditorSyncProofs --------------------------
(***************************************************************************)
(* Proofs about EditorSync for every number of tabs, elements and versions *)
(* and every length of the queue, and, in the second half, about Files for *)
(* every number of drawings, files and requests. No definition of the one  *)
(* is used in the other.                                                   *)
(***************************************************************************)
EXTENDS EditorSync, Files, TLAPS

-----------------------------------------------------------------------------
(* Lemmas about scenes. *)

\* The scene of a new drawing is a scene.
LEMMA EmptySceneType == EmptyScene \in Scene
  BY DEF EmptyScene, Scene, Absent, Revision

\* A scene covers itself.
LEMMA CoversReflexive ==
  ASSUME NEW s \in Scene
  PROVE  Covers(s, s)
  BY DEF Covers, Scene, Revision

\* What covers a scene covers whatever that scene covers.
LEMMA CoversTransitive ==
  ASSUME NEW r \in Scene, NEW s \in Scene, NEW t \in Scene,
         Covers(r, s), Covers(s, t)
  PROVE  Covers(r, t)
  <1>1. SUFFICES ASSUME NEW x \in Elements PROVE r[x].version >= t[x].version
    BY DEF Covers
  <1>2. r[x].version \in Nat /\ s[x].version \in Nat /\ t[x].version \in Nat
    BY DEF Scene, Revision
  <1>3. r[x].version >= s[x].version /\ s[x].version >= t[x].version
    BY DEF Covers
  <1>4. QED BY <1>2, <1>3

\* reconcileElements gives a scene that covers both sides, whichever wins a tie.
LEMMA ReconcileCovers ==
  ASSUME NEW local \in Scene, NEW remote \in Scene
  PROVE  /\ ReconcileElements(local, remote) \in Scene
         /\ Covers(ReconcileElements(local, remote), local)
         /\ Covers(ReconcileElements(local, remote), remote)
  <1> DEFINE merged == ReconcileElements(local, remote)
  <1>1. merged \in Scene
    BY DEF ReconcileElements, Scene
  <1>2. SUFFICES ASSUME NEW x \in Elements
                 PROVE  /\ merged[x].version >= local[x].version
                        /\ merged[x].version >= remote[x].version
    BY <1>1 DEF Covers
  <1>3. local[x].version \in Nat /\ remote[x].version \in Nat
    BY DEF Scene, Revision
  <1>4. merged[x] = IF Supersedes(remote[x], local[x]) THEN remote[x] ELSE local[x]
    BY DEF ReconcileElements
  <1>5. QED BY <1>3, <1>4 DEF Supersedes

\* Merging a version into a tab keeps the tab's other captures in place.
LEMMA MergedTab ==
  ASSUME NEW t \in Tab, NEW v \in Nat, log[v] \in Scene
  PROVE  /\ Merged(t, v) \in Tab
         /\ Merged(t, v).scene \in Scene
         /\ Merged(t, v).base = v
         /\ Covers(Merged(t, v).scene, t.scene)
         /\ Covers(Merged(t, v).scene, log[v])
         /\ Merged(t, v).phase = t.phase /\ Merged(t, v).timer = t.timer
         /\ Merged(t, v).queue = t.queue /\ Merged(t, v).save = t.save
         /\ Merged(t, v).recover = t.recover
  <1>1. t.scene \in Scene BY DEF Tab
  <1>2. ReconcileElements(t.scene, log[v]) \in Scene BY <1>1, ReconcileCovers
  <1>3. Merged(t, v).scene = ReconcileElements(t.scene, log[v]) BY DEF Merged, Tab
  <1>4. Merged(t, v) \in Tab BY <1>2 DEF Merged, Tab
  <1>5. QED BY <1>1, <1>2, <1>3, <1>4, ReconcileCovers DEF Merged, Tab

-----------------------------------------------------------------------------
(* The inductive invariant. *)

\* A tab in use: the version it names exists and is merged into its scene, as
\* is every scene it captured.
InUse(t, versions) ==
  /\ t.base \in 1..Len(versions)
  /\ Covers(t.scene, versions[t.base])
  /\ t.timer # None => Covers(t.scene, t.timer)
  /\ \A i \in 1..Len(t.queue) : Covers(t.scene, t.queue[i])

\* The versions read and not yet merged exist, and a save under way is that of
\* the first scene in the queue.
ReadsExist(t, versions) ==
  /\ t.save.pc # "idle" => t.queue # <<>>
  /\ t.save.pc = "reconcile" => t.save.at \in 1..Len(versions)
  /\ t.recover.pc = "read" => t.recover.at \in 1..Len(versions)

\* What a tab has sent, or was told it saved, it shows still.
OwnSavesAreShown(e) ==
  \A k \in {"save", "retry"} :
    /\ pending[<<e, k>>] # None => Covers(tab[e].scene, pending[<<e, k>>].body)
    /\ answer[<<e, k>>] # None =>
         /\ answer[<<e, k>>] \in 1..Version
         /\ Covers(tab[e].scene, log[answer[<<e, k>>]])

\* A tab that has not been opened has nothing under way.
NewIsSilent(e) ==
  tab[e].phase = "new" =>
    /\ tab[e].timer = None /\ tab[e].queue = <<>>
    /\ tab[e].save.pc = "idle" /\ tab[e].recover.pc = "idle"
    /\ \A k \in Kinds : pending[<<e, k>>] = None /\ answer[<<e, k>>] = None

SavesNameVersions == \A c \in Channels : pending[c] # None => pending[c].seen \in 1..Version

TabInv(e) ==
  /\ Open(e) => InUse(tab[e], log) /\ ReadsExist(tab[e], log) /\ OwnSavesAreShown(e)
  /\ NewIsSilent(e)

IInv ==
  /\ TypeOK
  /\ SavesNameVersions
  /\ MergedSavesKeepRivals
  /\ \A e \in Editors : TabInv(e)

-----------------------------------------------------------------------------
(* What the invariant gives at once. *)

\* The types the steps below use one by one.
LEMMA Types ==
  ASSUME IInv
  PROVE  /\ log \in Seq(Scene) /\ Version \in Nat /\ \A v \in 1..Version : log[v] \in Scene
         /\ \A e \in Editors : /\ tab[e] \in Tab /\ tab[e].scene \in Scene
                               /\ tab[e].queue \in Seq(Scene)
                               /\ Len(tab[e].queue) \in Nat
         /\ \A c \in Channels : /\ pending[c] # None => /\ pending[c].seen \in Nat
                                                         /\ pending[c].body \in Scene
                                /\ answer[c] # None => answer[c] \in Nat
  BY DEF IInv, TypeOK, Tab, Version

\* A tab has its own channels.
LEMMA OwnChannels ==
  ASSUME NEW e \in Editors, NEW k \in Kinds
  PROVE  <<e, k>> \in Channels /\ <<e, k>>[1] = e /\ <<e, k>>[2] = k
  BY DEF Channels

\* A step of one tab that leaves the log alone.
LEMMA TabChange ==
  ASSUME IInv, NEW e \in Editors, NEW t \in Tab,
         tab' = [tab EXCEPT ![e] = t], log' = log,
         pending' \in [Channels -> {None} \cup [seen : Nat, body : Scene]],
         answer' \in [Channels -> Nat \cup {None}],
         net' \in [Editors -> SUBSET Scene],
         \A c \in Channels : c[1] # e => pending'[c] = pending[c] /\ answer'[c] = answer[c],
         SavesNameVersions', MergedSavesKeepRivals',
         t.phase = "open" => InUse(t, log) /\ ReadsExist(t, log) /\ OwnSavesAreShown(e)',
         t.phase # "new"
  PROVE  IInv'
  <1>1. tab' \in [Editors -> Tab] /\ tab'[e] = t
    BY DEF IInv, TypeOK
  <1>2. TypeOK'
    BY <1>1 DEF IInv, TypeOK
  <1>3. ASSUME NEW d \in Editors PROVE TabInv(d)'
    <2>1. CASE d = e
      BY <1>1, <2>1 DEF TabInv, Open, NewIsSilent
    <2>2. CASE d # e
      <3>1. tab'[d] = tab[d]
        BY <2>2 DEF IInv, TypeOK
      <3>2. ASSUME NEW k \in Kinds
            PROVE  pending'[<<d, k>>] = pending[<<d, k>>] /\ answer'[<<d, k>>] = answer[<<d, k>>]
        BY <2>2, OwnChannels
      <3>3. "save" \in Kinds /\ "retry" \in Kinds
        BY DEF Kinds
      <3>4. TabInv(d)
        BY DEF IInv
      <3>5. OwnSavesAreShown(d) => OwnSavesAreShown(d)'
        BY <3>1, <3>2, <3>3 DEF OwnSavesAreShown, Version
      <3>6. NewIsSilent(d) => NewIsSilent(d)'
        BY <3>1, <3>2 DEF NewIsSilent
      <3>7. QED BY <3>1, <3>4, <3>5, <3>6 DEF TabInv, Open
    <2>3. QED BY <2>1, <2>2
  <1>4. QED BY <1>2, <1>3 DEF IInv

\* A step of one tab in use that talks to nobody but the room.
LEMMA QuietChange ==
  ASSUME IInv, NEW e \in Editors, NEW t \in Tab, Open(e), ServerUnchanged,
         tab' = [tab EXCEPT ![e] = t], net' \in [Editors -> SUBSET Scene],
         t.phase = "open", InUse(t, log), ReadsExist(t, log), Covers(t.scene, tab[e].scene)
  PROVE  IInv'
  <1>1. log' = log /\ pending' = pending /\ answer' = answer
    BY DEF ServerUnchanged
  <1>2. t.scene \in Scene
    BY DEF Tab
  <1>3. TabInv(e) /\ tab'[e] = t
    BY DEF IInv, TypeOK
  <1>4. ASSUME NEW k \in {"save", "retry"}
        PROVE  /\ pending[<<e, k>>] # None => Covers(t.scene, pending[<<e, k>>].body)
               /\ answer[<<e, k>>] # None =>
                    /\ answer[<<e, k>>] \in 1..Version
                    /\ Covers(t.scene, log[answer[<<e, k>>]])
    <2>1. <<e, k>> \in Channels
      BY OwnChannels DEF Kinds
    <2>2. OwnSavesAreShown(e)
      BY <1>3 DEF TabInv
    <2>3. QED BY <1>2, <2>1, <2>2, Types, CoversTransitive DEF OwnSavesAreShown
  <1>5. OwnSavesAreShown(e)'
    BY <1>1, <1>3, <1>4 DEF OwnSavesAreShown, Version
  <1>6. SavesNameVersions' /\ MergedSavesKeepRivals'
    BY <1>1 DEF IInv, SavesNameVersions, MergedSavesKeepRivals, Version
  <1>7. QED BY <1>1, <1>5, <1>6, TabChange DEF IInv, TypeOK

\* Captures stay covered while the scene only grows.
LEMMA InUseGrows ==
  ASSUME IInv, NEW t \in Tab, NEW u \in Tab, InUse(t, log), Covers(u.scene, t.scene),
         u.base = t.base, u.timer = t.timer, u.queue = t.queue
  PROVE  InUse(u, log)
  <1>1. t.scene \in Scene /\ u.scene \in Scene /\ t.queue \in Seq(Scene)
        /\ t.timer \in Scene \cup {None}
    BY DEF Tab
  <1>2. log[t.base] \in Scene
    BY Types DEF InUse, Version
  <1>3. Covers(u.scene, log[u.base])
    BY <1>1, <1>2, CoversTransitive DEF InUse
  <1>4. u.timer # None => Covers(u.scene, u.timer)
    BY <1>1, CoversTransitive DEF InUse
  <1>5. ASSUME NEW i \in 1..Len(u.queue) PROVE Covers(u.scene, u.queue[i])
    BY <1>1, CoversTransitive DEF InUse
  <1>6. QED BY <1>3, <1>4, <1>5 DEF InUse

\* A tab that merged a version is in use under that version.
LEMMA MergedInUse ==
  ASSUME IInv, NEW t \in Tab, NEW u \in Tab, InUse(t, log), NEW v \in 1..Len(log),
         u.base = v, Covers(u.scene, t.scene), Covers(u.scene, log[v]),
         u.timer = t.timer, u.queue = t.queue
  PROVE  InUse(u, log)
  <1>1. t.scene \in Scene /\ u.scene \in Scene /\ t.queue \in Seq(Scene)
        /\ t.timer \in Scene \cup {None}
    BY DEF Tab
  <1>2. u.timer # None => Covers(u.scene, u.timer)
    BY <1>1, CoversTransitive DEF InUse
  <1>3. ASSUME NEW i \in 1..Len(u.queue) PROVE Covers(u.scene, u.queue[i])
    BY <1>1, CoversTransitive DEF InUse
  <1>4. QED BY <1>2, <1>3 DEF InUse

\* A tab in use and its parts.
LEMMA OpenTab ==
  ASSUME IInv, NEW e \in Editors, Open(e)
  PROVE  /\ tab[e] \in Tab /\ tab[e].phase = "open"
         /\ InUse(tab[e], log) /\ ReadsExist(tab[e], log) /\ OwnSavesAreShown(e)
  BY Types DEF IInv, TabInv, Open

-----------------------------------------------------------------------------
(* The steps a tab takes on its own. *)

\* An edited scene is a scene that covers the one before.
LEMMA EditedScene ==
  ASSUME NEW s \in Scene, NEW x \in Elements, NEW stamp \in Stamps, NEW e \in Editors
  PROVE  LET scene == [s EXCEPT ![x] = [version |-> s[x].version + 1, updated |-> stamp,
                                        nonce |-> e]]
         IN  scene \in Scene /\ Covers(scene, s)
  <1> DEFINE rev   == [version |-> s[x].version + 1, updated |-> stamp, nonce |-> e]
             scene == [s EXCEPT ![x] = rev]
  <1>1. \A y \in Elements : s[y].version \in Nat
    BY DEF Scene, Revision
  <1>2. rev \in Revision
    BY <1>1, ConstantsAssumption DEF Revision
  <1>3. scene \in Scene
    BY <1>2 DEF Scene
  <1>4. ASSUME NEW y \in Elements PROVE scene[y].version >= s[y].version
    <2>1. CASE y = x BY <1>1, <2>1 DEF Scene
    <2>2. CASE y # x BY <1>1, <2>2 DEF Scene
    <2>3. QED BY <2>1, <2>2
  <1>5. QED BY <1>3, <1>4 DEF Covers

\* Editing keeps the invariant.
LEMMA EditStep ==
  ASSUME IInv, NEW e \in Editors, NEW x \in Elements, NEW stamp \in Stamps, Edit(e, x, stamp)
  PROVE  IInv'
  <1> DEFINE scene == [tab[e].scene EXCEPT ![x] =
                         [version |-> tab[e].scene[x].version + 1, updated |-> stamp,
                          nonce |-> e]]
             t     == [tab[e] EXCEPT !.scene = scene]
  <1>1. tab[e] \in Tab /\ tab[e].scene \in Scene /\ Open(e) /\ InUse(tab[e], log)
        /\ ReadsExist(tab[e], log)
    BY OpenTab, Types DEF Edit
  <1>2. scene \in Scene /\ Covers(scene, tab[e].scene)
    BY <1>1, EditedScene
  <1>3. tab' = [tab EXCEPT ![e] = t]
    BY <1>1 DEF Edit, IInv, TypeOK, Tab
  <1> HIDE DEF scene
  <1>4. t \in Tab /\ t.phase = "open" /\ t.scene = scene /\ t.base = tab[e].base
        /\ t.timer = tab[e].timer /\ t.queue = tab[e].queue
        /\ t.save = tab[e].save /\ t.recover = tab[e].recover
    BY <1>1, <1>2 DEF Tab, Open
  <1> HIDE DEF t
  <1>5. InUse(t, log)
    BY <1>1, <1>2, <1>4, InUseGrows
  <1>6. ReadsExist(t, log)
    BY <1>1, <1>4 DEF ReadsExist
  <1>7. ServerUnchanged /\ net' \in [Editors -> SUBSET Scene]
    BY DEF Edit, IInv, TypeOK
  <1>8. QED BY <1>1, <1>2, <1>3, <1>4, <1>5, <1>6, <1>7, QuietChange

\* Patching a scene with another gives a scene.
LEMMA PatchType ==
  ASSUME NEW s \in Scene, NEW r \in Scene, NEW xs
  PROVE  Patch(s, r, xs) \in Scene
  BY DEF Patch, Scene

\* Broadcasting keeps the invariant.
LEMMA BroadcastStep ==
  ASSUME IInv, NEW e \in Editors, NEW reached, BroadcastChanges(e, reached)
  PROVE  IInv'
  <1> DEFINE changes == HasChanged(tab[e])
             update  == Patch(EmptyScene, tab[e].scene, changes)
             sent    == Patch(tab[e].sent, tab[e].scene, changes)
             t       == [tab[e] EXCEPT !.timer = tab[e].scene, !.sent = sent]
  <1>1. tab[e] \in Tab /\ tab[e].scene \in Scene /\ tab[e].sent \in Scene /\ Open(e)
        /\ InUse(tab[e], log) /\ ReadsExist(tab[e], log)
    BY OpenTab DEF BroadcastChanges, Tab
  <1>2. update \in Scene /\ sent \in Scene
    BY <1>1, PatchType, EmptySceneType
  <1>3. t \in Tab /\ t.phase = "open" /\ t.scene = tab[e].scene /\ t.base = tab[e].base
        /\ t.timer = tab[e].scene /\ t.queue = tab[e].queue
        /\ t.save = tab[e].save /\ t.recover = tab[e].recover
    BY <1>1, <1>2 DEF Tab, Open
  <1>4. tab' = [tab EXCEPT ![e] = t]
    BY <1>1 DEF BroadcastChanges, IInv, TypeOK, Tab
  <1>5. Covers(t.scene, tab[e].scene)
    BY <1>1, <1>3, CoversReflexive
  <1>6. InUse(t, log) /\ ReadsExist(t, log)
    BY <1>1, <1>3, <1>5 DEF InUse, ReadsExist
  <1>7. net' \in [Editors -> SUBSET Scene]
    BY <1>2 DEF BroadcastChanges, IInv, TypeOK
  <1>8. ServerUnchanged
    BY DEF BroadcastChanges
  <1>9. QED BY <1>1, <1>3, <1>4, <1>5, <1>6, <1>7, <1>8, QuietChange

\* What a frame of updates brings is a scene.
LEMMA LastArrivedType ==
  ASSUME IInv, NEW e \in Editors, NEW arrived \in SUBSET net[e], NEW inbox \in LastArrived(arrived)
  PROVE  inbox \in Scene
  <1>1. arrived \subseteq Scene
    BY DEF IInv, TypeOK
  <1>2. Absent \in Revision /\ \A m \in arrived, x \in Elements : m[x] \in Revision
    BY <1>1 DEF Absent, Revision, Scene
  <1>3. {Absent} \cup {m[x] : m \in arrived, x \in Elements} \subseteq Revision
    BY <1>2
  <1>4. inbox \in [Elements -> {Absent} \cup {m[x] : m \in arrived, x \in Elements}]
    BY DEF LastArrived
  <1>5. QED BY <1>3, <1>4 DEF Scene

\* A frame of updates keeps the invariant, whichever of them arrived last.
LEMMA FlushStep ==
  ASSUME IInv, NEW e \in Editors, NEW arrived \in SUBSET net[e], FlushRemoteUpdates(e, arrived)
  PROVE  IInv'
  <1>1. PICK inbox \in LastArrived(arrived) :
          tab' = [tab EXCEPT ![e].scene = ReconcileElements(@, inbox),
                             ![e].sent = Patch(@, inbox, Present(inbox))]
    BY DEF FlushRemoteUpdates
  <1> DEFINE scene == ReconcileElements(tab[e].scene, inbox)
             sent  == Patch(tab[e].sent, inbox, Present(inbox))
             t     == [tab[e] EXCEPT !.scene = scene, !.sent = sent]
  <1>2. tab[e] \in Tab /\ tab[e].scene \in Scene /\ tab[e].sent \in Scene /\ Open(e)
        /\ InUse(tab[e], log) /\ ReadsExist(tab[e], log)
    BY OpenTab DEF FlushRemoteUpdates, Tab
  <1>3. inbox \in Scene
    BY LastArrivedType
  <1>4. scene \in Scene /\ Covers(scene, tab[e].scene) /\ sent \in Scene
    BY <1>2, <1>3, ReconcileCovers, PatchType
  <1>5. t \in Tab /\ t.phase = "open" /\ t.scene = scene /\ t.base = tab[e].base
        /\ t.timer = tab[e].timer /\ t.queue = tab[e].queue
        /\ t.save = tab[e].save /\ t.recover = tab[e].recover
    BY <1>2, <1>4 DEF Tab, Open
  <1>6. tab' = [tab EXCEPT ![e] = t]
    BY <1>1, <1>2 DEF IInv, TypeOK, Tab
  <1> HIDE DEF t, scene, sent
  <1>7. InUse(t, log) /\ ReadsExist(t, log)
    <2>1. InUse(t, log) BY <1>2, <1>4, <1>5, InUseGrows
    <2>2. ReadsExist(t, log) BY <1>2, <1>5 DEF ReadsExist
    <2>3. QED BY <2>1, <2>2
  <1>8. ServerUnchanged /\ net' \in [Editors -> SUBSET Scene]
    BY DEF FlushRemoteUpdates, IInv, TypeOK
  <1>9. QED BY <1>2, <1>4, <1>5, <1>6, <1>7, <1>8, QuietChange

\* Queuing a scene the tab still shows keeps the captures covered.
LEMMA QueueGrows ==
  ASSUME IInv, NEW t \in Tab, NEW u \in Tab, NEW s \in Scene, InUse(t, log),
         Covers(t.scene, s), u.scene = t.scene, u.base = t.base,
         u.timer \in {t.timer, None}, u.queue = Append(t.queue, s)
  PROVE  InUse(u, log)
  <1>1. t.queue \in Seq(Scene)
    BY DEF Tab
  <1>2. ASSUME NEW i \in 1..Len(u.queue) PROVE Covers(u.scene, u.queue[i])
    <2>1. CASE i = Len(t.queue) + 1 BY <1>1, <2>1
    <2>2. CASE i \in 1..Len(t.queue) BY <1>1, <2>2 DEF InUse
    <2>3. QED BY <1>1, <2>1, <2>2
  <1>3. QED BY <1>2 DEF InUse

\* The debounce firing keeps the invariant.
LEMMA DebounceStep ==
  ASSUME IInv, NEW e \in Editors, DebounceFires(e)
  PROVE  IInv'
  <1> DEFINE q == Append(tab[e].queue, tab[e].timer)
             t == [tab[e] EXCEPT !.timer = None, !.queue = q]
  <1>1. tab[e] \in Tab /\ tab[e].scene \in Scene /\ Open(e) /\ InUse(tab[e], log)
        /\ ReadsExist(tab[e], log) /\ tab[e].timer \in Scene /\ tab[e].queue \in Seq(Scene)
        /\ Covers(tab[e].scene, tab[e].timer)
    BY OpenTab DEF DebounceFires, Tab, InUse
  <1>2. t \in Tab /\ t.phase = "open" /\ t.scene = tab[e].scene /\ t.base = tab[e].base
        /\ t.timer = None /\ t.queue = q
        /\ t.save = tab[e].save /\ t.recover = tab[e].recover
    <2>1. q \in Seq(Scene) BY <1>1
    <2> HIDE DEF q
    <2>2. QED BY <1>1, <2>1 DEF Tab, Open
  <1>3. tab' = [tab EXCEPT ![e] = t]
    BY <1>1 DEF DebounceFires, IInv, TypeOK, Tab
  <1>4. ServerUnchanged /\ net' \in [Editors -> SUBSET Scene]
    BY DEF DebounceFires, IInv, TypeOK
  <1> HIDE DEF t
  <1>5. InUse(t, log)
    BY <1>1, <1>2, QueueGrows
  <1>6. ReadsExist(t, log) /\ Covers(t.scene, tab[e].scene)
    BY <1>1, <1>2, CoversReflexive DEF ReadsExist
  <1>7. QED BY <1>1, <1>2, <1>3, <1>4, <1>5, <1>6, QuietChange

\* Images that were added keep the invariant.
LEMMA FilesStep ==
  ASSUME IInv, NEW e \in Editors, FilesChange(e)
  PROVE  IInv'
  <1> DEFINE n == tab[e].presses + 1
             t == [tab[e] EXCEPT !.timer = tab[e].scene, !.presses = n]
  <1>1. tab[e] \in Tab /\ tab[e].scene \in Scene /\ Open(e) /\ InUse(tab[e], log)
        /\ ReadsExist(tab[e], log) /\ tab[e].presses \in Nat
    BY OpenTab DEF FilesChange, Tab
  <1>2. t \in Tab /\ t.phase = "open" /\ t.scene = tab[e].scene /\ t.base = tab[e].base
        /\ t.timer = tab[e].scene /\ t.queue = tab[e].queue
        /\ t.save = tab[e].save /\ t.recover = tab[e].recover
    <2>1. n \in Nat BY <1>1
    <2> HIDE DEF n
    <2>2. QED BY <1>1, <2>1 DEF Tab, Open
  <1>3. tab' = [tab EXCEPT ![e] = t]
    BY <1>1 DEF FilesChange, IInv, TypeOK, Tab
  <1>4. ServerUnchanged /\ net' \in [Editors -> SUBSET Scene]
    BY DEF FilesChange, IInv, TypeOK
  <1>5. Covers(t.scene, tab[e].scene)
    BY <1>1, <1>2, CoversReflexive
  <1>6. InUse(t, log) /\ ReadsExist(t, log)
    BY <1>1, <1>2, <1>5 DEF InUse, ReadsExist
  <1>7. QED BY <1>1, <1>2, <1>3, <1>4, <1>5, <1>6, QuietChange

\* Asking for a save keeps the invariant.
LEMMA QueueCanvasStep ==
  ASSUME IInv, NEW e \in Editors, QueueCanvas(e)
  PROVE  IInv'
  <1> DEFINE q == Append(tab[e].queue, tab[e].scene)
             n == tab[e].presses + 1
             t == [tab[e] EXCEPT !.queue = q, !.presses = n]
  <1>1. tab[e] \in Tab /\ tab[e].scene \in Scene /\ Open(e) /\ InUse(tab[e], log)
        /\ ReadsExist(tab[e], log) /\ tab[e].queue \in Seq(Scene) /\ tab[e].presses \in Nat
        /\ Covers(tab[e].scene, tab[e].scene)
    BY OpenTab, CoversReflexive DEF QueueCanvas, Tab
  <1>2. t \in Tab /\ t.phase = "open" /\ t.scene = tab[e].scene /\ t.base = tab[e].base
        /\ t.timer = tab[e].timer /\ t.queue = q
        /\ t.save = tab[e].save /\ t.recover = tab[e].recover
    <2>1. q \in Seq(Scene) /\ n \in Nat BY <1>1
    <2> HIDE DEF q, n
    <2>2. QED BY <1>1, <2>1 DEF Tab, Open
  <1>3. tab' = [tab EXCEPT ![e] = t]
    BY <1>1 DEF QueueCanvas, IInv, TypeOK, Tab
  <1>4. ServerUnchanged /\ net' \in [Editors -> SUBSET Scene]
    BY DEF QueueCanvas, IInv, TypeOK
  <1> HIDE DEF t
  <1>5. InUse(t, log)
    BY <1>1, <1>2, QueueGrows
  <1>6. ReadsExist(t, log) /\ Covers(t.scene, tab[e].scene)
    BY <1>1, <1>2 DEF ReadsExist
  <1>7. QED BY <1>1, <1>2, <1>3, <1>4, <1>5, <1>6, QuietChange

\* Reading the server's version and scene keeps the invariant.
LEMMA RecoverReadStep ==
  ASSUME IInv, NEW e \in Editors, RecoverRead(e)
  PROVE  IInv'
  <1> DEFINE t == [tab[e] EXCEPT !.recover = [pc |-> "read", at |-> Version]]
  <1>1. tab[e] \in Tab /\ tab[e].scene \in Scene /\ Open(e) /\ InUse(tab[e], log)
        /\ ReadsExist(tab[e], log) /\ Version \in Nat
    BY OpenTab, Types DEF RecoverRead
  <1>2. t \in Tab /\ t.phase = "open" /\ t.scene = tab[e].scene /\ t.base = tab[e].base
        /\ t.timer = tab[e].timer /\ t.queue = tab[e].queue
        /\ t.save = tab[e].save /\ t.recover.at = Version
    BY <1>1 DEF Tab, Open
  <1>3. tab' = [tab EXCEPT ![e] = t]
    BY <1>1 DEF RecoverRead, IInv, TypeOK, Tab
  <1>4. ServerUnchanged /\ net' \in [Editors -> SUBSET Scene]
    BY DEF RecoverRead, IInv, TypeOK
  <1> HIDE DEF t
  <1>5. InUse(t, log) /\ Covers(t.scene, tab[e].scene)
    BY <1>1, <1>2, CoversReflexive DEF InUse
  <1>6. Version \in 1..Len(log)
    BY <1>1 DEF InUse, Version
  <1>7. ReadsExist(t, log)
    BY <1>1, <1>2, <1>6 DEF ReadsExist
  <1>8. QED BY <1>1, <1>2, <1>3, <1>4, <1>5, <1>7, QuietChange

\* Merging what a recovery read keeps the invariant, whatever went on since.
LEMMA RecoverApplyStep ==
  ASSUME IInv, NEW e \in Editors, RecoverApply(e)
  PROVE  IInv'
  <1> DEFINE v == tab[e].recover.at
             m == Merged(tab[e], v)
             t == [m EXCEPT !.recover = [pc |-> "idle", at |-> 0]]
  <1>1. tab[e] \in Tab /\ tab[e].scene \in Scene /\ Open(e) /\ InUse(tab[e], log)
        /\ ReadsExist(tab[e], log) /\ v \in 1..Len(log) /\ v \in Nat
    BY OpenTab, Types DEF RecoverApply, ReadsExist
  <1>2. log[v] \in Scene
    BY <1>1, Types DEF Version
  <1>3. tab' = [tab EXCEPT ![e] = t]
    BY DEF RecoverApply
  <1>4. ServerUnchanged /\ net' \in [Editors -> SUBSET Scene]
    BY DEF RecoverApply, IInv, TypeOK
  <1> HIDE DEF m, v
  <1>5. /\ m \in Tab /\ m.scene \in Scene /\ m.base = v
        /\ Covers(m.scene, tab[e].scene) /\ Covers(m.scene, log[v])
        /\ m.phase = tab[e].phase /\ m.timer = tab[e].timer /\ m.queue = tab[e].queue
        /\ m.save = tab[e].save
    BY <1>1, <1>2, MergedTab DEF m
  <1>6. t \in Tab /\ t.phase = "open" /\ t.scene = m.scene /\ t.base = v
        /\ t.timer = tab[e].timer /\ t.queue = tab[e].queue
        /\ t.save = tab[e].save /\ t.recover.pc = "idle"
    BY <1>1, <1>5 DEF Tab, Open
  <1> HIDE DEF t
  <1>7. InUse(t, log)
    BY <1>1, <1>2, <1>5, <1>6, MergedInUse
  <1>8. ReadsExist(t, log)
    BY <1>1, <1>6 DEF ReadsExist
  <1>9. QED BY <1>1, <1>3, <1>4, <1>5, <1>6, <1>7, <1>8, QuietChange

\* A failed recovery keeps the invariant.
LEMMA RecoverFailsStep ==
  ASSUME IInv, NEW e \in Editors, RecoverFails(e)
  PROVE  IInv'
  <1> DEFINE t == [tab[e] EXCEPT !.recover = [pc |-> "idle", at |-> 0]]
  <1>1. tab[e] \in Tab /\ tab[e].scene \in Scene /\ Open(e) /\ InUse(tab[e], log)
        /\ ReadsExist(tab[e], log)
    BY OpenTab, Types DEF RecoverFails
  <1>2. t \in Tab /\ t.phase = "open" /\ t.scene = tab[e].scene /\ t.base = tab[e].base
        /\ t.timer = tab[e].timer /\ t.queue = tab[e].queue
        /\ t.save = tab[e].save /\ t.recover.pc = "idle"
    BY <1>1 DEF Tab, Open
  <1>3. tab' = [tab EXCEPT ![e] = t]
    BY <1>1 DEF RecoverFails, IInv, TypeOK, Tab
  <1>4. ServerUnchanged /\ net' \in [Editors -> SUBSET Scene]
    BY DEF RecoverFails, IInv, TypeOK
  <1> HIDE DEF t
  <1>5. InUse(t, log) /\ Covers(t.scene, tab[e].scene) /\ ReadsExist(t, log)
    BY <1>1, <1>2, CoversReflexive DEF InUse, ReadsExist
  <1>6. QED BY <1>1, <1>2, <1>3, <1>4, <1>5, QuietChange

-----------------------------------------------------------------------------
(* The steps of a save. *)

\* The queue moves on: the captures that are left stay covered.
LEMMA NextTab ==
  ASSUME IInv, NEW t \in Tab, InUse(t, log), ReadsExist(t, log), t.save.pc # "idle"
  PROVE  /\ NextInQueue(t) \in Tab
         /\ NextInQueue(t).scene = t.scene /\ NextInQueue(t).base = t.base
         /\ NextInQueue(t).phase = t.phase
         /\ InUse(NextInQueue(t), log) /\ ReadsExist(NextInQueue(t), log)
  <1> DEFINE q == Tail(t.queue)
             u == NextInQueue(t)
  <1>1. t.queue \in Seq(Scene) /\ t.queue # <<>>
    BY DEF Tab, ReadsExist
  <1>2. q \in Seq(Scene) /\ Len(q) = Len(t.queue) - 1
        /\ \A i \in 1..Len(q) : q[i] = t.queue[i + 1] /\ i + 1 \in 1..Len(t.queue)
    BY <1>1
  <1>3. u = [t EXCEPT !.queue = q, !.save = [pc |-> "idle", at |-> 0]]
    BY DEF NextInQueue
  <1> HIDE DEF q, u
  <1>4. u \in Tab /\ u.scene = t.scene /\ u.base = t.base /\ u.phase = t.phase
        /\ u.timer = t.timer /\ u.queue = q /\ u.save.pc = "idle" /\ u.recover = t.recover
    BY <1>2, <1>3 DEF Tab
  <1>5. InUse(u, log)
    BY <1>2, <1>4 DEF InUse
  <1>6. ReadsExist(u, log)
    BY <1>4 DEF ReadsExist
  <1>7. QED BY <1>4, <1>5, <1>6 DEF u

\* A step of one tab that takes messages of its own away and shows what it
\* showed.
LEMMA ReplyChange ==
  ASSUME IInv, NEW e \in Editors, NEW t \in Tab, Open(e), tab' = [tab EXCEPT ![e] = t],
         log' = log, net' = net, t.phase = "open", t.scene = tab[e].scene,
         InUse(t, log), ReadsExist(t, log),
         NEW k \in Kinds, NEW j \in Kinds,
         pending' = pending \/ pending' = [pending EXCEPT ![<<e, k>>] = None],
         answer' = answer \/ answer' = [answer EXCEPT ![<<e, j>>] = None]
  PROVE  IInv'
  <1>1. /\ pending' \in [Channels -> {None} \cup [seen : Nat, body : Scene]]
        /\ answer' \in [Channels -> Nat \cup {None}]
        /\ net' \in [Editors -> SUBSET Scene]
    BY OwnChannels DEF IInv, TypeOK
  <1>2. \A c \in Channels : pending'[c] \in {pending[c], None} /\ answer'[c] \in {answer[c], None}
    BY OwnChannels DEF IInv, TypeOK
  <1>3. \A c \in Channels : c[1] # e => pending'[c] = pending[c] /\ answer'[c] = answer[c]
    BY OwnChannels DEF IInv, TypeOK
  <1>4. SavesNameVersions' /\ MergedSavesKeepRivals'
    BY <1>2 DEF IInv, SavesNameVersions, MergedSavesKeepRivals, Version
  <1>5. OwnSavesAreShown(e)'
    <2>1. tab'[e].scene = tab[e].scene
      BY DEF IInv, TypeOK
    <2>2. <<e, "save">> \in Channels /\ <<e, "retry">> \in Channels
      BY OwnChannels DEF Kinds
    <2>3. OwnSavesAreShown(e)
      BY OpenTab
    <2>4. QED BY <1>2, <2>1, <2>2, <2>3 DEF OwnSavesAreShown, Version
  <1>6. QED BY <1>1, <1>3, <1>4, <1>5, TabChange

\* What an answer brings is a version the tab shows.
LEMMA SaveDoneStep ==
  ASSUME IInv, NEW e \in Editors, SaveDone(e)
  PROVE  IInv'
  <1> DEFINE j == IF tab[e].save.pc = "first" THEN "save" ELSE "retry"
             v == answer[<<e, j>>]
             n == NextInQueue(tab[e])
             t == [n EXCEPT !.base = v, !.saved = log[v]]
  <1>1. tab[e] \in Tab /\ Open(e) /\ InUse(tab[e], log) /\ ReadsExist(tab[e], log)
        /\ OwnSavesAreShown(e) /\ tab[e].save.pc # "idle"
    BY OpenTab DEF SaveDone, Waits
  <1>2. j \in {"save", "retry"} /\ j \in Kinds /\ SavingOn(e) = <<e, j>>
    BY DEF Kinds, SavingOn
  <1> HIDE DEF j
  <1>3. /\ v # None
        /\ tab' = [tab EXCEPT ![e] = [NextInQueue(@) EXCEPT !.base = v, !.saved = log[v]]]
        /\ answer' = [answer EXCEPT ![<<e, j>>] = None]
        /\ log' = log /\ pending' = pending /\ net' = net
    BY <1>2 DEF SaveDone, AnswerRead
  <1>4. v \in 1..Len(log) /\ Covers(tab[e].scene, log[v])
    BY <1>1, <1>2, <1>3 DEF OwnSavesAreShown, Version
  <1>5. log[v] \in Scene /\ v \in Nat
    BY <1>4, Types DEF Version
  <1>6. tab' = [tab EXCEPT ![e] = t]
    BY <1>3
  <1> HIDE DEF v, n
  <1>7. n \in Tab /\ n.scene = tab[e].scene /\ n.phase = "open"
        /\ InUse(n, log) /\ ReadsExist(n, log)
    BY <1>1, NextTab DEF n, Open
  <1>8. t \in Tab /\ t.phase = "open" /\ t.scene = tab[e].scene /\ t.base = v
        /\ t.timer = n.timer /\ t.queue = n.queue /\ t.save = n.save /\ t.recover = n.recover
    BY <1>5, <1>7 DEF Tab
  <1> HIDE DEF t
  <1>9. InUse(t, log) /\ ReadsExist(t, log)
    BY <1>4, <1>7, <1>8 DEF InUse, ReadsExist
  <1>10. QED BY <1>1, <1>2, <1>3, <1>6, <1>8, <1>9, ReplyChange

\* A conflict, with the server's scene read, keeps the invariant.
LEMMA SaveConflictsStep ==
  ASSUME IInv, NEW e \in Editors, SaveConflicts(e)
  PROVE  IInv'
  <1> DEFINE t == [tab[e] EXCEPT !.save = [pc |-> "reconcile", at |-> Version]]
  <1>1. tab[e] \in Tab /\ Open(e) /\ InUse(tab[e], log) /\ ReadsExist(tab[e], log)
        /\ tab[e].save.pc = "first" /\ Version \in Nat
    BY OpenTab, Types DEF SaveConflicts
  <1>2. t \in Tab /\ t.phase = "open" /\ t.scene = tab[e].scene /\ t.base = tab[e].base
        /\ t.timer = tab[e].timer /\ t.queue = tab[e].queue
        /\ t.save.at = Version /\ t.recover = tab[e].recover
    BY <1>1 DEF Tab, Open
  <1>3. tab' = [tab EXCEPT ![e] = t]
    BY <1>1 DEF SaveConflicts, IInv, TypeOK, Tab
  <1>4. log' = log /\ net' = net /\ answer' = answer
        /\ pending' = [pending EXCEPT ![<<e, "save">>] = None]
    BY DEF SaveConflicts, Register!Reject
  <1> HIDE DEF t
  <1>5. InUse(t, log)
    BY <1>1, <1>2 DEF InUse
  <1>6. Version \in 1..Len(log)
    BY <1>1 DEF InUse, Version
  <1>7. ReadsExist(t, log)
    BY <1>1, <1>2, <1>6 DEF ReadsExist
  <1>8. "save" \in Kinds
    BY DEF Kinds
  <1>9. QED BY <1>1, <1>2, <1>3, <1>4, <1>5, <1>7, <1>8, ReplyChange

\* Giving a save up, after a second conflict, keeps the invariant.
LEMMA SaveGivesUpStep ==
  ASSUME IInv, NEW e \in Editors, SaveGivesUp(e)
  PROVE  IInv'
  <1> DEFINE t == NextInQueue(tab[e])
  <1>1. tab[e] \in Tab /\ Open(e) /\ InUse(tab[e], log) /\ ReadsExist(tab[e], log)
        /\ tab[e].save.pc # "idle"
    BY OpenTab DEF SaveGivesUp
  <1>2. tab' = [tab EXCEPT ![e] = t]
    BY DEF SaveGivesUp
  <1>3. log' = log /\ net' = net /\ answer' = answer
        /\ pending' = [pending EXCEPT ![<<e, "retry">>] = None]
    BY DEF SaveGivesUp, Register!Reject
  <1> HIDE DEF t
  <1>4. t \in Tab /\ t.scene = tab[e].scene /\ t.phase = "open"
        /\ InUse(t, log) /\ ReadsExist(t, log)
    BY <1>1, NextTab DEF t, Open
  <1>5. "retry" \in Kinds
    BY DEF Kinds
  <1>6. QED BY <1>1, <1>2, <1>3, <1>4, <1>5, ReplyChange

\* A save that fails keeps the invariant.
LEMMA SaveFailsStep ==
  ASSUME IInv, NEW e \in Editors, SaveFails(e)
  PROVE  IInv'
  <1> DEFINE t == NextInQueue(tab[e])
             j == IF tab[e].save.pc = "first" THEN "save" ELSE "retry"
  <1>1. tab[e] \in Tab /\ Open(e) /\ InUse(tab[e], log) /\ ReadsExist(tab[e], log)
        /\ tab[e].save.pc # "idle"
    BY OpenTab DEF SaveFails
  <1>2. tab' = [tab EXCEPT ![e] = t]
    BY DEF SaveFails
  <1>3. j \in Kinds /\ SavingOn(e) = <<e, j>>
    BY DEF Kinds, SavingOn
  <1> HIDE DEF t, j
  <1>4. log' = log /\ net' = net /\ answer' = [answer EXCEPT ![<<e, j>>] = None]
        /\ pending' = [pending EXCEPT ![<<e, j>>] = None]
    BY <1>3 DEF SaveFails, AnswerRead
  <1>5. t \in Tab /\ t.scene = tab[e].scene /\ t.phase = "open"
        /\ InUse(t, log) /\ ReadsExist(t, log)
    BY <1>1, NextTab DEF t, Open
  <1>6. QED BY <1>1, <1>2, <1>3, <1>4, <1>5, ReplyChange

\* A step of one tab that sends a scene it shows, under a version it merged
\* unless it is a first attempt.
LEMMA RequestChange ==
  ASSUME IInv, NEW e \in Editors, NEW t \in Tab, Open(e), tab' = [tab EXCEPT ![e] = t],
         log' = log, net' = net, answer' = answer, t.phase = "open",
         Covers(t.scene, tab[e].scene), InUse(t, log), ReadsExist(t, log),
         NEW k \in {"save", "retry"}, NEW v \in 1..Version, NEW s \in Scene,
         pending' = [pending EXCEPT ![<<e, k>>] = [seen |-> v, body |-> s]],
         Covers(t.scene, s), k = "retry" => Covers(s, log[v])
  PROVE  IInv'
  <1>1. /\ pending' \in [Channels -> {None} \cup [seen : Nat, body : Scene]]
        /\ answer' \in [Channels -> Nat \cup {None}]
        /\ net' \in [Editors -> SUBSET Scene]
    <2>1. [seen |-> v, body |-> s] \in [seen : Nat, body : Scene]
      BY Types
    <2>2. QED BY <2>1 DEF IInv, TypeOK
  <1>2. \A c \in Channels : c # <<e, k>> => pending'[c] = pending[c]
    BY DEF IInv, TypeOK
  <1>3. <<e, k>> \in Channels /\ pending'[<<e, k>>] = [seen |-> v, body |-> s]
    BY OwnChannels DEF IInv, TypeOK, Kinds
  <1>4. \A c \in Channels : c[1] # e => pending'[c] = pending[c] /\ answer'[c] = answer[c]
    BY <1>2
  <1>5. SavesNameVersions' /\ MergedSavesKeepRivals'
    BY <1>2, <1>3 DEF IInv, SavesNameVersions, MergedSavesKeepRivals, Version
  <1>6. OwnSavesAreShown(e)'
    <2>1. tab'[e] = t /\ t.scene \in Scene /\ tab[e].scene \in Scene
      BY Types DEF IInv, TypeOK, Tab
    <2>2. SUFFICES ASSUME NEW j \in {"save", "retry"}
                   PROVE  /\ pending'[<<e, j>>] # None => Covers(t.scene, pending'[<<e, j>>].body)
                          /\ answer[<<e, j>>] # None =>
                               /\ answer[<<e, j>>] \in 1..Version
                               /\ Covers(t.scene, log[answer[<<e, j>>]])
      BY <2>1 DEF OwnSavesAreShown, Version
    <2>3. <<e, j>> \in Channels
      BY OwnChannels DEF Kinds
    <2>4. OwnSavesAreShown(e)
      BY OpenTab
    <2>5. answer[<<e, j>>] # None =>
            answer[<<e, j>>] \in 1..Version /\ Covers(t.scene, log[answer[<<e, j>>]])
      BY <2>1, <2>3, <2>4, Types, CoversTransitive DEF OwnSavesAreShown
    <2>6. CASE j = k
      BY <1>3, <2>5, <2>6
    <2>7. CASE j # k
      <3>1. pending'[<<e, j>>] = pending[<<e, j>>]
        BY <1>2, <2>3, <2>7
      <3>2. pending[<<e, j>>] # None => Covers(t.scene, pending[<<e, j>>].body)
        BY <2>1, <2>3, <2>4, Types, CoversTransitive DEF OwnSavesAreShown
      <3>3. QED BY <2>5, <3>1, <3>2
    <2>8. QED BY <2>6, <2>7
  <1>7. QED BY <1>1, <1>4, <1>5, <1>6, TabChange

\* A first attempt keeps the invariant: it need not cover what it names.
LEMMA SaveSendStep ==
  ASSUME IInv, NEW e \in Editors, SaveSend(e)
  PROVE  IInv'
  <1> DEFINE save == [tab[e].save EXCEPT !.pc = "first"]
             t == [tab[e] EXCEPT !.save = save]
             s == Head(tab[e].queue)
             v == tab[e].base
  <1>1. tab[e] \in Tab /\ Open(e) /\ InUse(tab[e], log) /\ ReadsExist(tab[e], log)
        /\ tab[e].queue # <<>> /\ tab[e].queue \in Seq(Scene) /\ tab[e].scene \in Scene
    BY OpenTab, Types DEF SaveSend
  <1>2. t \in Tab /\ t.phase = "open" /\ t.scene = tab[e].scene /\ t.base = tab[e].base
        /\ t.timer = tab[e].timer /\ t.queue = tab[e].queue
        /\ t.save.pc = "first" /\ t.recover = tab[e].recover
    BY <1>1 DEF Tab, Open
  <1>3. tab' = [tab EXCEPT ![e] = t]
    BY <1>1 DEF SaveSend, IInv, TypeOK, Tab
  <1>4. log' = log /\ net' = net /\ answer' = answer
        /\ pending' = [pending EXCEPT ![<<e, "save">>] = [seen |-> v, body |-> s]]
    BY DEF SaveSend, Request, Register!Submit
  <1>5. s \in Scene /\ Covers(tab[e].scene, s) /\ v \in 1..Version
    BY <1>1 DEF InUse, Version
  <1> HIDE DEF t, s, v, save
  <1>6. InUse(t, log) /\ ReadsExist(t, log)
    BY <1>1, <1>2 DEF InUse, ReadsExist
  <1>7. Covers(t.scene, tab[e].scene) /\ Covers(t.scene, s)
    BY <1>1, <1>2, <1>5, CoversReflexive
  <1>8. QED BY <1>1, <1>2, <1>3, <1>4, <1>5, <1>6, <1>7, RequestChange

\* The retry after a conflict sends what it merged, and keeps the invariant.
LEMMA SaveRetryStep ==
  ASSUME IInv, NEW e \in Editors, SaveRetry(e)
  PROVE  IInv'
  <1> DEFINE v == tab[e].save.at
             m == Merged(tab[e], v)
             save == [m.save EXCEPT !.pc = "retry"]
             t == [m EXCEPT !.save = save]
  <1>1. tab[e] \in Tab /\ tab[e].scene \in Scene /\ Open(e) /\ InUse(tab[e], log)
        /\ ReadsExist(tab[e], log) /\ v \in 1..Len(log) /\ v \in Nat /\ tab[e].save.pc # "idle"
    BY OpenTab, Types DEF SaveRetry, ReadsExist
  <1>2. log[v] \in Scene
    BY <1>1, Types DEF Version
  <1>3. /\ m \in Tab /\ m.scene \in Scene /\ m.base = v
        /\ Covers(m.scene, tab[e].scene) /\ Covers(m.scene, log[v])
        /\ m.phase = tab[e].phase /\ m.timer = tab[e].timer /\ m.queue = tab[e].queue
        /\ m.save = tab[e].save /\ m.recover = tab[e].recover
    BY <1>1, <1>2, MergedTab
  <1>4. log' = log /\ net' = net /\ answer' = answer
        /\ pending' = [pending EXCEPT ![<<e, "retry">>] = [seen |-> m.base, body |-> m.scene]]
        /\ tab' = [tab EXCEPT ![e] = [m EXCEPT !.save.pc = "retry"]]
    BY DEF SaveRetry, Request, Register!Submit
  <1> HIDE DEF m, v
  <1>5. t = [m EXCEPT !.save.pc = "retry"]
    BY <1>3 DEF Tab
  <1>6. t \in Tab /\ t.phase = "open" /\ t.scene = m.scene /\ t.base = v
        /\ t.timer = tab[e].timer /\ t.queue = tab[e].queue
        /\ t.save.pc = "retry" /\ t.recover = tab[e].recover
    BY <1>1, <1>3 DEF Tab, Open
  <1> HIDE DEF t, save
  <1>7. InUse(t, log)
    BY <1>1, <1>2, <1>3, <1>6, MergedInUse
  <1>8. ReadsExist(t, log)
    BY <1>1, <1>6 DEF ReadsExist
  <1>9. Covers(t.scene, m.scene) /\ v \in 1..Version /\ Covers(t.scene, tab[e].scene)
    BY <1>1, <1>3, <1>6, CoversReflexive DEF Version
  <1>10. pending' = [pending EXCEPT ![<<e, "retry">>] = [seen |-> v, body |-> m.scene]]
         /\ tab' = [tab EXCEPT ![e] = t]
    BY <1>3, <1>4, <1>5
  <1>11. QED BY <1>1, <1>3, <1>4, <1>6, <1>7, <1>8, <1>9, <1>10, RequestChange

-----------------------------------------------------------------------------
(* Opening, leaving and the server. *)

\* A tab that opens is in use under the version it was given.
LEMMA LoadStep ==
  ASSUME IInv, NEW e \in Editors, NEW v \in 1..Version, Load(e, v)
  PROVE  IInv'
  <1> DEFINE t == [tab[e] EXCEPT !.phase = "open", !.base = v, !.scene = log[v],
                                 !.saved = log[v], !.sent = log[v]]
  <1>1. tab[e] \in Tab /\ log[v] \in Scene /\ v \in Nat /\ NewIsSilent(e) /\ tab[e].phase = "new"
    BY Types DEF IInv, TabInv, Load
  <1>2. t \in Tab /\ t.phase = "open" /\ t.scene = log[v] /\ t.base = v
        /\ t.timer = None /\ t.queue = <<>> /\ t.save.pc = "idle" /\ t.recover.pc = "idle"
    BY <1>1 DEF Tab, NewIsSilent
  <1>3. tab' = [tab EXCEPT ![e] = t]
    BY <1>1 DEF Load, IInv, TypeOK, Tab
  <1>4. log' = log /\ pending' = pending /\ answer' = answer /\ net' = net
    BY DEF Load, ServerUnchanged
  <1> HIDE DEF t
  <1>5. InUse(t, log) /\ ReadsExist(t, log)
    BY <1>1, <1>2, CoversReflexive DEF InUse, ReadsExist, Version
  <1>6. OwnSavesAreShown(e)'
    BY <1>1, <1>4 DEF OwnSavesAreShown, NewIsSilent, Kinds
  <1>7. SavesNameVersions' /\ MergedSavesKeepRivals'
    BY <1>4 DEF IInv, SavesNameVersions, MergedSavesKeepRivals, Version
  <1>8. QED BY <1>2, <1>3, <1>4, <1>5, <1>6, <1>7, TabChange DEF IInv, TypeOK

\* A forgotten tab is a tab.
LEMMA IdleType ==
  ASSUME NEW phase \in {"new", "open", "gone"}
  PROVE  Idle(phase) \in Tab /\ Idle(phase).phase = phase
  BY EmptySceneType DEF Idle, Tab

\* A tab that goes away keeps the invariant, its last flush included.
LEMMA GoneStep ==
  ASSUME IInv, NEW e \in Editors, Unload(e) \/ Leave(e)
  PROVE  IInv'
  <1> DEFINE flush == [seen |-> tab[e].base, body |-> tab[e].scene]
  <1>1. tab[e] \in Tab /\ Open(e) /\ InUse(tab[e], log) /\ tab[e].scene \in Scene
        /\ tab[e].base \in 1..Version /\ tab[e].base \in Nat
    BY OpenTab, Types DEF Unload, Leave, InUse, Version
  <1>2. /\ tab' = [tab EXCEPT ![e] = Idle("gone")]
        /\ net' = [net EXCEPT ![e] = {}]
        /\ answer' = [c \in Channels |-> IF c[1] = e THEN None ELSE answer[c]]
        /\ log' = log
        /\ pending' = pending \/ pending' = [pending EXCEPT ![<<e, "flush">>] = flush]
    BY DEF Unload, Leave, Forgotten, Register!Submit
  <1>3. <<e, "flush">> \in Channels
    BY OwnChannels DEF Kinds
  <1>4. flush \in [seen : Nat, body : Scene] /\ flush.seen = tab[e].base /\ flush.body = tab[e].scene
    BY <1>1
  <1> HIDE DEF flush
  <1>5. /\ pending' \in [Channels -> {None} \cup [seen : Nat, body : Scene]]
        /\ answer' \in [Channels -> Nat \cup {None}]
        /\ net' \in [Editors -> SUBSET Scene]
    BY <1>2, <1>4 DEF IInv, TypeOK
  <1>6. \A c \in Channels : pending'[c] = pending[c] \/ (c = <<e, "flush">> /\ pending'[c] = flush)
    <2>1. pending \in [Channels -> {None} \cup [seen : Nat, body : Scene]]
      BY DEF IInv, TypeOK
    <2>2. CASE pending' = pending BY <2>2
    <2>3. CASE pending' = [pending EXCEPT ![<<e, "flush">>] = flush]
      BY <1>3, <2>1, <2>3
    <2>4. QED BY <1>2, <2>2, <2>3
  <1>7. \A c \in Channels : c[1] # e => pending'[c] = pending[c] /\ answer'[c] = answer[c]
    BY <1>2, <1>6
  <1>8. SavesNameVersions'
    BY <1>1, <1>2, <1>4, <1>6 DEF IInv, SavesNameVersions, Version
  <1>9. MergedSavesKeepRivals'
    <2>1. Covers(flush.body, log[flush.seen])
      BY <1>1, <1>4 DEF InUse
    <2>2. QED BY <1>2, <1>6, <2>1 DEF IInv, MergedSavesKeepRivals
  <1>10. Idle("gone") \in Tab /\ Idle("gone").phase = "gone"
    BY IdleType
  <1>11. QED BY <1>2, <1>5, <1>7, <1>8, <1>9, <1>10, TabChange

\* A new version at the server disturbs nothing that is known of the others.
LEMMA ServerAppends ==
  ASSUME IInv, NEW s \in Scene, log' = Append(log, s), tab' = tab, net' = net,
         pending' \in [Channels -> {None} \cup [seen : Nat, body : Scene]],
         \A c \in Channels : pending'[c] \in {pending[c], None},
         answer' \in [Channels -> Nat \cup {None}],
         \A c \in Channels : answer'[c] # answer[c] =>
           /\ tab[c[1]].phase # "new"
           /\ answer'[c] # None => /\ answer'[c] = Version + 1
                                   /\ tab[c[1]].phase = "open" => Covers(tab[c[1]].scene, s)
  PROVE  IInv'
  <1>1. /\ log' \in Seq(Scene) /\ log' # <<>> /\ Len(log') = Len(log) + 1 /\ Len(log) \in Nat
        /\ \A v \in 1..Len(log) : log'[v] = log[v] /\ v \in 1..Len(log')
        /\ log'[Len(log) + 1] = s /\ Len(log) + 1 \in 1..Len(log')
    BY DEF IInv, TypeOK
  <1>2. TypeOK'
    BY <1>1 DEF IInv, TypeOK
  <1>3. SavesNameVersions' /\ MergedSavesKeepRivals'
    BY <1>1 DEF IInv, SavesNameVersions, MergedSavesKeepRivals, Version
  <1>4. ASSUME NEW e \in Editors PROVE TabInv(e)'
    <2>1. TabInv(e)
      BY DEF IInv
    <2>2. Open(e) => InUse(tab[e], log')
      BY <1>1, <2>1 DEF TabInv, InUse
    <2>3. Open(e) => ReadsExist(tab[e], log')
      BY <1>1, <2>1 DEF TabInv, ReadsExist
    <2>4. ASSUME Open(e), NEW k \in {"save", "retry"}
          PROVE  /\ pending'[<<e, k>>] # None => Covers(tab[e].scene, pending'[<<e, k>>].body)
                 /\ answer'[<<e, k>>] # None =>
                      /\ answer'[<<e, k>>] \in 1..Len(log')
                      /\ Covers(tab[e].scene, log'[answer'[<<e, k>>]])
      <3>1. <<e, k>> \in Channels /\ <<e, k>>[1] = e
        BY OwnChannels DEF Kinds
      <3>2. OwnSavesAreShown(e)
        BY <2>1, <2>4 DEF TabInv
      <3>3. pending'[<<e, k>>] # None => Covers(tab[e].scene, pending'[<<e, k>>].body)
        BY <3>1, <3>2 DEF OwnSavesAreShown
      <3>4. CASE answer'[<<e, k>>] = answer[<<e, k>>]
        BY <1>1, <3>2, <3>3, <3>4 DEF OwnSavesAreShown, Version
      <3>5. CASE answer'[<<e, k>>] # answer[<<e, k>>]
        BY <1>1, <2>4, <3>1, <3>3, <3>5 DEF Open, Version
      <3>6. QED BY <3>4, <3>5
    <2>5. Open(e) => OwnSavesAreShown(e)'
      BY <2>4 DEF OwnSavesAreShown, Version
    <2>6. NewIsSilent(e)'
      <3>1. ASSUME NEW k \in Kinds, tab[e].phase = "new"
            PROVE  pending'[<<e, k>>] = None /\ answer'[<<e, k>>] = None
        BY <2>1, <3>1, OwnChannels DEF TabInv, NewIsSilent
      <3>2. QED BY <2>1, <3>1 DEF TabInv, NewIsSilent
    <2>7. QED BY <2>2, <2>3, <2>5, <2>6 DEF TabInv, Open
  <1>5. QED BY <1>2, <1>3, <1>4 DEF IInv

\* A committed save is what its tab shows, and its answer says which version
\* it became.
LEMMA CommitStep ==
  ASSUME IInv, NEW c \in Channels, Commit(c)
  PROVE  IInv'
  <1> DEFINE s == pending[c].body
             reply == IF c[2] = "flush" \/ tab[c[1]].phase = "gone" THEN None ELSE Version + 1
  <1>1. /\ pending[c] # None /\ log' = Append(log, s)
        /\ pending' = [pending EXCEPT ![c] = None]
        /\ answer' = [answer EXCEPT ![c] = reply]
        /\ tab' = tab /\ net' = net
    BY DEF Commit, Register!Commit
  <1>2. s \in Scene /\ Version \in Nat
    BY <1>1, Types
  <1>3. c[1] \in Editors /\ c[2] \in Kinds /\ c = <<c[1], c[2]>>
    BY DEF Channels
  <1>4. tab[c[1]].phase # "new"
    BY <1>1, <1>3 DEF IInv, TabInv, NewIsSilent
  <1>5. reply # None => reply = Version + 1
    OBVIOUS
  <1>6. reply # None /\ tab[c[1]].phase = "open" => Covers(tab[c[1]].scene, s)
    <2>1. SUFFICES ASSUME reply # None, tab[c[1]].phase = "open"
                   PROVE  Covers(tab[c[1]].scene, s)
      OBVIOUS
    <2>2. c[2] \in {"save", "retry"}
      BY <1>3, <2>1 DEF Kinds
    <2>3. OwnSavesAreShown(c[1])
      BY <1>3, <2>1, OpenTab DEF Open
    <2>4. QED BY <1>1, <1>3, <2>2, <2>3 DEF OwnSavesAreShown
  <1>7. reply \in Nat \cup {None}
    BY <1>2
  <1> HIDE DEF reply, s
  <1>8. /\ pending' \in [Channels -> {None} \cup [seen : Nat, body : Scene]]
        /\ answer' \in [Channels -> Nat \cup {None}]
    BY <1>1, <1>7 DEF IInv, TypeOK
  <1>9. \A d \in Channels : pending'[d] \in {pending[d], None}
    BY <1>1 DEF IInv, TypeOK
  <1>10. \A d \in Channels : answer'[d] # answer[d] => d = c /\ answer'[d] = reply
    BY <1>1 DEF IInv, TypeOK
  <1>11. QED BY <1>1, <1>2, <1>4, <1>5, <1>6, <1>8, <1>9, <1>10, ServerAppends

\* Restoring an earlier version keeps the invariant.
LEMMA RestoreStep ==
  ASSUME IInv, NEW v \in 1..Version, Restore(v)
  PROVE  IInv'
  <1>1. /\ log' = Append(log, log[v]) /\ pending' = pending /\ answer' = answer
        /\ tab' = tab /\ net' = net
    BY DEF Restore, Register!Override
  <1>2. log[v] \in Scene
    BY Types
  <1>3. QED BY <1>1, <1>2, ServerAppends DEF IInv, TypeOK

\* A refusal nobody waits for keeps the invariant.
LEMMA RejectStep ==
  ASSUME IInv, NEW c \in Channels, Reject(c)
  PROVE  IInv'
  <1>1. /\ log' = log /\ pending' = [pending EXCEPT ![c] = None] /\ answer' = answer
        /\ tab' = tab /\ net' = net
    BY DEF Reject, Register!Reject
  <1>2. TypeOK'
    BY <1>1 DEF IInv, TypeOK
  <1>3. \A d \in Channels : pending'[d] \in {pending[d], None}
    BY <1>1 DEF IInv, TypeOK
  <1>4. SavesNameVersions' /\ MergedSavesKeepRivals'
    BY <1>1, <1>3 DEF IInv, SavesNameVersions, MergedSavesKeepRivals, Version
  <1>5. ASSUME NEW e \in Editors PROVE TabInv(e)'
    <2>1. \A k \in Kinds : <<e, k>> \in Channels
      BY OwnChannels
    <2>2. TabInv(e)
      BY DEF IInv
    <2>3. OwnSavesAreShown(e) => OwnSavesAreShown(e)'
      BY <1>1, <1>3, <2>1 DEF OwnSavesAreShown, Version, Kinds
    <2>4. NewIsSilent(e) => NewIsSilent(e)'
      BY <1>1, <1>3, <2>1 DEF NewIsSilent
    <2>5. QED BY <1>1, <2>2, <2>3, <2>4 DEF TabInv, Open
  <1>6. QED BY <1>2, <1>4, <1>5 DEF IInv

-----------------------------------------------------------------------------
(* The theorems. *)

\* The empty drawing with no tab open satisfies the invariant.
LEMMA InitInv == Init => IInv
  <1>1. SUFFICES ASSUME Init PROVE IInv
    OBVIOUS
  <1>2. TypeOK
    BY <1>1, EmptySceneType, IdleType DEF Init, TypeOK
  <1>3. SavesNameVersions /\ MergedSavesKeepRivals
    BY <1>1 DEF Init, SavesNameVersions, MergedSavesKeepRivals
  <1>4. ASSUME NEW e \in Editors PROVE TabInv(e)
    <2>1. tab[e] = Idle("new") /\ \A c \in Channels : pending[c] = None /\ answer[c] = None
      BY <1>1 DEF Init
    <2>2. NewIsSilent(e)
      BY <2>1, OwnChannels DEF NewIsSilent, Idle
    <2>3. ~Open(e)
      BY <2>1 DEF Open, Idle
    <2>4. QED BY <2>2, <2>3 DEF TabInv
  <1>5. QED BY <1>2, <1>3, <1>4 DEF IInv

\* Every step keeps the invariant.
LEMMA NextInv == IInv /\ [Next]_vars => IInv'
  <1>1. SUFFICES ASSUME IInv, [Next]_vars PROVE IInv'
    OBVIOUS
  <1>2. ASSUME NEW e \in Editors, TabStep(e) PROVE IInv'
    <2>1. CASE \E v \in 1..Version : Load(e, v)
      BY <1>1, <2>1, LoadStep
    <2>2. CASE \E x \in Elements, stamp \in Stamps : Edit(e, x, stamp)
      BY <1>1, <2>2, EditStep
    <2>3. CASE \E reached \in SUBSET (Editors \ {e}) : BroadcastChanges(e, reached)
      BY <1>1, <2>3, BroadcastStep
    <2>4. CASE \E arrived \in SUBSET net[e] : FlushRemoteUpdates(e, arrived)
      BY <1>1, <2>4, FlushStep
    <2>5. CASE DebounceFires(e) \/ FilesChange(e) \/ SaveNow(e) \/ BackClick(e)
      BY <1>1, <2>5, DebounceStep, FilesStep, QueueCanvasStep DEF SaveNow, BackClick
    <2>6. CASE SaveSend(e) \/ SaveDone(e) \/ SaveConflicts(e)
      BY <1>1, <2>6, SaveSendStep, SaveDoneStep, SaveConflictsStep
    <2>7. CASE SaveRetry(e) \/ SaveGivesUp(e) \/ SaveFails(e)
      BY <1>1, <2>7, SaveRetryStep, SaveGivesUpStep, SaveFailsStep
    <2>8. CASE RecoverRead(e) \/ RecoverApply(e) \/ RecoverFails(e)
      BY <1>1, <2>8, RecoverReadStep, RecoverApplyStep, RecoverFailsStep
    <2>9. CASE Unload(e) \/ Leave(e)
      BY <1>1, <2>9, GoneStep
    <2>10. QED BY <1>2, <2>1, <2>2, <2>3, <2>4, <2>5, <2>6, <2>7, <2>8, <2>9 DEF TabStep
  <1>3. CASE \E c \in Channels : Commit(c) \/ Reject(c)
    BY <1>1, <1>3, CommitStep, RejectStep
  <1>4. CASE \E v \in 1..Version : Restore(v)
    BY <1>1, <1>4, RestoreStep
  <1>5. CASE UNCHANGED vars
    BY <1>1, <1>5 DEF vars, IInv, TypeOK, SavesNameVersions, MergedSavesKeepRivals, TabInv,
                      NewIsSilent, OwnSavesAreShown, Open, Version
  <1>6. QED BY <1>1, <1>2, <1>3, <1>4, <1>5 DEF Next

\* The invariant holds of every reachable state.
LEMMA SpecInv == Spec => []IInv
  BY InitInv, NextInv, PTL DEF Spec

\* Every state is typed, with any number of tabs and elements.
THEOREM TypeCorrect == Spec => []TypeOK
  <1>1. IInv => TypeOK BY DEF IInv
  <1>2. QED BY <1>1, SpecInv, PTL

\* The version a tab holds in currentDrawingVersionRef is always merged into
\* the scene it shows, whatever saves, recoveries, updates and restores did.
THEOREM BasesAreCovered == Spec => []BaseIsCovered
  <1>1. IInv => BaseIsCovered
    BY DEF IInv, TabInv, InUse, BaseIsCovered, Version
  <1>2. QED BY <1>1, SpecInv, PTL

\* The retry of saveWithConflictRetry and the flush of useUnloadSave never
\* discard an element of the version they name.
THEOREM MergedSavesDiscardNothing == Spec => []MergedSavesKeepRivals
  <1>1. IInv => MergedSavesKeepRivals BY DEF IInv
  <1>2. QED BY <1>1, SpecInv, PTL

\* A step of a tab leaves what it shows alone or adds to it.
LEMMA TabNeverGoesBack ==
  ASSUME IInv, NEW e \in Editors, TabStep(e), Open(e), Open(e)'
  PROVE  Covers(tab'[e].scene, tab[e].scene)
  <1>1. tab[e] \in Tab /\ tab[e].scene \in Scene /\ tab \in [Editors -> Tab]
        /\ ReadsExist(tab[e], log)
    BY OpenTab, Types DEF IInv, TypeOK
  <1>2. CASE tab'[e].scene = tab[e].scene
    BY <1>1, <1>2, CoversReflexive
  <1>3. CASE \E x \in Elements, stamp \in Stamps : Edit(e, x, stamp)
    <2>1. PICK x \in Elements, stamp \in Stamps : Edit(e, x, stamp)
      BY <1>3
    <2>2. tab'[e].scene = [tab[e].scene EXCEPT ![x] =
                             [version |-> tab[e].scene[x].version + 1, updated |-> stamp,
                              nonce |-> e]]
      BY <1>1, <2>1 DEF Edit, Tab
    <2>3. QED BY <1>1, <2>2, EditedScene
  <1>4. CASE \E arrived \in SUBSET net[e] : FlushRemoteUpdates(e, arrived)
    <2>1. PICK arrived \in SUBSET net[e] : FlushRemoteUpdates(e, arrived)
      BY <1>4
    <2>2. PICK inbox \in LastArrived(arrived) :
            tab' = [tab EXCEPT ![e].scene = ReconcileElements(@, inbox),
                               ![e].sent = Patch(@, inbox, Present(inbox))]
      BY <2>1 DEF FlushRemoteUpdates
    <2>3. tab'[e].scene = ReconcileElements(tab[e].scene, inbox)
      BY <1>1, <2>2 DEF Tab
    <2>4. QED BY <1>1, <2>3, LastArrivedType, ReconcileCovers
  <1>5. CASE SaveRetry(e)
    <2> DEFINE m == Merged(tab[e], tab[e].save.at)
    <2>1. tab[e].save.at \in Nat /\ log[tab[e].save.at] \in Scene
      BY <1>1, <1>5, Types DEF SaveRetry, ReadsExist, Version
    <2>2. m \in Tab /\ Covers(m.scene, tab[e].scene)
      BY <1>1, <2>1, MergedTab
    <2>3. tab' = [tab EXCEPT ![e] = [m EXCEPT !.save.pc = "retry"]]
      BY <1>5 DEF SaveRetry
    <2> HIDE DEF m
    <2>4. tab'[e].scene = m.scene
      BY <1>1, <2>2, <2>3 DEF Tab
    <2>5. QED BY <2>2, <2>4
  <1>6. CASE RecoverApply(e)
    <2> DEFINE m == Merged(tab[e], tab[e].recover.at)
    <2>1. tab[e].recover.at \in Nat /\ log[tab[e].recover.at] \in Scene
      BY <1>1, <1>6, Types DEF RecoverApply, ReadsExist, Version
    <2>2. m \in Tab /\ Covers(m.scene, tab[e].scene)
      BY <1>1, <2>1, MergedTab
    <2>3. tab' = [tab EXCEPT ![e] = [m EXCEPT !.recover = [pc |-> "idle", at |-> 0]]]
      BY <1>6 DEF RecoverApply
    <2> HIDE DEF m
    <2>4. tab'[e].scene = m.scene
      BY <1>1, <2>2, <2>3 DEF Tab
    <2>5. QED BY <2>2, <2>4
  <1>7. CASE \E reached \in SUBSET (Editors \ {e}) : BroadcastChanges(e, reached)
    BY <1>1, <1>2, <1>7 DEF BroadcastChanges, Tab
  <1>8. CASE \/ DebounceFires(e) \/ FilesChange(e) \/ SaveNow(e) \/ BackClick(e)
             \/ SaveSend(e) \/ SaveConflicts(e)
    BY <1>1, <1>2, <1>8
    DEF DebounceFires, FilesChange, SaveNow, BackClick, QueueCanvas, SaveSend,
        SaveConflicts, Tab
  <1>9. CASE SaveDone(e) \/ SaveGivesUp(e) \/ SaveFails(e)
    <2> DEFINE t == NextInQueue(tab[e])
    <2>1. t.scene = tab[e].scene
      BY <1>1 DEF NextInQueue, Tab
    <2>2. CASE SaveDone(e)
      BY <1>1, <1>2, <2>2 DEF SaveDone, NextInQueue, Tab
    <2>3. CASE SaveGivesUp(e) \/ SaveFails(e)
      <3>1. tab' = [tab EXCEPT ![e] = t]
        BY <2>3 DEF SaveGivesUp, SaveFails
      <3>2. QED BY <1>1, <1>2, <2>1, <3>1
    <2>4. QED BY <1>9, <2>2, <2>3
  <1>10. CASE RecoverRead(e) \/ RecoverFails(e)
    BY <1>1, <1>2, <1>10 DEF RecoverRead, RecoverFails, Tab
  <1>11. CASE Unload(e) \/ Leave(e)
    BY <1>1, <1>11, IdleType DEF Unload, Leave, Forgotten, Open
  <1>12. CASE \E v \in 1..Version : Load(e, v)
    BY <1>12 DEF Load, Open
  <1>13. QED BY <1>3, <1>4, <1>5, <1>6, <1>7, <1>8, <1>9, <1>10, <1>11, <1>12 DEF TabStep

\* Only its own steps change a tab.
LEMMA TabStepsAlone ==
  ASSUME IInv, NEW e \in Editors, TabStep(e), NEW d \in Editors, d # e
  PROVE  tab'[d] = tab[d]
  <1>1. tab \in [Editors -> Tab]
    BY DEF IInv, TypeOK
  <1>2. CASE \E v \in 1..Version : Load(e, v)
    BY <1>1, <1>2 DEF Load
  <1>3. CASE \E x \in Elements, stamp \in Stamps : Edit(e, x, stamp)
    BY <1>1, <1>3 DEF Edit
  <1>4. CASE \E reached \in SUBSET (Editors \ {e}) : BroadcastChanges(e, reached)
    BY <1>1, <1>4 DEF BroadcastChanges
  <1>5. CASE \E arrived \in SUBSET net[e] : FlushRemoteUpdates(e, arrived)
    BY <1>1, <1>5 DEF FlushRemoteUpdates
  <1>6. CASE DebounceFires(e) \/ FilesChange(e) \/ SaveNow(e) \/ BackClick(e) \/ SaveSend(e)
    BY <1>1, <1>6 DEF DebounceFires, FilesChange, SaveNow, BackClick, QueueCanvas, SaveSend
  <1>7. CASE SaveDone(e) \/ SaveConflicts(e)
    BY <1>1, <1>7 DEF SaveDone, SaveConflicts
  <1>8. CASE SaveRetry(e)
    BY <1>1, <1>8 DEF SaveRetry
  <1>9. CASE SaveGivesUp(e) \/ SaveFails(e)
    BY <1>1, <1>9 DEF SaveGivesUp, SaveFails
  <1>10. CASE RecoverRead(e) \/ RecoverApply(e) \/ RecoverFails(e)
    BY <1>1, <1>10 DEF RecoverRead, RecoverApply, RecoverFails
  <1>11. CASE Unload(e) \/ Leave(e)
    BY <1>1, <1>11 DEF Unload, Leave, Forgotten
  <1>12. QED
    BY <1>2, <1>3, <1>4, <1>5, <1>6, <1>7, <1>8, <1>9, <1>10, <1>11 DEF TabStep

\* What a tab shows never goes back: reconcileElements is only ever called so
\* that nothing newer is replaced.
THEOREM ScenesOnlyGrow == Spec => ScenesNeverGoBack
  <1> DEFINE Grows == \A e \in Editors : Open(e) /\ Open(e)' => Covers(tab'[e].scene, tab[e].scene)
  <1>1. IInv /\ [Next]_vars => [Grows]_vars
    <2>1. SUFFICES ASSUME IInv, Next, NEW e \in Editors, Open(e), Open(e)'
                   PROVE  Covers(tab'[e].scene, tab[e].scene)
      OBVIOUS
    <2>2. CASE tab'[e] = tab[e]
      BY <2>1, <2>2, Types, CoversReflexive
    <2>3. CASE \E d \in Editors : TabStep(d)
      BY <2>1, <2>2, <2>3, TabNeverGoesBack, TabStepsAlone
    <2>4. CASE \E c \in Channels : Commit(c) \/ Reject(c)
      BY <2>2, <2>4 DEF Commit, Reject
    <2>5. CASE \E v \in 1..Version : Restore(v)
      BY <2>2, <2>5 DEF Restore
    <2>6. QED BY <2>1, <2>3, <2>4, <2>5 DEF Next
  <1>2. QED BY <1>1, SpecInv, PTL DEF Spec, ScenesNeverGoBack

-----------------------------------------------------------------------------
(* What the answer to a save vouches for.                                  *)
(*                                                                         *)
(* That the answer a save waits for names a version with all that was      *)
(* queued is not inductive: it says nothing of the request on its way, nor *)
(* of an answer left behind by an earlier step of the queue. Each channel  *)
(* is empty outside its step of the save, holds a request or an answer and *)
(* never both, and what it holds covers the head of the queue.             *)

\* The step of a save that waits for a channel.
StepOf(k) == IF k = "save" THEN "first" ELSE "retry"

Carries(t, request, reply, versions, step) ==
  /\ t.save.pc # step => request = None /\ reply = None
  /\ request = None \/ reply = None
  /\ request # None => Covers(request.body, Head(t.queue))
  /\ reply # None => Covers(versions[reply], Head(t.queue))

TabCarries(e) ==
  \A k \in {"save", "retry"} :
    Carries(tab[e], pending[<<e, k>>], answer[<<e, k>>], log, StepOf(k))

QueuedIsCarried == \A e \in Editors : Open(e) => TabCarries(e)

\* A tab that keeps the step of its save, and the scene being saved, keeps what
\* its channels vouch for.
LEMMA CarriesStill ==
  ASSUME NEW t, NEW u, NEW request, NEW reply, NEW versions, NEW k \in {"save", "retry"},
         Carries(t, request, reply, versions, StepOf(k)), u.save.pc = t.save.pc,
         t.save.pc # "idle" => Head(u.queue) = Head(t.queue)
  PROVE  Carries(u, request, reply, versions, StepOf(k))
  BY DEF Carries, StepOf

\* Channels with nothing in them vouch for nothing.
LEMMA CarriesNothing ==
  ASSUME NEW t, NEW versions, NEW step
  PROVE  Carries(t, None, None, versions, step)
  BY DEF Carries

\* One channel of a tab changes.
Puts(f, c, r) == [f EXCEPT ![c] = r]

LEMMA ChannelChanges ==
  ASSUME NEW e \in Editors, NEW k \in Kinds, NEW f, NEW r, DOMAIN f = Channels
  PROVE  /\ Puts(f, <<e, k>>, r)[<<e, k>>] = r
         /\ \A j \in Kinds \ {k} : Puts(f, <<e, k>>, r)[<<e, j>>] = f[<<e, j>>]
         /\ \A c \in Channels : c[1] # e => Puts(f, <<e, k>>, r)[c] = f[c]
  <1>1. \A j \in Kinds : <<e, j>> \in Channels
    BY OwnChannels
  <1>2. \A j \in Kinds \ {k} : <<e, j>> # <<e, k>>
    OBVIOUS
  <1>3. \A c \in Channels : c[1] # e => c # <<e, k>>
    OBVIOUS
  <1>4. QED BY <1>1, <1>2, <1>3 DEF Puts

\* A step of one tab that leaves the log and the others' channels alone.
LEMMA CarriedByOthers ==
  ASSUME IInv, QueuedIsCarried, NEW e \in Editors, TabStep(e), log' = log,
         \A c \in Channels : c[1] # e => pending'[c] = pending[c] /\ answer'[c] = answer[c],
         Open(e)' => TabCarries(e)'
  PROVE  QueuedIsCarried'
  <1>1. SUFFICES ASSUME NEW d \in Editors, Open(d)', d # e PROVE TabCarries(d)'
    BY DEF QueuedIsCarried
  <1>2. tab'[d] = tab[d]
    BY <1>1, TabStepsAlone
  <1>3. TabCarries(d)
    BY <1>1, <1>2 DEF QueuedIsCarried, Open
  <1>4. ASSUME NEW k \in {"save", "retry"}
        PROVE  pending'[<<d, k>>] = pending[<<d, k>>] /\ answer'[<<d, k>>] = answer[<<d, k>>]
    BY <1>1, OwnChannels DEF Kinds
  <1>5. QED BY <1>2, <1>3, <1>4 DEF TabCarries

\* A step of one tab that does not touch its save: the queue may grow.
LEMMA QuietCarries ==
  ASSUME IInv, QueuedIsCarried, NEW e \in Editors, TabStep(e), ServerUnchanged, Open(e),
         tab'[e].save = tab[e].save,
         tab[e].queue # <<>> => Head(tab'[e].queue) = Head(tab[e].queue)
  PROVE  QueuedIsCarried'
  <1>1. log' = log /\ pending' = pending /\ answer' = answer
    BY DEF ServerUnchanged
  <1>2. TabCarries(e) /\ ReadsExist(tab[e], log)
    BY OpenTab DEF QueuedIsCarried
  <1>3. tab[e].save.pc # "idle" => Head(tab'[e].queue) = Head(tab[e].queue)
    BY <1>2 DEF ReadsExist
  <1>4. TabCarries(e)'
    BY <1>1, <1>2, <1>3, CarriesStill DEF TabCarries
  <1>5. QED BY <1>1, <1>4, CarriedByOthers

\* The steps of a tab beside its save.
LEMMA BesideSaveCarries ==
  ASSUME IInv, QueuedIsCarried, NEW e \in Editors, TabStep(e),
         \/ \E x \in Elements, stamp \in Stamps : Edit(e, x, stamp)
         \/ \E reached \in SUBSET (Editors \ {e}) : BroadcastChanges(e, reached)
         \/ \E arrived \in SUBSET net[e] : FlushRemoteUpdates(e, arrived)
         \/ DebounceFires(e) \/ FilesChange(e) \/ QueueCanvas(e)
         \/ RecoverRead(e) \/ RecoverApply(e) \/ RecoverFails(e)
  PROVE  QueuedIsCarried'
  <1>1. /\ Open(e) /\ ServerUnchanged /\ tab \in [Editors -> Tab] /\ tab[e] \in Tab
        /\ ReadsExist(tab[e], log)
    BY OpenTab DEF IInv, TypeOK, Edit, BroadcastChanges, FlushRemoteUpdates, DebounceFires,
                   FilesChange, QueueCanvas, RecoverRead, RecoverApply, RecoverFails
  <1>2. CASE tab'[e].save = tab[e].save /\ tab'[e].queue = tab[e].queue
    BY <1>1, <1>2, QuietCarries
  <1>3. CASE \E x \in Elements, stamp \in Stamps : Edit(e, x, stamp)
    BY <1>1, <1>2, <1>3 DEF Edit, Tab
  <1>4. CASE \E reached \in SUBSET (Editors \ {e}) : BroadcastChanges(e, reached)
    BY <1>1, <1>2, <1>4 DEF BroadcastChanges, Tab
  <1>5. CASE \E arrived \in SUBSET net[e] : FlushRemoteUpdates(e, arrived)
    <2>1. PICK arrived \in SUBSET net[e] : FlushRemoteUpdates(e, arrived)
      BY <1>5
    <2>2. PICK inbox \in LastArrived(arrived) :
            tab' = [tab EXCEPT ![e].scene = ReconcileElements(@, inbox),
                               ![e].sent = Patch(@, inbox, Present(inbox))]
      BY <2>1 DEF FlushRemoteUpdates
    <2>3. QED BY <1>1, <1>2, <2>2 DEF Tab
  <1>6. CASE DebounceFires(e) \/ QueueCanvas(e)
    <2> DEFINE s == IF DebounceFires(e) THEN tab[e].timer ELSE tab[e].scene
    <2>1. s \in Scene /\ tab'[e].queue = Append(tab[e].queue, s)
      <3>1. CASE DebounceFires(e) BY <1>1, <3>1 DEF DebounceFires, Tab
      <3>2. CASE QueueCanvas(e) /\ ~DebounceFires(e) BY <1>1, <3>2 DEF QueueCanvas, Tab
      <3>3. QED BY <1>6, <3>1, <3>2
    <2>2. tab'[e].save = tab[e].save
      BY <1>1, <1>6 DEF DebounceFires, QueueCanvas, Tab
    <2> HIDE DEF s
    <2>3. tab[e].queue \in Seq(Scene)
      BY <1>1 DEF Tab
    <2>4. tab[e].queue # <<>> => Head(tab'[e].queue) = Head(tab[e].queue)
      BY <2>1, <2>3
    <2>5. QED BY <1>1, <2>2, <2>4, QuietCarries
  <1>7. CASE FilesChange(e) \/ RecoverRead(e) \/ RecoverFails(e)
    BY <1>1, <1>2, <1>7 DEF FilesChange, RecoverRead, RecoverFails, Tab
  <1>8. CASE RecoverApply(e)
    <2> DEFINE m == Merged(tab[e], tab[e].recover.at)
    <2>1. tab[e].recover.at \in Nat /\ log[tab[e].recover.at] \in Scene
      BY <1>1, <1>8, Types DEF RecoverApply, ReadsExist, Version
    <2>2. m \in Tab /\ m.queue = tab[e].queue /\ m.save = tab[e].save
      BY <1>1, <2>1, MergedTab
    <2>3. tab' = [tab EXCEPT ![e] = [m EXCEPT !.recover = [pc |-> "idle", at |-> 0]]]
      BY <1>8 DEF RecoverApply
    <2> HIDE DEF m
    <2>4. tab'[e].queue = m.queue /\ tab'[e].save = m.save
      BY <1>1, <2>2, <2>3 DEF Tab
    <2>5. QED BY <1>2, <2>2, <2>4
  <1>9. QED BY <1>3, <1>4, <1>5, <1>6, <1>7, <1>8

\* A tab whose save is over, with its channels empty.
LEMMA SilentCarries ==
  ASSUME NEW e \in Editors,
         \A k \in {"save", "retry"} : pending'[<<e, k>>] = None /\ answer'[<<e, k>>] = None
  PROVE  TabCarries(e)'
  BY CarriesNothing DEF TabCarries

\* A save that ends takes its request and its answer with it.
LEMMA SaveEndsCarries ==
  ASSUME IInv, QueuedIsCarried, NEW e \in Editors, TabStep(e),
         SaveDone(e) \/ SaveGivesUp(e) \/ SaveFails(e)
  PROVE  QueuedIsCarried'
  <1> DEFINE j == IF tab[e].save.pc = "first" THEN "save" ELSE "retry"
  <1>1. /\ Open(e) /\ tab[e].save.pc # "idle" /\ log' = log
        /\ TabCarries(e)
    BY DEF SaveDone, SaveGivesUp, SaveFails, Waits, QueuedIsCarried, Register!Reject
  <1>2. j \in {"save", "retry"} /\ SavingOn(e) = <<e, j>>
    BY DEF SavingOn
  <1>3. \A k \in {"save", "retry"} : k # j => pending[<<e, k>>] = None /\ answer[<<e, k>>] = None
    BY <1>1 DEF TabCarries, Carries, StepOf
  <1>4. pending[<<e, j>>] = None \/ answer[<<e, j>>] = None
    BY <1>1, <1>2 DEF TabCarries, Carries
  <1>5. CASE SaveDone(e)
    <2>1. answer[<<e, j>>] # None /\ answer' = [answer EXCEPT ![<<e, j>>] = None]
          /\ pending' = pending
      BY <1>2, <1>5 DEF SaveDone, AnswerRead
    <2> HIDE DEF j
    <2>2. \A k \in {"save", "retry"} : pending'[<<e, k>>] = None /\ answer'[<<e, k>>] = None
      BY <1>2, <1>3, <1>4, <2>1, OwnChannels DEF IInv, TypeOK, Kinds
    <2>3. \A c \in Channels : c[1] # e => pending'[c] = pending[c] /\ answer'[c] = answer[c]
      BY <1>2, <2>1, OwnChannels DEF IInv, TypeOK, Kinds
    <2>4. QED BY <1>1, <2>2, <2>3, SilentCarries, CarriedByOthers
  <1>6. CASE SaveGivesUp(e)
    <2>1. /\ pending[<<e, "retry">>] # None /\ j = "retry"
          /\ pending' = [pending EXCEPT ![<<e, "retry">>] = None] /\ answer' = answer
      BY <1>6 DEF SaveGivesUp, Register!Reject
    <2> HIDE DEF j
    <2>2. \A k \in {"save", "retry"} : pending'[<<e, k>>] = None /\ answer'[<<e, k>>] = None
      BY <1>2, <1>3, <1>4, <2>1, OwnChannels DEF IInv, TypeOK, Kinds
    <2>3. \A c \in Channels : c[1] # e => pending'[c] = pending[c] /\ answer'[c] = answer[c]
      BY <1>2, <2>1, OwnChannels DEF IInv, TypeOK, Kinds
    <2>4. QED BY <1>1, <2>2, <2>3, SilentCarries, CarriedByOthers
  <1>7. CASE SaveFails(e)
    <2>1. /\ pending' = [pending EXCEPT ![<<e, j>>] = None]
          /\ answer' = [answer EXCEPT ![<<e, j>>] = None]
      BY <1>2, <1>7 DEF SaveFails, AnswerRead
    <2> HIDE DEF j
    <2>2. \A k \in {"save", "retry"} : pending'[<<e, k>>] = None /\ answer'[<<e, k>>] = None
      BY <1>2, <1>3, <2>1, OwnChannels DEF IInv, TypeOK, Kinds
    <2>3. \A c \in Channels : c[1] # e => pending'[c] = pending[c] /\ answer'[c] = answer[c]
      BY <1>2, <2>1, OwnChannels DEF IInv, TypeOK, Kinds
    <2>4. QED BY <1>1, <2>2, <2>3, SilentCarries, CarriedByOthers
  <1>8. QED BY <1>5, <1>6, <1>7

\* A first attempt sends the head of the queue.
LEMMA SaveSendCarries ==
  ASSUME IInv, QueuedIsCarried, NEW e \in Editors, TabStep(e), SaveSend(e)
  PROVE  QueuedIsCarried'
  <1> DEFINE s == Head(tab[e].queue)
             r == [seen |-> tab[e].base, body |-> s]
  <1>1. /\ Open(e) /\ tab[e] \in Tab /\ tab[e].queue # <<>> /\ tab[e].save.pc = "idle"
        /\ tab' = [tab EXCEPT ![e].save.pc = "first"] /\ log' = log /\ answer' = answer
        /\ pending' = [pending EXCEPT ![<<e, "save">>] = r]
        /\ tab \in [Editors -> Tab] /\ tab[e].queue \in Seq(Scene) /\ TabCarries(e)
    BY OpenTab, Types DEF SaveSend, Request, Register!Submit, IInv, TypeOK, QueuedIsCarried
  <1>2. s \in Scene /\ r.body = s
    BY <1>1
  <1>3. tab'[e].save.pc = "first" /\ Head(tab'[e].queue) = s
    BY <1>1 DEF Tab
  <1> HIDE DEF s, r
  <1>4. /\ \A k \in {"save", "retry"} : pending[<<e, k>>] = None /\ answer[<<e, k>>] = None
        /\ pending'[<<e, "save">>] = r /\ pending'[<<e, "retry">>] = pending[<<e, "retry">>]
        /\ \A c \in Channels : c[1] # e => pending'[c] = pending[c]
    <2>1. \A k \in {"save", "retry"} : pending[<<e, k>>] = None /\ answer[<<e, k>>] = None
      BY <1>1 DEF TabCarries, Carries, StepOf
    <2>2. DOMAIN pending = Channels
      BY DEF IInv, TypeOK
    <2>3. "save" \in Kinds /\ "retry" \in Kinds \ {"save"}
      BY DEF Kinds
    <2>4. pending' = Puts(pending, <<e, "save">>, r)
      BY <1>1 DEF Puts
    <2>5. QED BY ONLY <2>1, <2>2, <2>3, <2>4, e \in Editors, ChannelChanges
  <1>5. Covers(s, s)
    BY <1>2, CoversReflexive
  <1>6. TabCarries(e)'
    BY <1>1, <1>2, <1>3, <1>4, <1>5 DEF TabCarries, Carries, StepOf
  <1>7. QED BY <1>1, <1>4, <1>6, CarriedByOthers

\* A refused first attempt has had no answer, and leaves its channel empty.
LEMMA SaveConflictsCarries ==
  ASSUME IInv, QueuedIsCarried, NEW e \in Editors, TabStep(e), SaveConflicts(e)
  PROVE  QueuedIsCarried'
  <1>1. /\ Open(e) /\ tab[e].save.pc = "first" /\ log' = log /\ answer' = answer
        /\ pending[<<e, "save">>] # None
        /\ pending' = [pending EXCEPT ![<<e, "save">>] = None] /\ TabCarries(e)
    BY DEF SaveConflicts, Register!Reject, QueuedIsCarried
  <1>2. \A k \in {"save", "retry"} : pending'[<<e, k>>] = None /\ answer'[<<e, k>>] = None
    <2>1. pending[<<e, "retry">>] = None /\ answer[<<e, "retry">>] = None
          /\ answer[<<e, "save">>] = None
      BY <1>1 DEF TabCarries, Carries, StepOf
    <2>2. DOMAIN pending = Channels /\ "save" \in Kinds /\ "retry" \in Kinds \ {"save"}
      BY DEF IInv, TypeOK, Kinds
    <2>3. pending'[<<e, "save">>] = None /\ pending'[<<e, "retry">>] = pending[<<e, "retry">>]
      <3>1. pending' = Puts(pending, <<e, "save">>, None)
        BY <1>1 DEF Puts
      <3>2. QED BY ONLY <2>2, <3>1, e \in Editors, ChannelChanges
    <2>4. QED BY <1>1, <2>1, <2>3
  <1>3. \A c \in Channels : c[1] # e => pending'[c] = pending[c] /\ answer'[c] = answer[c]
    <2>1. DOMAIN pending = Channels /\ "save" \in Kinds
      BY DEF IInv, TypeOK, Kinds
    <2>2. pending' = Puts(pending, <<e, "save">>, None)
      BY <1>1 DEF Puts
    <2>3. QED BY <1>1, <2>1, <2>2, ChannelChanges
  <1>4. QED BY <1>1, <1>2, <1>3, SilentCarries, CarriedByOthers

\* The retry sends the merged scene, which covers all that the tab has queued.
LEMMA SaveRetryCarries ==
  ASSUME IInv, QueuedIsCarried, NEW e \in Editors, TabStep(e), SaveRetry(e)
  PROVE  QueuedIsCarried'
  <1> DEFINE m == Merged(tab[e], tab[e].save.at)
             r == [seen |-> m.base, body |-> m.scene]
             q == Head(tab[e].queue)
  <1>1. /\ Open(e) /\ tab[e] \in Tab /\ tab[e].scene \in Scene /\ tab[e].queue # <<>>
        /\ tab[e].queue \in Seq(Scene) /\ tab \in [Editors -> Tab] /\ TabCarries(e)
        /\ InUse(tab[e], log) /\ tab[e].save.at \in 1..Version /\ tab[e].save.at \in Nat
        /\ tab[e].save.pc = "reconcile"
    BY OpenTab, Types DEF SaveRetry, ReadsExist, IInv, TypeOK, QueuedIsCarried, Version
  <1>2. /\ m \in Tab /\ m.scene \in Scene /\ Covers(m.scene, tab[e].scene)
        /\ m.queue = tab[e].queue
    BY <1>1, Types, MergedTab
  <1>3. /\ log' = log /\ answer' = answer
        /\ pending' = [pending EXCEPT ![<<e, "retry">>] = r]
        /\ tab' = [tab EXCEPT ![e] = [m EXCEPT !.save.pc = "retry"]]
    BY DEF SaveRetry, Request, Register!Submit
  <1>4. q \in Scene /\ Covers(tab[e].scene, q)
    BY <1>1 DEF InUse
  <1>5. r.body = m.scene
    OBVIOUS
  <1> HIDE DEF m, r
  <1>6. Covers(r.body, q)
    BY <1>1, <1>2, <1>4, <1>5, CoversTransitive
  <1>7. tab'[e].save.pc = "retry" /\ Head(tab'[e].queue) = q
    BY <1>1, <1>2, <1>3 DEF Tab
  <1> HIDE DEF q
  <1>8. /\ \A k \in {"save", "retry"} : pending[<<e, k>>] = None /\ answer[<<e, k>>] = None
        /\ pending'[<<e, "retry">>] = r /\ pending'[<<e, "save">>] = pending[<<e, "save">>]
        /\ \A c \in Channels : c[1] # e => pending'[c] = pending[c]
    <2>1. \A k \in {"save", "retry"} : pending[<<e, k>>] = None /\ answer[<<e, k>>] = None
      BY <1>1 DEF TabCarries, Carries, StepOf
    <2>2. DOMAIN pending = Channels
      BY DEF IInv, TypeOK
    <2>3. "retry" \in Kinds /\ "save" \in Kinds \ {"retry"}
      BY DEF Kinds
    <2>4. pending' = Puts(pending, <<e, "retry">>, r)
      BY <1>3 DEF Puts
    <2>5. QED BY ONLY <2>1, <2>2, <2>3, <2>4, e \in Editors, ChannelChanges
  <1>9. TabCarries(e)'
    BY <1>3, <1>6, <1>7, <1>8 DEF TabCarries, Carries, StepOf
  <1>10. QED BY <1>3, <1>8, <1>9, CarriedByOthers

\* A tab that opens has nothing in its channels, one that goes away reads no more.
LEMMA OpenOrGoneCarries ==
  ASSUME IInv, QueuedIsCarried, NEW e \in Editors, TabStep(e),
         \/ \E v \in 1..Version : Load(e, v)
         \/ Unload(e) \/ Leave(e)
  PROVE  QueuedIsCarried'
  <1>1. CASE \E v \in 1..Version : Load(e, v)
    <2>1. tab[e].phase = "new" /\ log' = log /\ pending' = pending /\ answer' = answer
      BY <1>1 DEF Load, ServerUnchanged
    <2>2. \A k \in {"save", "retry"} : pending'[<<e, k>>] = None /\ answer'[<<e, k>>] = None
      BY <2>1 DEF IInv, TabInv, NewIsSilent, Kinds
    <2>3. QED BY <2>1, <2>2, SilentCarries, CarriedByOthers
  <1>2. CASE Unload(e) \/ Leave(e)
    <2>1. /\ tab' = [tab EXCEPT ![e] = Idle("gone")] /\ log' = log
          /\ answer' = [c \in Channels |-> IF c[1] = e THEN None ELSE answer[c]]
      BY <1>2 DEF Unload, Leave, Forgotten, Register!Submit
    <2>2. \A c \in Channels : c[1] # e => pending'[c] = pending[c]
      <3>1. CASE pending' = pending BY <3>1
      <3>2. CASE Register!Submit(<<e, "flush">>, tab[e].base, tab[e].scene)
        BY <3>2, OwnChannels DEF Register!Submit, IInv, TypeOK, Kinds
      <3>3. QED BY <1>2, <3>1, <3>2 DEF Unload, Leave
    <2>3. ~Open(e)'
      BY <2>1, IdleType DEF Open, IInv, TypeOK
    <2>4. QED BY <2>1, <2>2, <2>3, CarriedByOthers
  <1>3. QED BY <1>1, <1>2

\* A version that is stored lasts: what an answer vouches for, it vouches for
\* while the log grows.
LEMMA LogGrowsCarries ==
  ASSUME IInv, QueuedIsCarried, NEW e \in Editors, Open(e), tab' = tab,
         NEW s \in Scene, log' = Append(log, s), NEW k \in {"save", "retry"},
         pending'[<<e, k>>] \in {pending[<<e, k>>], None},
         answer'[<<e, k>>] = answer[<<e, k>>]
  PROVE  Carries(tab'[e], pending'[<<e, k>>], answer'[<<e, k>>], log', StepOf(k))
  <1>1. Carries(tab[e], pending[<<e, k>>], answer[<<e, k>>], log, StepOf(k))
    BY DEF QueuedIsCarried, TabCarries
  <1>2. answer[<<e, k>>] # None => answer[<<e, k>>] \in 1..Len(log)
    BY OpenTab DEF OwnSavesAreShown, Version
  <1>3. \A v \in 1..Len(log) : log'[v] = log[v]
    BY DEF IInv, TypeOK
  <1>4. QED BY <1>1, <1>2, <1>3 DEF Carries

\* A save that is stored is answered with the version that holds it.
LEMMA CommitCarries ==
  ASSUME IInv, QueuedIsCarried, NEW c \in Channels, Commit(c)
  PROVE  QueuedIsCarried'
  <1> DEFINE s == pending[c].body
             reply == IF c[2] = "flush" \/ tab[c[1]].phase = "gone" THEN None ELSE Version + 1
  <1>1. /\ pending[c] # None /\ log' = Append(log, s) /\ tab' = tab
        /\ pending' = [pending EXCEPT ![c] = None]
        /\ answer' = [answer EXCEPT ![c] = reply]
    BY DEF Commit, Register!Commit
  <1>2. s \in Scene
    BY <1>1, Types
  <1>3. log'[Version + 1] = s
    BY <1>1, <1>2 DEF IInv, TypeOK, Version
  <1>4. reply # None => reply = Version + 1
    OBVIOUS
  <1> HIDE DEF reply
  <1>5. \A d \in Channels : /\ d # c => pending'[d] = pending[d] /\ answer'[d] = answer[d]
                            /\ d = c => pending'[d] = None /\ answer'[d] = reply
    BY <1>1 DEF IInv, TypeOK
  <1>6. SUFFICES ASSUME NEW e \in Editors, Open(e), NEW k \in {"save", "retry"}
                 PROVE  Carries(tab'[e], pending'[<<e, k>>], answer'[<<e, k>>], log', StepOf(k))
    BY <1>1 DEF QueuedIsCarried, TabCarries, Open
  <1>7. <<e, k>> \in Channels
    BY OwnChannels DEF Kinds
  <1>8. CASE <<e, k>> # c
    BY <1>1, <1>2, <1>5, <1>6, <1>7, <1>8, LogGrowsCarries
  <1>9. CASE <<e, k>> = c
    <2>1. Carries(tab[e], pending[c], answer[c], log, StepOf(k))
      BY <1>6, <1>9 DEF QueuedIsCarried, TabCarries
    <2>2. tab[e].save.pc = StepOf(k) /\ Covers(s, Head(tab[e].queue))
      BY <1>1, <2>1 DEF Carries
    <2>3. pending'[<<e, k>>] = None /\ answer'[<<e, k>>] = reply
      BY <1>5, <1>7, <1>9
    <2>4. QED BY <1>1, <1>3, <1>4, <2>2, <2>3 DEF Carries
  <1>10. QED BY <1>8, <1>9

\* A refusal nobody waits for, and an earlier version put back.
LEMMA RejectCarries ==
  ASSUME IInv, QueuedIsCarried, NEW c \in Channels, Reject(c)
  PROVE  QueuedIsCarried'
  <1>1. /\ log' = log /\ tab' = tab /\ answer' = answer
        /\ pending' = [pending EXCEPT ![c] = None]
    BY DEF Reject, Register!Reject
  <1>2. \A d \in Channels : pending'[d] \in {pending[d], None}
    BY <1>1 DEF IInv, TypeOK
  <1>3. SUFFICES ASSUME NEW e \in Editors, Open(e), NEW k \in {"save", "retry"}
                 PROVE  Carries(tab[e], pending'[<<e, k>>], answer[<<e, k>>], log, StepOf(k))
    BY <1>1 DEF QueuedIsCarried, TabCarries, Open
  <1>4. <<e, k>> \in Channels
    BY OwnChannels DEF Kinds
  <1>5. Carries(tab[e], pending[<<e, k>>], answer[<<e, k>>], log, StepOf(k))
    BY <1>3 DEF QueuedIsCarried, TabCarries
  <1>6. QED BY <1>2, <1>4, <1>5 DEF Carries

\* An earlier version that is put back is a version more.
LEMMA RestoreCarries ==
  ASSUME IInv, QueuedIsCarried, NEW v \in 1..Version, Restore(v)
  PROVE  QueuedIsCarried'
  <1>1. /\ log' = Append(log, log[v]) /\ pending' = pending /\ answer' = answer /\ tab' = tab
    BY DEF Restore, Register!Override
  <1>2. log[v] \in Scene
    BY Types
  <1>3. QED BY <1>1, <1>2, LogGrowsCarries DEF QueuedIsCarried, TabCarries, Open

\* Every step keeps what the channels vouch for.
LEMMA NextCarries == IInv /\ QueuedIsCarried /\ [Next]_vars => QueuedIsCarried'
  <1>1. SUFFICES ASSUME IInv, QueuedIsCarried, [Next]_vars PROVE QueuedIsCarried'
    OBVIOUS
  <1>2. ASSUME NEW e \in Editors, TabStep(e) PROVE QueuedIsCarried'
    <2>1. CASE \/ \E x \in Elements, stamp \in Stamps : Edit(e, x, stamp)
               \/ \E reached \in SUBSET (Editors \ {e}) : BroadcastChanges(e, reached)
               \/ \E arrived \in SUBSET net[e] : FlushRemoteUpdates(e, arrived)
               \/ DebounceFires(e) \/ FilesChange(e) \/ QueueCanvas(e)
               \/ RecoverRead(e) \/ RecoverApply(e) \/ RecoverFails(e)
      BY <1>1, <1>2, <2>1, BesideSaveCarries
    <2>2. CASE SaveSend(e) \/ SaveConflicts(e) \/ SaveRetry(e)
      BY <1>1, <1>2, <2>2, SaveSendCarries, SaveConflictsCarries, SaveRetryCarries
    <2>3. CASE SaveDone(e) \/ SaveGivesUp(e) \/ SaveFails(e)
      BY <1>1, <1>2, <2>3, SaveEndsCarries
    <2>4. CASE (\E v \in 1..Version : Load(e, v)) \/ Unload(e) \/ Leave(e)
      BY <1>1, <1>2, <2>4, OpenOrGoneCarries
    <2>5. QED BY <1>2, <2>1, <2>2, <2>3, <2>4 DEF TabStep, SaveNow, BackClick
  <1>3. CASE \E c \in Channels : Commit(c) \/ Reject(c)
    BY <1>1, <1>3, CommitCarries, RejectCarries
  <1>4. CASE \E v \in 1..Version : Restore(v)
    BY <1>1, <1>4, RestoreCarries
  <1>5. CASE UNCHANGED vars
    BY <1>1, <1>5 DEF vars, QueuedIsCarried, TabCarries, Open
  <1>6. QED BY <1>1, <1>2, <1>3, <1>4, <1>5 DEF Next

\* Who is told "Saved changes to server", or leaves by the back button, has lost
\* nothing at that moment: the answer a save of persistScene or of
\* saveWithConflictRetry reads names a version with all that was queued,
\* whatever conflicts, merges, recoveries and restores went on.
THEOREM AcknowledgementsAreTrue == Spec => []AcknowledgedIsSaved
  <1>1. Init => QueuedIsCarried
    BY DEF Init, Idle, Open, QueuedIsCarried
  <1>2. QueuedIsCarried => AcknowledgedIsSaved
    <2>1. SUFFICES ASSUME QueuedIsCarried, NEW e \in Editors, Waits(e),
                          answer[SavingOn(e)] # None
                   PROVE  Covers(log[answer[SavingOn(e)]], Head(tab[e].queue))
      BY DEF AcknowledgedIsSaved
    <2>2. Open(e) /\ TabCarries(e)
      BY <2>1 DEF Waits, QueuedIsCarried
    <2>3. QED BY <2>1, <2>2 DEF SavingOn, TabCarries, Carries
  <1>3. QED BY <1>1, <1>2, SpecInv, NextCarries, PTL DEF Spec

-----------------------------------------------------------------------------
(* Files. The invariant: what the three stores, the requests and the         *)
(* deletions under way have in common.                                       *)

\* What a drawing has an object of its own for is in both stores, unless its entry is
\* excused, and whether or not it is shown.
OwnAreServed ==
  \A d \in There : \A f \in FileIds \ row[d].excused :
    row[d].files[f] = Own => Served(d, f)

\* A deletion that nobody waits for is of what the drawing has no entry for, or an
\* excused one.
CondemnedAreExcused ==
  \A j \in jobs : /\ j.pc # "count" /\ j.drawing \in There
                  /\ row[j.drawing].files[j.file] = Own
                  => j.file \in row[j.drawing].excused

\* What a save has uploaded and entered so far, and what it keeps, is there unless it
\* was hit.
PutOK(p) ==
  /\ \A f \in FileIds \ p.hit : p.after[f] = Own =>
       /\ f \notin p.upload => <<p.drawing, f>> \in object
       /\ f \notin p.upload \cup p.enter => <<p.drawing, f>> \in record
  /\ \A f \in p.removed : p.after[f] # Own

\* A sweep deletes what it writes no entry for; the entries it writes are good unless
\* they were hit.
SweepOK(p) ==
  /\ p.objects \cup p.rows \subseteq p.files
  /\ \A f \in p.files : p.after[f] # Own
  /\ \A f \in FileIds \ p.hit : p.after[f] = Own => Served(p.drawing, f)

\* A copy begins with entries for the objects of another drawing; those it has made
\* are there unless they were hit.
CopyOK(p) ==
  /\ \A f \in FileIds : p.before[f] # Own
  /\ p.left \cup p.found \cup p.enter \cup p.made \subseteq Keyed(p.before)
  /\ p.found = {} \/ p.enter = {}
  /\ \A f \in p.made \ p.hit :
       /\ <<p.drawing, f>> \in object
       /\ f \notin p.enter => <<p.drawing, f>> \in record

\* What a sweep or a failing copy may delete is not shown, or excused.
SweepFits(p) ==
  p.drawing \in There => \A f \in p.files \cap row[p.drawing].shown :
    row[p.drawing].files[f] = Own => f \in row[p.drawing].excused

CopyFits(p) ==
  p.drawing \in There => \A f \in Keyed(p.before) :
    row[p.drawing].files[f] = Own => f \in row[p.drawing].excused

HandlerOK(p) ==
  /\ p.pc = "put" => PutOK(p)
  /\ p.pc \in {"read", "sweep"} => SweepOK(p) /\ SweepFits(p)
  /\ p.pc = "copy" => CopyOK(p) /\ CopyFits(p)

FInv ==
  /\ FilesTypeOK /\ OwnAreServed /\ CondemnedAreExcused
  /\ \A h \in Handlers : HandlerOK(handler[h])

-----------------------------------------------------------------------------
(* The states of a request, by what it does. *)

PutStates ==
  [pc : {"put"}, drawing : Drawings, new : BOOLEAN, removed : SUBSET FileIds,
   after : Entries, shown : SUBSET FileIds, inline : SUBSET FileIds,
   upload : SUBSET FileIds, enter : SUBSET FileIds, fresh : BOOLEAN,
   hit : SUBSET FileIds]
DeleteStates == [pc : {"delete"}, drawing : Drawings, removed : SUBSET FileIds]
DiffStates ==
  [pc : {"diff"}, drawing : Drawings, hidden : SUBSET FileIds, entered : SUBSET FileIds]
ChooseStates == [pc : {"choose"}, drawing : Drawings, files : SUBSET FileIds]
SweepStates ==
  [pc : {"read", "sweep"}, drawing : Drawings, trim : BOOLEAN, after : Entries,
   shown : SUBSET FileIds, files : SUBSET FileIds, objects : SUBSET FileIds,
   rows : SUBSET FileIds, hit : SUBSET FileIds]
CopyStates ==
  [pc : {"copy"}, drawing : Drawings, before : Entries,
   left : SUBSET FileIds, found : SUBSET FileIds, enter : SUBSET FileIds,
   made : SUBSET FileIds, hit : SUBSET FileIds]

LEMMA StateKinds ==
  /\ HandlerState = {IdleHandler} \cup PutStates \cup DeleteStates \cup DiffStates
                      \cup ChooseStates \cup SweepStates \cup CopyStates
  /\ \A p \in HandlerState :
       /\ p.pc = "put" => p \in PutStates
       /\ p.pc = "delete" => p \in DeleteStates
       /\ p.pc = "diff" => p \in DiffStates
       /\ p.pc = "choose" => p \in ChooseStates
       /\ p.pc \in {"read", "sweep"} => p \in SweepStates
       /\ p.pc = "copy" => p \in CopyStates
  <1>1. HandlerState = {IdleHandler} \cup PutStates \cup DeleteStates \cup DiffStates
                         \cup ChooseStates \cup SweepStates \cup CopyStates
    BY DEF HandlerState, PutStates, DeleteStates, DiffStates, ChooseStates, SweepStates,
           CopyStates
  <1>2. IdleHandler.pc = "idle"
    BY DEF IdleHandler
  <1>3. QED
    BY <1>1, <1>2
    DEF PutStates, DeleteStates, DiffStates, ChooseStates, SweepStates, CopyStates

\* A row that is there.
LEMMA RowKinds ==
  ASSUME FilesTypeOK, NEW d \in There
  PROVE  /\ d \in Drawings
         /\ row[d] \in [state : {"there"}, files : Entries, shown : SUBSET FileIds,
                        excused : SUBSET FileIds]
  <1>1. d \in Drawings /\ row[d] \in Row /\ row[d].state = "there"
    BY DEF There, FilesTypeOK
  <1>2. QED BY <1>1 DEF Row, Unused, Deleted

LEMMA RowOfType ==
  ASSUME NEW files \in Entries, NEW shown \in SUBSET FileIds, NEW excused \in SUBSET FileIds
  PROVE  /\ RowOf(files, shown, excused) \in Row
         /\ RowOf(files, shown, excused).state = "there"
         /\ RowOf(files, shown, excused).files = files
         /\ RowOf(files, shown, excused).shown = shown
         /\ RowOf(files, shown, excused).excused = excused
  BY DEF RowOf, Row

\* A request's state in what a deletion or a save of somebody else makes of it.
LEMMA HitFacts ==
  ASSUME FilesTypeOK, NEW d, NEW files \in SUBSET FileIds, NEW i \in Handlers
  PROVE  /\ Hit(d, files)[i] \in HandlerState
         /\ \/ Hit(d, files)[i] = handler[i]
                 /\ ~(handler[i].pc \in {"put", "read", "sweep", "copy"} /\ handler[i].drawing = d)
            \/ /\ handler[i].pc \in {"put", "read", "sweep", "copy"} /\ handler[i].drawing = d
               /\ Hit(d, files)[i] = [handler[i] EXCEPT !.hit = handler[i].hit \cup files]
  <1>1. handler[i] \in HandlerState
    BY DEF FilesTypeOK
  <1>2. CASE handler[i].pc \in {"put", "read", "sweep", "copy"} /\ handler[i].drawing = d
    <2>1. Hit(d, files)[i] = [handler[i] EXCEPT !.hit = handler[i].hit \cup files]
      BY <1>2 DEF Hit
    <2>2. CASE handler[i].pc = "put"
      BY <1>1, <1>2, <2>1, <2>2, StateKinds DEF PutStates
    <2>3. CASE handler[i].pc \in {"read", "sweep"}
      BY <1>1, <1>2, <2>1, <2>3, StateKinds DEF SweepStates
    <2>4. CASE handler[i].pc = "copy"
      BY <1>1, <1>2, <2>1, <2>4, StateKinds DEF CopyStates
    <2>5. QED BY <1>2, <2>2, <2>3, <2>4
  <1>3. CASE ~(handler[i].pc \in {"put", "read", "sweep", "copy"} /\ handler[i].drawing = d)
    BY <1>1, <1>3 DEF Hit
  <1>4. QED BY <1>2, <1>3

LEMMA BumpFacts ==
  ASSUME FilesTypeOK, NEW h, NEW d, NEW i \in Handlers, i # h
  PROVE  /\ Bumped(h, d)[i] \in HandlerState
         /\ \/ Bumped(h, d)[i] = handler[i]
            \/ /\ handler[i].pc = "put"
               /\ Bumped(h, d)[i] = [handler[i] EXCEPT !.fresh = FALSE]
  <1>1. handler[i] \in HandlerState
    BY DEF FilesTypeOK
  <1>2. CASE handler[i].pc = "put" /\ handler[i].drawing = d
    <2>1. Bumped(h, d)[i] = [handler[i] EXCEPT !.fresh = FALSE]
      BY <1>2 DEF Bumped
    <2>2. handler[i] \in PutStates
      BY <1>1, <1>2, StateKinds
    <2>3. [handler[i] EXCEPT !.fresh = FALSE] \in PutStates
      BY <2>2 DEF PutStates
    <2>4. QED BY <1>2, <2>1, <2>3, StateKinds
  <1>3. CASE ~(handler[i].pc = "put" /\ handler[i].drawing = d)
    BY <1>1, <1>3 DEF Bumped
  <1>4. QED BY <1>2, <1>3

-----------------------------------------------------------------------------
(* What keeps a request in order. *)

\* The entries and what is shown stay, and what is excused stays so.
RowsStay ==
  /\ There' = There
  /\ \A d \in There : /\ row'[d].files = row[d].files
                      /\ row'[d].shown = row[d].shown
                      /\ row[d].excused \subseteq row'[d].excused

KeyStays(d, f) ==
  /\ <<d, f>> \in object => <<d, f>> \in object'
  /\ <<d, f>> \in record => <<d, f>> \in record'

LEMMA FitsStay ==
  ASSUME RowsStay, NEW p, NEW q, q.drawing = p.drawing
  PROVE  /\ SweepFits(p) /\ q.files = p.files => SweepFits(q)'
         /\ CopyFits(p) /\ q.before = p.before => CopyFits(q)'
  <1>1. ASSUME SweepFits(p), q.files = p.files PROVE SweepFits(q)'
    BY <1>1 DEF RowsStay, SweepFits
  <1>2. ASSUME CopyFits(p), q.before = p.before PROVE CopyFits(q)'
    BY <1>2 DEF RowsStay, CopyFits, Keyed
  <1>3. QED BY <1>1, <1>2

\* A request that is not the one that acts: it is hit, or out of date, or as it was.
LEMMA OthersStay ==
  ASSUME NEW p \in HandlerState, HandlerOK(p), NEW q \in HandlerState,
         \/ q = p
         \/ p.pc \in {"put", "read", "sweep", "copy"}
              /\ \E files \in SUBSET FileIds : q = [p EXCEPT !.hit = p.hit \cup files]
         \/ p.pc = "put" /\ q = [p EXCEPT !.fresh = FALSE],
         p.pc \in {"put", "read", "sweep", "copy"} =>
           \A f \in FileIds \ q.hit : KeyStays(p.drawing, f),
         p.pc \in {"read", "sweep"} => SweepFits(q)',
         p.pc = "copy" => CopyFits(q)'
  PROVE  HandlerOK(q)'
  <1>1. CASE p.pc = "put"
    <2>1. p \in PutStates
      BY <1>1, StateKinds
    <2>2. /\ q.pc = "put" /\ q.drawing = p.drawing /\ q.after = p.after
          /\ q.upload = p.upload /\ q.enter = p.enter /\ q.removed = p.removed
          /\ p.hit \subseteq q.hit
      BY <1>1, <2>1 DEF PutStates
    <2>3. \A f \in FileIds \ q.hit : KeyStays(p.drawing, f)
      BY <1>1
    <2>4. PutOK(q)'
      BY <1>1, <2>2, <2>3 DEF HandlerOK, PutOK, KeyStays
    <2>5. QED BY <2>2, <2>4 DEF HandlerOK
  <1>2. CASE p.pc \in {"read", "sweep"}
    <2>1. p \in SweepStates
      BY <1>2, StateKinds
    <2>2. /\ q.pc = p.pc /\ q.drawing = p.drawing /\ q.after = p.after
          /\ q.files = p.files /\ q.objects = p.objects /\ q.rows = p.rows
          /\ p.hit \subseteq q.hit
      BY <1>2, <2>1 DEF SweepStates
    <2>3. \A f \in FileIds \ q.hit : KeyStays(p.drawing, f)
      BY <1>2
    <2>4. SweepOK(q)'
      BY <1>2, <2>2, <2>3
      DEF HandlerOK, SweepOK, KeyStays, Served, Records, ListS3Objects
    <2>5. QED BY <1>2, <2>2, <2>4 DEF HandlerOK
  <1>3. CASE p.pc = "copy"
    <2>1. p \in CopyStates
      BY <1>3, StateKinds
    <2>2. /\ q.pc = p.pc /\ q.drawing = p.drawing /\ q.before = p.before
          /\ q.left = p.left /\ q.found = p.found /\ q.enter = p.enter /\ q.made = p.made
          /\ p.hit \subseteq q.hit
      BY <1>3, <2>1 DEF CopyStates
    <2>3. \A f \in p.made \ q.hit : KeyStays(p.drawing, f)
      BY <1>3, <2>1 DEF CopyStates
    <2>4. CopyOK(q)'
      BY <1>3, <2>2, <2>3 DEF HandlerOK, CopyOK, KeyStays, Keyed
    <2>5. QED BY <1>3, <2>2, <2>4 DEF HandlerOK
  <1>4. CASE p.pc \notin {"put", "read", "sweep", "copy"}
    BY <1>4 DEF HandlerOK
  <1>5. QED BY <1>1, <1>2, <1>3, <1>4

-----------------------------------------------------------------------------
(* Steps that leave entries and what is shown as they are. *)

\* What the rows, the jobs and the handlers must be for the types.
LEMMA TypesStay ==
  ASSUME FilesTypeOK, row' \in [Drawings -> Row],
         object' \subseteq Drawings \X FileIds, record' \subseteq Drawings \X FileIds,
         handler' \in [Handlers -> HandlerState], jobs' \subseteq Job,
         There \subseteq There',
         \A s \in snaps' : s \in snaps \/ s \in [drawing : There', files : Entries]
  PROVE  FilesTypeOK'
  <1>1. snaps' \subseteq [drawing : There', files : Entries]
    BY DEF FilesTypeOK
  <1>2. QED BY <1>1 DEF FilesTypeOK

\* What was to be deleted still is, and nothing else that the drawing has an entry for.
JobsFollow ==
  \A j \in jobs' : j.pc # "count" =>
    \/ \E k \in jobs : k.pc # "count" /\ k.drawing = j.drawing /\ k.file = j.file
    \/ j.drawing \in There => row[j.drawing].files[j.file] # Own

\* Keys go, and only those of excused or missing entries.
LEMMA StoresStay ==
  ASSUME FilesTypeOK, OwnAreServed, CondemnedAreExcused, RowsStay, jobs' \subseteq Job,
         JobsFollow,
         \A d \in There, f \in FileIds :
           \/ KeyStays(d, f)
           \/ row[d].files[f] = Own => f \in row'[d].excused
  PROVE  OwnAreServed' /\ CondemnedAreExcused'
  <1>1. OwnAreServed'
    <2> SUFFICES ASSUME NEW d \in There', NEW f \in FileIds \ row'[d].excused,
                        row'[d].files[f] = Own
                 PROVE  Served(d, f)'
      BY DEF OwnAreServed
    <2>1. d \in There /\ row[d].files[f] = Own /\ f \notin row[d].excused
      BY DEF RowsStay
    <2>2. Served(d, f) /\ KeyStays(d, f)
      BY <2>1 DEF OwnAreServed
    <2>3. QED BY <2>2 DEF Served, KeyStays, Records, ListS3Objects
  <1>2. CondemnedAreExcused'
    <2> SUFFICES ASSUME NEW j \in jobs', j.pc # "count", j.drawing \in There',
                        row'[j.drawing].files[j.file] = Own
                 PROVE  j.file \in row'[j.drawing].excused
      BY DEF CondemnedAreExcused
    <2>1. j.drawing \in There /\ row[j.drawing].files[j.file] = Own
      BY DEF RowsStay
    <2>2. PICK k \in jobs : k.pc # "count" /\ k.drawing = j.drawing /\ k.file = j.file
      BY <2>1 DEF JobsFollow
    <2>3. j.file \in row[j.drawing].excused
      BY <2>1, <2>2 DEF CondemnedAreExcused
    <2>4. QED BY <2>1, <2>3 DEF RowsStay
  <1>3. QED BY <1>1, <1>2

\* One request goes on; the stores may grow.
LEMMA GoesOn ==
  ASSUME FInv, NEW h \in Handlers, NEW q \in HandlerState,
         handler' = [handler EXCEPT ![h] = q], HandlerOK(q)',
         UNCHANGED <<row, snaps, jobs>>,
         object \subseteq object', record \subseteq record',
         object' \subseteq Drawings \X FileIds, record' \subseteq Drawings \X FileIds
  PROVE  FInv'
  <1>1. RowsStay /\ There' = There
    BY DEF RowsStay, There
  <1>2. \A d, f : KeyStays(d, f)
    BY DEF KeyStays
  <1>3. handler' \in [Handlers -> HandlerState]
    BY DEF FInv, FilesTypeOK
  <1>4. FilesTypeOK'
    BY <1>1, <1>3, TypesStay DEF FInv, FilesTypeOK
  <1>5. JobsFollow /\ jobs' \subseteq Job
    BY DEF JobsFollow, FInv, FilesTypeOK
  <1>6. OwnAreServed' /\ CondemnedAreExcused'
    BY <1>1, <1>2, <1>5, StoresStay DEF FInv
  <1>7. ASSUME NEW i \in Handlers PROVE HandlerOK(handler[i])'
    <2>1. CASE i = h
      BY <2>1 DEF FInv, FilesTypeOK, HandlerOK
    <2>2. CASE i # h
      <3>1. handler[i] \in HandlerState /\ HandlerOK(handler[i]) /\ handler'[i] = handler[i]
        BY <2>2 DEF FInv, FilesTypeOK
      <3>2. PICK q0 : q0 = handler[i]
        OBVIOUS
      <3>3. /\ SweepFits(q0) => SweepFits(q0)'
            /\ CopyFits(q0) => CopyFits(q0)'
        BY <1>1, FitsStay
      <3>4. HandlerOK(q0)'
        BY <1>2, <3>1, <3>2, <3>3, OthersStay DEF HandlerOK
      <3>5. QED BY <3>1, <3>2, <3>4 DEF HandlerOK
    <2>3. QED BY <2>1, <2>2
  <1>8. QED BY <1>4, <1>6, <1>7 DEF FInv

\* Keys of a drawing are deleted, by a request that goes on as q or by a job.
LEMMA Strikes ==
  ASSUME FInv, NEW d \in Drawings, NEW files \in SUBSET FileIds,
         object \ ({d} \X files) \subseteq object', object' \subseteq object,
         record \ ({d} \X files) \subseteq record', record' \subseteq record,
         RowsStay, row' \in [Drawings -> Row], snaps' = snaps,
         d \in There => \A f \in files : row[d].files[f] = Own => f \in row'[d].excused,
         jobs' \subseteq Job, JobsFollow,
         \/ handler' = Hit(d, files)
         \/ \E h \in Handlers, q \in HandlerState :
              handler' = [Hit(d, files) EXCEPT ![h] = q] /\ HandlerOK(q)'
  PROVE  FInv'
  <1>1. \A e \in Drawings, f \in FileIds : e # d \/ f \notin files => KeyStays(e, f)
    BY DEF KeyStays
  <1>2. \A i \in Handlers : \/ handler'[i] = Hit(d, files)[i]
                            \/ handler'[i] \in HandlerState /\ HandlerOK(handler[i])'
    <2>1. CASE handler' = Hit(d, files)
      BY <2>1
    <2>2. ASSUME NEW h \in Handlers, NEW q \in HandlerState,
                 handler' = [Hit(d, files) EXCEPT ![h] = q], HandlerOK(q)'
          PROVE  \A i \in Handlers :
                   \/ handler'[i] = Hit(d, files)[i]
                   \/ handler'[i] \in HandlerState /\ HandlerOK(handler[i])'
      <3>1. DOMAIN Hit(d, files) = Handlers
        BY DEF Hit
      <3>2. handler'[h] = q /\ \A i \in Handlers : i # h => handler'[i] = Hit(d, files)[i]
        BY <2>2, <3>1
      <3>3. HandlerOK(handler[h])'
        BY <2>2, <3>2 DEF HandlerOK
      <3>4. QED BY <2>2, <3>2, <3>3
    <2>3. QED BY <2>1, <2>2
  <1>3. DOMAIN handler' = Handlers /\ handler' = [i \in Handlers |-> handler'[i]]
    BY DEF Hit
  <1>4. handler' \in [Handlers -> HandlerState]
    <2>1. \A i \in Handlers : handler'[i] \in HandlerState
      <3>1. \A i \in Handlers : Hit(d, files)[i] \in HandlerState
        BY HitFacts DEF FInv
      <3>2. QED BY <1>2, <3>1
    <2>2. QED BY <1>3, <2>1
  <1>5. There' = There
    BY DEF RowsStay
  <1>6. FilesTypeOK'
    BY <1>4, <1>5, TypesStay DEF FInv, FilesTypeOK
  <1>7. OwnAreServed' /\ CondemnedAreExcused'
    <2>1. \A e \in There, f \in FileIds :
            \/ KeyStays(e, f)
            \/ row[e].files[f] = Own => f \in row'[e].excused
      BY <1>1 DEF There
    <2>2. QED BY <2>1, StoresStay DEF FInv
  <1>8. ASSUME NEW i \in Handlers PROVE HandlerOK(handler[i])'
    <2>1. CASE handler'[i] = Hit(d, files)[i]
      <3>1. handler[i] \in HandlerState /\ HandlerOK(handler[i])
        BY DEF FInv, FilesTypeOK
      <3>2. PICK p, q : p = handler[i] /\ q = handler'[i]
        OBVIOUS
      <3>3. /\ q \in HandlerState
            /\ \/ q = p /\ ~(p.pc \in {"put", "read", "sweep", "copy"} /\ p.drawing = d)
               \/ /\ p.pc \in {"put", "read", "sweep", "copy"} /\ p.drawing = d
                  /\ q = [p EXCEPT !.hit = p.hit \cup files]
        BY <2>1, <3>2, HitFacts DEF FInv
      <3>4. p.pc \in {"put", "read", "sweep", "copy"} =>
              /\ p.drawing \in Drawings /\ q.drawing = p.drawing
              /\ p.drawing = d => files \subseteq q.hit
        BY <3>1, <3>2, <3>3, StateKinds DEF PutStates, SweepStates, CopyStates
      <3>5. p.pc \in {"put", "read", "sweep", "copy"} =>
              \A f \in FileIds \ q.hit : KeyStays(p.drawing, f)
        BY <1>1, <3>4
      <3>6. p.pc \in {"read", "sweep"} => SweepFits(q)'
        <4>1. p.pc \in {"read", "sweep"} => q.files = p.files
          BY <3>1, <3>2, <3>3, StateKinds DEF SweepStates
        <4>2. QED BY <3>1, <3>2, <3>4, <4>1, FitsStay DEF HandlerOK
      <3>7. p.pc = "copy" => CopyFits(q)'
        <4>1. p.pc = "copy" => q.before = p.before
          BY <3>1, <3>2, <3>3, StateKinds DEF CopyStates
        <4>2. QED BY <3>1, <3>2, <3>4, <4>1, FitsStay DEF HandlerOK
      <3>8. HandlerOK(p) /\ p \in HandlerState
        BY <3>1, <3>2
      <3>9. HandlerOK(q)'
        BY ONLY <3>3, <3>5, <3>6, <3>7, <3>8, OthersStay
      <3>10. QED BY <3>2, <3>9 DEF HandlerOK
    <2>2. QED BY <1>2, <2>1
  <1>9. QED BY <1>6, <1>7, <1>8 DEF FInv

-----------------------------------------------------------------------------
(* Steps that write a row. *)

\* Whoever else may delete objects of the drawing is pending.
LEMMA PendingFacts ==
  ASSUME FilesTypeOK, NEW h, NEW d \in Drawings
  PROVE  /\ \A j \in jobs : j.drawing = d /\ j.pc # "count" => j.file \in Pending(h, d)
         /\ \A i \in Handlers \ {h} :
              /\ handler[i].pc \in {"read", "sweep"} /\ handler[i].drawing = d =>
                   handler[i].files \subseteq Pending(h, d)
              /\ handler[i].pc = "copy" /\ handler[i].drawing = d =>
                   Keyed(handler[i].before) \subseteq Pending(h, d)
         /\ Pending(h, d) \subseteq FileIds
  <1> DEFINE Sweeps == {g \in Handlers \ {h} :
                          handler[g].pc \in {"read", "sweep"} /\ handler[g].drawing = d}
             Copies == {g \in Handlers \ {h} :
                          handler[g].pc = "copy" /\ handler[g].drawing = d}
             Jobs == {i \in jobs : i.drawing = d /\ i.pc # "count"}
             ByJobs == {j.file : j \in Jobs}
             BySweeps == UNION {handler[i].files : i \in Sweeps}
             ByCopies == UNION {Keyed(handler[i].before) : i \in Copies}
  <1>1. Pending(h, d) = ByJobs \cup BySweeps \cup ByCopies
    BY DEF Pending
  <1>2. \A j \in jobs : j.drawing = d /\ j.pc # "count" => j.file \in ByJobs
    OBVIOUS
  <1>3. \A i \in Sweeps : handler[i].files \subseteq BySweeps
    OBVIOUS
  <1>4. \A i \in Copies : Keyed(handler[i].before) \subseteq ByCopies
    OBVIOUS
  <1>5. BySweeps \subseteq FileIds
    <2>1. \A i \in Sweeps : handler[i].files \subseteq FileIds
      BY StateKinds DEF FilesTypeOK, SweepStates
    <2>2. QED BY <2>1
  <1>6. ByCopies \subseteq FileIds
    BY DEF Keyed
  <1>7. ByJobs \subseteq FileIds
    BY DEF FilesTypeOK, Job
  <1>8. \A i \in Handlers \ {h} :
          /\ handler[i].pc \in {"read", "sweep"} /\ handler[i].drawing = d => i \in Sweeps
          /\ handler[i].pc = "copy" /\ handler[i].drawing = d => i \in Copies
    OBVIOUS
  <1> HIDE DEF Sweeps, Copies, Jobs, ByJobs, BySweeps, ByCopies
  <1>9. QED BY ONLY <1>1, <1>2, <1>3, <1>4, <1>5, <1>6, <1>7, <1>8

\* The entries of the row are served or excused, and so are those that somebody other
\* than h is about to delete.
RowIsGood(h, d, r) ==
  /\ r \in Row /\ r.state = "there"
  /\ \A f \in FileIds : r.files[f] = Own /\ f \notin r.excused => Served(d, f)
  /\ \A f \in Pending(h, d) : r.files[f] = Own => f \in r.excused

SnapsFollow == \A s \in snaps' : s \in snaps \/ s \in [drawing : There', files : Entries]

\* Deletions that begin are of what the row has no entry of its own for.
JobsBegin(d, r) ==
  /\ jobs' \subseteq Job
  /\ \A j \in jobs' : j.pc # "count" =>
       j \in jobs \/ (j.drawing = d /\ r.files[j.file] # Own)

OthersGoOn(h) ==
  /\ DOMAIN handler' = Handlers /\ handler' = [i \in Handlers |-> handler'[i]]
  /\ \A i \in Handlers :
       \/ handler'[i] \in HandlerState /\ HandlerOK(handler[i])'
       \/ /\ i # h
          /\ \/ handler'[i] = handler[i]
             \/ handler[i].pc = "put" /\ handler'[i] = [handler[i] EXCEPT !.fresh = FALSE]

LEMMA Writes ==
  ASSUME FInv, NEW h, NEW d \in Drawings, NEW r, row' = [row EXCEPT ![d] = r],
         UNCHANGED <<object, record>>, RowIsGood(h, d, r), SnapsFollow, JobsBegin(d, r),
         OthersGoOn(h)
  PROVE  FInv'
  <1> USE DEF RowIsGood, SnapsFollow, JobsBegin, OthersGoOn
  <1>1. /\ row' \in [Drawings -> Row] /\ There' = There \cup {d}
        /\ row'[d] = r /\ \A e \in Drawings \ {d} : row'[e] = row[e]
    BY DEF FInv, FilesTypeOK, There
  <1>2. \A e, f : KeyStays(e, f) /\ Served(e, f) = Served(e, f)'
    BY DEF KeyStays, Served, Records, ListS3Objects
  <1>3. \A i \in Handlers : handler'[i] \in HandlerState
    <2> SUFFICES ASSUME NEW i \in Handlers PROVE handler'[i] \in HandlerState
      OBVIOUS
    <2>1. handler[i] \in HandlerState
      BY DEF FInv, FilesTypeOK
    <2>2. ASSUME handler[i].pc = "put" PROVE [handler[i] EXCEPT !.fresh = FALSE] \in PutStates
      BY ONLY <2>1, <2>2, StateKinds DEF PutStates
    <2>3. QED BY <2>1, <2>2, StateKinds
  <1>4. FilesTypeOK'
    <2>1. handler' \in [Handlers -> HandlerState]
      BY <1>3
    <2>2. QED BY <1>1, <2>1, TypesStay DEF FInv, FilesTypeOK
  <1>5. OwnAreServed'
    BY <1>1, <1>2 DEF FInv, OwnAreServed, There
  <1>6. CondemnedAreExcused'
    <2> SUFFICES ASSUME NEW j \in jobs', j.pc # "count", j.drawing \in There',
                        row'[j.drawing].files[j.file] = Own
                 PROVE  j.file \in row'[j.drawing].excused
      BY DEF CondemnedAreExcused
    <2>1. CASE j \in jobs /\ j.drawing = d
      BY <1>1, <2>1, PendingFacts DEF FInv
    <2>2. CASE j \in jobs /\ j.drawing # d
      BY <1>1, <2>2 DEF FInv, CondemnedAreExcused, There
    <2>3. CASE j.drawing = d /\ r.files[j.file] # Own
      BY <1>1, <2>3
    <2>4. QED BY <2>1, <2>2, <2>3
  <1>7. ASSUME NEW i \in Handlers PROVE HandlerOK(handler[i])'
    <2>1. CASE HandlerOK(handler[i])'
      BY <2>1
    <2>2. CASE /\ i # h
               /\ \/ handler'[i] = handler[i]
                  \/ handler[i].pc = "put" /\ handler'[i] = [handler[i] EXCEPT !.fresh = FALSE]
      <3>1. handler[i] \in HandlerState /\ HandlerOK(handler[i]) /\ handler'[i] \in HandlerState
        BY <1>3 DEF FInv, FilesTypeOK
      <3>2. PICK p, q : p = handler[i] /\ q = handler'[i]
        OBVIOUS
      <3>3. ASSUME p.pc \in {"read", "sweep"} PROVE SweepFits(q)'
        <4>1. q = p /\ SweepFits(p) /\ p.files \subseteq FileIds /\ p.drawing \in Drawings
          BY <2>2, <3>1, <3>2, <3>3, StateKinds DEF HandlerOK, SweepStates
        <4>2. CASE p.drawing = d
          BY <1>1, <2>2, <3>2, <3>3, <4>1, <4>2, PendingFacts DEF FInv, SweepFits
        <4>3. CASE p.drawing # d
          BY <1>1, <4>1, <4>3 DEF SweepFits
        <4>4. QED BY <4>2, <4>3
      <3>4. ASSUME p.pc = "copy" PROVE CopyFits(q)'
        <4>1. q = p /\ CopyFits(p) /\ p.drawing \in Drawings
          BY <2>2, <3>1, <3>2, <3>4, StateKinds DEF HandlerOK, CopyStates
        <4>2. CASE p.drawing = d
          <5>1. \A f \in Keyed(p.before) : r.files[f] = Own => f \in r.excused
            BY <2>2, <3>2, <3>4, <4>2, PendingFacts DEF FInv
          <5>2. QED BY <1>1, <4>1, <4>2, <5>1 DEF CopyFits, Keyed
        <4>3. CASE p.drawing # d
          BY <1>1, <4>1, <4>3 DEF CopyFits, Keyed
        <4>4. QED BY <4>2, <4>3
      <3>5. p \in HandlerState /\ HandlerOK(p) /\ q \in HandlerState
            /\ (q = p \/ (p.pc = "put" /\ q = [p EXCEPT !.fresh = FALSE]))
        BY <2>2, <3>1, <3>2
      <3>6. HandlerOK(q)'
        BY ONLY <1>2, <3>3, <3>4, <3>5, OthersStay
      <3>7. QED BY <3>2, <3>6 DEF HandlerOK
    <2>3. QED BY <2>1, <2>2
  <1>8. QED BY <1>4, <1>5, <1>6, <1>7 DEF FInv

\* The rows and the stores stay; requests end or are out of date, jobs go on.
LEMMA Leaves ==
  ASSUME FInv, UNCHANGED <<row, object, record>>, snaps' \subseteq snaps,
         jobs' \subseteq Job, JobsFollow,
         DOMAIN handler' = Handlers, handler' = [i \in Handlers |-> handler'[i]],
         \A i \in Handlers :
           \/ handler'[i] = IdleHandler
           \/ handler'[i] = handler[i]
           \/ handler[i].pc = "put" /\ handler'[i] = [handler[i] EXCEPT !.fresh = FALSE]
  PROVE  FInv'
  <1>1. RowsStay /\ There' = There
    BY DEF RowsStay, There
  <1>2. \A d, f : KeyStays(d, f)
    BY DEF KeyStays
  <1>3. ASSUME NEW i \in Handlers
        PROVE  handler'[i] \in HandlerState /\ HandlerOK(handler[i])'
    <2>1. handler[i] \in HandlerState /\ HandlerOK(handler[i])
      BY DEF FInv, FilesTypeOK
    <2>2. CASE handler'[i] = IdleHandler
      BY <2>2, StateKinds DEF HandlerOK, IdleHandler
    <2>3. CASE \/ handler'[i] = handler[i]
               \/ handler[i].pc = "put" /\ handler'[i] = [handler[i] EXCEPT !.fresh = FALSE]
      <3>1. PICK p, q : p = handler[i] /\ q = handler'[i]
        OBVIOUS
      <3>2. p.pc = "put" => /\ [p EXCEPT !.fresh = FALSE] \in PutStates
                            /\ [p EXCEPT !.fresh = FALSE].drawing = p.drawing
        BY <2>1, <3>1, StateKinds DEF PutStates
      <3>3. /\ p \in HandlerState /\ HandlerOK(p) /\ q \in HandlerState
            /\ q = p \/ (p.pc = "put" /\ q = [p EXCEPT !.fresh = FALSE])
        BY <2>1, <2>3, <3>1, <3>2, StateKinds
      <3>4. /\ p.pc \in {"read", "sweep"} => SweepFits(q)'
            /\ p.pc = "copy" => CopyFits(q)'
        BY <1>1, <3>3, FitsStay DEF HandlerOK
      <3>5. HandlerOK(q)'
        BY ONLY <1>2, <3>3, <3>4, OthersStay
      <3>6. QED BY <3>1, <3>3, <3>5 DEF HandlerOK
    <2>4. QED BY <2>2, <2>3
  <1>4. handler' \in [Handlers -> HandlerState]
    BY <1>3
  <1>5. FilesTypeOK'
    BY <1>1, <1>4, TypesStay DEF FInv, FilesTypeOK
  <1>6. OwnAreServed' /\ CondemnedAreExcused'
    BY <1>1, <1>2, StoresStay DEF FInv
  <1>7. QED BY <1>3, <1>5, <1>6 DEF FInv

LEMMA IdleFacts == IdleHandler \in HandlerState /\ HandlerOK(IdleHandler)'
  BY StateKinds DEF HandlerOK, IdleHandler

-----------------------------------------------------------------------------
(* The steps, one by one: what begins a request. *)

\* What a put has read, uploads and will write.
LEMMA PutKeeps ==
  ASSUME FInv, NEW h \in Handlers, NEW d \in Drawings, NEW new \in BOOLEAN,
         NEW before \in Entries, NEW kept \in SUBSET Keyed(before),
         NEW inline \in SUBSET FileIds, NEW shown \in SUBSET FileIds,
         d \in There => before = row[d].files,
         d \notin There => kept = {},
         Put(h, d, new, before, kept, inline, shown)
  PROVE  FInv'
  <1> DEFINE after == [f \in FileIds |-> IF f \in inline THEN Own
                                         ELSE IF f \in kept THEN before[f] ELSE Nothing]
             hit == IF d \in There THEN row[d].excused \ inline ELSE {}
             q == [pc |-> "put", drawing |-> d, new |-> new,
                   removed |-> Keyed(before) \ (kept \cup inline), after |-> after,
                   shown |-> shown, inline |-> inline, upload |-> inline, enter |-> {},
                   fresh |-> TRUE, hit |-> hit]
  <1>1. /\ handler' = [handler EXCEPT ![h] = q]
        /\ UNCHANGED <<row, snaps, object, record, jobs>>
    BY DEF Put, Begins
  <1>2. after \in Entries
    BY DEF Entries
  <1>3. hit \in SUBSET FileIds
    BY RowKinds DEF FInv
  <1>4. q \in PutStates
    BY <1>2, <1>3 DEF PutStates, Keyed
  <1>5. \A f \in FileIds \ hit : after[f] = Own /\ f \notin inline => Served(d, f)
    <2> SUFFICES ASSUME NEW f \in FileIds \ hit, after[f] = Own, f \notin inline
                 PROVE  Served(d, f)
      OBVIOUS
    <2>1. f \in kept /\ before[f] = Own
      BY FilesAssumption
    <2>2. d \in There /\ row[d].files[f] = Own /\ f \notin row[d].excused
      BY <2>1
    <2>3. QED BY <2>2 DEF FInv, OwnAreServed
  <1>6. \A f \in Keyed(before) \ (kept \cup inline) : after[f] # Own
    BY FilesAssumption DEF Keyed
  <1>7. PICK p, a, x : p = q /\ a = after /\ x = hit
    OBVIOUS
  <1>8. /\ p.pc = "put" /\ p.hit = x /\ p.after = a /\ p.upload = inline
        /\ p.drawing = d /\ p.removed = Keyed(before) \ (kept \cup inline)
        /\ p \in HandlerState
    BY <1>4, <1>7, StateKinds
  <1>9. \A f \in FileIds \ x : a[f] = Own /\ f \notin inline => Served(d, f)
    BY <1>5, <1>7
  <1>10. \A f \in Keyed(before) \ (kept \cup inline) : a[f] # Own
    BY <1>6, <1>7
  <1>11. handler' = [handler EXCEPT ![h] = p]
    BY <1>1, <1>7
  <1> HIDE DEF q, after, hit
  <1>12. HandlerOK(p)'
    BY <1>1, <1>8, <1>9, <1>10 DEF HandlerOK, PutOK, Served, Records, ListS3Objects
  <1>13. object' \subseteq Drawings \X FileIds /\ record' \subseteq Drawings \X FileIds
    BY <1>1 DEF FInv, FilesTypeOK
  <1>14. QED BY <1>1, <1>8, <1>11, <1>12, <1>13, GoesOn

LEMMA CreateKeeps ==
  ASSUME FInv, NEW h \in Handlers, NEW d \in Drawings, CreateDrawing(h, d) PROVE FInv'
  <1>1. [f \in FileIds |-> Nothing] \in Entries
    BY DEF Entries
  <1>2. d \notin There
    BY DEF CreateDrawing, Unused, There
  <1>3. PICK sent \in SUBSET FileIds, inline \in SUBSET FileIds :
          Put(h, d, TRUE, [f \in FileIds |-> Nothing], {}, inline, sent)
    BY DEF CreateDrawing, EnforceFileSizeLimit
  <1>4. QED BY <1>1, <1>2, <1>3, PutKeeps

LEMMA SaveKeeps ==
  ASSUME FInv, NEW h \in Handlers, NEW d \in Drawings, SaveDrawing(h, d) PROVE FInv'
  <1>1. d \in There
    BY DEF SaveDrawing
  <1>2. row[d].files \in Entries
    BY <1>1, RowKinds DEF FInv
  <1>3. PICK kept \in SUBSET Keyed(row[d].files), sent \in SUBSET FileIds :
          \E inline \in SUBSET sent : \E shown \in SUBSET (kept \cup sent) :
            Put(h, d, FALSE, row[d].files, kept, inline, shown)
    BY DEF SaveDrawing, EnforceFileSizeLimit
  <1>4. PICK inline \in SUBSET FileIds, shown \in SUBSET FileIds :
          Put(h, d, FALSE, row[d].files, kept, inline, shown)
    BY <1>3 DEF Keyed
  <1>5. QED BY <1>1, <1>2, <1>4, PutKeeps

\* A request that begins or goes on without touching a store.
LEMMA Turns ==
  ASSUME FInv, NEW h \in Handlers, NEW q \in HandlerState,
         handler' = [handler EXCEPT ![h] = q], HandlerOK(q)',
         UNCHANGED <<row, snaps, object, record, jobs>>
  PROVE  FInv'
  <1>1. object' \subseteq Drawings \X FileIds /\ record' \subseteq Drawings \X FileIds
    BY DEF FInv, FilesTypeOK
  <1>2. QED BY <1>1, GoesOn

\* What a trim or a removal has read.
LEMMA ReadFacts ==
  ASSUME FInv, NEW d \in There, NEW trim \in BOOLEAN, NEW files \in SUBSET FileIds,
         files \cap row[d].shown = {}, UNCHANGED <<row, object, record>>,
         NEW q, q = Read(d, trim, files)
  PROVE  q \in HandlerState /\ HandlerOK(q)'
  <1>1. /\ d \in Drawings /\ row[d].files \in Entries /\ row[d].shown \in SUBSET FileIds
        /\ row[d].excused \in SUBSET FileIds
    BY RowKinds DEF FInv
  <1> DEFINE after == [f \in FileIds |-> IF f \in files THEN Nothing ELSE row[d].files[f]]
  <1>2. after \in Entries
    BY <1>1 DEF Entries
  <1>3. q \in SweepStates
    BY <1>1, <1>2 DEF Read, SweepStates
  <1>4. /\ q.pc = "read" /\ q.files = files /\ q.objects = {} /\ q.rows = {}
        /\ q.drawing = d /\ q.after = after /\ q.hit = row[d].excused
    BY DEF Read
  <1>5. \A f \in files : q.after[f] # Own
    BY <1>4, FilesAssumption
  <1>6. \A f \in FileIds \ q.hit : q.after[f] = Own => Served(q.drawing, f)
    <2> SUFFICES ASSUME NEW f \in FileIds \ row[d].excused, after[f] = Own
                 PROVE  Served(d, f)
      BY <1>4
    <2>1. row[d].files[f] = Own
      BY FilesAssumption
    <2>2. QED BY <2>1 DEF FInv, OwnAreServed
  <1>7. SweepOK(q)'
    <2>1. q.objects \cup q.rows \subseteq q.files
      BY <1>4
    <2>2. \A f \in q.files : q.after[f] # Own
      BY <1>4, <1>5
    <2>3. QED BY <1>6, <2>1, <2>2 DEF SweepOK, Served, Records, ListS3Objects
  <1>8. SweepFits(q)'
    BY <1>4 DEF SweepFits
  <1>9. QED BY <1>3, <1>4, <1>7, <1>8, StateKinds DEF HandlerOK

\* The requests that only end, or find something out.
LEMMA AskKeeps ==
  ASSUME FInv, NEW h \in Handlers, NEW d \in Drawings,
         DeleteDrawing(h, d) \/ Diff(h, d) \/ Trim(h, d)
  PROVE  FInv'
  <1>1. CASE DeleteDrawing(h, d)
    <2>1. PICK q : q = [pc |-> "delete", drawing |-> d, removed |-> Keyed(row[d].files)]
      OBVIOUS
    <2>2. q \in HandlerState /\ HandlerOK(q)'
      BY <2>1, StateKinds DEF DeleteStates, HandlerOK, Keyed
    <2>3. QED BY <1>1, <2>1, <2>2, Turns DEF DeleteDrawing, Begins
  <1>2. CASE Diff(h, d)
    <2>1. PICK q : q = [pc |-> "diff", drawing |-> d, hidden |-> FileIds \ row[d].shown,
                        entered |-> Keyed(row[d].files)]
      OBVIOUS
    <2>2. q \in HandlerState /\ HandlerOK(q)'
      BY <2>1, StateKinds DEF DiffStates, HandlerOK, Keyed
    <2>3. QED BY <1>2, <2>1, <2>2, Turns DEF Diff, Begins
  <1>3. CASE Trim(h, d)
    <2>1. PICK q : q = Read(d, TRUE, FileIds \ row[d].shown)
      OBVIOUS
    <2>2. d \in There /\ UNCHANGED <<row, object, record>>
      BY <1>3 DEF Trim
    <2>3. q \in HandlerState /\ HandlerOK(q)'
      BY <2>1, <2>2, ReadFacts
    <2>4. QED BY <1>3, <2>1, <2>3, Turns DEF Trim, Begins
  <1>4. QED BY <1>1, <1>2, <1>3

LEMMA PageKeeps ==
  ASSUME FInv, NEW h \in Handlers, NEW files \in SUBSET FileIds,
         DiffList(h) \/ CloseStorage(h) \/ DeleteOrphans(h, files) \/ PutFails(h)
  PROVE  FInv'
  <1>1. handler[h] \in HandlerState
    BY DEF FInv, FilesTypeOK
  <1>2. CASE DiffList(h)
    <2> DEFINE p == handler[h]
               listed == p.hidden \cap (p.entered \cup Records(p.drawing)
                                          \cup ListS3Objects(p.drawing))
    <2>1. PICK q : q = IF listed = {} THEN IdleHandler
                       ELSE [pc |-> "choose", drawing |-> p.drawing, files |-> listed]
      OBVIOUS
    <2>2. p \in DiffStates
      BY <1>1, <1>2, StateKinds DEF DiffList
    <2>3. listed \in SUBSET FileIds /\ p.drawing \in Drawings
      BY <2>2 DEF DiffStates
    <2>4. q \in HandlerState /\ HandlerOK(q)'
      BY <2>1, <2>3, IdleFacts, StateKinds DEF ChooseStates, HandlerOK
    <2>5. QED BY <1>2, <2>1, <2>4, Turns DEF DiffList
  <1>3. CASE CloseStorage(h) \/ PutFails(h)
    BY <1>3, IdleFacts, Turns DEF CloseStorage, PutFails
  <1>4. CASE DeleteOrphans(h, files)
    <2>1. UNCHANGED <<row, snaps, object, record, jobs>>
      BY <1>4 DEF DeleteOrphans
    <2>2. CASE /\ handler[h].drawing \in There
               /\ files \cap row[handler[h].drawing].shown = {}
      <3>1. PICK q : q = Read(handler[h].drawing, FALSE, files)
        OBVIOUS
      <3>2. q \in HandlerState /\ HandlerOK(q)'
        BY <2>1, <2>2, <3>1, ReadFacts
      <3>3. QED BY <1>4, <2>1, <2>2, <3>1, <3>2, Turns DEF DeleteOrphans
    <2>3. CASE ~(/\ handler[h].drawing \in There
                 /\ files \cap row[handler[h].drawing].shown = {})
      BY <1>4, <2>1, <2>3, IdleFacts, Turns DEF DeleteOrphans
    <2>4. QED BY <2>2, <2>3
  <1>5. QED BY <1>2, <1>3, <1>4

-----------------------------------------------------------------------------
(* What goes on with a request. *)

\* A file is uploaded before it is entered.
LEMMA UploadKeeps ==
  ASSUME FInv, NEW h \in Handlers, NEW f \in FileIds, Upload(h, f) PROVE FInv'
  <1>1. PICK p : p = handler[h]
    OBVIOUS
  <1>2. p \in PutStates /\ p.pc = "put" /\ f \in p.upload /\ PutOK(p)
    BY <1>1, StateKinds DEF FInv, FilesTypeOK, HandlerOK, Upload
  <1>3. PICK q : q = [p EXCEPT !.upload = p.upload \ {f}, !.enter = p.enter \cup {f}]
    OBVIOUS
  <1>4. /\ q \in PutStates /\ q.pc = "put" /\ q.drawing = p.drawing /\ q.after = p.after
        /\ q.hit = p.hit /\ q.removed = p.removed
        /\ q.upload = p.upload \ {f} /\ q.enter = p.enter \cup {f}
    BY <1>2, <1>3 DEF PutStates
  <1>5. /\ object' = object \cup {<<p.drawing, f>>} /\ UNCHANGED <<row, snaps, record, jobs>>
        /\ handler' = [handler EXCEPT ![h] = q]
    BY <1>1, <1>3 DEF Upload, UploadBuffer
  <1>6. PutOK(q)'
    BY <1>2, <1>4, <1>5 DEF PutOK
  <1>7. q \in HandlerState /\ HandlerOK(q)'
    BY <1>4, <1>6, StateKinds DEF HandlerOK
  <1>8. p.drawing \in Drawings
    BY <1>2 DEF PutStates
  <1>9. object' \subseteq Drawings \X FileIds /\ record' \subseteq Drawings \X FileIds
    BY <1>5, <1>8 DEF FInv, FilesTypeOK
  <1>10. QED BY <1>5, <1>7, <1>9, GoesOn

\* The row of a file whose object is there.
LEMMA EnterKeeps ==
  ASSUME FInv, NEW h \in Handlers, NEW f \in FileIds, Enter(h, f) PROVE FInv'
  <1>1. PICK p : p = handler[h]
    OBVIOUS
  <1>2. p \in HandlerState /\ HandlerOK(p) /\ f \in p.enter
    BY <1>1 DEF FInv, FilesTypeOK, Enter
  <1>3. PICK q : q = [p EXCEPT !.enter = p.enter \ {f}]
    OBVIOUS
  <1>4. /\ record' = record \cup {<<p.drawing, f>>} /\ UNCHANGED <<row, snaps, object, jobs>>
        /\ handler' = [handler EXCEPT ![h] = q] /\ p.pc \in {"put", "copy"}
    BY <1>1, <1>3 DEF Enter
  <1>5. There' = There
    BY <1>4 DEF There
  <1>6. q \in HandlerState /\ HandlerOK(q)' /\ p.drawing \in Drawings
    <2>1. CASE p.pc = "put"
      <3>1. p \in PutStates /\ PutOK(p)
        BY <1>2, <2>1, StateKinds DEF HandlerOK
      <3>2. /\ q \in PutStates /\ q.pc = "put" /\ q.drawing = p.drawing /\ q.after = p.after
            /\ q.hit = p.hit /\ q.removed = p.removed
            /\ q.upload = p.upload /\ q.enter = p.enter \ {f}
        BY <1>3, <2>1, <3>1 DEF PutStates
      <3>3. PutOK(q)'
        BY <1>4, <3>1, <3>2 DEF PutOK
      <3>4. p.drawing \in Drawings
        BY <3>1 DEF PutStates
      <3>5. QED BY <3>2, <3>3, <3>4, StateKinds DEF HandlerOK
    <2>2. CASE p.pc = "copy"
      <3>1. p \in CopyStates /\ CopyOK(p) /\ CopyFits(p)
        BY <1>2, <2>2, StateKinds DEF HandlerOK
      <3>2. /\ q \in CopyStates /\ q.pc = "copy" /\ q.drawing = p.drawing
            /\ q.before = p.before /\ q.hit = p.hit /\ q.left = p.left
            /\ q.found = p.found /\ q.made = p.made /\ q.enter = p.enter \ {f}
        BY <1>3, <2>2, <3>1 DEF CopyStates
      <3>3. CopyOK(q)'
        BY <1>4, <3>1, <3>2 DEF CopyOK, Keyed
      <3>4. CopyFits(q)'
        BY <1>4, <1>5, <3>1, <3>2 DEF CopyFits, Keyed
      <3>5. p.drawing \in Drawings
        BY <3>1 DEF CopyStates
      <3>6. QED BY <3>2, <3>3, <3>4, <3>5, StateKinds DEF HandlerOK
    <2>3. QED BY <1>4, <2>1, <2>2
  <1>7. object' \subseteq Drawings \X FileIds /\ record' \subseteq Drawings \X FileIds
    BY <1>4, <1>6 DEF FInv, FilesTypeOK
  <1>8. QED BY <1>4, <1>6, <1>7, GoesOn

\* A sweep finds what it will delete, all of it what it was asked for.
LEMMA ListKeeps ==
  ASSUME FInv, NEW h \in Handlers, SweepList(h) PROVE FInv'
  <1>1. PICK p : p = handler[h]
    OBVIOUS
  <1>2. p \in SweepStates /\ p.pc = "read" /\ SweepOK(p) /\ SweepFits(p)
    BY <1>1, StateKinds DEF FInv, FilesTypeOK, HandlerOK, SweepList
  <1>3. PICK known, listed :
          /\ known = p.files \cap Records(p.drawing)
          /\ listed = known \cup (IF p.trim THEN p.files \cap ListS3Objects(p.drawing) ELSE {})
    OBVIOUS
  <1>4. known \subseteq p.files /\ listed \subseteq p.files /\ p.files \subseteq FileIds
    BY <1>2, <1>3 DEF SweepStates
  <1>5. PICK q : q = [p EXCEPT !.pc = "sweep", !.trim = FALSE, !.rows = known,
                               !.objects = listed]
    OBVIOUS
  <1>6. /\ q \in SweepStates /\ q.pc = "sweep" /\ q.drawing = p.drawing
        /\ q.after = p.after /\ q.files = p.files /\ q.hit = p.hit
        /\ q.rows = known /\ q.objects = listed
    BY <1>2, <1>4, <1>5 DEF SweepStates
  <1>7. /\ UNCHANGED <<row, snaps, object, record, jobs>>
        /\ handler' = [handler EXCEPT ![h] = q]
    BY <1>1, <1>3, <1>5 DEF SweepList
  <1>8. SweepOK(q)'
    BY <1>2, <1>4, <1>6, <1>7 DEF SweepOK, Served, Records, ListS3Objects
  <1>9. SweepFits(q)'
    BY <1>2, <1>6, <1>7 DEF SweepFits, There
  <1>10. QED BY <1>6, <1>7, <1>8, <1>9, StateKinds, Turns DEF HandlerOK

\* A copy looks for an object of the original, and makes its own.
LEMMA CopyKeeps ==
  ASSUME FInv, NEW h \in Handlers, NEW f \in FileIds, CopyFind(h, f) \/ CopyObject(h, f)
  PROVE  FInv'
  <1>1. PICK p : p = handler[h]
    OBVIOUS
  <1>2. p \in CopyStates /\ p.pc = "copy" /\ CopyOK(p) /\ CopyFits(p)
    BY <1>1, StateKinds DEF FInv, FilesTypeOK, HandlerOK, CopyFind, CopyObject
  <1>3. CASE CopyFind(h, f)
    <2>1. PICK found \in SUBSET {f} :
            handler' = [handler EXCEPT ![h] = [p EXCEPT !.left = p.left \ {f},
                                                        !.found = found]]
      BY <1>1, <1>3 DEF CopyFind
    <2>2. PICK q : q = [p EXCEPT !.left = p.left \ {f}, !.found = found]
      OBVIOUS
    <2>3. /\ q \in CopyStates /\ q.pc = "copy" /\ q.drawing = p.drawing
          /\ q.before = p.before /\ q.hit = p.hit /\ q.left = p.left \ {f}
          /\ q.found = found /\ q.made = p.made /\ q.enter = p.enter
      BY <1>2, <2>2 DEF CopyStates
    <2>4. UNCHANGED <<row, snaps, object, record, jobs>> /\ f \in p.left /\ p.enter = {}
      BY <1>1, <1>3 DEF CopyFind
    <2>5. CopyOK(q)'
      BY <1>2, <2>3, <2>4 DEF CopyOK, Keyed
    <2>6. CopyFits(q)'
      BY <1>2, <2>3, <2>4 DEF CopyFits, Keyed, There
    <2>7. q \in HandlerState /\ HandlerOK(q)'
      BY <2>3, <2>5, <2>6, StateKinds DEF HandlerOK
    <2>8. QED BY <2>1, <2>2, <2>4, <2>7, Turns
  <1>4. CASE CopyObject(h, f)
    <2>1. PICK q : q = [p EXCEPT !.found = {}, !.enter = {f}, !.made = p.made \cup {f}]
      OBVIOUS
    <2>2. /\ q \in CopyStates /\ q.pc = "copy" /\ q.drawing = p.drawing
          /\ q.before = p.before /\ q.hit = p.hit /\ q.left = p.left
          /\ q.found = {} /\ q.made = p.made \cup {f} /\ q.enter = {f}
      BY <1>2, <2>1 DEF CopyStates
    <2>3. /\ object' = object \cup {<<p.drawing, f>>} /\ UNCHANGED <<row, snaps, record, jobs>>
          /\ handler' = [handler EXCEPT ![h] = q] /\ f \in p.found
      BY <1>1, <1>4, <2>1 DEF CopyObject, CopyS3Object
    <2>4. CopyOK(q)'
      BY <1>2, <2>2, <2>3 DEF CopyOK, Keyed
    <2>5. CopyFits(q)'
      BY <1>2, <2>2, <2>3 DEF CopyFits, Keyed, There
    <2>6. q \in HandlerState /\ HandlerOK(q)' /\ p.drawing \in Drawings
      BY <1>2, <2>2, <2>4, <2>5, StateKinds DEF HandlerOK, CopyStates
    <2>7. object' \subseteq Drawings \X FileIds /\ record' \subseteq Drawings \X FileIds
      BY <2>3, <2>6 DEF FInv, FilesTypeOK
    <2>8. QED BY <2>3, <2>6, <2>7, GoesOn
  <1>5. QED BY <1>3, <1>4

-----------------------------------------------------------------------------
(* What deletes objects and rows. *)

\* Files that the drawing has and does not show are excused as they are deleted.
LEMMA HiddenFacts ==
  ASSUME FilesTypeOK, NEW d \in Drawings, NEW files \in SUBSET FileIds,
         row' = Hidden(d, files)
  PROVE  /\ RowsStay /\ row' \in [Drawings -> Row]
         /\ d \in There => \A f \in files \ row[d].shown :
              row[d].files[f] = Own => f \in row'[d].excused
  <1>1. CASE d \notin There
    BY <1>1 DEF Hidden, RowsStay, There, FilesTypeOK
  <1>2. CASE d \in There
    <2>1. row[d] \in [state : {"there"}, files : Entries, shown : SUBSET FileIds,
                      excused : SUBSET FileIds]
      BY <1>2, RowKinds
    <2>2. PICK x : x = row[d].excused \cup ((files \cap Keyed(row[d].files)) \ row[d].shown)
      OBVIOUS
    <2>3. x \in SUBSET FileIds
      BY <2>1, <2>2
    <2>4. row' = [row EXCEPT ![d] = [row[d] EXCEPT !.excused = x]]
      BY <1>2, <2>2 DEF Hidden, FilesTypeOK
    <2>5. PICK r : r = [row[d] EXCEPT !.excused = x]
      OBVIOUS
    <2>6. /\ r \in Row /\ r.state = "there" /\ r.files = row[d].files
          /\ r.shown = row[d].shown /\ r.excused = x
      BY <2>1, <2>3, <2>5 DEF Row
    <2>7. /\ row' \in [Drawings -> Row] /\ row'[d] = r
          /\ \A e \in Drawings \ {d} : row'[e] = row[e]
      BY <2>4, <2>5, <2>6 DEF FilesTypeOK
    <2>8. There' = There
      BY <1>2, <2>6, <2>7 DEF There
    <2>9. RowsStay
      <3>1. row[d].excused \subseteq x
        BY <2>2
      <3>2. QED BY <2>6, <2>7, <2>8, <3>1 DEF RowsStay, There
    <2>10. \A f \in files \ row[d].shown : row[d].files[f] = Own => f \in x
      BY <2>2, FilesAssumption DEF Keyed
    <2>11. QED BY <2>6, <2>7, <2>9, <2>10
  <1>3. QED BY <1>1, <1>2

\* What a sweep may delete is excused once it is deleted.
LEMMA SweptAreExcused ==
  ASSUME FilesTypeOK, NEW p \in SweepStates, SweepFits(p),
         NEW files \in SUBSET FileIds, files \subseteq p.files,
         row' = Hidden(p.drawing, files)
  PROVE  /\ RowsStay /\ row' \in [Drawings -> Row] /\ p.drawing \in Drawings
         /\ p.drawing \in There => \A f \in files :
              row[p.drawing].files[f] = Own => f \in row'[p.drawing].excused
  <1>1. p.drawing \in Drawings
    BY DEF SweepStates
  <1>2. /\ RowsStay /\ row' \in [Drawings -> Row]
        /\ p.drawing \in There => \A f \in files \ row[p.drawing].shown :
              row[p.drawing].files[f] = Own => f \in row'[p.drawing].excused
    BY <1>1, HiddenFacts
  <1>3. QED BY <1>1, <1>2 DEF SweepFits, RowsStay

\* A sweep deletes objects, then rows.
LEMMA SweepKeeps ==
  ASSUME FInv, NEW h \in Handlers, NEW f \in FileIds, SweepObject(h, f) \/ SweepRows(h)
  PROVE  FInv'
  <1>1. PICK p : p = handler[h]
    OBVIOUS
  <1>2. p \in SweepStates /\ p.pc = "sweep" /\ SweepOK(p) /\ SweepFits(p)
    BY <1>1, StateKinds DEF FInv, FilesTypeOK, HandlerOK, SweepObject, SweepRows
  <1>3. JobsFollow /\ jobs' \subseteq Job /\ snaps' = snaps
    BY DEF JobsFollow, FInv, FilesTypeOK, SweepObject, SweepRows
  <1>4. CASE SweepObject(h, f)
    <2>1. PICK q : q = [p EXCEPT !.objects = p.objects \ {f}]
      OBVIOUS
    <2>2. /\ q \in SweepStates /\ q.pc = "sweep" /\ q.drawing = p.drawing
          /\ q.after = p.after /\ q.files = p.files /\ q.hit = p.hit
          /\ q.rows = p.rows /\ q.objects = p.objects \ {f}
      BY <1>2, <2>1 DEF SweepStates
    <2>3. /\ object' = object \/ object' = object \ ({p.drawing} \X {f})
          /\ record' = record /\ row' = Hidden(p.drawing, {f}) /\ f \in p.objects
          /\ handler' = [Hit(p.drawing, {f}) EXCEPT ![h] = q]
      BY <1>1, <1>4, <2>1 DEF SweepObject, DeleteS3Objects
    <2>4. f \in p.files /\ {f} \in SUBSET FileIds /\ {f} \subseteq p.files
      BY <1>2, <2>3 DEF SweepOK
    <2>5. SweepOK(q)'
      <3>1. \A g \in FileIds \ q.hit : q.after[g] = Own =>
              Served(p.drawing, g) /\ g # f
        BY <1>2, <2>2, <2>4 DEF SweepOK
      <3>2. \A g \in FileIds \ q.hit : q.after[g] = Own => Served(p.drawing, g)'
        BY <2>3, <3>1 DEF Served, Records, ListS3Objects
      <3>3. QED BY <1>2, <2>2, <3>2 DEF SweepOK
    <2>6. /\ RowsStay /\ row' \in [Drawings -> Row] /\ p.drawing \in Drawings
          /\ p.drawing \in There => \A g \in {f} :
               row[p.drawing].files[g] = Own => g \in row'[p.drawing].excused
      BY <1>2, <2>3, <2>4, SweptAreExcused DEF FInv
    <2>7. SweepFits(q)'
      BY <1>2, <2>2, <2>6, FitsStay
    <2>8. q \in HandlerState /\ HandlerOK(q)'
      BY <2>2, <2>5, <2>7, StateKinds DEF HandlerOK
    <2>9. /\ object \ ({p.drawing} \X {f}) \subseteq object' /\ object' \subseteq object
          /\ record \ ({p.drawing} \X {f}) \subseteq record' /\ record' \subseteq record
      BY <2>3
    <2>10. QED BY <1>3, <2>3, <2>4, <2>6, <2>8, <2>9, Strikes
  <1>5. CASE SweepRows(h)
    <2>1. PICK q : q = [p EXCEPT !.rows = {}]
      OBVIOUS
    <2>2. /\ q \in SweepStates /\ q.pc = "sweep" /\ q.drawing = p.drawing
          /\ q.after = p.after /\ q.files = p.files /\ q.hit = p.hit
          /\ q.rows = {} /\ q.objects = p.objects
      BY <1>2, <2>1 DEF SweepStates
    <2>3. /\ record' = record \ ({p.drawing} \X p.rows)
          /\ object' = object /\ row' = Hidden(p.drawing, p.rows)
          /\ handler' = [Hit(p.drawing, p.rows) EXCEPT ![h] = q]
      BY <1>1, <1>5, <2>1 DEF SweepRows
    <2>4. p.rows \subseteq p.files /\ p.rows \in SUBSET FileIds
      BY <1>2 DEF SweepOK, SweepStates
    <2>5. SweepOK(q)'
      <3>1. \A g \in FileIds \ q.hit : q.after[g] = Own =>
              Served(p.drawing, g) /\ g \notin p.rows
        BY <1>2, <2>2, <2>4 DEF SweepOK
      <3>2. \A g \in FileIds \ q.hit : q.after[g] = Own => Served(p.drawing, g)'
        BY <2>3, <3>1 DEF Served, Records, ListS3Objects
      <3>3. QED BY <1>2, <2>2, <3>2 DEF SweepOK
    <2>6. /\ RowsStay /\ row' \in [Drawings -> Row] /\ p.drawing \in Drawings
          /\ p.drawing \in There => \A g \in p.rows :
               row[p.drawing].files[g] = Own => g \in row'[p.drawing].excused
      BY <1>2, <2>3, <2>4, SweptAreExcused DEF FInv
    <2>7. SweepFits(q)'
      BY <1>2, <2>2, <2>6, FitsStay
    <2>8. q \in HandlerState /\ HandlerOK(q)'
      BY <2>2, <2>5, <2>7, StateKinds DEF HandlerOK
    <2>9. QED BY <1>3, <2>3, <2>4, <2>6, <2>8, Strikes
  <1>6. QED BY <1>4, <1>5

\* A copy that fails deletes what it made, and has no entries for any of it.
LEMMA FailKeeps ==
  ASSUME FInv, NEW h \in Handlers, CopyFails(h) PROVE FInv'
  <1>1. PICK p : p = handler[h]
    OBVIOUS
  <1>2. p \in CopyStates /\ p.pc = "copy" /\ CopyOK(p) /\ CopyFits(p)
    BY <1>1, StateKinds DEF FInv, FilesTypeOK, HandlerOK, CopyFails
  <1>3. PICK gone \in SUBSET p.made :
          /\ object' = object \ ({p.drawing} \X gone)
          /\ handler' = [Hit(p.drawing, gone) EXCEPT ![h] =
               [p EXCEPT !.left = {}, !.found = {}, !.enter = {}, !.made = {}]]
    BY <1>1 DEF CopyFails, DeleteS3Objects
  <1>4. PICK q : q = [p EXCEPT !.left = {}, !.found = {}, !.enter = {}, !.made = {}]
    OBVIOUS
  <1>5. /\ q \in CopyStates /\ q.pc = "copy" /\ q.drawing = p.drawing
        /\ q.before = p.before /\ q.hit = p.hit /\ q.left = {}
        /\ q.found = {} /\ q.made = {} /\ q.enter = {}
    BY <1>2, <1>4 DEF CopyStates
  <1>6. UNCHANGED <<row, snaps, record, jobs>>
    BY DEF CopyFails
  <1>7. RowsStay /\ JobsFollow /\ jobs' \subseteq Job /\ row' \in [Drawings -> Row]
    BY <1>6 DEF RowsStay, There, JobsFollow, FInv, FilesTypeOK
  <1>8. CopyOK(q)'
    BY <1>2, <1>5 DEF CopyOK, Keyed
  <1>9. CopyFits(q)'
    BY <1>2, <1>5, <1>7, FitsStay
  <1>10. q \in HandlerState /\ HandlerOK(q)'
    BY <1>5, <1>8, <1>9, StateKinds DEF HandlerOK
  <1>11. p.drawing \in Drawings /\ gone \in SUBSET FileIds /\ gone \subseteq Keyed(p.before)
    BY <1>2, <1>3 DEF CopyStates, CopyOK
  <1>12. p.drawing \in There => \A f \in gone :
           row[p.drawing].files[f] = Own => f \in row'[p.drawing].excused
    BY <1>2, <1>6, <1>11 DEF CopyFits
  <1>13. handler' = [Hit(p.drawing, gone) EXCEPT ![h] = q]
    BY <1>3, <1>4
  <1>14. QED BY <1>3, <1>6, <1>7, <1>10, <1>11, <1>12, <1>13, Strikes

\* A deletion that nobody waits for deletes an object, then its row.
LEMMA JobKeeps ==
  ASSUME FInv, NEW j \in jobs, JobObject(j) \/ JobRecord(j) PROVE FInv'
  <1>1. /\ j \in Job /\ j.drawing \in Drawings /\ j.file \in FileIds
        /\ {j.file} \in SUBSET FileIds /\ j.pc # "count"
    BY DEF FInv, FilesTypeOK, Job, JobObject, JobRecord
  <1>2. UNCHANGED <<row, snaps>> /\ handler' = Hit(j.drawing, {j.file})
    BY DEF JobObject, JobRecord
  <1>3. RowsStay /\ row' \in [Drawings -> Row]
    BY <1>2 DEF RowsStay, There, FInv, FilesTypeOK
  <1>4. j.drawing \in There => \A f \in {j.file} :
          row[j.drawing].files[f] = Own => f \in row'[j.drawing].excused
    BY <1>1, <1>2 DEF FInv, CondemnedAreExcused
  <1>5. /\ object \ ({j.drawing} \X {j.file}) \subseteq object' /\ object' \subseteq object
        /\ record \ ({j.drawing} \X {j.file}) \subseteq record' /\ record' \subseteq record
    BY DEF JobObject, JobRecord, DeleteS3Objects
  <1>6. JobsFollow /\ jobs' \subseteq Job
    <2>1. CASE JobObject(j)
      <3>1. PICK k : k = [j EXCEPT !.pc = "record"]
        OBVIOUS
      <3>2. k \in Job /\ k.drawing = j.drawing /\ k.file = j.file
        BY <1>1, <3>1 DEF Job
      <3>3. jobs' = (jobs \ {j}) \cup {k}
        BY <2>1, <3>1 DEF JobObject, Step
      <3>4. QED BY <1>1, <3>2, <3>3 DEF JobsFollow, FInv, FilesTypeOK
    <2>2. CASE JobRecord(j)
      BY <2>2 DEF JobRecord, JobsFollow, FInv, FilesTypeOK
    <2>3. QED BY <2>1, <2>2
  <1>7. QED BY <1>1, <1>2, <1>3, <1>4, <1>5, <1>6, Strikes

-----------------------------------------------------------------------------
(* What writes a row. *)

LEMMA KeptOfType ==
  ASSUME FilesTypeOK, NEW d \in There, There \subseteq There'
  PROVE  Kept(d) \in [drawing : There', files : Entries]
  BY RowKinds DEF Kept

\* Who writes a drawing is done, and what others will save of it is out of date.
LEMMA BumpedFacts ==
  ASSUME FilesTypeOK, NEW h, NEW d, handler' = Bumped(h, d)
  PROVE  /\ DOMAIN handler' = Handlers /\ handler' = [i \in Handlers |-> handler'[i]]
         /\ \A i \in Handlers :
              \/ i = h /\ handler'[i] = IdleHandler
              \/ /\ i # h
                 /\ \/ handler'[i] = handler[i]
                    \/ handler[i].pc = "put" /\ handler'[i] = [handler[i] EXCEPT !.fresh = FALSE]
  <1>1. \A i \in Handlers : i # h =>
          \/ handler'[i] = handler[i]
          \/ handler[i].pc = "put" /\ handler'[i] = [handler[i] EXCEPT !.fresh = FALSE]
    BY BumpFacts
  <1>2. DOMAIN handler' = Handlers /\ handler' = [i \in Handlers |-> handler'[i]]
    BY DEF Bumped
  <1>3. \A i \in Handlers : i = h => handler'[i] = IdleHandler
    BY DEF Bumped
  <1>4. QED BY <1>1, <1>2, <1>3

\* What is excused in the row that is written.
LEMMA ExcusedFacts ==
  ASSUME FilesTypeOK, NEW h \in Handlers, NEW d \in Drawings, NEW made,
         handler[h].hit \in SUBSET FileIds
  PROVE  /\ Excused(h, d, made) \in SUBSET FileIds
         /\ handler[h].hit \subseteq Excused(h, d, made)
         /\ Pending(h, d) \subseteq Excused(h, d, made)
  <1>1. Pending(h, d) \subseteq FileIds
    BY PendingFacts
  <1>2. d \in There => row[d].excused \subseteq FileIds
    BY RowKinds
  <1>3. QED BY <1>1, <1>2 DEF Excused

LEMMA PutCommitKeeps ==
  ASSUME FInv, NEW h \in Handlers, PutCommit(h) PROVE FInv'
  <1>1. PICK p, d : p = handler[h] /\ d = p.drawing
    OBVIOUS
  <1>2. p \in PutStates /\ p.pc = "put" /\ PutOK(p) /\ p.upload = {} /\ p.enter = {}
    BY <1>1, StateKinds DEF FInv, FilesTypeOK, HandlerOK, PutCommit
  <1>3. /\ d \in Drawings /\ p.after \in Entries /\ p.shown \in SUBSET FileIds
        /\ p.hit \in SUBSET FileIds /\ p.removed \in SUBSET FileIds
    BY <1>1, <1>2 DEF PutStates
  <1>4. UNCHANGED <<object, record>>
    BY DEF PutCommit
  <1>5. CASE IF p.new THEN row[d] = Unused ELSE d \in There /\ p.fresh
    <2>1. PICK x : x = Excused(h, d, p.inline) \cap Keyed(p.after)
      OBVIOUS
    <2>2. PICK r : r = RowOf(p.after, p.shown, x)
      OBVIOUS
    <2>3. /\ row' = [row EXCEPT ![d] = r]
          /\ IF p.new THEN UNCHANGED snaps ELSE Snapshots(d)
          /\ jobs' = jobs \cup Removals(d, p.removed)
          /\ handler' = Bumped(h, d)
      BY <1>1, <1>5, <2>1, <2>2 DEF PutCommit
    <2>4. /\ x \in SUBSET FileIds
          /\ \A f \in FileIds : p.after[f] = Own /\ f \in p.hit \cup Pending(h, d) => f \in x
      <3>1. /\ Excused(h, d, p.inline) \in SUBSET FileIds
            /\ p.hit \subseteq Excused(h, d, p.inline)
            /\ Pending(h, d) \subseteq Excused(h, d, p.inline)
        BY <1>1, <1>3, ExcusedFacts DEF FInv
      <3>2. \A f \in FileIds : p.after[f] = Own => f \in Keyed(p.after)
        BY FilesAssumption DEF Keyed
      <3>3. QED BY <2>1, <3>1, <3>2
    <2>5. /\ r \in Row /\ r.state = "there" /\ r.files = p.after /\ r.excused = x
      BY <1>3, <2>2, <2>4, RowOfType
    <2>6. \A f \in FileIds : r.files[f] = Own /\ f \notin r.excused => Served(d, f)
      BY <1>1, <1>2, <2>4, <2>5 DEF PutOK, Served, Records, ListS3Objects
    <2>7. \A f \in Pending(h, d) : r.files[f] = Own => f \in r.excused
      <3>1. Pending(h, d) \subseteq FileIds
        BY <1>3, PendingFacts DEF FInv
      <3>2. QED BY <2>4, <2>5, <3>1
    <2>8. \A s \in snaps' : s \in snaps \/ s \in [drawing : There', files : Entries]
      <3>1. There \subseteq There'
        BY <2>3, <2>5 DEF There, FInv, FilesTypeOK
      <3>2. CASE p.new
        BY <2>3, <3>2
      <3>3. CASE ~p.new
        <4>1. d \in There
          BY <1>5, <3>3
        <4>2. Kept(d) \in [drawing : There', files : Entries]
          BY <3>1, <4>1, KeptOfType DEF FInv
        <4>3. QED BY <2>3, <3>3, <4>2 DEF Snapshots
      <3>4. QED BY <3>2, <3>3
    <2>9. \A j \in Removals(d, p.removed) :
            /\ j \in Job /\ j.drawing = d /\ j.file \in p.removed
      BY <1>3 DEF Removals, Job
    <2>10. jobs' \subseteq Job
      BY <2>3, <2>9 DEF FInv, FilesTypeOK
    <2>11. \A j \in jobs' : j.pc # "count" =>
             j \in jobs \/ (j.drawing = d /\ r.files[j.file] # Own)
      BY <1>2, <2>3, <2>5, <2>9 DEF PutOK
    <2>12. /\ DOMAIN handler' = Handlers /\ handler' = [i \in Handlers |-> handler'[i]]
           /\ \A i \in Handlers :
                \/ i = h /\ handler'[i] = IdleHandler
                \/ /\ i # h
                   /\ \/ handler'[i] = handler[i]
                      \/ handler[i].pc = "put" /\ handler'[i] = [handler[i] EXCEPT !.fresh = FALSE]
      BY <2>3, BumpedFacts DEF FInv
    <2>13. \A i \in Handlers : i = h => handler'[i] \in HandlerState /\ HandlerOK(handler[i])'
      BY <2>12, IdleFacts DEF HandlerOK
    <2>14. OthersGoOn(h)
      BY ONLY <2>12, <2>13 DEF OthersGoOn
    <2>15. RowIsGood(h, d, r) /\ SnapsFollow /\ JobsBegin(d, r)
      BY <2>5, <2>6, <2>7, <2>8, <2>10, <2>11 DEF RowIsGood, SnapsFollow, JobsBegin
    <2>16. QED BY <1>3, <1>4, <2>3, <2>14, <2>15, Writes
  <1>6. CASE ~(IF p.new THEN row[d] = Unused ELSE d \in There /\ p.fresh)
    <2>1. handler' = [handler EXCEPT ![h] = IdleHandler] /\ UNCHANGED <<row, snaps, jobs>>
      BY <1>1, <1>6 DEF PutCommit
    <2>2. QED BY <1>4, <2>1, IdleFacts, Turns
  <1>7. QED BY <1>5, <1>6

LEMMA SweepCommitKeeps ==
  ASSUME FInv, NEW h \in Handlers, SweepCommit(h) PROVE FInv'
  <1>1. PICK p, d : p = handler[h] /\ d = p.drawing
    OBVIOUS
  <1>2. p \in SweepStates /\ p.pc = "sweep" /\ SweepOK(p)
    BY <1>1, StateKinds DEF FInv, FilesTypeOK, HandlerOK, SweepCommit
  <1>3. /\ d \in Drawings /\ p.after \in Entries /\ p.shown \in SUBSET FileIds
        /\ p.hit \in SUBSET FileIds
    BY <1>1, <1>2 DEF SweepStates
  <1>4. UNCHANGED <<snaps, object, record, jobs>> /\ handler' = Bumped(h, d)
    BY <1>1 DEF SweepCommit
  <1>5. /\ DOMAIN handler' = Handlers /\ handler' = [i \in Handlers |-> handler'[i]]
        /\ \A i \in Handlers :
             \/ i = h /\ handler'[i] = IdleHandler
             \/ /\ i # h
                /\ \/ handler'[i] = handler[i]
                   \/ handler[i].pc = "put" /\ handler'[i] = [handler[i] EXCEPT !.fresh = FALSE]
    BY <1>4, BumpedFacts DEF FInv
  <1>6. CASE d \in There
    <2>1. PICK x : x = Excused(h, d, {}) \cap Keyed(p.after)
      OBVIOUS
    <2>2. PICK r : r = RowOf(p.after, p.shown, x)
      OBVIOUS
    <2>3. row' = [row EXCEPT ![d] = r]
      BY <1>1, <1>6, <2>1, <2>2 DEF SweepCommit
    <2>4. /\ x \in SUBSET FileIds
          /\ \A f \in FileIds : p.after[f] = Own /\ f \in p.hit \cup Pending(h, d) => f \in x
      <3>1. /\ Excused(h, d, {}) \in SUBSET FileIds
            /\ p.hit \subseteq Excused(h, d, {})
            /\ Pending(h, d) \subseteq Excused(h, d, {})
        BY <1>1, <1>3, ExcusedFacts DEF FInv
      <3>2. \A f \in FileIds : p.after[f] = Own => f \in Keyed(p.after)
        BY FilesAssumption DEF Keyed
      <3>3. QED BY <2>1, <3>1, <3>2
    <2>5. /\ r \in Row /\ r.state = "there" /\ r.files = p.after /\ r.excused = x
      BY <1>3, <2>2, <2>4, RowOfType
    <2>6. \A f \in FileIds : r.files[f] = Own /\ f \notin r.excused => Served(d, f)
      BY <1>1, <1>2, <2>4, <2>5 DEF SweepOK
    <2>7. \A f \in Pending(h, d) : r.files[f] = Own => f \in r.excused
      <3>1. Pending(h, d) \subseteq FileIds
        BY <1>3, PendingFacts DEF FInv
      <3>2. QED BY <2>4, <2>5, <3>1
    <2>8. \A i \in Handlers : i = h => handler'[i] \in HandlerState /\ HandlerOK(handler[i])'
      BY <1>5, IdleFacts DEF HandlerOK
    <2>9. jobs' \subseteq Job
      BY <1>4 DEF FInv, FilesTypeOK
    <2>10. OthersGoOn(h)
      BY ONLY <1>5, <2>8 DEF OthersGoOn
    <2>11. RowIsGood(h, d, r) /\ SnapsFollow /\ JobsBegin(d, r)
      BY <1>4, <2>5, <2>6, <2>7, <2>9 DEF RowIsGood, SnapsFollow, JobsBegin
    <2>12. QED BY <1>3, <1>4, <2>3, <2>10, <2>11, Writes
  <1>7. CASE d \notin There
    <2>1. row' = row
      BY <1>1, <1>7 DEF SweepCommit
    <2>2. JobsFollow /\ jobs' \subseteq Job /\ snaps' \subseteq snaps
      BY <1>4 DEF JobsFollow, FInv, FilesTypeOK
    <2>3. QED BY <1>4, <1>5, <2>1, <2>2, Leaves
  <1>8. QED BY <1>6, <1>7

\* The copy is written its own entries, for the objects it has made.
LEMMA CopyCommitKeeps ==
  ASSUME FInv, NEW h \in Handlers, CopyCommit(h) PROVE FInv'
  <1>1. PICK p, d : p = handler[h] /\ d = p.drawing
    OBVIOUS
  <1>2. /\ p \in CopyStates /\ p.pc = "copy" /\ CopyOK(p)
        /\ p.left = {} /\ p.found = {} /\ p.enter = {}
    BY <1>1, StateKinds DEF FInv, FilesTypeOK, HandlerOK, CopyCommit
  <1>3. /\ d \in Drawings /\ p.before \in Entries /\ p.made \in SUBSET FileIds
        /\ p.hit \in SUBSET FileIds
    BY <1>1, <1>2 DEF CopyStates
  <1>4. UNCHANGED <<snaps, object, record, jobs>> /\ handler' = [handler EXCEPT ![h] = IdleHandler]
    BY <1>1 DEF CopyCommit
  <1>5. PICK files : files = [f \in FileIds |-> IF f \in p.made THEN Own ELSE p.before[f]]
    OBVIOUS
  <1>6. files \in Entries
    BY <1>3, <1>5 DEF Entries
  <1>7. CASE d \in There /\ Keyed(files) # {}
    <2>1. row[d].shown \in SUBSET FileIds
      BY <1>7, RowKinds DEF FInv
    <2>2. PICK x : x = Excused(h, d, p.made) \cap Keyed(files)
      OBVIOUS
    <2>3. PICK r : r = RowOf(files, row[d].shown, x)
      OBVIOUS
    <2>4. row' = [row EXCEPT ![d] = r]
      BY <1>1, <1>3, <1>5, <1>7, <2>2, <2>3 DEF CopyCommit, FInv, FilesTypeOK
    <2>5. /\ x \in SUBSET FileIds
          /\ \A f \in FileIds : files[f] = Own /\ f \in p.hit \cup Pending(h, d) => f \in x
      <3>1. /\ Excused(h, d, p.made) \in SUBSET FileIds
            /\ p.hit \subseteq Excused(h, d, p.made)
            /\ Pending(h, d) \subseteq Excused(h, d, p.made)
        BY <1>1, <1>3, ExcusedFacts DEF FInv
      <3>2. \A f \in FileIds : files[f] = Own => f \in Keyed(files)
        BY FilesAssumption DEF Keyed
      <3>3. QED BY <2>2, <3>1, <3>2
    <2>6. /\ r \in Row /\ r.state = "there" /\ r.files = files /\ r.excused = x
      BY <1>6, <2>1, <2>3, <2>5, RowOfType
    <2>7. \A f \in FileIds : r.files[f] = Own /\ f \notin r.excused => Served(d, f)
      <3>1. \A f \in FileIds : files[f] = Own => f \in p.made
        BY <1>2, <1>5 DEF CopyOK
      <3>2. QED BY <1>1, <1>2, <2>5, <2>6, <3>1 DEF CopyOK, Served, Records, ListS3Objects
    <2>8. \A f \in Pending(h, d) : r.files[f] = Own => f \in r.excused
      <3>1. Pending(h, d) \subseteq FileIds
        BY <1>3, PendingFacts DEF FInv
      <3>2. QED BY <2>5, <2>6, <3>1
    <2>9. RowIsGood(h, d, r) /\ SnapsFollow /\ JobsBegin(d, r)
      BY <1>4, <2>6, <2>7, <2>8
      DEF RowIsGood, SnapsFollow, JobsBegin, FInv, FilesTypeOK
    <2>10. OthersGoOn(h)
      <3>1. \A i \in Handlers :
              IF i = h THEN handler'[i] = IdleHandler ELSE handler'[i] = handler[i]
        BY <1>4 DEF FInv, FilesTypeOK
      <3>2. DOMAIN handler' = Handlers /\ handler' = [i \in Handlers |-> handler'[i]]
        BY <1>4 DEF FInv, FilesTypeOK
      <3>3. handler'[h] \in HandlerState /\ HandlerOK(handler[h])'
        BY <3>1, IdleFacts DEF HandlerOK
      <3>4. QED BY <3>1, <3>2, <3>3 DEF OthersGoOn
    <2>11. QED BY <1>3, <1>4, <2>4, <2>9, <2>10, Writes
  <1>8. CASE ~(d \in There /\ Keyed(files) # {})
    <2>1. row' = row
      BY <1>1, <1>5, <1>8 DEF CopyCommit
    <2>2. QED BY <1>4, <2>1, IdleFacts, Turns
  <1>9. QED BY <1>7, <1>8

\* What comes back from the history is excused.
LEMMA RestoreKeeps ==
  ASSUME FInv, NEW s \in snaps, RestoreFiles(s) PROVE FInv'
  <1>1. PICK d, files : d = s.drawing /\ files = s.files
    OBVIOUS
  <1>2. d \in There /\ d \in Drawings /\ files \in Entries
    BY <1>1 DEF FInv, FilesTypeOK, There
  <1>3. /\ snaps' = IF Cardinality(snaps) < SnapBound THEN snaps \cup {Kept(d)} ELSE snaps
        /\ UNCHANGED <<object, record, jobs>> /\ handler' = Bumped(Nothing, d)
    BY <1>1 DEF RestoreFiles
  <1>4. PICK shown \in SUBSET Keyed(files) :
          row' = [row EXCEPT ![d] = RowOf(files, shown, Keyed(files))]
    BY <1>1 DEF RestoreFiles
  <1>5. PICK r : r = RowOf(files, shown, Keyed(files))
    OBVIOUS
  <1>6. Keyed(files) \in SUBSET FileIds /\ shown \in SUBSET FileIds
    BY DEF Keyed
  <1>7. r \in Row /\ r.state = "there" /\ r.files = files /\ r.excused = Keyed(files)
    BY <1>2, <1>5, <1>6, RowOfType
  <1>8. There \subseteq There'
    BY <1>4, <1>5, <1>7 DEF There, FInv, FilesTypeOK
  <1>9. SnapsFollow
    <2>1. Kept(d) \in [drawing : There', files : Entries]
      BY <1>2, <1>8, KeptOfType DEF FInv
    <2>2. QED BY <1>3, <2>1 DEF SnapsFollow
  <1>10. RowIsGood(Nothing, d, r) /\ JobsBegin(d, r)
    <2>1. \A f \in FileIds : files[f] = Own => f \in Keyed(files)
      BY FilesAssumption DEF Keyed
    <2>2. Pending(Nothing, d) \subseteq FileIds
      BY <1>2, PendingFacts DEF FInv
    <2>3. RowIsGood(Nothing, d, r)
      BY <1>7, <2>1, <2>2 DEF RowIsGood
    <2>4. QED BY <1>3, <2>3 DEF JobsBegin, FInv, FilesTypeOK
  <1>11. OthersGoOn(Nothing)
    <2>1. \A i \in Handlers : i # Nothing
      BY FilesAssumption
    <2>2. QED BY <1>3, <2>1, BumpedFacts DEF OthersGoOn, FInv
  <1>12. QED BY <1>2, <1>3, <1>4, <1>5, <1>9, <1>10, <1>11, Writes

\* A copy has no object of its own yet.
LEMMA DuplicateKeeps ==
  ASSUME FInv, NEW h \in Handlers, NEW d \in Drawings, Duplicate(h, d) PROVE FInv'
  <1>1. PICK files \in [FileIds -> {Other, Nothing}], shown \in SUBSET FileIds :
          /\ row' = [row EXCEPT ![d] = RowOf(files, shown, {})]
          /\ Begins(h, [pc |-> "copy", drawing |-> d, before |-> files,
                        left |-> Keyed(files), found |-> {}, enter |-> {}, made |-> {},
                        hit |-> {}])
    BY DEF Duplicate, Keyed
  <1>2. PICK r, q : /\ r = RowOf(files, shown, {})
                    /\ q = [pc |-> "copy", drawing |-> d, before |-> files,
                            left |-> Keyed(files), found |-> {}, enter |-> {}, made |-> {},
                            hit |-> {}]
    OBVIOUS
  <1>3. /\ files \in Entries /\ shown \in SUBSET FileIds /\ {} \in SUBSET FileIds
        /\ \A f \in FileIds : files[f] # Own
    BY FilesAssumption DEF Entries, Keyed
  <1>4. r \in Row /\ r.state = "there" /\ r.files = files
    BY <1>2, <1>3, RowOfType
  <1>5. UNCHANGED <<snaps, object, record, jobs>>
    BY DEF Duplicate
  <1>6. row' = [row EXCEPT ![d] = r] /\ handler' = [handler EXCEPT ![h] = q]
    BY <1>1, <1>2 DEF Begins
  <1>7. row'[d] = r
    BY <1>6 DEF FInv, FilesTypeOK
  <1>8. /\ q \in CopyStates /\ q.pc = "copy" /\ q.drawing = d /\ q.before = files
        /\ q.left = Keyed(files) /\ q.found = {} /\ q.enter = {} /\ q.made = {}
    BY <1>2, <1>3 DEF CopyStates, Keyed
  <1>9. q \in HandlerState /\ HandlerOK(q)'
    <2>1. CopyOK(q)'
      BY <1>3, <1>8 DEF CopyOK
    <2>2. CopyFits(q)'
      BY <1>3, <1>4, <1>7, <1>8 DEF CopyFits, Keyed
    <2>3. QED BY <1>8, <2>1, <2>2, StateKinds DEF HandlerOK
  <1>10. RowIsGood(h, d, r) /\ SnapsFollow /\ JobsBegin(d, r)
    <2>1. Pending(h, d) \subseteq FileIds
      BY PendingFacts DEF FInv
    <2>2. QED BY <1>3, <1>4, <1>5, <2>1
          DEF RowIsGood, SnapsFollow, JobsBegin, FInv, FilesTypeOK
  <1>11. OthersGoOn(h)
    <2>1. \A i \in Handlers :
            IF i = h THEN handler'[i] = q ELSE handler'[i] = handler[i]
      BY <1>6 DEF FInv, FilesTypeOK
    <2>2. DOMAIN handler' = Handlers /\ handler' = [i \in Handlers |-> handler'[i]]
      BY <1>6 DEF FInv, FilesTypeOK
    <2>3. handler'[h] \in HandlerState /\ HandlerOK(handler[h])'
      BY <1>9, <2>1 DEF HandlerOK
    <2>4. QED BY <2>1, <2>2, <2>3 DEF OthersGoOn
  <1>12. QED BY <1>5, <1>6, <1>10, <1>11, Writes

-----------------------------------------------------------------------------
(* What deletes a drawing or snapshots, and what only ends. *)

\* The row goes, its snapshots with it, and its files are to be deleted.
LEMMA DeleteCommitKeeps ==
  ASSUME FInv, NEW h \in Handlers, DeleteCommit(h) PROVE FInv'
  <1>1. PICK p, d : p = handler[h] /\ d = p.drawing
    OBVIOUS
  <1>2. p \in DeleteStates
    BY <1>1, StateKinds DEF FInv, FilesTypeOK, DeleteCommit
  <1>3. d \in Drawings /\ p.removed \in SUBSET FileIds
    BY <1>1, <1>2 DEF DeleteStates
  <1>4. UNCHANGED <<object, record>> /\ handler' = [handler EXCEPT ![h] = IdleHandler]
    BY <1>1 DEF DeleteCommit
  <1>5. CASE d \notin There
    <2>1. UNCHANGED <<row, snaps, jobs>>
      BY <1>1, <1>5 DEF DeleteCommit
    <2>2. QED BY <1>4, <2>1, IdleFacts, Turns
  <1>6. CASE d \in There
    <2>1. /\ row' = [row EXCEPT ![d] = Deleted]
          /\ snaps' = {s \in snaps : s.drawing # d}
          /\ jobs' = jobs \cup Removals(d, p.removed)
      BY <1>1, <1>6 DEF DeleteCommit
    <2>2. /\ row' \in [Drawings -> Row] /\ There' = There \ {d}
          /\ \A e \in Drawings \ {d} : row'[e] = row[e]
      BY <1>3, <2>1 DEF FInv, FilesTypeOK, There, Row, Deleted
    <2>3. \A j \in Removals(d, p.removed) : j \in Job /\ j.drawing = d
      BY <1>3 DEF Removals, Job
    <2>4. jobs' \subseteq Job
      BY <2>1, <2>3 DEF FInv, FilesTypeOK
    <2>5. \A e, f : KeyStays(e, f) /\ Served(e, f) = Served(e, f)'
      BY <1>4 DEF KeyStays, Served, Records, ListS3Objects
    <2>6. OwnAreServed'
      BY <2>2, <2>5 DEF FInv, OwnAreServed, There
    <2>7. CondemnedAreExcused'
      <3> SUFFICES ASSUME NEW j \in jobs', j.pc # "count", j.drawing \in There',
                          row'[j.drawing].files[j.file] = Own
                   PROVE  j.file \in row'[j.drawing].excused
        BY DEF CondemnedAreExcused
      <3>1. j \in jobs /\ j.drawing \in There /\ row'[j.drawing] = row[j.drawing]
        BY <2>1, <2>2, <2>3 DEF There
      <3>2. QED BY <3>1 DEF FInv, CondemnedAreExcused
    <2>8. \A i \in Handlers : handler'[i] = IdleHandler \/ handler'[i] = handler[i]
      BY <1>4 DEF FInv, FilesTypeOK
    <2>9. ASSUME NEW i \in Handlers PROVE HandlerOK(handler[i])'
      <3>1. CASE handler'[i] = IdleHandler
        BY <3>1, IdleFacts DEF HandlerOK
      <3>2. CASE handler'[i] = handler[i]
        <4>1. PICK q : q = handler[i]
          OBVIOUS
        <4>2. q \in HandlerState /\ HandlerOK(q)
          BY <4>1 DEF FInv, FilesTypeOK
        <4>3. \A e \in There' : e \in There /\ row'[e] = row[e]
          BY <2>2 DEF There
        <4>4. (SweepFits(q) => SweepFits(q)') /\ (CopyFits(q) => CopyFits(q)')
          BY <4>3 DEF SweepFits, CopyFits, Keyed
        <4>5. HandlerOK(q)'
          BY <2>5, <4>2, <4>4, OthersStay DEF HandlerOK
        <4>6. QED BY <3>2, <4>1, <4>5 DEF HandlerOK
      <3>3. QED BY <2>8, <3>1, <3>2
    <2>10. FilesTypeOK'
      <3>1. handler' \in [Handlers -> HandlerState]
        BY <1>4, IdleFacts DEF FInv, FilesTypeOK
      <3>2. snaps' \subseteq [drawing : There', files : Entries]
        BY <2>1, <2>2 DEF FInv, FilesTypeOK
      <3>3. QED BY <1>4, <2>2, <2>4, <3>1, <3>2 DEF FInv, FilesTypeOK
    <2>11. QED BY <2>6, <2>7, <2>9, <2>10 DEF FInv
  <1>7. QED BY <1>5, <1>6

\* A file that nobody refers to has no entry.
LEMMA UnreferencedHasNoEntry ==
  ASSUME NEW f \in FileIds, ~Referenced(f), NEW d \in There
  PROVE  row[d].files[f] # Own
  BY FilesAssumption DEF Referenced, Keyed

\* The jobs that only look, and what only ends.
LEMMA QuietKeeps ==
  ASSUME FInv,
         \/ \E j \in jobs : JobCount(j) \/ JobFind(j) \/ JobFails(j)
         \/ \E d \in Drawings : DeleteSnapshots(d)
         \/ \E old \in SUBSET snaps : Prune(old)
         \/ Restart
  PROVE  FInv'
  <1>1. UNCHANGED <<row, object, record>>
    BY DEF JobCount, JobFind, JobFails, DeleteSnapshots, Prune, Restart
  <1>2. snaps' \subseteq snaps
    BY DEF JobCount, JobFind, JobFails, DeleteSnapshots, Prune, Restart
  <1>3. /\ DOMAIN handler' = Handlers /\ handler' = [i \in Handlers |-> handler'[i]]
        /\ \A i \in Handlers : handler'[i] = IdleHandler \/ handler'[i] = handler[i]
    <2>1. handler' = handler \/ handler' = [h \in Handlers |-> IdleHandler]
      BY DEF JobCount, JobFind, JobFails, DeleteSnapshots, Prune, Restart
    <2>2. QED BY <2>1 DEF FInv, FilesTypeOK
  <1>4. JobsFollow /\ jobs' \subseteq Job
    <2>1. ASSUME jobs' \subseteq jobs PROVE JobsFollow /\ jobs' \subseteq Job
      BY <2>1 DEF JobsFollow, FInv, FilesTypeOK
    <2>2. ASSUME NEW j \in jobs, NEW pc \in {"find", "object"}, Step(j, pc),
                 \/ j.pc # "count"
                 \/ ~Referenced(j.file)
          PROVE  JobsFollow /\ jobs' \subseteq Job
      <3>1. PICK k : k = [j EXCEPT !.pc = pc]
        OBVIOUS
      <3>2. j \in Job /\ k \in Job /\ k.drawing = j.drawing /\ k.file = j.file
        BY <3>1 DEF FInv, FilesTypeOK, Job
      <3>3. jobs' = (jobs \ {j}) \cup {k}
        BY <2>2, <3>1 DEF Step
      <3>4. j.pc = "count" => (j.drawing \in There => row[j.drawing].files[j.file] # Own)
        BY <2>2, <3>2, UnreferencedHasNoEntry DEF Job
      <3>5. QED BY <3>2, <3>3, <3>4 DEF JobsFollow, FInv, FilesTypeOK
    <2>3. CASE \E j \in jobs : JobCount(j)
      BY <2>1, <2>2, <2>3 DEF JobCount
    <2>4. CASE \E j \in jobs : JobFind(j) \/ JobFails(j)
      BY <2>1, <2>2, <2>4 DEF JobFind, JobFails
    <2>5. CASE \E d \in Drawings : DeleteSnapshots(d)
      BY <2>1, <2>5 DEF DeleteSnapshots
    <2>6. ASSUME NEW old \in SUBSET snaps, Prune(old) PROVE JobsFollow /\ jobs' \subseteq Job
      <3>1. PICK more : more = [drawing : Drawings, pc : {"count"},
                                file : UNION {Keyed(s.files) : s \in old}]
        OBVIOUS
      <3>2. jobs' = jobs \cup more
        BY <2>6, <3>1 DEF Prune
      <3>3. (UNION {Keyed(s.files) : s \in old}) \subseteq FileIds
        BY DEF Keyed
      <3>4. \A j \in more : j \in Job /\ j.pc = "count"
        BY <3>1, <3>3 DEF Job
      <3>5. QED BY <3>2, <3>4 DEF JobsFollow, FInv, FilesTypeOK
    <2>7. CASE Restart
      BY <2>1, <2>7 DEF Restart
    <2>8. QED BY <2>3, <2>4, <2>5, <2>6, <2>7
  <1>5. QED BY <1>1, <1>2, <1>3, <1>4, Leaves

-----------------------------------------------------------------------------
LEMMA FilesInvariant == FilesSpec => []FInv
  <1>1. FilesInit => FInv
    <2> SUFFICES ASSUME FilesInit PROVE FInv
      OBVIOUS
    <2>1. There = {}
      BY DEF FilesInit, There, Unused
    <2>2. FilesTypeOK
      BY <2>1, StateKinds DEF FilesInit, FilesTypeOK, Row
    <2>3. \A h \in Handlers : HandlerOK(handler[h])
      BY DEF FilesInit, HandlerOK, IdleHandler
    <2>4. QED BY <2>1, <2>2, <2>3 DEF FilesInit, FInv, OwnAreServed, CondemnedAreExcused
  <1>2. FInv /\ [FilesNext]_filesVars => FInv'
    <2> SUFFICES ASSUME FInv, [FilesNext]_filesVars PROVE FInv'
      OBVIOUS
    <2>1. ASSUME NEW h \in Handlers, Asks(h) PROVE FInv'
      BY <2>1, CreateKeeps, SaveKeeps, AskKeeps, DuplicateKeeps DEF Asks
    <2>2. ASSUME NEW h \in Handlers, Handle(h) PROVE FInv'
      <3>1. CASE PutFails(h) \/ DiffList(h) \/ CloseStorage(h)
        BY <3>1, PageKeeps
      <3>2. CASE \E files \in (SUBSET FileIds) \ {{}} : DeleteOrphans(h, files)
        BY <3>2, PageKeeps
      <3>3. CASE PutCommit(h) \/ DeleteCommit(h) \/ SweepCommit(h) \/ CopyCommit(h)
        BY <3>3, PutCommitKeeps, DeleteCommitKeeps, SweepCommitKeeps, CopyCommitKeeps
      <3>4. CASE SweepList(h) \/ CopyFails(h)
        BY <3>4, ListKeeps, FailKeeps
      <3>5. CASE SweepRows(h)
        <4>1. PICK p : p = handler[h]
          OBVIOUS
        <4>2. p \in SweepStates /\ p.rows # {}
          BY <3>5, <4>1, StateKinds DEF FInv, FilesTypeOK, SweepRows
        <4>3. \E f : f \in FileIds
          BY <4>2 DEF SweepStates
        <4>4. QED BY <3>5, <4>3, SweepKeeps
      <3>6. CASE \E f \in FileIds : \/ Upload(h, f) \/ Enter(h, f) \/ SweepObject(h, f)
                                    \/ CopyFind(h, f) \/ CopyObject(h, f)
        BY <3>6, UploadKeeps, EnterKeeps, SweepKeeps, CopyKeeps
      <3>7. QED BY <2>2, <3>1, <3>2, <3>3, <3>4, <3>5, <3>6 DEF Handle
    <2>3. ASSUME NEW j \in jobs, CleanUp(j) PROVE FInv'
      BY <2>3, JobKeeps, QuietKeeps DEF CleanUp
    <2>4. ASSUME NEW s \in snaps, RestoreFiles(s) PROVE FInv'
      BY <2>4, RestoreKeeps
    <2>5. CASE \/ \E d \in Drawings : DeleteSnapshots(d)
               \/ \E old \in SUBSET snaps : Prune(old)
               \/ Restart
      BY <2>5, QuietKeeps
    <2>6. CASE UNCHANGED filesVars
      BY <2>6 DEF filesVars, FInv, FilesTypeOK, OwnAreServed, CondemnedAreExcused, There,
                  Served, Records, ListS3Objects, HandlerOK, PutOK, SweepOK, CopyOK,
                  SweepFits, CopyFits, Keyed
    <2>7. QED BY <2>1, <2>2, <2>3, <2>4, <2>5, <2>6 DEF FilesNext
  <1>3. QED BY <1>1, <1>2, PTL DEF FilesSpec

\* The rows, snapshots, requests and clean-ups keep their types; the snapshots are those
\* of drawings that are there.
THEOREM FilesTypeCorrect == FilesSpec => []FilesTypeOK
  <1>1. FInv => FilesTypeOK
    BY DEF FInv
  <1>2. QED BY <1>1, FilesInvariant, PTL

\* An image that a drawing shows and has an object of its own for is in the bucket and
\* in S3File, unless its entry is excused: what deletes an object excuses the entry it
\* was for, or deletes what the drawing has no entry for.
THEOREM ImagesExist == FilesSpec => []VisibleImagesExist
  <1>1. FInv => VisibleImagesExist
    <2> SUFFICES ASSUME FInv, NEW d \in There, NEW f \in row[d].shown \ row[d].excused,
                        row[d].files[f] = Own
                 PROVE  Served(d, f)
      BY DEF VisibleImagesExist
    <2>1. f \in FileIds
      BY RowKinds DEF FInv
    <2>2. QED BY <2>1 DEF FInv, OwnAreServed
  <1>2. QED BY <1>1, FilesInvariant, PTL
=============================================================================
