--------------------------- MODULE DrawingHistory ---------------------------
(***************************************************************************)
(* The stored state of one drawing and every handler that writes it: the   *)
(* optimistic save, history restore, trim and orphan removal, deletion of  *)
(* the history, deletion of the drawing, import of a backup, and the       *)
(* snapshot cleanup job.                                                   *)
(*                                                                         *)
(* A handler is split where it awaits the database: each action is the     *)
(* code between two awaits, and a Prisma transaction is one action (SQLite *)
(* transactions are serializable). Snapshot ids are given in the order of  *)
(* createdAt, which the code sorts by. The payload of a scene is a function *)
(* from element ids to elements, an element one from keys to values.       *)
(***************************************************************************)
EXTENDS Integers, Sequences, FiniteSets, FiniteSetsExt, Functions

CONSTANTS
  Elements,          \* element ids
  Keys,              \* the keys an element can have, but for its id
  Values,            \* the values of a key
  NoKey,             \* the element does not have the key
  Absent,            \* the element is not in the scene
  Gone,              \* the elements with isDeleted set
  Handlers,          \* request handlers in flight at once
  Bodies,            \* the scenes clients send
  Backups,           \* what a backup file can hold for this drawing
  KeyframeInterval,  \* config.snapshotKeyframeInterval
  MaxPerDrawing,     \* config.snapshotMaxPerDrawing
  NoVersion,         \* a payload or a backup without version
  None,              \* no save pending, in the abstract register
  VersionBound,      \* no handler starts once this many scenes were stored,
  SnapshotBound      \* or this many snapshots created

Element == [Keys -> Values \cup {NoKey}]
Scene == [Elements -> Element \cup {Absent}]

ASSUME ConstantsAssumption ==
  /\ NoKey \notin Values /\ Absent \notin Element /\ Gone \subseteq Element
  /\ Bodies \subseteq Scene
  /\ KeyframeInterval \in Nat \ {0} /\ MaxPerDrawing \in Nat \ {0}
  /\ VersionBound \in Nat \ {0} /\ SnapshotBound \in Nat \ {0}
  /\ NoVersion \notin Nat
  /\ Backups \subseteq [version : Nat \cup {NoVersion}, scene : Scene]
  /\ None \notin [seen : Nat \cup {NoVersion}, body : Scene]

VARIABLES
  drawing,  \* the Drawing row: its version and scene
  deleted,  \* the row was deleted
  snaps,    \* the DrawingSnapshot rows, by id
  nextId,   \* the next snapshot id
  handler,  \* what each request handler holds in memory
  cleaner,  \* the cleanup job: its step, whether it pruned, how far it will
  written   \* history variable: the scenes stored, in order

vars == <<drawing, deleted, snaps, nextId, handler, cleaner, written>>

EmptyScene == [e \in Elements |-> Absent]

-----------------------------------------------------------------------------
(* utils/snapshotDelta.ts *)

\* A patch has the keys that changed, with their new values. It is stored as
\* JSON, and JSON.stringify leaves out a key whose new value is undefined: that
\* an element dropped a key is not recorded. No keys: nothing to assign.
NoPatch == [k \in Keys |-> NoKey]

ShallowDiff(prev, curr) == [k \in Keys |-> IF curr[k] # prev[k] THEN curr[k] ELSE NoKey]

\* Mutants are plausible bugs, put in place of a definition to see that the
\* properties notice. This one forgets the elements that changed.
MutantUnpatchedDelta(prev, curr) ==
  [added    |-> [e \in Elements |-> IF prev[e] = Absent THEN curr[e] ELSE Absent],
   removed  |-> {e \in Elements : prev[e] # Absent /\ curr[e] = Absent},
   modified |-> [e \in Elements |-> NoPatch]]

ComputeDelta(prev, curr) ==
  [added    |-> [e \in Elements |-> IF prev[e] = Absent THEN curr[e] ELSE Absent],
   removed  |-> {e \in Elements : prev[e] # Absent /\ curr[e] = Absent},
   modified |-> [e \in Elements |-> IF Absent \in {prev[e], curr[e]} THEN NoPatch
                                    ELSE ShallowDiff(prev[e], curr[e])]]

\* Object.assign: the keys of the patch are set, the others stay.
Assign(element, patch) ==
  [k \in Keys |-> IF patch[k] = NoKey THEN element[k] ELSE patch[k]]

\* Mutant: patches are not applied.
MutantUnpatchedApply(scene, delta) ==
  [e \in Elements |-> IF delta.added[e] # Absent THEN delta.added[e]
                      ELSE IF e \in delta.removed THEN Absent ELSE scene[e]]

\* A patch of an element that is not there does nothing.
ApplyDelta(scene, delta) ==
  [e \in Elements |->
     IF delta.added[e] # Absent THEN delta.added[e]
     ELSE IF e \in delta.removed \/ scene[e] \notin Element THEN Absent
     ELSE Assign(scene[e], delta.modified[e])]

Delta == [added : Scene, removed : SUBSET Elements, modified : [Elements -> Element]]

-----------------------------------------------------------------------------
(* Snapshot rows. A delta row stores an empty scene, a full row no delta. *)
(* The field saved is history: the scene the row was made to record.     *)

NoBase == 0
NoDelta == ComputeDelta(EmptyScene, EmptyScene)

Drawing == [version : Nat, scene : Scene]
FullSnapshot == [type : {"full"}, version : Nat, scene : Scene,
                 base : {NoBase}, delta : {NoDelta}, saved : Scene]
DeltaSnapshot == [type : {"delta"}, version : Nat, scene : {EmptyScene},
                  base : Nat \ {NoBase}, delta : Delta, saved : Scene]
Snapshot == FullSnapshot \cup DeltaSnapshot

FullRow(d) ==
  [type |-> "full", version |-> d.version, scene |-> d.scene,
   base |-> NoBase, delta |-> NoDelta, saved |-> d.scene]

\* Mutant: the base is not recorded.
MutantBaselessRow(d, last) ==
  [type |-> "delta", version |-> d.version, scene |-> EmptyScene, base |-> NoBase,
   delta |-> ComputeDelta(snaps[last].scene, d.scene), saved |-> d.scene]

\* The delta is taken from the last row's own columns, which are empty when
\* that row is itself a delta.
DeltaRow(d, last) ==
  [type |-> "delta", version |-> d.version, scene |-> EmptyScene, base |-> last,
   delta |-> ComputeDelta(snaps[last].scene, d.scene), saved |-> d.scene]

Ids == DOMAIN snaps
IsFull(i) == snaps[i].type = "full"
Keyframes == {i \in Ids : IsFull(i)}
\* Mutant: orderBy asc.
MutantFirstSnapshot == Min(Ids)
LastSnapshot == Max(Ids)

Insert(row) ==
  /\ snaps' = [i \in Ids \cup {nextId} |-> IF i = nextId THEN row ELSE snaps[i]]
  /\ nextId' = nextId + 1

SnapshotsSinceKeyframe ==
  IF Keyframes = {} THEN 0 ELSE Cardinality({i \in Ids : \A k \in Keyframes : k < i})

\* Mutant: one row too late.
MutantLateKeyframe ==
  Ids = {} \/ SnapshotsSinceKeyframe >= KeyframeInterval

ShouldBeKeyframe ==
  Ids = {} \/ SnapshotsSinceKeyframe >= KeyframeInterval - 1

\* resolveSnapshotState follows bases up to a full row, but never longer than
\* maxDepth; it fails when a base is missing.
MutantShortDepth == KeyframeInterval - 1  \* mutant: too short
MaxDepth == KeyframeInterval + 1

Unresolvable == [ok |-> FALSE, depth |-> 0, scene |-> EmptyScene]

ResolveFrom(row, resolved) ==
  IF row.type = "full" THEN [ok |-> TRUE, depth |-> 0, scene |-> row.scene]
  ELSE IF row.base \notin Ids THEN Unresolvable
  ELSE LET base == resolved[row.base]
       IN  IF base.ok /\ base.depth + 1 < MaxDepth
           THEN [ok |-> TRUE, depth |-> base.depth + 1,
                 scene |-> ApplyDelta(base.scene, row.delta)]
           ELSE Unresolvable

Resolution ==
  LET resolved[i \in Ids] == ResolveFrom(snaps[i], resolved)
  IN  resolved

ResolveSnapshotState(row) == ResolveFrom(row, Resolution)

\* The history panel: the rows it lists, and what it is given for one of them.
History == Ids

Shown(i) ==
  IF IsFull(i) THEN [ok |-> TRUE, scene |-> snaps[i].scene]
  ELSE LET resolved == ResolveSnapshotState(snaps[i])
       IN  [ok |-> resolved.ok, scene |-> resolved.scene]

-----------------------------------------------------------------------------
(* Handlers. *)

Idle == [pc |-> "idle"]

HandlerState ==
  {Idle}
  \cup [pc : {"save"}, seen : Nat \cup {NoVersion}, body : Scene, read : Drawing]
  \cup [pc : {"restore", "resolve"}, read : Drawing, snapshot : Snapshot]
  \cup [pc : {"apply"}, read : Drawing, body : Scene]
  \cup [pc : {"rewrite"}, body : Scene]

Cleaner == [pc : {"idle", "excess", "prune", "promote"}, pruned : BOOLEAN, upTo : Nat]
CleanerIdle == [pc |-> "idle", pruned |-> FALSE, upTo |-> 0]

Init ==
  /\ \E s \in Bodies : drawing = [version |-> 1, scene |-> s]
  /\ deleted = FALSE
  /\ snaps = <<>>
  /\ nextId = 1
  /\ handler = [h \in Handlers |-> Idle]
  /\ cleaner = CleanerIdle
  /\ written = <<drawing.scene>>

\* A request is let in, and finds the drawing.
Arrives(h, state) ==
  /\ handler[h] = Idle
  /\ ~deleted
  /\ Len(written) < VersionBound
  /\ nextId <= SnapshotBound
  /\ handler' = [handler EXCEPT ![h] = state]
  /\ UNCHANGED <<drawing, deleted, snaps, nextId, cleaner, written>>

Becomes(h, state) == handler' = [handler EXCEPT ![h] = state]

Responds(h) == Becomes(h, Idle)

\* Mutant: the version stays.
MutantStoreInPlace(scene) ==
  /\ drawing' = [drawing EXCEPT !.scene = scene]
  /\ written' = Append(written, scene)

\* version: { increment: 1 }
Store(scene) ==
  /\ drawing' = [version |-> drawing.version + 1, scene |-> scene]
  /\ written' = Append(written, scene)

\* GET /drawings/:id
GetDrawing == drawing

\* PUT /drawings/:id up to its transaction: the row is read here. A client
\* names a version it has been told of, or none.
Told == 1..Len(written) \cup {GetDrawing.version}

SaveRead(h, seen, body) ==
  /\ seen \in Told \cup {NoVersion}
  /\ Arrives(h, [pc |-> "save", seen |-> seen, body |-> body, read |-> drawing])

\* Mutant: the version is compared with the row read before the transaction.
MutantEarlyCheck(h) == handler[h].seen \in {NoVersion, handler[h].read.version}

\* updateWhere
VersionMatches(h) == handler[h].seen \in {NoVersion, drawing.version}

\* The row that records the state being overwritten, as PUT read it.
SnapshotOf(d) == IF ShouldBeKeyframe THEN FullRow(d) ELSE DeltaRow(d, LastSnapshot)

\* Mutant: update by id alone.
MutantUncheckedCommit(h) ==
  /\ handler[h].pc = "save"
  /\ ~deleted
  /\ Insert(SnapshotOf(handler[h].read))
  /\ Store(handler[h].body)
  /\ Responds(h)
  /\ UNCHANGED <<deleted, cleaner>>

SaveCommit(h) ==
  /\ handler[h].pc = "save"
  /\ ~deleted
  /\ VersionMatches(h)
  /\ Insert(SnapshotOf(handler[h].read))
  /\ Store(handler[h].body)
  /\ Responds(h)
  /\ UNCHANGED <<deleted, cleaner>>

\* The transaction is rolled back: 409, or 500 when the drawing is gone and
\* the snapshot's foreign key fails.
SaveRollback(h) ==
  /\ handler[h].pc = "save"
  /\ deleted \/ ~VersionMatches(h)
  /\ Responds(h)
  /\ UNCHANGED <<drawing, deleted, snaps, nextId, cleaner, written>>

\* POST /drawings/:id/history/:snapshotId/restore
RestoreRead(h, i) ==
  /\ i \in Ids
  /\ Arrives(h, [pc |-> "restore", read |-> drawing, snapshot |-> snaps[i]])

\* Mutant: no foreign key holds the backup to a drawing.
MutantOrphanBackup(h) ==
  /\ handler[h].pc = "restore"
  /\ Insert(FullRow(handler[h].read))
  /\ Becomes(h, [handler[h] EXCEPT !.pc = "resolve"])
  /\ UNCHANGED <<drawing, deleted, cleaner, written>>

\* The state that was read is recorded in full, outside any transaction.
RestoreBackup(h) ==
  /\ handler[h].pc = "restore"
  /\ ~deleted
  /\ Insert(FullRow(handler[h].read))
  /\ Becomes(h, [handler[h] EXCEPT !.pc = "resolve"])
  /\ UNCHANGED <<drawing, deleted, cleaner, written>>

\* The snapshot read at the start is resolved with the rows that are left: 500
\* when its chain is broken, and the backup stays.
RestoreResolve(h) ==
  /\ handler[h].pc = "resolve"
  /\ LET resolved == ResolveSnapshotState(handler[h].snapshot)
     IN  Becomes(h, IF resolved.ok
                    THEN [pc |-> "apply", read |-> handler[h].read, body |-> resolved.scene]
                    ELSE Idle)
  /\ UNCHANGED <<drawing, deleted, snaps, nextId, cleaner, written>>

RestoreFails(h) ==
  /\ handler[h].pc = "restore"
  /\ deleted
  /\ Responds(h)
  /\ UNCHANGED <<drawing, deleted, snaps, nextId, cleaner, written>>

\* POST /drawings/:id/trim drops every element with isDeleted set; DELETE
\* /drawings/:id/files/orphans those that show one of the files named.
Without(scene, elements) ==
  [e \in Elements |-> IF e \in elements /\ scene[e] \in Gone THEN Absent ELSE scene[e]]

TrimRead(h) ==
  Arrives(h, [pc |-> "rewrite", body |-> Without(drawing.scene, Elements)])

OrphansRead(h, shown) ==
  Arrives(h, [pc |-> "rewrite", body |-> Without(drawing.scene, shown)])

\* The last step of restore, trim and orphan removal: drawing.update by id.
Rewrite(h) ==
  /\ handler[h].pc \in {"apply", "rewrite"}
  /\ ~deleted
  /\ Store(handler[h].body)
  /\ Responds(h)
  /\ UNCHANGED <<deleted, snaps, nextId, cleaner>>

RewriteFails(h) ==
  /\ handler[h].pc \in {"apply", "rewrite"}
  /\ deleted
  /\ Responds(h)
  /\ UNCHANGED <<drawing, deleted, snaps, nextId, cleaner, written>>

-----------------------------------------------------------------------------
(* Requests of one step, the cleanup job, and restarts. *)

Keep(ids) == snaps' = Restrict(snaps, ids)

\* DELETE /drawings/:id/snapshots
DeleteSnapshots ==
  /\ ~deleted
  /\ Keep({})
  /\ UNCHANGED <<drawing, deleted, nextId, handler, cleaner, written>>

\* DELETE /drawings/:id, and the purge of trash; snapshots cascade.
DeleteDrawing ==
  /\ ~deleted
  /\ deleted' = TRUE
  /\ Keep({})
  /\ UNCHANGED <<drawing, nextId, handler, cleaner, written>>

\* POST /import/excalidash and the legacy import: one transaction overwrites
\* the row, or creates it again, under the version the file names.
Import(backup) ==
  /\ Len(written) < VersionBound
  /\ drawing' = [version |-> IF backup.version # NoVersion THEN backup.version
                             ELSE IF deleted THEN 1 ELSE drawing.version,
                 scene |-> backup.scene]
  /\ written' = Append(written, backup.scene)
  /\ deleted' = FALSE
  /\ UNCHANGED <<snaps, nextId, handler, cleaner>>

\* cleanupSnapshots: rows older than the cutoff, here those up to id b. The
\* job counts what it prunes over all drawings, so others may have lost rows.
CleanupAge(b, others) ==
  /\ cleaner.pc = "idle"
  /\ b \in 0..(nextId - 1)
  /\ Keep({i \in Ids : i > b})
  /\ cleaner' = [pc |-> "excess", pruned |-> others \/ \E i \in Ids : i <= b, upTo |-> 0]
  /\ UNCHANGED <<drawing, deleted, nextId, handler, written>>

\* keepBoundary: the row after the MaxPerDrawing newest, if there is one.
Boundary == {i \in Ids : Cardinality({j \in Ids : j > i}) = MaxPerDrawing}

CleanupBoundary ==
  /\ cleaner.pc = "excess"
  /\ \E b \in IF Boundary = {} THEN {0} ELSE Boundary :
       cleaner' = [cleaner EXCEPT !.pc = "prune", !.upTo = b]
  /\ UNCHANGED <<drawing, deleted, snaps, nextId, handler, written>>

CleanupExcess ==
  /\ cleaner.pc = "prune"
  /\ Keep({i \in Ids : i > cleaner.upTo})
  /\ cleaner' = [cleaner EXCEPT !.pc = "promote",
                                !.pruned = @ \/ \E i \in Ids : i <= cleaner.upTo]
  /\ UNCHANGED <<drawing, deleted, nextId, handler, written>>

\* If anything was pruned and the oldest row is a delta, it is made a full
\* row when its chain resolves, and is deleted when it does not. (The job's
\* own walk may be one row longer than resolveSnapshotState's.)
Oldest == {i \in Ids : \A j \in Ids : i <= j}

PromoteOrDrop(i) ==
  LET resolved == ResolveSnapshotState(snaps[i])
  IN  IF resolved.ok
      THEN snaps' = [snaps EXCEPT ![i] =
                       FullRow([version |-> snaps[i].version, scene |-> resolved.scene])]
      ELSE Keep(Ids \ {i})

CleanupPromote ==
  /\ cleaner.pc = "promote"
  /\ \/ /\ cleaner.pruned
        /\ \E i \in Oldest : ~IsFull(i) /\ PromoteOrDrop(i)
     \/ /\ ~cleaner.pruned \/ Oldest \subseteq Keyframes
        /\ UNCHANGED snaps
  /\ cleaner' = CleanerIdle
  /\ UNCHANGED <<drawing, deleted, nextId, handler, written>>

\* The process stops and starts again: what it held in memory is lost.
Restart ==
  /\ handler' = [h \in Handlers |-> Idle]
  /\ cleaner' = CleanerIdle
  /\ UNCHANGED <<drawing, deleted, snaps, nextId, written>>

HandlerStep(h) ==
  \/ \E seen \in Told \cup {NoVersion}, body \in Bodies : SaveRead(h, seen, body)
  \/ SaveCommit(h)
  \/ SaveRollback(h)
  \/ \E i \in Ids : RestoreRead(h, i)
  \/ RestoreBackup(h)
  \/ RestoreResolve(h)
  \/ RestoreFails(h)
  \/ TrimRead(h)
  \/ \E shown \in SUBSET Elements : OrphansRead(h, shown)
  \/ Rewrite(h)
  \/ RewriteFails(h)

Next ==
  \/ \E h \in Handlers : HandlerStep(h)
  \/ DeleteSnapshots
  \/ DeleteDrawing
  \/ \E backup \in Backups : Import(backup)
  \/ \E b \in 0..(nextId - 1), others \in BOOLEAN : CleanupAge(b, others)
  \/ CleanupBoundary
  \/ CleanupExcess
  \/ CleanupPromote
  \/ Restart

Spec == Init /\ [][Next]_vars
-----------------------------------------------------------------------------
(* Properties. *)

\* Types: a full row has no base and no delta, a delta row always names a base.
TypeOK ==
  /\ drawing \in Drawing
  /\ deleted \in BOOLEAN
  /\ nextId \in Nat \ {0}
  /\ Ids \subseteq 1..(nextId - 1)
  /\ \A i \in Ids : snaps[i] \in Snapshot
  /\ handler \in [Handlers -> HandlerState]
  /\ cleaner \in Cleaner
  /\ written \in Seq(Scene)

\* Retention only ever cuts the oldest rows: what is kept is the newest part
\* of the history, without a hole, and each delta's base is the row before it.
HistorySuffix ==
  /\ \A i \in Ids : i..(nextId - 1) \subseteq Ids
  /\ \A i \in Ids : ~IsFull(i) => snaps[i].base = i - 1

\* Above a kept keyframe, the next one comes within KeyframeInterval rows,
\* whatever restores and prunes happened between the saves that count them.
KeyframeSpacing ==
  \A k \in Keyframes :
    \/ nextId <= k + KeyframeInterval
    \/ \E j \in k + 1..k + KeyframeInterval : j \in Keyframes

\* Every row at or above a kept keyframe can be shown and restored: its chain
\* is whole and never longer than resolveSnapshotState follows.
AnchoredRowsResolve ==
  \A k \in Keyframes, i \in History : k <= i => Shown(i).ok

\* Every element that was saved is shown, with each of its keys as it was.
ShowsAll(shown, saved) ==
  \A e \in Elements : saved[e] # Absent =>
    /\ shown[e] # Absent
    /\ \A k \in Keys : saved[e][k] # NoKey => shown[e][k] = saved[e][k]

\* What else it shows: only keys that an element had in the base, and has dropped.
ShowsOnly(shown, saved, base) ==
  \A e \in Elements : shown[e] # Absent =>
    /\ saved[e] # Absent
    /\ \A k \in Keys : saved[e][k] = NoKey /\ shown[e][k] # NoKey =>
         base[e] # Absent /\ base[e][k] = shown[e][k]

GivesBack(base, delta, saved) ==
  LET shown == ApplyDelta(base, delta)
  IN  ShowsAll(shown, saved) /\ ShowsOnly(shown, saved, base)

\* A delta taken from a keyframe gives back exactly the elements of the scene it
\* records, with every key they had. All it can add is a key that an element had
\* in the keyframe and has dropped: snapshotDelta.ts assigns the keys that changed,
\* and never deletes one.
FirstDeltaExact ==
  \A i \in Ids :
    ~IsFull(i) /\ snaps[i].base \in Keyframes =>
      GivesBack(snaps[snaps[i].base].scene, snaps[i].delta, snaps[i].saved)

\* Any row that resolves shows every element of the scene it records, with every key
\* it had, as it was: chains may show too much (see HistoryShowsSavedScene), never
\* too little.
NothingSavedIsMissing ==
  \A i \in History : Shown(i).ok => ShowsAll(Shown(i).scene, snaps[i].saved)

\* Deleting the drawing leaves no snapshot behind, and none appears later.
NoHistoryWithoutDrawing == deleted => Ids = {}

(* The next properties are for drawings that no import overwrites. *)

\* A version number names one scene for ever: the row, every snapshot and
\* every copy a handler still holds agree with what was stored under it. The
\* save's version check is worth nothing otherwise.
VersionNamesScene ==
  LET Names(version, scene) == version \in 1..Len(written) /\ scene = written[version]
  IN  /\ drawing.version = Len(written) /\ Names(drawing.version, drawing.scene)
      /\ \A i \in Ids : Names(snaps[i].version, snaps[i].saved)
      /\ \A h \in Handlers :
           handler[h].pc \in {"save", "restore", "resolve", "apply"} =>
             Names(handler[h].read.version, handler[h].read.scene)

\* A save in flight read the row no earlier than its author did.
SavesNamePast ==
  \A h \in Handlers :
    handler[h].pc = "save" /\ handler[h].seen # NoVersion =>
      handler[h].seen <= handler[h].read.version

\* A save that names a version overwrites only the scene its author saw, and
\* in the same step the newest row records that scene under that version.
VersionedSaveRecordsOverwritten ==
  [][\A h \in Handlers :
       SaveCommit(h) /\ handler[h].seen # NoVersion =>
         /\ handler[h].read = drawing
         /\ drawing.scene = written[handler[h].seen]
         /\ snaps'[nextId].version = drawing.version
         /\ snaps'[nextId].saved = drawing.scene]_vars

\* The endpoints implement the optimistic register they promise.
Register ==
  INSTANCE OptimisticRegister WITH
    Clients <- Handlers, log <- written, live <- ~deleted,
    pending <- [h \in Handlers |->
                  IF handler[h].pc = "save"
                  THEN [seen |-> handler[h].seen, body |-> handler[h].body]
                  ELSE None]

\* Saves, restores, trims, deletions, the cleanup job and restarts together
\* behave as the optimistic register.
RegisterSpec == Register!Spec

\* The inductive invariant of the proofs, with imports and without.
TableInv ==
  /\ TypeOK
  /\ HistorySuffix
  /\ KeyframeSpacing
  /\ FirstDeltaExact
  /\ NoHistoryWithoutDrawing

VersionInv == VersionNamesScene /\ SavesNamePast

(* What the documentation says and the code does not keep: TLC refutes each *)
(* of the following. *)

\* A snapshot that is shown shows the scene it was made to record.
HistoryShowsSavedScene ==
  \A i \in History : Shown(i).ok => Shown(i).scene = snaps[i].saved

\* After a pass of the cleanup job every row left can be shown.
PrunedHistoryResolves ==
  [][CleanupPromote => (\A i \in History : Shown(i).ok)']_vars

\* A restore can be undone: what it overwrites is what it recorded.
RestoreIsReversible ==
  [][\A h \in Handlers : Rewrite(h) /\ handler[h].pc = "apply" =>
       handler[h].read.scene = drawing.scene]_vars
=============================================================================
