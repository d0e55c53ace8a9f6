------------------------ MODULE DrawingHistoryProofs ------------------------
(***************************************************************************)
(* Proofs about DrawingHistory for every number of handlers, elements and  *)
(* keys, every keyframe interval and every retention limit.                *)
(***************************************************************************)
EXTENDS DrawingHistory, TLAPS, FiniteSetTheorems, WellFoundedInduction

-----------------------------------------------------------------------------
(* Lemmas about deltas and rows. *)

\* A patch between two elements is one.
LEMMA ShallowDiffType ==
  ASSUME NEW prev \in Element, NEW curr \in Element
  PROVE  ShallowDiff(prev, curr) \in Element
  BY DEF Element, ShallowDiff

\* Assigning a patch between elements to an element gives one.
LEMMA AssignType ==
  ASSUME NEW element \in Element, NEW patch \in Element
  PROVE  Assign(element, patch) \in Element
  BY DEF Element, Assign

\* Assigning what changed gives every key its new value, and leaves those that
\* are gone as they were.
LEMMA AssignDiff ==
  ASSUME NEW prev \in Element, NEW curr \in Element, NEW k \in Keys
  PROVE  Assign(prev, ShallowDiff(prev, curr))[k]
           = IF curr[k] = NoKey THEN prev[k] ELSE curr[k]
  BY DEF Element, Assign, ShallowDiff

\* computeDelta and applyDelta give back the current scene on the scene the delta
\* was taken from, but for the keys that elements dropped (snapshotDelta.ts).
LEMMA DeltaRoundTrip ==
  ASSUME NEW prev \in Scene, NEW curr \in Scene
  PROVE  GivesBack(prev, ComputeDelta(prev, curr), curr)
  <1> DEFINE delta == ComputeDelta(prev, curr)
             shown == ApplyDelta(prev, delta)
  <1>1. ASSUME NEW e \in Elements
        PROVE  /\ prev[e] = Absent => shown[e] = curr[e]
               /\ curr[e] = Absent => shown[e] = Absent
               /\ prev[e] # Absent /\ curr[e] # Absent =>
                    shown[e] = Assign(prev[e], ShallowDiff(prev[e], curr[e]))
    <2>1. prev[e] # Absent => prev[e] \in Element
      BY DEF Scene
    <2>2. QED BY <2>1, ConstantsAssumption DEF ApplyDelta, ComputeDelta
  <1>2. ASSUME NEW e \in Elements, prev[e] # Absent, curr[e] # Absent
        PROVE  /\ shown[e] \in Element
               /\ \A k \in Keys :
                    shown[e][k] = IF curr[e][k] = NoKey THEN prev[e][k] ELSE curr[e][k]
    <2>1. prev[e] \in Element /\ curr[e] \in Element
      BY <1>2 DEF Scene
    <2>2. shown[e] = Assign(prev[e], ShallowDiff(prev[e], curr[e]))
      BY <1>1, <1>2
    <2>3. shown[e] \in Element
      BY <2>1, <2>2, ShallowDiffType, AssignType
    <2>4. ASSUME NEW k \in Keys
          PROVE  shown[e][k] = IF curr[e][k] = NoKey THEN prev[e][k] ELSE curr[e][k]
      BY ONLY <2>1, <2>2, <2>4, AssignDiff
    <2>5. QED BY <2>3, <2>4
  <1>3. Absent \notin Element
    BY ConstantsAssumption
  <1>4. ShowsAll(shown, curr)
    <2>1. ASSUME NEW e \in Elements, curr[e] # Absent
          PROVE  /\ shown[e] # Absent
                 /\ \A k \in Keys : curr[e][k] # NoKey => shown[e][k] = curr[e][k]
      BY <1>1, <1>2, <1>3, <2>1
    <2>2. QED BY <2>1 DEF ShowsAll
  <1>5. ShowsOnly(shown, curr, prev)
    <2>1. ASSUME NEW e \in Elements, shown[e] # Absent
          PROVE  /\ curr[e] # Absent
                 /\ \A k \in Keys : curr[e][k] = NoKey /\ shown[e][k] # NoKey =>
                      prev[e] # Absent /\ prev[e][k] = shown[e][k]
      BY <1>1, <1>2, <2>1
    <2>2. QED BY <2>1 DEF ShowsOnly
  <1>6. QED BY <1>4, <1>5 DEF GivesBack

\* A delta between scenes is well formed.
LEMMA ComputeDeltaType ==
  ASSUME NEW prev \in Scene, NEW curr \in Scene
  PROVE  ComputeDelta(prev, curr) \in Delta
  <1>1. NoPatch \in Element
    BY DEF NoPatch, Element
  <1>2. \A e \in Elements : Absent \notin {prev[e], curr[e]} =>
          ShallowDiff(prev[e], curr[e]) \in Element
    BY ShallowDiffType DEF Scene
  <1>3. QED BY <1>1, <1>2 DEF Scene, ComputeDelta, Delta

\* Applying a well-formed delta gives a scene, whatever it is applied to.
LEMMA ApplyDeltaType ==
  ASSUME NEW scene, NEW delta \in Delta
  PROVE  ApplyDelta(scene, delta) \in Scene
  <1>1. \A e \in Elements : scene[e] \in Element =>
          Assign(scene[e], delta.modified[e]) \in Element
    BY AssignType DEF Delta
  <1>2. QED BY <1>1 DEF Scene, ApplyDelta, Delta

\* The scene without elements, which a new drawing has.
LEMMA EmptySceneType == EmptyScene \in Scene
  BY DEF EmptyScene, Scene

\* A row resolveSnapshotState succeeds on yields a scene.
LEMMA ResolveType ==
  ASSUME NEW row \in Snapshot, ResolveSnapshotState(row).ok
  PROVE  ResolveSnapshotState(row).scene \in Scene
  <1>1. CASE row.type = "full"
    BY <1>1 DEF ResolveSnapshotState, ResolveFrom, Snapshot, FullSnapshot, DeltaSnapshot
  <1>2. CASE row.type # "full"
    <2>1. row.delta \in Delta
      BY <1>2 DEF Snapshot, FullSnapshot, DeltaSnapshot
    <2>2. ResolveSnapshotState(row).scene =
            ApplyDelta(Resolution[row.base].scene, row.delta)
      BY <1>2 DEF ResolveSnapshotState, ResolveFrom, Unresolvable
    <2>3. QED BY <2>1, <2>2, ApplyDeltaType
  <1>3. QED BY <1>1, <1>2

\* A keyframe of a typed drawing is a typed row.
LEMMA FullRowType ==
  ASSUME NEW d \in Drawing
  PROVE  FullRow(d) \in FullSnapshot
  BY DEF FullRow, Drawing, FullSnapshot

\* With well-typed rows the newest row exists, and a delta on it is well formed.
LEMMA DeltaRowType ==
  ASSUME NEW d \in Drawing, NEW last \in Ids, last \in Nat \ {0},
         snaps[last] \in Snapshot
  PROVE  DeltaRow(d, last) \in DeltaSnapshot
  <1>1. snaps[last].scene \in Scene
    BY EmptySceneType DEF Snapshot, FullSnapshot, DeltaSnapshot
  <1>2. ComputeDelta(snaps[last].scene, d.scene) \in Delta
    BY <1>1, ComputeDeltaType DEF Drawing
  <1>3. QED
    BY <1>2 DEF DeltaRow, DeltaSnapshot, Drawing, NoBase
-----------------------------------------------------------------------------
(* The shape of the table. *)

\* With no hole in the history the newest row is the one inserted last.
LEMMA LastIsNewest ==
  ASSUME TypeOK, HistorySuffix, Ids # {}
  PROVE  LastSnapshot \in Ids /\ LastSnapshot = nextId - 1
  <1>1. PICK i \in Ids : TRUE
    OBVIOUS
  <1>2. nextId - 1 \in Ids
    BY <1>1 DEF TypeOK, HistorySuffix
  <1>3. \A y \in Ids : nextId - 1 >= y
    BY DEF TypeOK
  <1>4. \A x \in Ids : (\A y \in Ids : x >= y) => x = nextId - 1
    BY <1>2, <1>3 DEF TypeOK
  <1>5. LastSnapshot \in Ids /\ \A y \in Ids : LastSnapshot >= y
    BY <1>2, <1>3 DEF LastSnapshot, Max
  <1>6. QED BY <1>4, <1>5

\* The base of the oldest row is never kept, so the cleanup job never promotes
\* an oldest row that is a delta: it drops it.
LEMMA PromoteDrops ==
  ASSUME TypeOK, HistorySuffix, CleanupPromote
  PROVE  \/ UNCHANGED snaps
         \/ \E i \in Oldest : Keep(Ids \ {i})
  <1>1. ASSUME NEW i \in Oldest, ~IsFull(i)
        PROVE  ~ResolveSnapshotState(snaps[i]).ok
    <2>1. snaps[i].base = i - 1 /\ snaps[i].base \notin Ids
      BY <1>1 DEF HistorySuffix, Oldest, TypeOK
    <2>2. QED BY <1>1, <2>1 DEF ResolveSnapshotState, ResolveFrom, Unresolvable, IsFull
  <1>2. QED BY <1>1 DEF CleanupPromote, PromoteOrDrop

-----------------------------------------------------------------------------
(* Type correctness. *)

\* Only the handler that moves changes.
LEMMA HandlerType ==
  ASSUME TypeOK, NEW h \in Handlers, NEW state \in HandlerState, Becomes(h, state)
  PROVE  handler' \in [Handlers -> HandlerState]
  BY DEF TypeOK, Becomes

\* Inserting a typed row keeps the table typed.
LEMMA InsertType ==
  ASSUME TypeOK, NEW row \in Snapshot, Insert(row)
  PROVE  /\ nextId' \in Nat \ {0}
         /\ Ids' \subseteq 1..(nextId' - 1)
         /\ \A i \in Ids' : snaps'[i] \in Snapshot
  BY DEF TypeOK, Insert, Ids

\* Pruning keeps the table typed.
LEMMA KeepType ==
  ASSUME TypeOK, NEW ids \in SUBSET Ids, Keep(ids), UNCHANGED nextId
  PROVE  /\ nextId' \in Nat \ {0}
         /\ Ids' \subseteq 1..(nextId' - 1)
         /\ \A i \in Ids' : snaps'[i] \in Snapshot
  BY DEF TypeOK, Keep, Restrict, Ids

\* Storing a scene under the next version keeps the drawing typed.
LEMMA StoreType ==
  ASSUME TypeOK, NEW scene \in Scene, Store(scene)
  PROVE  drawing' \in Drawing /\ written' \in Seq(Scene)
  BY DEF TypeOK, Store, Drawing

\* The cleanup job between two runs.
LEMMA CleanerIdleType == CleanerIdle \in Cleaner
  BY DEF CleanerIdle, Cleaner

\* A handler without a request.
LEMMA IdleType == Idle \in HandlerState
  BY DEF HandlerState

\* The types hold at first.
LEMMA TypeInit == Init => TypeOK
  <1> SUFFICES ASSUME Init PROVE TypeOK
    OBVIOUS
  <1>1. drawing \in Drawing /\ drawing.scene \in Scene
    BY ConstantsAssumption DEF Init, Drawing
  <1>2. Ids = {}
    BY DEF Init, Ids
  <1>3. handler \in [Handlers -> HandlerState]
    BY IdleType DEF Init
  <1>4. cleaner \in Cleaner
    BY CleanerIdleType DEF Init
  <1>5. written \in Seq(Scene)
    BY <1>1 DEF Init
  <1>6. deleted \in BOOLEAN
    BY DEF Init
  <1>7. nextId \in Nat \ {0}
    BY DEF Init
  <1>8. QED
    BY <1>1, <1>2, <1>3, <1>4, <1>5, <1>6, <1>7 DEF TypeOK

\* The row a save inserts, given the row it read, is well typed.
LEMMA SnapshotOfType ==
  ASSUME TypeOK, NEW d \in Drawing, LastSnapshot \in Ids \/ ShouldBeKeyframe
  PROVE  SnapshotOf(d) \in Snapshot
  <1>1. CASE ShouldBeKeyframe
    BY <1>1, FullRowType DEF SnapshotOf, Snapshot
  <1>2. CASE ~ShouldBeKeyframe /\ LastSnapshot \in Ids
    <2>1. LastSnapshot \in Nat \ {0} /\ snaps[LastSnapshot] \in Snapshot
      BY <1>2 DEF TypeOK
    <2>2. QED
      BY <1>2, <2>1, DeltaRowType DEF SnapshotOf, Snapshot
  <1>3. QED BY <1>1, <1>2

\* Every handler, the cleanup job and a restart keep the types.
LEMMA TypeStep ==
  TypeOK /\ HistorySuffix /\ [Next]_vars => TypeOK'
  <1> SUFFICES ASSUME TypeOK, HistorySuffix, [Next]_vars PROVE TypeOK'
    OBVIOUS
  <1> USE IdleType
  <1>0. Bodies \subseteq Scene
    BY ConstantsAssumption
  <1>1. ASSUME NEW h \in Handlers, NEW seen, NEW body \in Bodies, SaveRead(h, seen, body)
        PROVE  TypeOK'
    <2>0. seen \in Nat \cup {NoVersion}
      BY <1>1 DEF SaveRead, Told, GetDrawing, TypeOK, Drawing
    <2>1. [pc |-> "save", seen |-> seen, body |-> body, read |-> drawing] \in HandlerState
      BY <1>0, <2>0 DEF TypeOK, HandlerState
    <2>2. handler' \in [Handlers -> HandlerState]
      BY <1>1, <2>1 DEF SaveRead, Arrives, TypeOK
    <2>3. QED BY <1>1, <2>2 DEF SaveRead, Arrives, TypeOK, Ids
  <1>2. ASSUME NEW h \in Handlers, SaveCommit(h) PROVE TypeOK'
    <2>1. handler[h].read \in Drawing /\ handler[h].body \in Scene
      BY <1>2 DEF SaveCommit, TypeOK, HandlerState, Idle
    <2>2. SnapshotOf(handler[h].read) \in Snapshot
      BY <2>1, SnapshotOfType, LastIsNewest DEF ShouldBeKeyframe
    <2>3. handler' \in [Handlers -> HandlerState]
      BY <1>2, HandlerType DEF SaveCommit, Responds
    <2>4. drawing' \in Drawing /\ written' \in Seq(Scene)
      BY <1>2, <2>1, StoreType DEF SaveCommit
    <2>5. QED BY <1>2, <2>2, <2>3, <2>4, InsertType DEF SaveCommit, TypeOK
  <1>3. ASSUME NEW h \in Handlers, \/ SaveRollback(h) \/ RestoreFails(h) \/ RewriteFails(h)
        PROVE  TypeOK'
    <2>1. handler' \in [Handlers -> HandlerState]
      BY <1>3, HandlerType DEF SaveRollback, RestoreFails, RewriteFails, Responds
    <2>2. QED BY <1>3, <2>1 DEF SaveRollback, RestoreFails, RewriteFails, TypeOK, Ids
  <1>4. ASSUME NEW h \in Handlers, NEW i \in Ids, RestoreRead(h, i) PROVE TypeOK'
    <2>1. [pc |-> "restore", read |-> drawing, snapshot |-> snaps[i]] \in HandlerState
      BY DEF TypeOK, HandlerState
    <2>2. handler' \in [Handlers -> HandlerState]
      BY <1>4, <2>1 DEF RestoreRead, Arrives, TypeOK
    <2>3. QED BY <1>4, <2>2 DEF RestoreRead, Arrives, TypeOK, Ids
  <1>5. ASSUME NEW h \in Handlers, RestoreBackup(h) PROVE TypeOK'
    <2>1. handler[h].read \in Drawing
          /\ [handler[h] EXCEPT !.pc = "resolve"] \in HandlerState
      BY <1>5 DEF RestoreBackup, TypeOK, HandlerState, Idle
    <2>2. FullRow(handler[h].read) \in Snapshot
      BY <2>1, FullRowType DEF Snapshot
    <2>3. handler' \in [Handlers -> HandlerState]
      BY <1>5, <2>1, HandlerType DEF RestoreBackup
    <2>4. QED BY <1>5, <2>2, <2>3, InsertType DEF RestoreBackup, TypeOK
  <1>15. ASSUME NEW h \in Handlers, RestoreResolve(h) PROVE TypeOK'
    <2> DEFINE row == handler[h].snapshot
    <2>1. handler[h].read \in Drawing /\ row \in Snapshot
      BY <1>15 DEF RestoreResolve, TypeOK, HandlerState, Idle
    <2>2. ResolveSnapshotState(row).ok =>
            [pc |-> "apply", read |-> handler[h].read,
             body |-> ResolveSnapshotState(row).scene] \in HandlerState
      BY <2>1, ResolveType DEF HandlerState
    <2>3. handler' \in [Handlers -> HandlerState]
      BY <1>15, <2>2, HandlerType DEF RestoreResolve
    <2>4. QED BY <1>15, <2>3 DEF RestoreResolve, TypeOK, Ids
  <1>6. ASSUME NEW h \in Handlers, NEW shown \in SUBSET Elements,
               TrimRead(h) \/ OrphansRead(h, shown)
        PROVE  TypeOK'
    <2>1. \A elements : Without(drawing.scene, elements) \in Scene
      BY DEF Without, TypeOK, Drawing, Scene
    <2>2. \A elements : [pc |-> "rewrite", body |-> Without(drawing.scene, elements)]
                          \in HandlerState
      BY <2>1 DEF HandlerState
    <2>3. handler' \in [Handlers -> HandlerState]
      BY <1>6, <2>2 DEF TrimRead, OrphansRead, Arrives, TypeOK
    <2>4. QED BY <1>6, <2>3 DEF TrimRead, OrphansRead, Arrives, TypeOK, Ids
  <1>7. ASSUME NEW h \in Handlers, Rewrite(h) PROVE TypeOK'
    <2>1. handler[h].body \in Scene
      BY <1>7 DEF Rewrite, TypeOK, HandlerState, Idle
    <2>2. handler' \in [Handlers -> HandlerState]
      BY <1>7, HandlerType DEF Rewrite, Responds
    <2>3. drawing' \in Drawing /\ written' \in Seq(Scene)
      BY <1>7, <2>1, StoreType DEF Rewrite
    <2>4. QED BY <1>7, <2>2, <2>3 DEF Rewrite, TypeOK, Ids
  <1>8. CASE DeleteSnapshots \/ DeleteDrawing
    BY <1>8, KeepType DEF DeleteSnapshots, DeleteDrawing, TypeOK
  <1>9. ASSUME NEW b \in 0..(nextId - 1), NEW others \in BOOLEAN, CleanupAge(b, others)
        PROVE  TypeOK'
    <2>1. cleaner' \in Cleaner
      BY <1>9 DEF CleanupAge, Cleaner
    <2>2. QED BY <1>9, <2>1, KeepType DEF CleanupAge, TypeOK
  <1>10. CASE CleanupBoundary \/ CleanupExcess
    <2>1. Ids \subseteq Nat
      BY DEF TypeOK
    <2>2. CASE CleanupBoundary
      <3>1. PICK b \in IF Boundary = {} THEN {0} ELSE Boundary :
              cleaner' = [cleaner EXCEPT !.pc = "prune", !.upTo = b]
        BY <2>2 DEF CleanupBoundary
      <3>2. b \in Nat
        BY <2>1, <3>1 DEF Boundary
      <3>3. cleaner' \in Cleaner
        BY <3>1, <3>2 DEF Cleaner, TypeOK
      <3>4. QED BY <2>2, <3>3 DEF CleanupBoundary, TypeOK, Ids
    <2>3. CASE CleanupExcess
      <3>1. cleaner' \in Cleaner
        BY <2>3 DEF CleanupExcess, TypeOK, Cleaner
      <3>2. QED BY <2>3, <3>1, KeepType DEF CleanupExcess, TypeOK
    <2>4. QED BY <1>10, <2>2, <2>3
  <1>11. CASE CleanupPromote
    BY <1>11, PromoteDrops, KeepType, CleanerIdleType DEF CleanupPromote, TypeOK, Ids
  <1>12. CASE Restart
    BY <1>12, CleanerIdleType DEF Restart, TypeOK, Ids
  <1>13. CASE UNCHANGED vars
    BY <1>13 DEF vars, TypeOK, Ids
  <1>16. ASSUME NEW backup \in Backups, Import(backup) PROVE TypeOK'
    <2>1. backup.version \in Nat \cup {NoVersion} /\ backup.scene \in Scene
      BY ConstantsAssumption
    <2>2. drawing' \in Drawing
      BY <1>16, <2>1 DEF Import, TypeOK, Drawing
    <2>3. written' \in Seq(Scene)
      BY <1>16, <2>1 DEF Import, TypeOK
    <2>4. deleted' \in BOOLEAN
      BY <1>16 DEF Import
    <2>5. QED BY <1>16, <2>2, <2>3, <2>4 DEF Import, TypeOK, Ids
  <1>14. QED
    BY <1>15, <1>16, <1>1, <1>2, <1>3, <1>4, <1>5, <1>6, <1>7, <1>8, <1>9, <1>10, <1>11, <1>12, <1>13
    DEF Next, HandlerStep
-----------------------------------------------------------------------------
(* What pruning and inserting do to the table. *)

\* The ids that are left when only oldest rows are cut.
Suffixes == {ids \in SUBSET Ids : \A i \in ids : i..(nextId - 1) \subseteq ids}

\* The parts of the invariant that speak of the table.
TableOK == HistorySuffix /\ KeyframeSpacing /\ FirstDeltaExact

\* Cutting oldest rows keeps the table in order.
LEMMA KeepTable ==
  ASSUME TypeOK, TableOK, NEW ids \in Suffixes, Keep(ids), UNCHANGED nextId
  PROVE  TableOK'
  <1>1. ids \subseteq Ids /\ Ids' = ids /\ \A i \in ids : snaps'[i] = snaps[i]
    BY DEF Suffixes, Keep, Restrict, Ids
  <1>2. \A i \in ids : i \in Int /\ i..(nextId - 1) \subseteq ids
    BY DEF Suffixes, TypeOK
  <1>3. Keyframes' = Keyframes \cap ids
    BY <1>1 DEF Keyframes, IsFull
  <1>4. HistorySuffix'
    BY <1>1, <1>2 DEF TableOK, HistorySuffix, IsFull
  <1>5. KeyframeSpacing'
    <2>1. SUFFICES ASSUME NEW k \in Keyframes', ~(nextId <= k + KeyframeInterval)
                   PROVE  \E j \in k + 1..k + KeyframeInterval : j \in Keyframes'
      BY DEF KeyframeSpacing
    <2>2. PICK j \in k + 1..k + KeyframeInterval : j \in Keyframes
      BY <1>3, <2>1 DEF TableOK, KeyframeSpacing
    <2>3. k \in ids /\ k \in Int
      BY <1>2, <1>3
    <2>4. j \in k..(nextId - 1)
      BY <2>2, <2>3, ConstantsAssumption DEF Keyframes, TypeOK
    <2>5. j \in ids
      BY <1>2, <2>3, <2>4
    <2>6. QED BY <1>3, <2>2, <2>5
  <1>6. FirstDeltaExact'
    BY <1>1, <1>3 DEF TableOK, FirstDeltaExact, Keyframes, IsFull
  <1>7. QED BY <1>4, <1>5, <1>6 DEF TableOK

\* A row that is not made a keyframe leaves room: the last keyframe is fewer
\* than KeyframeInterval - 1 rows back.
LEMMA DeltaLeavesRoom ==
  ASSUME TypeOK, HistorySuffix, ~ShouldBeKeyframe, NEW k \in Keyframes,
         \A j \in Keyframes : j <= k
  PROVE  nextId + 1 <= k + KeyframeInterval
  <1>1. k \in Ids /\ k \in Nat /\ k <= nextId - 1 /\ k..(nextId - 1) \subseteq Ids
    BY DEF Keyframes, HistorySuffix, TypeOK
  <1>2. {i \in Ids : \A j \in Keyframes : j < i} = (k + 1)..(nextId - 1)
    <2>1. ASSUME NEW i \in Ids, \A j \in Keyframes : j < i
          PROVE  i \in (k + 1)..(nextId - 1)
      BY <1>1, <2>1 DEF TypeOK
    <2>2. ASSUME NEW i \in (k + 1)..(nextId - 1)
          PROVE  i \in Ids /\ \A j \in Keyframes : j < i
      BY <1>1, <2>2 DEF TypeOK, Keyframes
    <2>3. QED BY <2>1, <2>2
  <1>3. SnapshotsSinceKeyframe = Cardinality((k + 1)..(nextId - 1))
    BY <1>2 DEF SnapshotsSinceKeyframe
  <1>4. SnapshotsSinceKeyframe = nextId - 1 - k
    BY <1>1, <1>3, FS_Interval DEF TypeOK
  <1>5. ~(nextId - 1 - k >= KeyframeInterval - 1)
    BY <1>4 DEF ShouldBeKeyframe
  <1>6. QED BY <1>1, <1>5, ConstantsAssumption DEF TypeOK


\* Inserting a full row, or a delta row that need not be a keyframe and is taken
\* from the newest row, keeps the table in order.
LEMMA InsertTable ==
  ASSUME TypeOK, TableOK, NEW row \in Snapshot, Insert(row),
         row.type # "full" =>
           /\ ~ShouldBeKeyframe
           /\ row.base = nextId - 1
           /\ GivesBack(snaps[row.base].scene, row.delta, row.saved)
  PROVE  TableOK'
  <1>1. /\ Ids' = Ids \cup {nextId} /\ nextId' = nextId + 1
        /\ snaps'[nextId] = row
        /\ \A i \in Ids : snaps'[i] = snaps[i]
    BY DEF Insert, Ids, TypeOK
  <1>2. nextId \notin Ids /\ \A i \in Ids : i \in Nat /\ i <= nextId - 1
    <2>1. nextId \in Nat /\ Ids \subseteq 1..(nextId - 1)
      BY DEF TypeOK
    <2>2. QED BY <2>1
  <1>3. Ids = {} \/ nextId - 1 \in Ids
    BY <1>2 DEF TableOK, HistorySuffix, TypeOK
  <1>4. Keyframes' = Keyframes \cup {i \in {nextId} : row.type = "full"}
    BY <1>1, <1>2 DEF Keyframes, IsFull
  <1>5. HistorySuffix'
    <2>1. ASSUME NEW i \in Ids' PROVE i..(nextId' - 1) \subseteq Ids'
      BY <1>1, <1>2 DEF TableOK, HistorySuffix, TypeOK
    <2>2. ASSUME NEW i \in Ids', ~IsFull(i)' PROVE (snaps[i].base = i - 1)'
      BY <1>1, <2>2 DEF TableOK, HistorySuffix, IsFull
    <2>3. QED BY <2>1, <2>2 DEF HistorySuffix
  <1>6. KeyframeSpacing'
    <2>1. SUFFICES ASSUME NEW k \in Keyframes', ~(nextId + 1 <= k + KeyframeInterval)
                   PROVE  \E j \in k + 1..k + KeyframeInterval : j \in Keyframes'
      BY <1>1 DEF KeyframeSpacing
    <2>2. k # nextId
      BY <2>1, ConstantsAssumption DEF TypeOK
    <2>3. k \in Keyframes /\ k \in Nat
      BY <1>2, <1>4, <2>2 DEF Keyframes
    <2>4. CASE ~(nextId <= k + KeyframeInterval)
      BY <1>4, <2>3, <2>4 DEF TableOK, KeyframeSpacing
    <2>5. CASE nextId <= k + KeyframeInterval /\ row.type = "full"
      <3>1. nextId \in k + 1..k + KeyframeInterval
        BY <1>2, <2>3, <2>5, ConstantsAssumption DEF TypeOK, Keyframes
      <3>2. QED BY <1>4, <2>5, <3>1
    <2>6. CASE nextId <= k + KeyframeInterval /\ row.type # "full"
      <3>1. PICK j \in Keyframes : ~(j <= k)
        BY <2>1, <2>3, <2>6, DeltaLeavesRoom DEF TableOK
      <3>2. j \in k + 1..k + KeyframeInterval
        BY <1>2, <2>3, <2>6, <3>1, ConstantsAssumption DEF TypeOK, Keyframes
      <3>3. QED BY <1>4, <3>1, <3>2
    <2>7. QED BY <2>4, <2>5, <2>6
  <1>7. FirstDeltaExact'
    <2>1. SUFFICES ASSUME NEW i \in Ids', ~IsFull(i)', snaps'[i].base \in Keyframes'
                   PROVE  GivesBack(snaps'[snaps'[i].base].scene, snaps'[i].delta,
                                  snaps'[i].saved)
      BY DEF FirstDeltaExact
    <2>2. CASE i \in Ids
      <3>1. ~IsFull(i) /\ snaps'[i] = snaps[i]
        BY <1>1, <2>1, <2>2 DEF IsFull
      <3>2. snaps[i].base = i - 1
        BY <2>2, <3>1 DEF TableOK, HistorySuffix
      <3>3. snaps[i].base \in Keyframes /\ snaps[i].base \in Ids
        BY <1>2, <1>4, <2>1, <2>2, <3>1, <3>2 DEF TypeOK, Keyframes
      <3>4. QED
        BY <1>1, <2>2, <3>1, <3>3 DEF TableOK, FirstDeltaExact
    <2>3. CASE i = nextId
      <3>1. row.type # "full" /\ row.base = nextId - 1 /\ snaps'[i] = row
        BY <1>1, <2>1, <2>3 DEF IsFull
      <3>2. row.base \in Ids
        BY <1>2, <1>4, <2>1, <2>3, <3>1 DEF TypeOK, Keyframes
      <3>3. QED BY <1>1, <3>1, <3>2
    <2>4. QED BY <1>1, <2>2, <2>3
  <1>8. QED BY <1>5, <1>6, <1>7 DEF TableOK

\* The row a save inserts is one of those.
LEMMA SnapshotOfTable ==
  ASSUME TypeOK, HistorySuffix, NEW d \in Drawing
  PROVE  LET row == SnapshotOf(d)
         IN  /\ row \in Snapshot
             /\ row.version = d.version /\ row.saved = d.scene
             /\ row.type # "full" =>
                  /\ ~ShouldBeKeyframe
                  /\ row.base = nextId - 1
                  /\ GivesBack(snaps[row.base].scene, row.delta, row.saved)
  <1> DEFINE row == SnapshotOf(d)
  <1>1. row \in Snapshot
    BY SnapshotOfType, LastIsNewest DEF ShouldBeKeyframe
  <1>2. CASE ShouldBeKeyframe
    BY <1>1, <1>2 DEF SnapshotOf, FullRow
  <1>3. CASE ~ShouldBeKeyframe
    <2>1. LastSnapshot \in Ids /\ LastSnapshot = nextId - 1
      BY <1>3, LastIsNewest DEF ShouldBeKeyframe
    <2>2. row.type = "delta" /\ row.version = d.version /\ row.base = nextId - 1
          /\ row.delta = ComputeDelta(snaps[LastSnapshot].scene, d.scene)
          /\ row.saved = d.scene
      BY <1>3, <2>1 DEF SnapshotOf, DeltaRow
    <2>3. snaps[LastSnapshot].scene \in Scene
      BY <2>1, EmptySceneType DEF TypeOK, Snapshot, FullSnapshot, DeltaSnapshot
    <2>4. GivesBack(snaps[row.base].scene, row.delta, d.scene)
      BY <2>1, <2>2, <2>3, DeltaRoundTrip DEF Drawing
    <2>5. QED BY <1>1, <1>3, <2>2, <2>4
  <1>4. QED BY <1>2, <1>3

-----------------------------------------------------------------------------
(* The table keeps its invariant, whatever is imported. *)

\* A new drawing has no snapshots.
LEMMA TableInit == Init => TableInv
  <1> SUFFICES ASSUME Init PROVE TableInv
    OBVIOUS
  <1>1. Ids = {} /\ Keyframes = {}
    BY DEF Init, Ids, Keyframes
  <1>2. QED
    BY <1>1, TypeInit
    DEF TableInv, HistorySuffix, KeyframeSpacing, FirstDeltaExact, NoHistoryWithoutDrawing

\* A step that leaves the table alone, and the drawing in place.
LEMMA SameTable ==
  ASSUME TableInv, TypeOK', UNCHANGED <<snaps, nextId>>, deleted' => deleted
  PROVE  TableInv'
  BY DEF TableInv, HistorySuffix, KeyframeSpacing, FirstDeltaExact,
         Keyframes, IsFull, Ids, NoHistoryWithoutDrawing

\* A step that prunes.
LEMMA PruneStep ==
  ASSUME TableInv, TypeOK', NEW ids \in Suffixes, Keep(ids), UNCHANGED nextId,
         deleted' => deleted \/ ids = {}
  PROVE  TableInv'
  <1>1. TypeOK /\ TableOK
    BY DEF TableInv, TableOK
  <1>2. TableOK'
    BY <1>1, KeepTable
  <1>3. NoHistoryWithoutDrawing'
    <2>1. Ids' = ids /\ ids \subseteq Ids
      BY DEF Keep, Restrict, Ids, Suffixes
    <2>2. QED BY <2>1 DEF TableInv, NoHistoryWithoutDrawing
  <1>4. QED BY <1>2, <1>3 DEF TableInv, TableOK

\* A step that inserts.
LEMMA InsertStep ==
  ASSUME TableInv, TypeOK', ~deleted, UNCHANGED deleted, NEW d \in Drawing,
         NEW row, Insert(row), row = FullRow(d) \/ row = SnapshotOf(d)
  PROVE  TableInv'
  <1>1. TypeOK /\ TableOK
    BY DEF TableInv, TableOK
  <1>2. CASE row = FullRow(d)
    <2>1. row \in Snapshot /\ row.type = "full"
      BY <1>2, FullRowType DEF Snapshot, FullRow
    <2>2. TableOK'
      BY <1>1, <2>1, InsertTable
    <2>3. QED BY <2>2 DEF TableInv, TableOK, NoHistoryWithoutDrawing
  <1>3. CASE row = SnapshotOf(d)
    <2>1. TableOK'
      BY <1>1, <1>3, SnapshotOfTable, InsertTable DEF TableOK
    <2>2. QED BY <2>1 DEF TableInv, TableOK, NoHistoryWithoutDrawing
  <1>4. QED BY <1>2, <1>3

\* Every handler, the cleanup job and a restart keep the table in order.
LEMMA TableStep == TableInv /\ [Next]_vars => TableInv'
  <1> SUFFICES ASSUME TableInv, [Next]_vars PROVE TableInv'
    OBVIOUS
  <1>0. TypeOK /\ HistorySuffix
    BY DEF TableInv
  <1>1. TypeOK'
    BY <1>0, TypeStep
  <1>2. ASSUME NEW h \in Handlers, NEW seen, NEW body, NEW i, NEW shown,
               \/ SaveRead(h, seen, body) \/ RestoreRead(h, i) \/ TrimRead(h)
               \/ OrphansRead(h, shown) \/ SaveRollback(h) \/ RestoreResolve(h)
               \/ RestoreFails(h) \/ Rewrite(h) \/ RewriteFails(h)
        PROVE  TableInv'
    BY <1>1, <1>2, SameTable
    DEF SaveRead, RestoreRead, TrimRead, OrphansRead, Arrives, SaveRollback,
        RestoreResolve, RestoreFails, Rewrite, RewriteFails
  <1>3. ASSUME NEW h \in Handlers, SaveCommit(h) \/ RestoreBackup(h)
        PROVE  TableInv'
    <2>1. handler[h].read \in Drawing
      BY <1>0, <1>3 DEF SaveCommit, RestoreBackup, TypeOK, HandlerState, Idle
    <2>2. QED BY <1>1, <1>3, <2>1, InsertStep DEF SaveCommit, RestoreBackup
  <1>4. CASE DeleteSnapshots \/ DeleteDrawing
    <2>1. {} \in Suffixes
      BY DEF Suffixes
    <2>2. QED BY <1>1, <1>4, <2>1, PruneStep DEF DeleteSnapshots, DeleteDrawing
  <1>5. ASSUME NEW n \in Nat, Keep({i \in Ids : i > n}), UNCHANGED <<nextId, deleted>>
        PROVE  TableInv'
    <2>1. {i \in Ids : i > n} \in Suffixes
      BY <1>0 DEF Suffixes, HistorySuffix, TypeOK
    <2>2. QED BY <1>1, <1>5, <2>1, PruneStep
  <1>6. ASSUME NEW b \in 0..(nextId - 1), NEW others, CleanupAge(b, others)
        PROVE  TableInv'
    BY <1>0, <1>5, <1>6 DEF CleanupAge, TypeOK
  <1>7. CASE CleanupExcess
    BY <1>0, <1>5, <1>7 DEF CleanupExcess, TypeOK, Cleaner
  <1>8. CASE CleanupPromote
    <2>1. UNCHANGED <<deleted, nextId>>
      BY <1>8 DEF CleanupPromote
    <2>2. CASE UNCHANGED snaps
      BY <1>1, <2>1, <2>2, SameTable
    <2>3. ASSUME NEW i \in Oldest, Keep(Ids \ {i}) PROVE TableInv'
      <3>1. Ids \ {i} \in Suffixes
        BY <1>0 DEF Oldest, Suffixes, HistorySuffix, TypeOK
      <3>2. QED BY <1>1, <2>1, <2>3, <3>1, PruneStep
    <2>4. QED BY <1>0, <1>8, <2>2, <2>3, PromoteDrops
  <1>9. ASSUME NEW backup \in Backups, Import(backup) PROVE TableInv'
    <2>0. deleted' = FALSE
      BY <1>9 DEF Import
    <2>1. ~deleted'
      BY <2>0
    <2>2. UNCHANGED <<snaps, nextId>>
      BY <1>9 DEF Import
    <2>3. QED BY <1>1, <2>1, <2>2, SameTable
  <1>10. CASE CleanupBoundary \/ Restart \/ UNCHANGED vars
    <2>1. UNCHANGED <<deleted, snaps, nextId>>
      BY <1>10 DEF CleanupBoundary, Restart, vars
    <2>2. deleted' => deleted
      BY <2>1
    <2>3. QED BY <1>1, <2>1, <2>2, SameTable
  <1>11. QED
    BY <1>2, <1>3, <1>4, <1>6, <1>7, <1>8, <1>9, <1>10 DEF Next, HandlerStep
-----------------------------------------------------------------------------
(* Versions name scenes, as long as nothing is imported. *)

Named(version, scene) == version \in 1..Len(written) /\ scene = written[version]

\* What one handler holds agrees with the history.
HandlerNames(h) ==
  /\ handler[h].pc \in {"save", "restore", "resolve", "apply"} =>
       Named(handler[h].read.version, handler[h].read.scene)
  /\ handler[h].pc = "save" /\ handler[h].seen # NoVersion =>
       handler[h].seen <= handler[h].read.version

RowNames == drawing.version = Len(written) /\ Named(drawing.version, drawing.scene)
TableNames == \A i \in Ids : Named(snaps[i].version, snaps[i].saved)

\* The conjuncts of the version invariant, to cite it without its definition.
LEMMA VersionInvParts ==
  VersionInv <=> RowNames /\ TableNames /\ \A h \in Handlers : HandlerNames(h)
  BY DEF VersionInv, VersionNamesScene, SavesNamePast, RowNames, TableNames, HandlerNames,
         Named

\* The same conjuncts, after a step, make up the version invariant.
LEMMA VersionInvNext ==
  ASSUME RowNames', TableNames', \A h \in Handlers : HandlerNames(h)'
  PROVE  VersionInv'
  BY DEF VersionInv, VersionNamesScene, SavesNamePast, RowNames, TableNames, HandlerNames,
         Named

\* Versions keep their scenes; new ones may be added.
WrittenGrows ==
  /\ Len(written) <= Len(written')
  /\ \A v \in 1..Len(written) : written'[v] = written[v]

\* What a version names stays named as versions are written.
LEMMA NamedStays ==
  ASSUME TypeOK, WrittenGrows, written' \in Seq(Scene), NEW version, NEW scene,
         Named(version, scene)
  PROVE  Named(version, scene)'
  BY DEF TypeOK, WrittenGrows, Named

\* Storing a scene names it.
LEMMA StoreNames ==
  ASSUME TypeOK, RowNames, NEW scene \in Scene, Store(scene)
  PROVE  WrittenGrows /\ RowNames'
  BY DEF TypeOK, Store, WrittenGrows, RowNames, Named

\* At first the only version names the empty scene.
LEMMA VersionInit == Init => VersionInv
  <1> SUFFICES ASSUME Init PROVE VersionInv
    OBVIOUS
  <1>1. RowNames
    BY DEF Init, RowNames, Named
  <1>2. TableNames
    BY DEF Init, TableNames, Ids
  <1>3. \A h \in Handlers : HandlerNames(h)
    BY DEF Init, Idle, HandlerNames
  <1>4. QED BY <1>1, <1>2, <1>3, VersionInvParts

\* A step in which at most one handler moves, and starts no request.
LEMMA MoveNames ==
  ASSUME TypeOK, TypeOK', VersionInv, WrittenGrows, NEW g \in Handlers, NEW state,
         Becomes(g, state), state.pc # "save",
         state.pc \in {"restore", "resolve", "apply"} =>
           /\ handler[g].pc \in {"restore", "resolve"}
           /\ state.read = handler[g].read
  PROVE  \A h \in Handlers : HandlerNames(h)'
  <1> TAKE h \in Handlers
  <1>0. HandlerNames(h) /\ HandlerNames(g) /\ written' \in Seq(Scene)
    BY VersionInvParts DEF TypeOK
  <1>1. CASE h = g
    <2>1. handler'[h] = state
      BY <1>1 DEF Becomes, TypeOK
    <2>2. state.pc \in {"restore", "resolve", "apply"} =>
            Named(state.read.version, state.read.scene)
      BY <1>0 DEF HandlerNames
    <2>3. state.pc \in {"restore", "resolve", "apply"} =>
            Named(state.read.version, state.read.scene)'
      BY <1>0, <2>2, <2>1 DEF Named, WrittenGrows, TypeOK
    <2>4. QED BY <2>1, <2>3 DEF HandlerNames, Named
  <1>2. CASE h # g
    <2>1. handler'[h] = handler[h]
      BY <1>2 DEF Becomes, TypeOK
    <2>2. QED BY <1>0, <2>1 DEF HandlerNames, Named, WrittenGrows, TypeOK
  <1>3. QED BY <1>1, <1>2

\* A request that arrives copies the row: it names the version it read.
LEMMA ArrivalNames ==
  ASSUME TypeOK, VersionInv, NEW g \in Handlers, NEW state, Arrives(g, state),
         state.pc \in {"save", "restore"} => state.read = drawing,
         state.pc \notin {"resolve", "apply"},
         state.pc = "save" /\ state.seen # NoVersion => state.seen <= drawing.version
  PROVE  VersionInv'
  <1>1. RowNames /\ TableNames /\ \A h \in Handlers : HandlerNames(h)
    BY VersionInvParts
  <1>2. UNCHANGED <<drawing, snaps, written>>
    BY DEF Arrives
  <1>3. ASSUME NEW h \in Handlers PROVE HandlerNames(h)'
    <2>1. CASE h = g
      <3>1. handler'[h] = state
        BY <2>1 DEF Arrives, TypeOK
      <3>2. QED BY <1>1, <1>2, <3>1 DEF HandlerNames, RowNames, Named
    <2>2. CASE h # g
      <3>1. handler'[h] = handler[h]
        BY <2>2 DEF Arrives, TypeOK
      <3>2. QED BY <1>1, <1>2, <3>1 DEF HandlerNames, Named
    <2>3. QED BY <2>1, <2>2
  <1>4. RowNames' /\ TableNames'
    BY <1>1, <1>2 DEF RowNames, TableNames, Named, Ids
  <1>5. QED BY <1>3, <1>4, VersionInvNext

\* Pruning leaves names alone.
LEMMA PruneNames ==
  ASSUME VersionInv, NEW ids \in SUBSET Ids, Keep(ids),
         UNCHANGED <<drawing, handler, written>>
  PROVE  VersionInv'
  <1>1. RowNames /\ TableNames /\ \A h \in Handlers : HandlerNames(h)
    BY VersionInvParts
  <1>2. TableNames'
    BY <1>1 DEF TableNames, Keep, Restrict, Ids, Named
  <1>3. RowNames' /\ \A h \in Handlers : HandlerNames(h)'
    BY <1>1 DEF RowNames, HandlerNames, Named
  <1>4. QED BY <1>2, <1>3, VersionInvNext

\* The row a save or a restore inserts names what its handler read.
LEMMA InsertNames ==
  ASSUME TypeOK, TypeOK', VersionInv, WrittenGrows, NEW row, Insert(row),
         Named(row.version, row.saved)
  PROVE  TableNames'
  <1>1. TableNames /\ written' \in Seq(Scene)
    BY VersionInvParts DEF TypeOK
  <1>2. Ids' = Ids \cup {nextId} /\ snaps'[nextId] = row
        /\ \A i \in Ids : i # nextId => snaps'[i] = snaps[i]
    BY DEF Insert, Ids
  <1>3. QED BY <1>1, <1>2, NamedStays DEF TableNames, Named, WrittenGrows, TypeOK

\* Without imports every step keeps the names.
LEMMA VersionStep ==
  ASSUME Backups = {}
  PROVE  TableInv /\ VersionInv /\ [Next]_vars => VersionInv'
  <1> SUFFICES ASSUME TableInv, VersionInv, [Next]_vars PROVE VersionInv'
    OBVIOUS
  <1>0. /\ TypeOK /\ HistorySuffix /\ TypeOK'
        /\ RowNames /\ TableNames
        /\ \A h \in Handlers : HandlerNames(h)
    BY VersionInvParts, TypeStep DEF TableInv
  <1>1. ASSUME NEW h \in Handlers, NEW seen \in Told \cup {NoVersion},
               NEW body \in Bodies, SaveRead(h, seen, body)
        PROVE  VersionInv'
    <2>1. seen = NoVersion \/ seen <= drawing.version
      BY <1>0 DEF Told, GetDrawing, RowNames, TypeOK, Drawing
    <2>2. QED BY <1>0, <1>1, <2>1, ArrivalNames DEF SaveRead
  <1>2. ASSUME NEW h \in Handlers,
               \/ \E i \in Ids : RestoreRead(h, i)
               \/ TrimRead(h)
               \/ \E shown \in SUBSET Elements : OrphansRead(h, shown)
        PROVE  VersionInv'
    BY <1>0, <1>2, ArrivalNames DEF RestoreRead, TrimRead, OrphansRead
  <1>3. ASSUME UNCHANGED <<drawing, snaps, written>>,
               \A h \in Handlers : HandlerNames(h)'
        PROVE  VersionInv'
    <2>1. RowNames' /\ TableNames'
      BY <1>0, <1>3 DEF RowNames, TableNames, Named, Ids
    <2>2. QED BY <1>3, <2>1, VersionInvNext
  <1>4. UNCHANGED written => WrittenGrows
    BY <1>0 DEF WrittenGrows, TypeOK
  <1>5. ASSUME NEW h \in Handlers,
               SaveRollback(h) \/ RestoreResolve(h) \/ RestoreFails(h) \/ RewriteFails(h)
        PROVE  VersionInv'
    <2>1. UNCHANGED <<drawing, snaps, written>>
      BY <1>5 DEF SaveRollback, RestoreResolve, RestoreFails, RewriteFails
    <2>2. \A g \in Handlers : HandlerNames(g)'
      <3>1. CASE RestoreResolve(h)
        <4> DEFINE resolved == ResolveSnapshotState(handler[h].snapshot)
                   state == IF resolved.ok
                            THEN [pc |-> "apply", read |-> handler[h].read,
                                  body |-> resolved.scene]
                            ELSE Idle
        <4>1. Becomes(h, state) /\ handler[h].pc = "resolve"
          BY <3>1 DEF RestoreResolve
        <4>2. state.pc # "save"
              /\ (state.pc \in {"restore", "resolve", "apply"} => state.read = handler[h].read)
          BY DEF Idle
        <4>3. QED BY <1>0, <1>4, <2>1, <4>1, <4>2, MoveNames
      <3>2. CASE SaveRollback(h) \/ RestoreFails(h) \/ RewriteFails(h)
        BY <1>0, <1>4, <2>1, <3>2, MoveNames
        DEF SaveRollback, RestoreFails, RewriteFails, Responds, Idle
      <3>3. QED BY <1>5, <3>1, <3>2
    <2>3. QED BY <1>3, <2>1, <2>2
  <1>6. ASSUME NEW h \in Handlers, SaveCommit(h) PROVE VersionInv'
    <2>1. handler[h].read \in Drawing /\ handler[h].body \in Scene
          /\ Named(handler[h].read.version, handler[h].read.scene)
      BY <1>0, <1>6 DEF SaveCommit, TypeOK, HandlerState, Idle, HandlerNames
    <2>2. WrittenGrows /\ RowNames'
      BY <1>0, <1>6, <2>1, StoreNames DEF SaveCommit
    <2>3. TableNames'
      BY <1>0, <1>6, <2>1, <2>2, SnapshotOfTable, InsertNames DEF SaveCommit
    <2>4. \A g \in Handlers : HandlerNames(g)'
      BY <1>0, <1>6, <2>2, MoveNames DEF SaveCommit, Responds, Idle
    <2>5. QED BY <2>2, <2>3, <2>4, VersionInvNext
  <1>7. ASSUME NEW h \in Handlers, RestoreBackup(h) PROVE VersionInv'
    <2>1. handler[h].read \in Drawing /\ handler[h].pc = "restore"
          /\ Named(handler[h].read.version, handler[h].read.scene)
      BY <1>0, <1>7 DEF RestoreBackup, TypeOK, HandlerState, Idle, HandlerNames
    <2>2. UNCHANGED <<drawing, written>> /\ WrittenGrows
      BY <1>4, <1>7 DEF RestoreBackup
    <2>3. RowNames'
      BY <1>0, <2>2 DEF RowNames, Named
    <2>4. TableNames'
      BY <1>0, <1>7, <2>1, <2>2, InsertNames DEF RestoreBackup, FullRow
    <2>5. handler[h] \in HandlerState
      BY <1>0 DEF TypeOK
    <2>6. [handler[h] EXCEPT !.pc = "resolve"].pc = "resolve"
          /\ [handler[h] EXCEPT !.pc = "resolve"].read = handler[h].read
      BY <2>1, <2>5 DEF HandlerState, Idle
    <2>7. \A g \in Handlers : HandlerNames(g)'
      BY <1>0, <1>7, <2>1, <2>2, <2>6, MoveNames DEF RestoreBackup
    <2>8. QED BY <2>3, <2>4, <2>7, VersionInvNext
  <1>8. ASSUME NEW h \in Handlers, Rewrite(h) PROVE VersionInv'
    <2>1. handler[h].body \in Scene
      BY <1>0, <1>8 DEF Rewrite, TypeOK, HandlerState, Idle
    <2>2. WrittenGrows /\ RowNames'
      BY <1>0, <1>8, <2>1, StoreNames DEF Rewrite
    <2>3. TableNames'
      BY <1>0, <1>8, <2>2 DEF Rewrite, TableNames, Named, WrittenGrows, Ids, TypeOK
    <2>4. \A g \in Handlers : HandlerNames(g)'
      BY <1>0, <1>8, <2>2, MoveNames DEF Rewrite, Responds, Idle
    <2>5. QED BY <2>2, <2>3, <2>4, VersionInvNext
  <1>9. CASE DeleteSnapshots \/ DeleteDrawing \/ CleanupExcess
    BY <1>0, <1>9, PruneNames DEF DeleteSnapshots, DeleteDrawing, CleanupExcess
  <1>17. ASSUME NEW b, NEW others, CleanupAge(b, others) PROVE VersionInv'
    BY <1>0, <1>17, PruneNames DEF CleanupAge
  <1>10. ASSUME UNCHANGED <<drawing, handler, snaps, written>> PROVE VersionInv'
    BY <1>0, <1>3, <1>10 DEF HandlerNames, Named
  <1>11. CASE CleanupPromote
    BY <1>0, <1>10, <1>11, PromoteDrops, PruneNames DEF CleanupPromote
  <1>12. CASE CleanupBoundary \/ UNCHANGED vars
    BY <1>10, <1>12 DEF CleanupBoundary, vars
  <1>13. CASE Restart
    <2>1. \A h \in Handlers : HandlerNames(h)'
      BY <1>13 DEF Restart, HandlerNames, Idle
    <2>2. UNCHANGED <<drawing, snaps, written>>
      BY <1>13 DEF Restart
    <2>3. QED BY <1>3, <2>1, <2>2
  <1>14. ASSUME NEW h \in Handlers, HandlerStep(h) PROVE VersionInv'
    BY <1>1, <1>2, <1>5, <1>6, <1>7, <1>8, <1>14 DEF HandlerStep
  <1>15. ~\E backup \in Backups : Import(backup)
    OBVIOUS
  <1>16. \/ \E h \in Handlers : HandlerStep(h)
         \/ DeleteSnapshots \/ DeleteDrawing \/ CleanupExcess
         \/ \E b, others : CleanupAge(b, others)
         \/ CleanupBoundary \/ CleanupPromote \/ Restart \/ UNCHANGED vars
    BY <1>15 DEF Next
  <1>18. QED
    BY <1>9, <1>11, <1>12, <1>13, <1>14, <1>16, <1>17
-----------------------------------------------------------------------------
(* The endpoints implement OptimisticRegister. *)

Pending(h) ==
  IF handler[h].pc = "save"
  THEN [seen |-> handler[h].seen, body |-> handler[h].body] ELSE None

PendingSaves == [h \in Handlers |-> Pending(h)]

\* A step between two states other than "save" is invisible to the register.
LEMMA OffStage ==
  ASSUME TypeOK, NEW h \in Handlers, NEW state, Becomes(h, state),
         handler[h].pc # "save", state.pc # "save"
  PROVE  PendingSaves' = PendingSaves
  <1>1. SUFFICES ASSUME NEW g \in Handlers PROVE Pending(g)' = Pending(g)
    BY DEF PendingSaves
  <1>2. CASE g = h
    BY <1>2 DEF Becomes, TypeOK, Pending
  <1>3. CASE g # h
    BY <1>3 DEF Becomes, TypeOK, Pending
  <1>4. QED BY <1>2, <1>3

\* Any other changes the pending save of its own handler.
LEMMA OnStage ==
  ASSUME TypeOK, NEW h \in Handlers, NEW state, Becomes(h, state)
  PROVE  PendingSaves' =
           [PendingSaves EXCEPT ![h] =
              IF state.pc = "save" THEN [seen |-> state.seen, body |-> state.body]
              ELSE None]
  BY DEF Becomes, TypeOK, Pending, PendingSaves

\* A save in flight is a pending save of the register.
LEMMA SaveIsPending ==
  ASSUME TypeOK, NEW h \in Handlers, handler[h].pc = "save"
  PROVE  /\ Pending(h) = [seen |-> handler[h].seen, body |-> handler[h].body]
         /\ Pending(h) # None
         /\ handler[h].body \in Scene
  BY ConstantsAssumption DEF Pending, TypeOK, HandlerState, Idle

\* A new drawing is the register with one version.
LEMMA RegisterInit == Init => Register!Init
  <1> SUFFICES ASSUME Init PROVE Register!Init
    OBVIOUS
  <1>1. \E s \in Scene : written = <<s>>
    BY ConstantsAssumption DEF Init
  <1>2. [h \in Handlers |->
           IF handler[h].pc = "save"
           THEN [seen |-> handler[h].seen, body |-> handler[h].body] ELSE None]
          = [c \in Handlers |-> None]
    BY DEF Init, Idle
  <1>3. (~deleted) = TRUE
    BY Zenon DEF Init
  <1>4. QED BY <1>1, <1>2, <1>3 DEF Register!Init

\* Every step of the handlers is a step of the register, or leaves it alone.
LEMMA RegisterStep ==
  ASSUME Backups = {}
  PROVE  TableInv /\ VersionInv /\ [Next]_vars => [Register!Next]_(Register!vars)
  <1> SUFFICES ASSUME TableInv, VersionInv, [Next]_vars PROVE [Register!Next]_(Register!vars)
    OBVIOUS
  <1> DEFINE stutter == UNCHANGED <<written, deleted>> /\ PendingSaves' = PendingSaves
  <1>0. TypeOK /\ RowNames
    BY VersionInvParts DEF TableInv
  <1>1. stutter => UNCHANGED Register!vars
    BY DEF Register!vars, PendingSaves, Pending
  <1>2. ASSUME NEW h \in Handlers, NEW seen \in Told \cup {NoVersion},
               NEW body \in Bodies, SaveRead(h, seen, body)
        PROVE  Register!Submit(h, seen, body)
    <2>1. Becomes(h, [pc |-> "save", seen |-> seen, body |-> body, read |-> drawing])
          /\ ~deleted /\ UNCHANGED <<written, deleted>> /\ handler[h] = Idle
      BY <1>2 DEF SaveRead, Arrives, Becomes
    <2>2. PendingSaves' = [PendingSaves EXCEPT ![h] = [seen |-> seen, body |-> body]]
      BY <1>0, <2>1, OnStage
    <2>3. PendingSaves[h] = None
      BY <2>1 DEF PendingSaves, Pending, Idle
    <2>4. seen \in 1..Len(written) \cup {NoVersion}
      BY <1>0 DEF RowNames, Named, Told, GetDrawing
    <2>5. QED BY <2>1, <2>2, <2>3, <2>4 DEF Register!Submit, PendingSaves, Pending
  <1>3. ASSUME NEW h \in Handlers, SaveCommit(h) PROVE Register!Commit(h)
    <2>1. Becomes(h, Idle) /\ ~deleted /\ UNCHANGED deleted /\ handler[h].pc = "save"
          /\ handler[h].seen \in {NoVersion, drawing.version}
          /\ written' = Append(written, handler[h].body)
      BY <1>3 DEF SaveCommit, Responds, VersionMatches, Store
    <2>2. PendingSaves' = [PendingSaves EXCEPT ![h] = None]
      BY <1>0, <2>1, OnStage DEF Idle
    <2>3. Register!Current(handler[h].seen)
      BY <1>0, <2>1 DEF Register!Current, RowNames
    <2>4. PendingSaves[h] # None /\ PendingSaves[h].seen = handler[h].seen
          /\ PendingSaves[h].body = handler[h].body
      BY <1>0, <2>1, SaveIsPending DEF PendingSaves
    <2>5. QED BY <2>1, <2>2, <2>3, <2>4 DEF Register!Commit, PendingSaves, Pending
  <1>4. ASSUME NEW h \in Handlers, SaveRollback(h) PROVE Register!Reject(h)
    <2>1. Becomes(h, Idle) /\ UNCHANGED <<written, deleted>> /\ handler[h].pc = "save"
          /\ (deleted \/ handler[h].seen \notin {NoVersion, drawing.version})
      BY <1>4 DEF SaveRollback, Responds, VersionMatches
    <2>2. PendingSaves' = [PendingSaves EXCEPT ![h] = None]
      BY <1>0, <2>1, OnStage DEF Idle
    <2>3. deleted \/ ~Register!Current(handler[h].seen)
      BY <1>0, <2>1 DEF Register!Current, RowNames
    <2>4. PendingSaves[h] # None /\ PendingSaves[h].seen = handler[h].seen
      BY <1>0, <2>1, SaveIsPending DEF PendingSaves
    <2>5. QED BY <2>1, <2>2, <2>3, <2>4 DEF Register!Reject, PendingSaves, Pending
  <1>5. ASSUME NEW h \in Handlers, Rewrite(h)
        PROVE  Register!Override(handler[h].body) /\ handler[h].body \in Scene
    <2>1. Becomes(h, Idle) /\ ~deleted /\ UNCHANGED deleted /\ handler[h].pc # "save"
          /\ written' = Append(written, handler[h].body)
      BY <1>5 DEF Rewrite, Responds, Store
    <2>2. handler[h].body \in Scene
      BY <1>0, <1>5 DEF Rewrite, TypeOK, HandlerState, Idle
    <2>3. PendingSaves' = PendingSaves
      BY <1>0, <2>1, OffStage DEF Idle
    <2>4. QED BY <2>1, <2>2, <2>3 DEF Register!Override, PendingSaves, Pending
  <1>6. ASSUME NEW h \in Handlers, NEW state, Becomes(h, state), state.pc # "save",
               handler[h].pc # "save", UNCHANGED <<written, deleted>>
        PROVE  stutter
    BY <1>0, <1>6, OffStage
  <1>8. CASE DeleteDrawing
    <2>1. UNCHANGED <<written, handler>> /\ deleted' = TRUE
      BY <1>8 DEF DeleteDrawing
    <2>2. Register!Retire
      BY <2>1 DEF Register!Retire
    <2>3. QED BY <2>2 DEF Register!Next
  <1>9. CASE \/ DeleteSnapshots \/ CleanupBoundary \/ CleanupExcess \/ CleanupPromote \/ UNCHANGED vars
             \/ \E b \in 0..(nextId - 1), others \in BOOLEAN : CleanupAge(b, others)
    BY <1>1, <1>9
    DEF DeleteSnapshots, CleanupBoundary, CleanupExcess, CleanupPromote, CleanupAge, vars,
        PendingSaves, Pending
  <1>10. CASE Restart
    <2>1. UNCHANGED <<written, deleted>> /\ PendingSaves' = [h \in Handlers |-> None]
      BY <1>10 DEF Restart, PendingSaves, Pending, Idle
    <2>2. Register!Forget
      BY <2>1 DEF Register!Forget, PendingSaves, Pending
    <2>3. QED BY <2>2 DEF Register!Next
  <1>11. Told = 1..Len(written) /\ Bodies \subseteq Scene
    BY <1>0, ConstantsAssumption DEF RowNames, Named, Told, GetDrawing
  <1>12. ASSUME NEW h \in Handlers, HandlerStep(h) PROVE [Register!Next]_(Register!vars)
    <2>1. CASE \E seen \in Told \cup {NoVersion}, body \in Bodies :
                 SaveRead(h, seen, body)
      BY <1>2, <1>11, <2>1 DEF Register!Next
    <2>2. CASE SaveCommit(h) \/ SaveRollback(h)
      BY <1>3, <1>4, <2>2 DEF Register!Next
    <2>3. CASE Rewrite(h)
      BY <1>5, <2>3 DEF Register!Next
    <2>4. CASE \/ RestoreBackup(h) \/ RestoreFails(h) \/ TrimRead(h) \/ RewriteFails(h)
               \/ \E i \in Ids : RestoreRead(h, i)
               \/ \E shown \in SUBSET Elements : OrphansRead(h, shown)
      <3>1. UNCHANGED <<written, deleted>>
        BY <2>4 DEF RestoreBackup, RestoreFails, TrimRead, RewriteFails, RestoreRead,
                    OrphansRead, Arrives
      <3>2. handler[h] \in HandlerState
        BY <1>0 DEF TypeOK
      <3>3. stutter
        BY <1>6, <2>4, <3>1, <3>2
        DEF RestoreBackup, RestoreFails, TrimRead, RewriteFails, RestoreRead, OrphansRead,
            Arrives, Becomes, Responds, HandlerState, Idle
      <3>4. QED BY <1>1, <3>3
    <2>6. CASE RestoreResolve(h)
      BY <1>1, <1>6, <2>6 DEF RestoreResolve, Idle
    <2>7. QED BY <1>12, <2>1, <2>2, <2>3, <2>4, <2>6 DEF HandlerStep
  <1>13. ~\E backup \in Backups : Import(backup)
    OBVIOUS
  <1>14. QED BY <1>8, <1>9, <1>10, <1>12, <1>13 DEF Next

-----------------------------------------------------------------------------
(* The chains that resolveSnapshotState follows.                           *)
(*                                                                         *)
(* Resolution is a recursive function: that it exists is shown first, by   *)
(* the least id up to which no function would do, and that a chain is      *)
(* whole by the first of its rows that would not resolve.                  *)

\* Among natural numbers there is a least.
LEMMA LeastExists ==
  ASSUME NEW S \in SUBSET Nat, S # {}
  PROVE  \E x \in S : \A y \in S : x <= y
  <1> DEFINE R == OpToRel(<, Nat)
  <1>1. IsWellFoundedOn(R, Nat)
    BY NatLessThanWellFounded
  <1>2. \A a, b \in Nat : a < b => <<a, b>> \in R
    BY DEF OpToRel
  <1> HIDE DEF R
  <1>3. PICK x \in S : \A y \in S : <<y, x>> \notin R
    BY <1>1, WFMin
  <1>4. ASSUME NEW y \in S PROVE x <= y
    <2>1. x \in Nat /\ y \in Nat /\ <<y, x>> \notin R
      BY <1>3
    <2>2. ~(y < x)
      BY <1>2, <2>1
    <2>3. QED BY <2>1, <2>2
  <1>5. QED BY <1>4

\* One step of the walk asks for the base alone.
LEMMA ResolveFromBase ==
  ASSUME NEW row, NEW f, NEW g,
         row.type # "full" /\ row.base \in Ids => f[row.base] = g[row.base]
  PROVE  ResolveFrom(row, f) = ResolveFrom(row, g)
  BY DEF ResolveFrom

\* Some function follows every chain to its end: the recursion of
\* resolveSnapshotState is well founded, as each base is an older row.
LEMMA ResolutionExists ==
  ASSUME TypeOK, HistorySuffix
  PROVE  \E f : f = [i \in Ids |-> ResolveFrom(snaps[i], f)]
  <1> DEFINE UpTo(n) == {i \in Ids : i <= n}
             Found(n) == \E f : f = [i \in UpTo(n) |-> ResolveFrom(snaps[i], f)]
             Open == {n \in Nat : ~Found(n)}
  <1>1. Ids \subseteq 1..(nextId - 1) /\ nextId \in Nat
    BY DEF TypeOK
  <1>2. UpTo(0) = {} /\ UpTo(nextId) = Ids
    <2>1. \A i \in Ids : i \in Nat /\ ~(i <= 0) /\ i <= nextId
      BY <1>1
    <2>2. QED BY <2>1
  <1>3. Found(0)
    <2> DEFINE f == [i \in {} |-> Unresolvable]
    <2>1. f = [i \in UpTo(0) |-> ResolveFrom(snaps[i], f)]
      BY <1>2
    <2>2. QED BY <2>1
  <1>4. ASSUME NEW n \in Nat, Found(n) PROVE Found(n + 1)
    <2>1. PICK f : f = [i \in UpTo(n) |-> ResolveFrom(snaps[i], f)]
      BY <1>4
    <2> DEFINE g == [i \in UpTo(n + 1) |-> ResolveFrom(snaps[i], f)]
    <2>2. ASSUME NEW i \in UpTo(n + 1)
          PROVE  ResolveFrom(snaps[i], f) = ResolveFrom(snaps[i], g)
      <3>1. SUFFICES ASSUME snaps[i].type # "full", snaps[i].base \in Ids
                     PROVE  f[snaps[i].base] = g[snaps[i].base]
        BY ResolveFromBase
      <3>2. snaps[i].base = i - 1 /\ i \in Nat /\ i <= n + 1
        BY <1>1, <3>1 DEF HistorySuffix, IsFull
      <3>3. snaps[i].base \in UpTo(n) /\ snaps[i].base \in UpTo(n + 1)
        BY <3>1, <3>2
      <3>4. QED BY <2>1, <3>3
    <2>3. g = [i \in UpTo(n + 1) |-> ResolveFrom(snaps[i], g)]
      BY <2>2
    <2>4. QED BY <2>3
  <1>5. Open = {}
    <2>1. SUFFICES ASSUME Open # {} PROVE FALSE
      OBVIOUS
    <2> HIDE DEF Found
    <2>2. PICK n \in Open : \A m \in Open : n <= m
      BY <2>1, LeastExists
    <2>3. n \in Nat /\ n # 0
      BY <1>3
    <2>4. n - 1 \in Nat /\ n - 1 \notin Open
      BY <2>2, <2>3
    <2>5. Found(n - 1)
      BY <2>4
    <2>6. Found((n - 1) + 1)
      BY <1>4, <2>4, <2>5
    <2>7. (n - 1) + 1 = n
      BY <2>3
    <2>8. QED BY <2>6, <2>7
  <1>6. Found(nextId)
    BY <1>1, <1>5
  <1>7. QED BY <1>2, <1>6

\* Each row resolves as one step from its base.
LEMMA ResolutionStep ==
  ASSUME TypeOK, HistorySuffix, NEW i \in Ids
  PROVE  Resolution[i] = ResolveFrom(snaps[i], Resolution)
  <1>1. Resolution = [j \in Ids |-> ResolveFrom(snaps[j], Resolution)]
    BY ResolutionExists DEF Resolution
  <1>2. QED BY <1>1

\* The chain from a keyframe, as long as there is no other above it, has one row
\* more each time.
LEMMA ChainFromKeyframe ==
  ASSUME TypeOK, HistorySuffix, NEW k \in Keyframes, NEW i \in Ids, k <= i,
         i < k + KeyframeInterval, \A j \in Keyframes : j <= k \/ i < j
  PROVE  Resolution[i].ok /\ Resolution[i].depth = i - k
  <1> DEFINE Good(n) == Resolution[n].ok /\ Resolution[n].depth = n - k
             Bad == {n \in k..i : ~Good(n)}
  <1>1. k \in Ids /\ IsFull(k) /\ k \in Nat /\ i \in Nat /\ k..i \subseteq Ids /\ nextId \in Nat
    BY DEF Keyframes, TypeOK, HistorySuffix
  <1>2. Good(k)
    <2>1. Resolution[k] = [ok |-> TRUE, depth |-> 0, scene |-> snaps[k].scene]
      BY <1>1, ResolutionStep DEF ResolveFrom, IsFull
    <2>2. QED BY <1>1, <2>1
  <1>3. ASSUME NEW n \in k..i, n # k, Good(n - 1) PROVE Good(n)
    <2>1. n \in Ids /\ n - 1 \in Ids /\ n \in Nat /\ k < n
      BY <1>1, <1>3
    <2>2. ~IsFull(n)
      BY <1>1, <2>1 DEF Keyframes
    <2>3. snaps[n].base = n - 1
      BY <2>1, <2>2 DEF HistorySuffix
    <2>4. (n - 1) - k + 1 < MaxDepth /\ (n - 1) - k + 1 = n - k
      BY <1>1, <2>1, ConstantsAssumption DEF MaxDepth
    <2>5. Resolution[n] = ResolveFrom(snaps[n], Resolution)
      BY <2>1, ResolutionStep
    <2>6. Resolution[n] = [ok |-> TRUE, depth |-> (n - 1) - k + 1,
                           scene |-> ApplyDelta(Resolution[n - 1].scene, snaps[n].delta)]
      BY <1>3, <2>1, <2>2, <2>3, <2>4, <2>5 DEF ResolveFrom, IsFull
    <2>7. QED BY <2>4, <2>6
  <1>4. Bad = {}
    <2>1. SUFFICES ASSUME Bad # {} PROVE FALSE
      OBVIOUS
    <2> HIDE DEF Good
    <2>0. Bad \subseteq Nat
      BY <1>1
    <2>2. PICK n \in Bad : \A m \in Bad : n <= m
      BY <2>0, <2>1, LeastExists
    <2>3. n \in k..i /\ n # k /\ n \in Nat
      BY <1>1, <1>2
    <2>4. n - 1 \in k..i /\ n - 1 \notin Bad
      BY <1>1, <2>2, <2>3
    <2>5. QED BY <1>3, <2>2, <2>3, <2>4
  <1>5. i \in k..i
    BY <1>1
  <1>6. QED BY <1>4, <1>5

\* Below a row that has a keyframe under it there is a newest one.
LEMMA NewestKeyframe ==
  ASSUME TypeOK, NEW k0 \in Keyframes, NEW i \in Ids, k0 <= i
  PROVE  \E k \in Keyframes : k <= i /\ \A j \in Keyframes : j <= k \/ i < j
  <1> DEFINE S == {d \in Nat : i - d \in Keyframes}
  <1>1. i \in Nat /\ Keyframes \subseteq Nat
    <2>1. Ids \subseteq Nat
      BY DEF TypeOK
    <2>2. QED BY <2>1 DEF Keyframes
  <1>2. i - k0 \in S
    BY <1>1
  <1>3. PICK d \in S : \A c \in S : d <= c
    BY <1>2, LeastExists
  <1>4. ASSUME NEW j \in Keyframes, j <= i PROVE j <= i - d
    <2>1. i - j \in Nat /\ i - (i - j) = j
      BY <1>1, <1>4
    <2>2. i - j \in S
      BY <2>1
    <2>3. d <= i - j
      BY <1>3, <2>2
    <2>4. QED BY <1>1, <2>3
  <1>5. i - d \in Keyframes /\ i - d <= i
    BY <1>1
  <1>6. \A j \in Keyframes : j <= i - d \/ i < j
    BY <1>1, <1>4
  <1>7. QED BY <1>5, <1>6

\* The table in order, every row at or above a keyframe can be shown.
LEMMA TableResolves == TableInv => AnchoredRowsResolve
  <1>1. SUFFICES ASSUME TableInv, NEW k0 \in Keyframes, NEW i \in Ids, k0 <= i, ~IsFull(i)
                 PROVE  ResolveSnapshotState(snaps[i]).ok
    BY DEF AnchoredRowsResolve, Shown, History
  <1>2. TypeOK /\ HistorySuffix /\ KeyframeSpacing
    BY <1>1 DEF TableInv
  <1>3. PICK k \in Keyframes : k <= i /\ \A j \in Keyframes : j <= k \/ i < j
    BY <1>1, <1>2, NewestKeyframe
  <1>4. k \in Nat /\ i \in Nat /\ nextId \in Nat /\ i <= nextId - 1
    BY <1>2 DEF TypeOK, Keyframes
  <1>5. i < k + KeyframeInterval
    <2>1. CASE nextId <= k + KeyframeInterval
      BY <1>4, <2>1, ConstantsAssumption
    <2>2. CASE \E j \in k + 1..k + KeyframeInterval : j \in Keyframes
      BY <1>3, <1>4, <2>2, ConstantsAssumption
    <2>3. QED BY <1>2, <2>1, <2>2 DEF KeyframeSpacing
  <1>6. Resolution[i].ok
    BY <1>2, <1>3, <1>5, ChainFromKeyframe
  <1>7. QED BY <1>2, <1>6, ResolutionStep DEF ResolveSnapshotState

-----------------------------------------------------------------------------
(* What rows record, however long their chains are. *)

\* A full row holds the scene it records; a delta that has its base was computed
\* from the base's own columns.
RowsRecord ==
  /\ \A i \in Keyframes : snaps[i].scene = snaps[i].saved
  /\ \A i \in Ids : ~IsFull(i) /\ snaps[i].base \in Ids =>
       snaps[i].delta = ComputeDelta(snaps[snaps[i].base].scene, snaps[i].saved)

\* Pruning leaves the deltas that keep their base as they were.
LEMMA PruneDeltas ==
  ASSUME RowsRecord, NEW ids \in SUBSET Ids, Keep(ids)
  PROVE  RowsRecord'
  <1>1. Ids' = ids /\ \A i \in ids : snaps'[i] = snaps[i]
    BY DEF Keep, Restrict, Ids
  <1>2. QED BY <1>1 DEF RowsRecord, Keyframes, IsFull

\* A row that is inserted is full, or is computed from the newest row.
LEMMA InsertDeltas ==
  ASSUME TableInv, RowsRecord, NEW d \in Drawing, NEW row, Insert(row),
         row = FullRow(d) \/ row = SnapshotOf(d)
  PROVE  RowsRecord'
  <1>1. /\ Ids' = Ids \cup {nextId} /\ snaps'[nextId] = row
        /\ \A i \in Ids : snaps'[i] = snaps[i]
        /\ nextId \notin Ids /\ \A i \in Ids : i \in Nat /\ i < nextId
    <2>1. nextId \in Nat /\ Ids \subseteq 1..(nextId - 1)
      BY DEF TableInv, TypeOK
    <2>2. nextId \notin Ids /\ \A i \in Ids : i \in Nat /\ i < nextId
      BY <2>1
    <2>3. QED BY <2>2 DEF Insert, Ids
  <1>2. SUFFICES ASSUME NEW i \in Ids'
                 PROVE  /\ IsFull(i)' => snaps'[i].scene = snaps'[i].saved
                        /\ ~IsFull(i)' /\ snaps'[i].base \in Ids' =>
                             snaps'[i].delta =
                               ComputeDelta(snaps'[snaps'[i].base].scene, snaps'[i].saved)
    BY DEF RowsRecord, Keyframes
  <1>3. CASE i \in Ids
    <2>1. snaps'[i] = snaps[i] /\ (IsFull(i)' <=> IsFull(i))
      BY <1>1, <1>3 DEF IsFull
    <2>2. IsFull(i) => snaps[i].scene = snaps[i].saved
      BY <1>3 DEF RowsRecord, Keyframes
    <2>3. ~IsFull(i) => snaps[i].base = i - 1
      BY <1>3 DEF TableInv, HistorySuffix
    <2>4. ~IsFull(i) /\ snaps[i].base \in Ids' => snaps[i].base \in Ids
      BY <1>1, <1>3, <2>3
    <2>5. QED BY <1>1, <1>3, <2>1, <2>2, <2>4 DEF RowsRecord
  <1>4. CASE i = nextId
    <2>1. CASE row = FullRow(d)
      BY <1>1, <1>4, <2>1 DEF IsFull, FullRow
    <2>2. CASE row # FullRow(d)
      <3>1. row = DeltaRow(d, LastSnapshot) /\ ~ShouldBeKeyframe
        BY <2>2 DEF SnapshotOf
      <3>2. LastSnapshot \in Ids
        BY <3>1, LastIsNewest DEF TableInv, ShouldBeKeyframe
      <3>3. QED BY <1>1, <1>4, <3>1, <3>2 DEF DeltaRow, IsFull
    <2>3. QED BY <2>1, <2>2
  <1>5. QED BY <1>1, <1>3, <1>4

\* Every step keeps the deltas with their bases.
LEMMA RowsStep ==
  TableInv /\ RowsRecord /\ [Next]_vars => RowsRecord'
  <1> SUFFICES ASSUME TableInv, RowsRecord, [Next]_vars PROVE RowsRecord'
    OBVIOUS
  <1>0. TypeOK /\ HistorySuffix
    BY DEF TableInv
  <1>1. CASE UNCHANGED snaps
    BY <1>1 DEF RowsRecord, Keyframes, IsFull, Ids
  <1>2. ASSUME NEW h \in Handlers, HandlerStep(h) PROVE RowsRecord'
    <2>1. CASE SaveCommit(h) \/ RestoreBackup(h)
      <3>1. handler[h].read \in Drawing
        BY <1>0, <2>1 DEF SaveCommit, RestoreBackup, TypeOK, HandlerState, Idle
      <3>2. QED BY <2>1, <3>1, InsertDeltas DEF SaveCommit, RestoreBackup
    <2>2. CASE ~SaveCommit(h) /\ ~RestoreBackup(h)
      BY <1>1, <1>2, <2>2
      DEF HandlerStep, SaveRead, RestoreRead, TrimRead, OrphansRead, Arrives, SaveRollback,
          RestoreResolve, RestoreFails, Rewrite, RewriteFails
    <2>3. QED BY <2>1, <2>2
  <1>3. CASE DeleteSnapshots \/ DeleteDrawing \/ CleanupExcess
    BY <1>3, PruneDeltas DEF DeleteSnapshots, DeleteDrawing, CleanupExcess
  <1>4. CASE \E b \in 0..(nextId - 1), others \in BOOLEAN : CleanupAge(b, others)
    BY <1>4, PruneDeltas DEF CleanupAge
  <1>5. CASE CleanupPromote
    BY <1>0, <1>1, <1>5, PromoteDrops, PruneDeltas
  <1>6. CASE (\E backup \in Backups : Import(backup)) \/ CleanupBoundary \/ Restart \/ UNCHANGED vars
    BY <1>1, <1>6 DEF Import, CleanupBoundary, Restart, vars
  <1>7. QED BY <1>2, <1>3, <1>4, <1>5, <1>6 DEF Next

\* A delta from an empty scene adds all there is, whatever it is applied to.
LEMMA DeltaFromEmpty ==
  ASSUME NEW curr \in Scene, NEW scene
  PROVE  ShowsAll(ApplyDelta(scene, ComputeDelta(EmptyScene, curr)), curr)
  <1>1. ASSUME NEW e \in Elements, curr[e] # Absent
        PROVE  ApplyDelta(scene, ComputeDelta(EmptyScene, curr))[e] = curr[e]
    BY <1>1 DEF ApplyDelta, ComputeDelta, EmptyScene
  <1>2. QED BY <1>1 DEF ShowsAll

\* A row that resolves shows every element of the scene it records, with its keys.
LEMMA RowShowsItsElements ==
  ASSUME TableInv, RowsRecord, NEW i \in Ids, Shown(i).ok
  PROVE  ShowsAll(Shown(i).scene, snaps[i].saved)
  <1>0. TypeOK /\ HistorySuffix /\ snaps[i] \in Snapshot
    BY DEF TableInv, TypeOK
  <1>1. CASE IsFull(i)
    <2>1. snaps[i].scene = snaps[i].saved
      BY <1>1 DEF RowsRecord, Keyframes
    <2>2. QED BY <1>1, <2>1 DEF Shown, ShowsAll
  <1>2. CASE ~IsFull(i)
    <2> DEFINE b == snaps[i].base
               curr == snaps[i].saved
               prev == snaps[b].scene
               shown == Resolution[b].scene
    <2>1. b \in Ids /\ Shown(i).scene = ApplyDelta(shown, snaps[i].delta)
      BY <1>2 DEF Shown, ResolveSnapshotState, ResolveFrom, IsFull, Unresolvable
    <2>2. snaps[i].delta = ComputeDelta(prev, curr)
      BY <1>2, <2>1 DEF RowsRecord
    <2>3. curr \in Scene /\ prev \in Scene /\ snaps[b] \in Snapshot
      BY <1>0, <2>1, EmptySceneType DEF TypeOK, Snapshot, FullSnapshot, DeltaSnapshot
    <2>4. CASE IsFull(b)
      <3>1. Resolution[b] = ResolveFrom(snaps[b], Resolution)
        BY <1>0, <2>1, ResolutionStep
      <3>2. shown = prev
        BY <2>4, <3>1 DEF ResolveFrom, IsFull
      <3>3. GivesBack(prev, ComputeDelta(prev, curr), curr)
        BY <2>3, DeltaRoundTrip
      <3>4. ShowsAll(ApplyDelta(prev, ComputeDelta(prev, curr)), curr)
        BY <3>3 DEF GivesBack
      <3>5. QED BY <2>1, <2>2, <3>2, <3>4
    <2>5. CASE ~IsFull(b)
      <3>1. prev = EmptyScene
        BY <2>3, <2>5 DEF Snapshot, FullSnapshot, DeltaSnapshot, IsFull
      <3>2. ShowsAll(ApplyDelta(shown, ComputeDelta(EmptyScene, curr)), curr)
        BY <2>3, DeltaFromEmpty
      <3>3. QED BY <2>1, <2>2, <3>1, <3>2
    <2>6. QED BY <2>4, <2>5
  <1>3. QED BY <1>1, <1>2

-----------------------------------------------------------------------------
(* The theorems. *)

\* The stored state stays well formed and the table in order in every reachable
\* state, for every number of handlers and elements, every keyframe interval
\* and retention limit, and whatever is imported.
THEOREM TableInvariance == Spec => []TableInv
  BY TableInit, TableStep, PTL DEF Spec

\* The stored state of a drawing is always well formed.
THEOREM TypeCorrect == Spec => []TypeOK
  <1>1. TableInv => TypeOK
    BY DEF TableInv
  <1>2. QED BY <1>1, TableInvariance, PTL

\* Pruning, in whatever order with saves and restores, leaves no hole.
THEOREM HistoryIsSuffix == Spec => []HistorySuffix
  <1>1. TableInv => HistorySuffix
    BY DEF TableInv
  <1>2. QED BY <1>1, TableInvariance, PTL

\* Above a kept keyframe another follows within the interval.
THEOREM KeyframesAreSpaced == Spec => []KeyframeSpacing
  <1>1. TableInv => KeyframeSpacing
    BY DEF TableInv
  <1>2. QED BY <1>1, TableInvariance, PTL

\* A delta on a keyframe gives back the elements of the scene it was made to record
\* and no other, with every key they had; what it adds is keys they have dropped.
THEOREM FirstDeltasAreExact == Spec => []FirstDeltaExact
  <1>1. TableInv => FirstDeltaExact
    BY DEF TableInv
  <1>2. QED BY <1>1, TableInvariance, PTL

\* A deleted drawing has no snapshot, whatever was in flight.
THEOREM DeletionIsComplete == Spec => []NoHistoryWithoutDrawing
  <1>1. TableInv => NoHistoryWithoutDrawing
    BY DEF TableInv
  <1>2. QED BY <1>1, TableInvariance, PTL

\* Each row at or above a kept keyframe can be shown and restored: retention never
\* breaks its chain, and the limit of resolveSnapshotState never cuts it short.
THEOREM AnchoredRowsAreShown == Spec => []AnchoredRowsResolve
  BY TableInvariance, TableResolves, PTL

\* A row of the history that resolves shows every element of the scene it was made
\* to record, with every key it had, as it was; deltas show too many keys, and
\* deltas of deltas too many elements.
THEOREM HistoryLosesNothing == Spec => []NothingSavedIsMissing
  <1>1. Init => RowsRecord
    BY DEF Init, RowsRecord, Keyframes, Ids
  <1>2. TableInv /\ RowsRecord => NothingSavedIsMissing
    BY RowShowsItsElements DEF NothingSavedIsMissing, History
  <1>3. QED BY <1>1, <1>2, RowsStep, TableInvariance, PTL DEF Spec

\* Both invariants together, as long as no import overwrites the drawing.
LEMMA VersionInvariance ==
  ASSUME Backups = {}
  PROVE  Spec => [](TableInv /\ VersionInv)
  <1>1. Init => TableInv /\ VersionInv
    BY TableInit, VersionInit
  <1>2. (TableInv /\ VersionInv) /\ [Next]_vars => (TableInv /\ VersionInv)'
    BY TableStep, VersionStep
  <1>3. QED BY <1>1, <1>2, PTL DEF Spec

\* No two scenes are ever stored, or recorded, under one version.
THEOREM VersionsNameScenes ==
  ASSUME Backups = {}
  PROVE  Spec => []VersionNamesScene
  <1>1. TableInv /\ VersionInv => VersionNamesScene
    BY DEF VersionInv
  <1>2. QED BY <1>1, VersionInvariance, PTL

\* The version check at commit also vouches for the row read long before it:
\* what a versioned save records is what it overwrites.
THEOREM SavesRecordWhatTheyOverwrite ==
  ASSUME Backups = {}
  PROVE  Spec => VersionedSaveRecordsOverwritten
  <1> DEFINE Records(h) ==
               SaveCommit(h) /\ handler[h].seen # NoVersion =>
                 /\ handler[h].read = drawing
                 /\ drawing.scene = written[handler[h].seen]
                 /\ snaps'[nextId].version = drawing.version
                 /\ snaps'[nextId].saved = drawing.scene
  <1>1. ASSUME TableInv, VersionInv, NEW h \in Handlers PROVE Records(h)
    <2>1. SUFFICES ASSUME SaveCommit(h), handler[h].seen # NoVersion
                   PROVE  /\ handler[h].read = drawing
                          /\ drawing.scene = written[handler[h].seen]
                          /\ snaps'[nextId].version = drawing.version
                          /\ snaps'[nextId].saved = drawing.scene
      OBVIOUS
    <2>2. TypeOK /\ HistorySuffix /\ RowNames /\ HandlerNames(h)
      BY <1>1, VersionInvParts DEF TableInv
    <2>3. handler[h].seen = drawing.version
      BY <2>1 DEF SaveCommit, VersionMatches
    <2>4. handler[h].read \in Drawing /\ drawing \in Drawing
      BY <2>1, <2>2 DEF SaveCommit, TypeOK, HandlerState, Idle
    <2>5. handler[h].read.version = drawing.version
          /\ handler[h].read.scene = drawing.scene
      BY <2>1, <2>2, <2>3, <2>4 DEF SaveCommit, HandlerNames, RowNames, Named, Drawing
    <2>6. handler[h].read = drawing
      BY <2>4, <2>5 DEF Drawing
    <2>7. snaps'[nextId] = SnapshotOf(handler[h].read)
      BY <2>1 DEF SaveCommit, Insert
    <2>8. QED BY <2>2, <2>3, <2>4, <2>6, <2>7, SnapshotOfTable DEF RowNames, Named
  <1>2. TableInv /\ VersionInv => \A h \in Handlers : Records(h)
    BY <1>1
  <1>3. QED BY <1>2, VersionInvariance, PTL DEF VersionedSaveRecordsOverwritten

\* Saves, restores, trims, deletions, the cleanup job and restarts together
\* behave as the optimistic register.
THEOREM ImplementsRegister ==
  ASSUME Backups = {}
  PROVE  Spec => RegisterSpec
  <1>1. TableInv /\ VersionInv /\ [Next]_vars => [Register!Next]_(Register!vars)
    BY RegisterStep
  <1>2. QED
    BY <1>1, RegisterInit, VersionInvariance, PTL DEF Spec, RegisterSpec, Register!Spec
=============================================================================
