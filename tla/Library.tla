------------------------------ MODULE Library ------------------------------
(***************************************************************************)
(* The drawings of one user, the collections they are in, the trash and    *)
(* its periodic purge, and the cache of the lists the server answers with. *)
(*                                                                         *)
(* A request is split where its handler awaits the database between two    *)
(* steps that matter. Names, sorting, paging and the drawings' content are *)
(* left out: a list is the set of drawings it shows. Only an import brings *)
(* an id back that was deleted. The time a drawing was moved to the trash  *)
(* is kept as an age in ticks.                                             *)
(***************************************************************************)
EXTENDS Naturals

CONSTANTS
  Drawings,     \* ids of drawings
  Collections,  \* ids of collections, but for the trash of the user
  Trash,        \* getUserTrashCollectionId
  All,          \* the list of everything outside of the trash
  None,         \* no collection; the list of the drawings in none
  Views,        \* the lists that are asked for
  Cached,       \* those the cache is modelled for: others expire at once
  Handlers,     \* requests under way at once
  PurgeAge,     \* TRASH_PURGE_DAYS, in ticks
  Archives      \* backups and old databases that are uploaded

Places == Collections \cup {Trash, None}

ASSUME ConstantsAssumption ==
  /\ Trash \notin Collections /\ None \notin Collections \cup {Trash}
  /\ All \notin Places /\ Views \subseteq Places \cup {All} /\ Cached \subseteq Views
  /\ PurgeAge \in Nat
  /\ \A a \in Archives :
       /\ a.collections \subseteq Collections \cup {Trash} /\ DOMAIN a.place \subseteq Drawings
       /\ \A d \in DOMAIN a.place : a.place[d] \in Places
       /\ {a.legacy, a.named} \subseteq BOOLEAN

VARIABLES
  drawing,     \* the Drawing rows
  collection,  \* which Collection rows there are
  cache,       \* the body the server has for each list
  handler,     \* what each request is at, or its answer
  purge        \* the job that empties the trash

vars == <<drawing, collection, cache, handler, purge>>

-----------------------------------------------------------------------------
(* Rows, bodies and requests. *)

Unused == [state |-> "unused"]
Deleted == [state |-> "deleted"]

\* trashed is the age of trashedAt, or Untimed where trashedAt is null. evicted
\* is history: the drawing left the trash with an import, or because an
\* administrator deleted the trash.
Untimed == PurgeAge + 1
Row ==
  {Unused, Deleted}
    \cup [state : {"there"}, place : Places, trashed : 0..Untimed, evicted : BOOLEAN]

RowAt(p, age) == [state |-> "there", place |-> p, trashed |-> age, evicted |-> FALSE]

There == {d \in Drawings : drawing[d].state = "there"}

Listing(v) ==
  {d \in There : IF v = All THEN drawing[d].place # Trash ELSE drawing[d].place = v}

\* raced is history: rows changed after the list was read, and were announced
\* before it was put into the cache, or not at all.
NoBody == [kept |-> FALSE]
Body == {NoBody} \cup [kept : {TRUE}, rows : SUBSET Drawings, raced : BOOLEAN]

Idle == [pc |-> "idle"]
Failed == [pc |-> "failed"]
Done == [pc |-> "done"]
HandlerState ==
  {Idle, Failed, Done}
    \cup [pc : {"query"}, view : Views]
    \cup [pc : {"fill"}, view : Views, rows : SUBSET Drawings, raced : BOOLEAN]
    \cup [pc : {"listed"}, rows : SUBSET Drawings, raced : BOOLEAN]
    \cup [pc : {"ensure", "write"}, write : {"move", "create", "copy"},
          drawing : Drawings, place : Places]
    \cup [pc : {"delete"}, drawing : Drawings]
    \cup [pc : {"remove"}, collection : Collections \cup {Trash}]
    \cup [pc : {"import"}, archive : Archives]
    \cup [pc : {"trash", "files", "invalidate"}]

Begins(h, state) ==
  /\ handler[h] = Idle
  /\ handler' = [handler EXCEPT ![h] = state]
  /\ UNCHANGED <<drawing, collection, cache, purge>>

Becomes(h, state) == handler' = [handler EXCEPT ![h] = state]

Exists(k) == collection[k] = "there"

-----------------------------------------------------------------------------
(* GET /drawings *)

Listed(body) == [pc |-> "listed", rows |-> body.rows, raced |-> body.raced]

Lists(v) ==
  IF v \in Collections /\ ~Exists(v) THEN Failed
  ELSE IF cache[v].kept THEN Listed(cache[v])
  ELSE [pc |-> "query", view |-> v]

List(h, v) == Begins(h, Lists(v))

Query(h) ==
  /\ handler[h].pc = "query"
  /\ Becomes(h, [pc |-> "fill", view |-> handler[h].view,
                 rows |-> Listing(handler[h].view), raced |-> FALSE])
  /\ UNCHANGED <<drawing, collection, cache, purge>>

Fill(h) ==
  /\ handler[h].pc = "fill"
  /\ cache' = [v \in Views |->
       IF v = handler[h].view /\ v \in Cached
       THEN [kept |-> TRUE, rows |-> handler[h].rows, raced |-> handler[h].raced]
       ELSE cache[v]]
  /\ Becomes(h, Listed(handler[h]))
  /\ UNCHANGED <<drawing, collection, purge>>

\* A body is used for DRAWINGS_CACHE_TTL_MS.
Expire(v) ==
  /\ cache[v].kept
  /\ cache' = [cache EXCEPT ![v] = NoBody]
  /\ UNCHANGED <<drawing, collection, handler, purge>>

\* Lists that were read and not kept yet miss that everything is invalidated.
Raced == [h \in Handlers |->
  IF handler[h].pc = "fill" THEN [handler[h] EXCEPT !.raced = TRUE] ELSE handler[h]]

invalidateDrawingsCache == cache' = [v \in Views |-> NoBody]

Invalidate(h) ==
  /\ handler[h].pc = "invalidate"
  /\ invalidateDrawingsCache
  /\ handler' = [Raced EXCEPT ![h] = Done]
  /\ UNCHANGED <<drawing, collection, purge>>

-----------------------------------------------------------------------------
(* Drawings are created, moved, copied and deleted. *)

\* To the trash the trash must be there; elsewhere the collection is looked up.
Towards(write, d, p) ==
  IF p \in Collections /\ ~Exists(p) THEN Failed
  ELSE [pc |-> IF p = Trash /\ ~Exists(Trash) THEN "ensure" ELSE "write",
        write |-> write, drawing |-> d, place |-> p]

Create(h, d, p) == drawing[d] = Unused /\ Begins(h, Towards("create", d, p))

\* PUT with a collection; handleDeleteDrawing moves to the trash.
Move(h, d, p) == d \in There /\ Begins(h, Towards("move", d, p))

\* The copy d of a drawing that is in p.
Duplicate(h, p, d) ==
  /\ drawing[d] = Unused /\ \E o \in There : drawing[o].place = p
  /\ Begins(h, Towards("copy", d, p))

\* GET /collections
ListCollections(h) == Begins(h, IF Exists(Trash) THEN Done ELSE [pc |-> "trash"])

\* The trash was not found: it is created, unless another request did.
EnsureTrash(h) ==
  /\ handler[h].pc \in {"ensure", "trash"}
  /\ collection' = [collection EXCEPT ![Trash] = "there"]
  /\ Becomes(h, IF Exists(Trash) THEN Failed
                ELSE IF handler[h].pc = "trash" THEN Done
                ELSE [handler[h] EXCEPT !.pc = "write"])
  /\ UNCHANGED <<drawing, cache, purge>>

Refused(w) ==
  \/ w.place # None /\ ~Exists(w.place)
  \/ w.write = "move" /\ w.drawing \notin There
  \/ w.write # "move" /\ drawing[w.drawing] # Unused

MutantSilentWrite(h) ==
  LET w == handler[h]
      timed == w.write = "move" /\ w.place = Trash
  IN  /\ w.pc = "write"
      /\ IF Refused(w)
         THEN Becomes(h, Failed) /\ UNCHANGED drawing
         ELSE /\ drawing' = [drawing EXCEPT ![w.drawing] =
                   RowAt(w.place, IF timed THEN 0 ELSE Untimed)]
              /\ Becomes(h, IF w.write = "copy" THEN [pc |-> "files"] ELSE Done)
      /\ UNCHANGED <<collection, cache, purge>>

MutantWriteKeepsTime(h) ==
  LET w == handler[h]
      timed == w.write = "move" /\ w.place = Trash
      age == IF w.write = "move" THEN drawing[w.drawing].trashed ELSE Untimed
  IN  /\ w.pc = "write"
      /\ IF Refused(w)
         THEN Becomes(h, Failed) /\ UNCHANGED drawing
         ELSE /\ drawing' = [drawing EXCEPT ![w.drawing] =
                   RowAt(w.place, IF timed THEN 0 ELSE age)]
              /\ Becomes(h, [pc |-> IF w.write = "copy" THEN "files" ELSE "invalidate"])
      /\ UNCHANGED <<collection, cache, purge>>

\* The row may have gone, and the collection: the database refuses a place that
\* is not there. Only a move to the trash is timed.
Write(h) ==
  LET w == handler[h]
      timed == w.write = "move" /\ w.place = Trash
  IN  /\ w.pc = "write"
      /\ IF Refused(w)
         THEN Becomes(h, Failed) /\ UNCHANGED drawing
         ELSE /\ drawing' = [drawing EXCEPT ![w.drawing] =
                   RowAt(w.place, IF timed THEN 0 ELSE Untimed)]
              /\ Becomes(h, [pc |-> IF w.write = "copy" THEN "files" ELSE "invalidate"])
      /\ UNCHANGED <<collection, cache, purge>>

\* The files of a copy are rewritten; when that fails nothing is invalidated.
CopyFiles(h) ==
  /\ handler[h].pc = "files"
  /\ Becomes(h, [pc |-> "invalidate"])
  /\ UNCHANGED <<drawing, collection, cache, purge>>

CopyFails(h) ==
  /\ handler[h].pc = "files"
  /\ handler' = [Raced EXCEPT ![h] = Failed]
  /\ cache' = [v \in Views |->
       IF cache[v].kept THEN [cache[v] EXCEPT !.raced = TRUE] ELSE NoBody]
  /\ UNCHANGED <<drawing, collection, purge>>

Delete(h, d) == d \in There /\ Begins(h, [pc |-> "delete", drawing |-> d])

DeleteCommit(h) ==
  LET d == handler[h].drawing
  IN  /\ handler[h].pc = "delete"
      /\ drawing' = [drawing EXCEPT ![d] = Deleted]
      /\ Becomes(h, IF d \in There THEN [pc |-> "invalidate"] ELSE Failed)
      /\ UNCHANGED <<collection, cache, purge>>

-----------------------------------------------------------------------------
(* Collections. *)

CreateCollection(k) ==
  /\ collection[k] = "unused"
  /\ collection' = [collection EXCEPT ![k] = "there"]
  /\ UNCHANGED <<drawing, cache, handler, purge>>

\* The user cannot delete the trash. For an administrator with full access it is
\* a collection like another: only their own trash is refused.
DeleteCollection(h, k) ==
  Exists(k) /\ Begins(h, [pc |-> "remove", collection |-> k])

\* One transaction: its drawings are in no collection, and it is gone. Nothing
\* is said of the time they were moved to the trash.
RemoveCommit(h) ==
  LET k == handler[h].collection
  IN  /\ handler[h].pc = "remove"
      /\ drawing' = [d \in Drawings |->
           IF d \in There /\ drawing[d].place = k
           THEN [drawing[d] EXCEPT !.place = None, !.evicted = @ \/ k = Trash]
           ELSE drawing[d]]
      /\ collection' = [collection EXCEPT ![k] = IF Exists(k) THEN "deleted" ELSE @]
      /\ Becomes(h, [pc |-> "invalidate"])
      /\ UNCHANGED <<cache, purge>>

-----------------------------------------------------------------------------
(* Imports: of a backup, and of the database of an old version. *)

\* The archive was read and is valid, its images are in the store.
Import(h, a) == Begins(h, [pc |-> "import", archive |-> a])

\* A collection the archive does not list is none. An old database (legacy) may
\* have its trash under another id (named).
resolveCollectionId(a, p) == IF p \in a.collections \cup {Trash} THEN p ELSE None

ToTrash(a) == \E d \in DOMAIN a.place : a.place[d] = Trash

\* ensureTrashCollection, which an old database only needs for its own drawings,
\* and only when these are in the trash by its id.
EnsuresTrash(a) ==
  IF a.legacy THEN ToTrash(a) /\ ~a.named ELSE ToTrash(a) \/ Trash \in a.collections

Imports(a) ==
  IF EnsuresTrash(a) THEN a.collections \cup {Trash} ELSE a.collections \ {Trash}

\* A row that is there is updated, and nothing is said of the time it was moved
\* to the trash; one that is not is created, as one that was never moved.
Imported(row, p) ==
  IF row.state = "there"
  THEN [row EXCEPT !.place = p, !.evicted = @ \/ row.trashed # Untimed]
  ELSE RowAt(p, Untimed)

\* One transaction, which fails as a whole: where the trash is missing too.
ImportCommit(h) ==
  LET a == handler[h].archive
      there == {k \in DOMAIN collection : Exists(k)} \cup Imports(a)
      placed == {resolveCollectionId(a, a.place[d]) : d \in DOMAIN a.place}
  IN  /\ handler[h].pc = "import"
      /\ IF placed \subseteq there \cup {None}
         THEN /\ collection' = [k \in DOMAIN collection |->
                   IF k \in there THEN "there" ELSE collection[k]]
              /\ drawing' = [d \in Drawings |->
                   IF d \in DOMAIN a.place
                   THEN Imported(drawing[d], resolveCollectionId(a, a.place[d]))
                   ELSE drawing[d]]
              /\ Becomes(h, [pc |-> "invalidate"])
         ELSE Becomes(h, Failed) /\ UNCHANGED <<drawing, collection>>
      /\ UNCHANGED <<cache, purge>>

\* The answer of a handler is sent.
Answer(h) ==
  /\ handler[h].pc \in {"listed", "done", "failed"}
  /\ Becomes(h, Idle)
  /\ UNCHANGED <<drawing, collection, cache, purge>>

-----------------------------------------------------------------------------
(* purgeExpiredTrash, at the start of the server and in intervals. *)

Resting == [pc |-> "rest", left |-> {}]

Expired(d) == d \in There /\ drawing[d].trashed = PurgeAge

PurgeList ==
  /\ purge = Resting
  /\ \E d \in Drawings : Expired(d)
  /\ purge' = [pc |-> "delete", left |-> {d \in Drawings : Expired(d)}]
  /\ UNCHANGED <<drawing, collection, cache, handler>>

MutantPurgeDelete(d) ==
  /\ d \in purge.left /\ d \in There
  /\ purge' = [purge EXCEPT !.left = @ \ {d}]
  /\ drawing' = [drawing EXCEPT ![d] = Deleted]
  /\ UNCHANGED <<collection, cache, handler>>

\* A drawing on the list is deleted as it is by then. One that is gone makes the
\* statement fail, and the job goes on.
PurgeDelete(d) ==
  /\ d \in purge.left
  /\ purge' = [purge EXCEPT !.left = @ \ {d}]
  /\ drawing' = [drawing EXCEPT ![d] = Deleted]
  /\ UNCHANGED <<collection, cache, handler>>

PurgeEnd ==
  /\ purge.pc = "delete" /\ purge.left = {}
  /\ purge' = Resting
  /\ invalidateDrawingsCache /\ handler' = Raced
  /\ UNCHANGED <<drawing, collection>>

Older(age) == IF age < PurgeAge THEN age + 1 ELSE age

Tick ==
  /\ drawing' = [d \in Drawings |->
       IF d \in There THEN [drawing[d] EXCEPT !.trashed = Older(@)] ELSE drawing[d]]
  /\ UNCHANGED <<collection, cache, handler, purge>>

\* The cache and the requests are lost; the job is begun again.
Restart ==
  /\ invalidateDrawingsCache
  /\ handler' = [h \in Handlers |-> Idle]
  /\ purge' = Resting
  /\ UNCHANGED <<drawing, collection>>

-----------------------------------------------------------------------------

Init ==
  /\ drawing = [d \in Drawings |-> Unused]
  /\ collection \in [Collections \cup {Trash} -> {"unused", "there"}]
  /\ cache = [v \in Views |-> NoBody]
  /\ handler = [h \in Handlers |-> Idle]
  /\ purge = Resting

Request(h) ==
  \/ \E v \in Views : List(h, v)
  \/ ListCollections(h)
  \/ \E d \in Drawings, p \in Places : Create(h, d, p) \/ Move(h, d, p) \/ Duplicate(h, p, d)
  \/ \E d \in Drawings : Delete(h, d)
  \/ \E k \in Collections \cup {Trash} : DeleteCollection(h, k)
  \/ \E a \in Archives : Import(h, a)

Serve(h) ==
  \/ Query(h) \/ Fill(h) \/ Invalidate(h)
  \/ EnsureTrash(h) \/ Write(h) \/ CopyFiles(h) \/ CopyFails(h)
  \/ DeleteCommit(h) \/ RemoveCommit(h) \/ ImportCommit(h)

Purge == PurgeList \/ (\E d \in Drawings : PurgeDelete(d)) \/ PurgeEnd

Next ==
  \/ \E h \in Handlers : Request(h) \/ Serve(h) \/ Answer(h)
  \/ \E k \in Collections : CreateCollection(k)
  \/ \E v \in Views : Expire(v)
  \/ Purge \/ Tick \/ Restart

\* Time passes and the job runs, each time at last far enough for another of the
\* drawings on its list, however often the server is restarted.
Fairness ==
  /\ WF_vars(Tick)
  /\ SF_vars(PurgeList) /\ SF_vars(PurgeEnd)
  /\ \A d \in Drawings : SF_vars(PurgeDelete(d))

Spec == Init /\ [][Next]_vars /\ Fairness

-----------------------------------------------------------------------------
(* Properties. *)

\* The types of the variables. A drawing is in a collection that is there.
TypeOK ==
  /\ drawing \in [Drawings -> Row]
  /\ \A d \in There : drawing[d].place # None => Exists(drawing[d].place)
  /\ collection \in [Collections \cup {Trash} -> {"unused", "there", "deleted"}]
  /\ cache \in [Views -> Body]
  /\ handler \in [Handlers -> HandlerState]
  /\ purge \in [pc : {"rest", "delete"}, left : SUBSET Drawings]

\* Somebody changed rows and has not invalidated the lists yet.
Unannounced ==
  \/ \E h \in Handlers : handler[h].pc \in {"files", "invalidate"}
  \/ purge.pc = "delete"

\* A list the server keeps is the list of the rows there are, but while a change
\* is under way, or when it was read before the change and kept after it.
StaleOnlyWhenRaced ==
  \A v \in Views :
    cache[v].kept /\ cache[v].rows # Listing(v) => cache[v].raced \/ Unannounced

\* A drawing that has a time of the trash, which is all the purge asks for when it lists
\* what it will delete, is in the trash: moving it elsewhere, deleting a collection and
\* what overlaps with them never leave the time on a drawing in use. The exceptions are
\* an import over a drawing that was in the trash and the trash that an administrator
\* deleted. It is about what gets listed: the purge deletes by the ids of its list, so
\* that a drawing restored after it was listed is deleted all the same (PurgeDelete).
TimedOnlyInTrash ==
  \A d \in There :
    drawing[d].trashed # Untimed => drawing[d].place = Trash \/ drawing[d].evicted

\* A drawing whose time in the trash is over is deleted, unless somebody moves it
\* once more: also when the server is restarted while the job is at it, or when a
\* drawing on its list has gone.
TrashIsPurged == \A d \in Drawings : Expired(d) ~> ~Expired(d)
=============================================================================
