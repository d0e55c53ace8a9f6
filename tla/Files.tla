------------------------------- MODULE Files -------------------------------
(***************************************************************************)
(* The images of drawings in S3 mode: objects in the bucket, their S3File  *)
(* rows, the references in drawings and snapshots, and everything that     *)
(* uploads, copies or deletes objects.                                     *)
(*                                                                         *)
(* The object of file f of drawing d has the key <<d, f>>. A drawing has   *)
(* an entry for a file, which refers to its own object or to the object of *)
(* the drawing it is a copy of, and elements that show it. The modelled    *)
(* drawings are some of those there are: the original of a copy and what   *)
(* happens to its objects are left open. Calls of the bucket and           *)
(* statements on S3File are steps of their own; what is fetched in one     *)
(* statement or written in one transaction is one step. A version check is *)
(* kept as whether the drawing changed meanwhile.                          *)
(***************************************************************************)
EXTENDS Naturals, FiniteSets

CONSTANTS
  Drawings,  \* ids of drawings, each used once
  FileIds,   \* ids of files, which name their content
  Own, Other, Nothing,  \* the entry refers to its own object, to another's, there is none
  Handlers,  \* requests under way at once
  SnapBound  \* snapshots there can be

ASSUME FilesAssumption ==
  Own # Other /\ Nothing \notin {Own, Other} \cup Handlers /\ SnapBound \in Nat

VARIABLES
  row,      \* the Drawing rows
  snaps,    \* the DrawingSnapshot rows
  object,   \* the keys in the bucket
  record,   \* the S3File rows
  handler,  \* requests under way
  jobs      \* deletions that nobody waits for

filesVars == <<row, snaps, object, record, handler, jobs>>

-----------------------------------------------------------------------------
(* Rows, snapshots, requests and jobs. *)

Entries == [FileIds -> {Own, Other, Nothing}]

Keyed(files) == {f \in FileIds : files[f] # Nothing}

\* shown: the files of elements that are not deleted. excused is history: entries
\* that were made while a deletion of their object was under way, that come back
\* from the history, or that a copy of the drawing has for objects of another.
Unused == [state |-> "unused"]
Deleted == [state |-> "deleted"]
Row ==
  {Unused, Deleted}
    \cup [state : {"there"}, files : Entries, shown : SUBSET FileIds,
          excused : SUBSET FileIds]

RowOf(files, shown, excused) ==
  [state |-> "there", files |-> files, shown |-> shown, excused |-> excused]

\* Snapshots are [drawing, files], full ones only. The files of a delta are in its
\* delta: the pruning does not look there, and what is restored from one is excused
\* like what is restored from any snapshot.

IdleHandler == [pc |-> "idle"]

\* A put uploads the files of inline and enters them in S3File; fresh: nobody
\* changed the drawing since it was read. hit is history: the files whose object
\* or row somebody deleted since the request began, and those that the drawing it
\* read was excused. In diff and choose the storage page of the drawing
\* is loading and open: what it does not show, and what it has found of that.
HandlerState ==
  {IdleHandler}
    \cup [pc : {"put"}, drawing : Drawings, new : BOOLEAN, removed : SUBSET FileIds,
          after : Entries, shown : SUBSET FileIds, inline : SUBSET FileIds,
          upload : SUBSET FileIds, enter : SUBSET FileIds, fresh : BOOLEAN,
          hit : SUBSET FileIds]
    \cup [pc : {"delete"}, drawing : Drawings, removed : SUBSET FileIds]
    \cup [pc : {"diff"}, drawing : Drawings, hidden : SUBSET FileIds, entered : SUBSET FileIds]
    \cup [pc : {"choose"}, drawing : Drawings, files : SUBSET FileIds]
    \cup [pc : {"read", "sweep"}, drawing : Drawings, trim : BOOLEAN, after : Entries,
          shown : SUBSET FileIds, files : SUBSET FileIds, objects : SUBSET FileIds,
          rows : SUBSET FileIds, hit : SUBSET FileIds]
    \cup [pc : {"copy"}, drawing : Drawings, before : Entries,
          left : SUBSET FileIds, found : SUBSET FileIds, enter : SUBSET FileIds,
          made : SUBSET FileIds, hit : SUBSET FileIds]

Job == [drawing : Drawings, file : FileIds, pc : {"count", "find", "object", "record"}]

There == {d \in Drawings : row[d].state = "there"}

(* The bucket, and the route that serves an image. *)

UploadBuffer(d, f) == object' = object \cup {<<d, f>>}

CopyS3Object(d, f) == object' = object \cup {<<d, f>>}

DeleteS3Objects(d, files) == object' = object \ ({d} \X files)

ListS3Objects(d) == {f \in FileIds : <<d, f>> \in object}

Records(d) == {f \in FileIds : <<d, f>> \in record}

Served(d, f) == f \in Records(d) /\ f \in ListS3Objects(d)

-----------------------------------------------------------------------------
Begins(h, state) ==
  /\ handler[h] = IdleHandler
  /\ handler' = [handler EXCEPT ![h] = state]

\* Handler h is done; requests that save drawing d are out of date.
Bumped(h, d) ==
  [i \in Handlers |->
    IF i = h THEN IdleHandler
    ELSE IF handler[i].pc = "put" /\ handler[i].drawing = d
         THEN [handler[i] EXCEPT !.fresh = FALSE]
    ELSE handler[i]]

\* The objects or rows of files of drawing d are deleted.
Hit(d, files) ==
  [i \in Handlers |->
    IF handler[i].pc \in {"put", "read", "sweep", "copy"} /\ handler[i].drawing = d
    THEN [handler[i] EXCEPT !.hit = @ \cup files]
    ELSE handler[i]]

\* Somebody other than h is going to delete the object of a file, or its row, or
\* may have to: a copy that fails.
Pending(h, d) ==
  {j.file : j \in {i \in jobs : i.drawing = d /\ i.pc # "count"}}
    \cup (UNION {handler[i].files : i \in {g \in Handlers \ {h} :
                    handler[g].pc \in {"read", "sweep"} /\ handler[g].drawing = d}})
    \cup (UNION {Keyed(handler[i].before) : i \in {g \in Handlers \ {h} :
                    handler[g].pc = "copy" /\ handler[g].drawing = d}})

\* History: the drawing does not show these files of its own when they are deleted.
Hidden(d, files) ==
  IF d \in There
  THEN [row EXCEPT ![d].excused = @ \cup ((files \cap Keyed(row[d].files)) \ row[d].shown)]
  ELSE row

\* What is excused when h, which made the objects of the given files, writes d.
Excused(h, d, made) ==
  ((IF d \in There THEN row[d].excused ELSE {}) \ made)
    \cup handler[h].hit \cup Pending(h, d)

-----------------------------------------------------------------------------
(* POST and PUT: the files of the payload are inline data or entries that    *)
(* were loaded. processFilesForS3 uploads the former before the row changes. *)

\* Files that are too large are left out, and the elements that show them are not.
EnforceFileSizeLimit(sent) == SUBSET sent

Put(h, d, new, before, kept, inline, shown) ==
  /\ Begins(h, [pc |-> "put", drawing |-> d, new |-> new,
                removed |-> Keyed(before) \ (kept \cup inline),
                after |-> [f \in FileIds |-> IF f \in inline THEN Own
                                             ELSE IF f \in kept THEN before[f] ELSE Nothing],
                shown |-> shown, inline |-> inline, upload |-> inline, enter |-> {},
                fresh |-> TRUE,
                hit |-> IF d \in There THEN row[d].excused \ inline ELSE {}])
  /\ UNCHANGED <<row, snaps, object, record, jobs>>

CreateDrawing(h, d) ==
  /\ row[d] = Unused
  /\ \A i \in Handlers : handler[i] # IdleHandler => handler[i].drawing # d
  /\ \E sent \in SUBSET FileIds : \E inline \in EnforceFileSizeLimit(sent) :
       Put(h, d, TRUE, [f \in FileIds |-> Nothing], {}, inline, sent)

SaveDrawing(h, d) ==
  /\ d \in There
  /\ \E kept \in SUBSET Keyed(row[d].files) : \E sent \in SUBSET (FileIds \ kept) :
       \E inline \in EnforceFileSizeLimit(sent) : \E shown \in SUBSET (kept \cup sent) :
         Put(h, d, FALSE, row[d].files, kept, inline, shown)

Upload(h, f) ==
  LET p == handler[h]
  IN  /\ p.pc = "put" /\ f \in p.upload
      /\ UploadBuffer(p.drawing, f)
      /\ handler' = [handler EXCEPT ![h] =
           [p EXCEPT !.upload = @ \ {f}, !.enter = @ \cup {f}]]
      /\ UNCHANGED <<row, snaps, record, jobs>>

\* In a put and in a copy: the row of a file whose object is there.
Enter(h, f) ==
  LET p == handler[h]
  IN  /\ p.pc \in {"put", "copy"} /\ f \in p.enter
      /\ record' = record \cup {<<p.drawing, f>>}
      /\ handler' = [handler EXCEPT ![h] = [p EXCEPT !.enter = @ \ {f}]]
      /\ UNCHANGED <<row, snaps, object, jobs>>

\* An upload or a statement fails: the request ends, what it uploaded stays.
PutFails(h) ==
  /\ handler[h].pc = "put" /\ handler[h].upload \cup handler[h].enter # {}
  /\ handler' = [handler EXCEPT ![h] = IdleHandler]
  /\ UNCHANGED <<row, snaps, object, record, jobs>>

\* cleanupRemovedS3Files, for the files that had an entry and have none now.
Removals(d, files) == [drawing : {d}, file : files, pc : {"find"}]

Kept(d) == [drawing |-> d, files |-> row[d].files]

\* The drawing as it was may be kept as a snapshot.
Snapshots(d) ==
  \/ UNCHANGED snaps
  \/ /\ Cardinality(snaps) < SnapBound
     /\ snaps' = snaps \cup {Kept(d)}

PutCommit(h) ==
  LET p == handler[h]
      d == p.drawing
  IN  /\ p.pc = "put" /\ p.upload = {} /\ p.enter = {}
      /\ IF (IF p.new THEN row[d] = Unused ELSE d \in There /\ p.fresh)
         THEN /\ row' = [row EXCEPT ![d] =
                         RowOf(p.after, p.shown, Excused(h, d, p.inline) \cap Keyed(p.after))]
              /\ IF p.new THEN UNCHANGED snaps ELSE Snapshots(d)
              /\ jobs' = jobs \cup Removals(d, p.removed)
              /\ handler' = Bumped(h, d)
         ELSE /\ handler' = [handler EXCEPT ![h] = IdleHandler]
              /\ UNCHANGED <<row, snaps, jobs>>
      /\ UNCHANGED <<object, record>>

-----------------------------------------------------------------------------
(* Restoring takes the entries of a snapshot as they are, and keeps the      *)
(* drawing as it was as a full snapshot first.                               *)

RestoreFiles(s) ==
  LET d == s.drawing
  IN  /\ s \in snaps /\ d \in There
      /\ snaps' = IF Cardinality(snaps) < SnapBound THEN snaps \cup {Kept(d)} ELSE snaps
      /\ \E shown \in SUBSET Keyed(s.files) :
           row' = [row EXCEPT ![d] = RowOf(s.files, shown, Keyed(s.files))]
      /\ handler' = Bumped(Nothing, d)
      /\ UNCHANGED <<object, record, jobs>>

-----------------------------------------------------------------------------
(* DELETE /drawings/:id: the row, and with it the snapshots, then its files. *)

DeleteDrawing(h, d) ==
  /\ d \in There
  /\ Begins(h, [pc |-> "delete", drawing |-> d, removed |-> Keyed(row[d].files)])
  /\ UNCHANGED <<row, snaps, object, record, jobs>>

DeleteCommit(h) ==
  LET p == handler[h]
  IN  /\ p.pc = "delete"
      /\ IF p.drawing \in There
         THEN /\ row' = [row EXCEPT ![p.drawing] = Deleted]
              /\ snaps' = {s \in snaps : s.drawing # p.drawing}
              /\ jobs' = jobs \cup Removals(p.drawing, p.removed)
         ELSE UNCHANGED <<row, snaps, jobs>>
      /\ handler' = [handler EXCEPT ![h] = IdleHandler]
      /\ UNCHANGED <<object, record>>

-----------------------------------------------------------------------------
(* Deletions nobody waits for. cleanupRemovedS3Files finds the row of a file *)
(* of one drawing; the pruning of snapshots first counts who refers to the   *)
(* file, then finds the rows of every drawing.                               *)

Step(j, pc) == jobs' = (jobs \ {j}) \cup {[j EXCEPT !.pc = pc]}

Referenced(f) ==
  \/ \E d \in There : f \in Keyed(row[d].files)
  \/ \E s \in snaps : f \in Keyed(s.files)

Prune(old) ==
  /\ old # {} /\ snaps' = snaps \ old
  /\ jobs' = jobs \cup [drawing : Drawings, pc : {"count"},
                        file : UNION {Keyed(s.files) : s \in old}]
  /\ UNCHANGED <<row, object, record, handler>>

\* Drawings that are not modelled may refer to the file.
JobCount(j) ==
  /\ j.pc = "count"
  /\ jobs' = jobs \ {j} \/ (~Referenced(j.file) /\ Step(j, "find"))
  /\ UNCHANGED <<row, snaps, object, record, handler>>

JobFind(j) ==
  /\ j.pc = "find"
  /\ IF j.file \in Records(j.drawing) THEN Step(j, "object") ELSE jobs' = jobs \ {j}
  /\ UNCHANGED <<row, snaps, object, record, handler>>

JobObject(j) ==
  /\ j.pc = "object"
  /\ DeleteS3Objects(j.drawing, {j.file})
  /\ handler' = Hit(j.drawing, {j.file})
  /\ Step(j, "record")
  /\ UNCHANGED <<row, snaps, record>>

JobRecord(j) ==
  /\ j.pc = "record"
  /\ record' = record \ {<<j.drawing, j.file>>}
  /\ handler' = Hit(j.drawing, {j.file})
  /\ jobs' = jobs \ {j}
  /\ UNCHANGED <<row, snaps, object>>

\* The bucket or the database fails; the error is logged.
JobFails(j) ==
  /\ jobs' = jobs \ {j}
  /\ UNCHANGED <<row, snaps, object, record, handler>>

-----------------------------------------------------------------------------
(* The storage page: GET files/diff, POST trim, DELETE files/orphans. The    *)
(* page lists the files the drawing has in any store and does not show; by   *)
(* the time some are chosen the drawing may show them. Trimming keeps what   *)
(* the drawing shows as it was read. Both write the drawing back without     *)
(* looking at its version.                                                   *)

Diff(h, d) ==
  /\ d \in There /\ row[d].shown # FileIds
  /\ Begins(h, [pc |-> "diff", drawing |-> d, hidden |-> FileIds \ row[d].shown,
                entered |-> Keyed(row[d].files)])
  /\ UNCHANGED <<row, snaps, object, record, jobs>>

DiffList(h) ==
  LET p == handler[h]
      listed == p.hidden \cap (p.entered \cup Records(p.drawing) \cup ListS3Objects(p.drawing))
  IN  /\ p.pc = "diff"
      /\ handler' = [handler EXCEPT ![h] =
           IF listed = {} THEN IdleHandler
           ELSE [pc |-> "choose", drawing |-> p.drawing, files |-> listed]]
      /\ UNCHANGED <<row, snaps, object, record, jobs>>

\* What a trim or a removal of the given files has read.
Read(d, trim, files) ==
  [pc |-> "read", drawing |-> d, trim |-> trim,
   after |-> [f \in FileIds |-> IF f \in files THEN Nothing ELSE row[d].files[f]],
   shown |-> row[d].shown, files |-> files, objects |-> {}, rows |-> {},
   hit |-> row[d].excused]

Trim(h, d) ==
  /\ d \in There
  /\ Begins(h, Read(d, TRUE, FileIds \ row[d].shown))
  /\ UNCHANGED <<row, snaps, object, record, jobs>>

\* Files chosen of those the page found unused.
Chosen(h, files) == handler[h].pc = "choose" /\ files \subseteq handler[h].files

\* A mutant: the files of the request are not compared with those shown.
MutantDeleteOrphans(h, files) ==
  /\ Chosen(h, files)
  /\ handler' = [handler EXCEPT ![h] =
       IF handler[h].drawing \in There
       THEN Read(handler[h].drawing, FALSE, files) ELSE IdleHandler]
  /\ UNCHANGED <<row, snaps, object, record, jobs>>

\* Chosen files that are shown by now are refused, and so is everything chosen with them.
DeleteOrphans(h, files) ==
  /\ Chosen(h, files)
  /\ handler' = [handler EXCEPT ![h] =
       IF handler[h].drawing \in There /\ files \cap row[handler[h].drawing].shown = {}
       THEN Read(handler[h].drawing, FALSE, files) ELSE IdleHandler]
  /\ UNCHANGED <<row, snaps, object, record, jobs>>

CloseStorage(h) ==
  /\ handler[h].pc \in {"diff", "choose"}
  /\ handler' = [handler EXCEPT ![h] = IdleHandler]
  /\ UNCHANGED <<row, snaps, object, record, jobs>>

\* DELETE snapshots: the page again. The images of the snapshots stay in the bucket.
DeleteSnapshots(d) ==
  /\ d \in There
  /\ snaps' = {s \in snaps : s.drawing # d} /\ snaps' # snaps
  /\ UNCHANGED <<row, object, record, handler, jobs>>

\* Trimming also lists the bucket.
SweepList(h) ==
  LET p == handler[h]
      known == p.files \cap Records(p.drawing)
      listed == p.files \cap ListS3Objects(p.drawing)
  IN  /\ p.pc = "read"
      /\ handler' = [handler EXCEPT ![h] =
           [p EXCEPT !.pc = "sweep", !.trim = FALSE, !.rows = known,
                     !.objects = known \cup (IF p.trim THEN listed ELSE {})]]
      /\ UNCHANGED <<row, snaps, object, record, jobs>>

\* A deletion that fails is logged and counted.
SweepObject(h, f) ==
  LET p == handler[h]
  IN  /\ p.pc = "sweep" /\ f \in p.objects
      /\ UNCHANGED object \/ DeleteS3Objects(p.drawing, {f})
      /\ handler' = [Hit(p.drawing, {f}) EXCEPT ![h] = [p EXCEPT !.objects = @ \ {f}]]
      /\ row' = Hidden(p.drawing, {f})
      /\ UNCHANGED <<snaps, record, jobs>>

SweepRows(h) ==
  LET p == handler[h]
  IN  /\ p.pc = "sweep" /\ p.objects = {} /\ p.rows # {}
      /\ record' = record \ ({p.drawing} \X p.rows)
      /\ handler' = [Hit(p.drawing, p.rows) EXCEPT ![h] = [p EXCEPT !.rows = {}]]
      /\ row' = Hidden(p.drawing, p.rows)
      /\ UNCHANGED <<snaps, object, jobs>>

SweepCommit(h) ==
  LET p == handler[h]
      d == p.drawing
  IN  /\ p.pc = "sweep" /\ p.objects = {} /\ p.rows = {}
      /\ row' = IF d \in There
                THEN [row EXCEPT ![d] = RowOf(p.after, p.shown, Excused(h, d, {}) \cap Keyed(p.after))]
                ELSE row
      /\ handler' = Bumped(h, d)
      /\ UNCHANGED <<snaps, object, record, jobs>>

-----------------------------------------------------------------------------
(* POST duplicate: the copy has the entries of the original until its own    *)
(* objects are made, and keeps them when making one fails.                   *)

Duplicate(h, d) ==
  /\ row[d] = Unused
  /\ \A i \in Handlers : handler[i] # IdleHandler => handler[i].drawing # d
  /\ \E files \in [FileIds -> {Other, Nothing}] : \E shown \in SUBSET Keyed(files) :
       /\ row' = [row EXCEPT ![d] = RowOf(files, shown, {})]
       /\ Begins(h, [pc |-> "copy", drawing |-> d, before |-> files,
                     left |-> Keyed(files), found |-> {}, enter |-> {}, made |-> {},
                     hit |-> {}])
  /\ UNCHANGED <<snaps, object, record, jobs>>

CopyFind(h, f) ==
  LET p == handler[h]
  IN  /\ p.pc = "copy" /\ p.found \cup p.enter = {} /\ f \in p.left
      /\ \E found \in {{}, {f}} : handler' = [handler EXCEPT ![h] =
           [p EXCEPT !.left = @ \ {f},
                     !.found = found]]
      /\ UNCHANGED <<row, snaps, object, record, jobs>>

CopyObject(h, f) ==
  LET p == handler[h]
  IN  /\ p.pc = "copy" /\ f \in p.found
      /\ CopyS3Object(p.drawing, f)
      /\ handler' = [handler EXCEPT ![h] =
           [p EXCEPT !.found = {}, !.enter = {f}, !.made = @ \cup {f}]]
      /\ UNCHANGED <<row, snaps, record, jobs>>

\* As when the object of the original is missing. The objects made are deleted,
\* as far as that works; their rows stay.
CopyFails(h) ==
  LET p == handler[h]
  IN  /\ p.pc = "copy" /\ p.found \cup p.enter # {}
      /\ \E gone \in SUBSET p.made :
           /\ DeleteS3Objects(p.drawing, gone)
           /\ handler' = [Hit(p.drawing, gone) EXCEPT ![h] =
                [p EXCEPT !.left = {}, !.found = {}, !.enter = {}, !.made = {}]]
      /\ UNCHANGED <<row, snaps, record, jobs>>

\* Only the entries of the copy are written, and not its version.
CopyCommit(h) ==
  LET p == handler[h]
      e == p.drawing
      files == [f \in FileIds |-> IF f \in p.made THEN Own ELSE p.before[f]]
  IN  /\ p.pc = "copy" /\ p.left \cup p.found \cup p.enter = {}
      /\ row' = IF e \in There /\ Keyed(files) # {}
                THEN [row EXCEPT ![e] =
                       RowOf(files, @.shown, Excused(h, e, p.made) \cap Keyed(files))]
                ELSE row
      /\ handler' = [handler EXCEPT ![h] = IdleHandler]
      /\ UNCHANGED <<snaps, object, record, jobs>>

-----------------------------------------------------------------------------
\* The server stops: requests and deletions under way are lost.
Restart ==
  /\ handler' = [h \in Handlers |-> IdleHandler]
  /\ jobs' = {}
  /\ handler # handler' \/ jobs # {}
  /\ UNCHANGED <<row, snaps, object, record>>

FilesInit ==
  /\ row = [d \in Drawings |-> Unused]
  /\ snaps = {} /\ object = {} /\ record = {} /\ jobs = {}
  /\ handler = [h \in Handlers |-> IdleHandler]

Asks(h) ==
  \E d \in Drawings :
    \/ CreateDrawing(h, d) \/ SaveDrawing(h, d) \/ DeleteDrawing(h, d) \/ Duplicate(h, d)
    \/ Diff(h, d) \/ Trim(h, d)

Handle(h) ==
  \/ PutFails(h) \/ PutCommit(h) \/ DeleteCommit(h)
  \/ DiffList(h) \/ CloseStorage(h)
  \/ \E files \in (SUBSET FileIds) \ {{}} : DeleteOrphans(h, files)
  \/ SweepList(h) \/ SweepRows(h) \/ SweepCommit(h)
  \/ CopyFails(h) \/ CopyCommit(h)
  \/ \E f \in FileIds :
       Upload(h, f) \/ Enter(h, f) \/ SweepObject(h, f) \/ CopyFind(h, f) \/ CopyObject(h, f)

CleanUp(j) == JobCount(j) \/ JobFind(j) \/ JobObject(j) \/ JobRecord(j) \/ JobFails(j)

FilesNext ==
  \/ \E h \in Handlers : Asks(h) \/ Handle(h)
  \/ \E j \in jobs : CleanUp(j)
  \/ \E s \in snaps : RestoreFiles(s)
  \/ \E d \in Drawings : DeleteSnapshots(d)
  \/ \E old \in SUBSET snaps : Prune(old)
  \/ Restart

FilesSpec == FilesInit /\ [][FilesNext]_filesVars

-----------------------------------------------------------------------------
\* The types; the snapshots are those of drawings that are there (the cascade of
\* the schema).
FilesTypeOK ==
  /\ row \in [Drawings -> Row]
  /\ snaps \subseteq [drawing : There, files : Entries]
  /\ object \subseteq Drawings \X FileIds
  /\ record \subseteq Drawings \X FileIds
  /\ handler \in [Handlers -> HandlerState]
  /\ jobs \subseteq Job

\* An image that a drawing shows and keeps an object of its own for is in the
\* bucket and has its row, whatever saves, copies, trims, clean-ups after saves and
\* pruned snapshots do at the same time, unless a deletion of it was under way
\* when its entry was written, or the entry comes back after the image was not
\* shown: nothing but the order of the steps keeps the three stores together.
VisibleImagesExist ==
  \A d \in There : \A f \in row[d].shown \ row[d].excused :
    row[d].files[f] = Own => Served(d, f)
=============================================================================
