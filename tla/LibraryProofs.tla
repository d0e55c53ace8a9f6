--------------------------- MODULE LibraryProofs ---------------------------
(***************************************************************************)
(* Proofs about Library for any drawings, collections, lists, requests,    *)
(* archives and age of the purge, and about the page of Dashboard over it. *)
(***************************************************************************)
EXTENDS Dashboard, TLAPS

\* The list a request has read and is to keep is that of the rows, or it is known
\* to have been overtaken.
ReadsAreFresh ==
  \A h \in Handlers, v \in Views :
    handler[h].pc = "fill" /\ handler[h].view = v =>
      handler[h].rows = Listing(v) \/ handler[h].raced \/ Unannounced

\* The job has drawings to delete only while it is at it.
PurgeIsAtIt == purge.left # {} => purge.pc = "delete"

IInv == TypeOK /\ PurgeIsAtIt /\ StaleOnlyWhenRaced /\ ReadsAreFresh /\ TimedOnlyInTrash

-----------------------------------------------------------------------------
(* Types. *)

\* What a request can hold, by the step it is at.
LEMMA HandlerTypes ==
  ASSUME TypeOK, NEW h \in Handlers
  PROVE  /\ handler[h].pc = "query" => handler[h].view \in Views
         /\ handler[h].pc = "fill" =>
              /\ handler[h].view \in Views /\ handler[h].rows \in SUBSET Drawings
              /\ handler[h].raced \in BOOLEAN
         /\ handler[h].pc \in {"ensure", "write"} =>
              /\ handler[h].write \in {"move", "create", "copy"}
              /\ handler[h].drawing \in Drawings /\ handler[h].place \in Places
         /\ handler[h].pc = "delete" => handler[h].drawing \in Drawings
         /\ handler[h].pc = "remove" => handler[h].collection \in Collections \cup {Trash}
         /\ handler[h].pc = "import" => handler[h].archive \in Archives
  <1>1. handler[h] \in HandlerState
    BY DEF TypeOK
  <1>2. QED BY <1>1 DEF HandlerState, Idle, Failed, Done

\* The states a request goes through.
LEMMA StateTypes ==
  /\ Idle \in HandlerState /\ Failed \in HandlerState /\ Done \in HandlerState
  /\ \A v \in Views : [pc |-> "query", view |-> v] \in HandlerState
  /\ \A v \in Views, R \in SUBSET Drawings, b \in BOOLEAN :
       [pc |-> "fill", view |-> v, rows |-> R, raced |-> b] \in HandlerState
  /\ \A R \in SUBSET Drawings, b \in BOOLEAN :
       [pc |-> "listed", rows |-> R, raced |-> b] \in HandlerState
  /\ \A w \in {"move", "create", "copy"}, d \in Drawings, p \in Places :
       /\ [pc |-> "ensure", write |-> w, drawing |-> d, place |-> p] \in HandlerState
       /\ [pc |-> "write", write |-> w, drawing |-> d, place |-> p] \in HandlerState
  /\ \A d \in Drawings : [pc |-> "delete", drawing |-> d] \in HandlerState
  /\ \A k \in Collections \cup {Trash} : [pc |-> "remove", collection |-> k] \in HandlerState
  /\ \A a \in Archives : [pc |-> "import", archive |-> a] \in HandlerState
  /\ [pc |-> "trash"] \in HandlerState /\ [pc |-> "files"] \in HandlerState
  /\ [pc |-> "invalidate"] \in HandlerState
  BY DEF HandlerState, Idle, Failed, Done

\* Changing the step of a write, and marking a list as overtaken.
LEMMA StateChanges ==
  ASSUME NEW s \in HandlerState
  PROVE  /\ s.pc = "ensure" => [s EXCEPT !.pc = "write"] \in HandlerState
         /\ s.pc = "fill" => [s EXCEPT !.raced = TRUE] \in HandlerState
  <1>1. ASSUME s.pc = "ensure" PROVE [s EXCEPT !.pc = "write"] \in HandlerState
    <2>1. s \in [pc : {"ensure", "write"}, write : {"move", "create", "copy"},
                drawing : Drawings, place : Places]
      BY <1>1 DEF HandlerState, Idle, Failed, Done
    <2>2. QED BY <2>1 DEF HandlerState
  <1>2. ASSUME s.pc = "fill" PROVE [s EXCEPT !.raced = TRUE] \in HandlerState
    <2>1. s \in [pc : {"fill"}, view : Views, rows : SUBSET Drawings, raced : BOOLEAN]
      BY <1>2 DEF HandlerState, Idle, Failed, Done
    <2>2. [s EXCEPT !.raced = TRUE]
            \in [pc : {"fill"}, view : Views, rows : SUBSET Drawings, raced : BOOLEAN]
      BY <2>1
    <2>3. QED BY <2>2 DEF HandlerState
  <1>3. QED BY <1>1, <1>2

\* Requests after all lists that were read are overtaken.
LEMMA RacedTypes ==
  ASSUME TypeOK
  PROVE  /\ Raced \in [Handlers -> HandlerState]
         /\ \A h \in Handlers : /\ Raced[h].pc = handler[h].pc
                                /\ handler[h].pc = "fill" => Raced[h].raced
                                /\ handler[h].pc # "fill" => Raced[h] = handler[h]
  <1>1. \A h \in Handlers : handler[h] \in HandlerState
    BY DEF TypeOK
  <1>2. Raced \in [Handlers -> HandlerState]
    BY <1>1, StateChanges DEF Raced
  <1>3. ASSUME NEW h \in Handlers, handler[h].pc = "fill"
        PROVE  [handler[h] EXCEPT !.raced = TRUE].pc = "fill"
               /\ [handler[h] EXCEPT !.raced = TRUE].raced = TRUE
    BY <1>1, <1>3 DEF HandlerState, Idle, Failed, Done
  <1>4. QED BY <1>2, <1>3 DEF Raced

\* A row that is there, and one that is made.
LEMMA RowTypes ==
  ASSUME ConstantsAssumption
  PROVE  /\ Unused \in Row /\ Deleted \in Row
         /\ \A p \in Places, n \in 0..Untimed :
              /\ RowAt(p, n) \in Row /\ RowAt(p, n).state = "there"
              /\ RowAt(p, n).place = p /\ RowAt(p, n).trashed = n
         /\ \A row \in Row : row.state = "there" =>
              /\ row.place \in Places /\ row.trashed \in 0..Untimed /\ row.evicted \in BOOLEAN
              /\ row = [state |-> "there", place |-> row.place, trashed |-> row.trashed,
                        evicted |-> row.evicted]
         /\ 0 \in 0..Untimed /\ Untimed \in 0..Untimed
  <1>1. 0 \in 0..Untimed /\ Untimed \in 0..Untimed
    BY DEF Untimed, ConstantsAssumption
  <1>2. Unused \in Row /\ Deleted \in Row
    BY DEF Row
  <1>3. ASSUME NEW p \in Places, NEW n \in 0..Untimed
        PROVE  /\ RowAt(p, n) \in Row /\ RowAt(p, n).state = "there"
               /\ RowAt(p, n).place = p /\ RowAt(p, n).trashed = n
    BY DEF Row, RowAt
  <1>4. ASSUME NEW row \in Row, row.state = "there"
        PROVE  /\ row.place \in Places /\ row.trashed \in 0..Untimed /\ row.evicted \in BOOLEAN
               /\ row = [state |-> "there", place |-> row.place, trashed |-> row.trashed,
                         evicted |-> row.evicted]
    BY <1>4 DEF Row, Unused, Deleted
  <1>5. QED BY <1>1, <1>2, <1>3, <1>4

-----------------------------------------------------------------------------
(* Type correctness. *)

\* Rows of collections.
Collected == [Collections \cup {Trash} -> {"unused", "there", "deleted"}]

Jobs == [pc : {"rest", "delete"}, left : SUBSET Drawings]

\* The initial state has the types.
LEMMA InitType == ConstantsAssumption /\ Init => TypeOK
  <1> SUFFICES ASSUME ConstantsAssumption, Init PROVE TypeOK
    OBVIOUS
  <1>1. drawing \in [Drawings -> Row] /\ There = {}
    BY RowTypes DEF Init, There, Unused
  <1>2. cache \in [Views -> Body] /\ handler \in [Handlers -> HandlerState]
    BY StateTypes DEF Init, Body
  <1>3. purge \in Jobs
    BY DEF Init, Resting, Jobs
  <1>4. QED BY <1>1, <1>2, <1>3 DEF Init, TypeOK, Jobs

\* Types are kept by a step that leaves the drawings alone and deletes no collection.
LEMMA RowsStay ==
  ASSUME TypeOK, drawing' = drawing, collection' \in Collected,
         \A k \in Collections \cup {Trash} : Exists(k) => collection'[k] = "there",
         cache' \in [Views -> Body], handler' \in [Handlers -> HandlerState],
         purge' \in Jobs
  PROVE  TypeOK'
  <1>1. ASSUME NEW d \in There', drawing'[d].place # None
        PROVE  collection'[drawing'[d].place] = "there"
    <2>1. d \in There /\ drawing[d] \in Row /\ drawing[d].state = "there"
      BY <1>1 DEF There, TypeOK
    <2>2. drawing[d].place \in Places
      BY <2>1 DEF Row, Unused, Deleted
    <2>3. QED BY <1>1, <2>1, <2>2 DEF TypeOK, Places
  <1>2. QED BY <1>1 DEF TypeOK, Exists, Collected, Jobs

\* A body that is kept, and one that is overtaken.
LEMMA BodyTypes ==
  /\ NoBody \in Body /\ NoBody.kept = FALSE
  /\ \A R \in SUBSET Drawings, b \in BOOLEAN :
       [kept |-> TRUE, rows |-> R, raced |-> b] \in Body
  /\ \A body \in Body : body.kept = TRUE =>
       /\ body.rows \in SUBSET Drawings /\ body.raced \in BOOLEAN
       /\ [body EXCEPT !.raced = TRUE] \in Body
       /\ [body EXCEPT !.raced = TRUE].raced = TRUE
       /\ [body EXCEPT !.raced = TRUE].kept = TRUE
  <1>1. NoBody \in Body /\ NoBody.kept = FALSE
    BY DEF Body, NoBody
  <1>2. ASSUME NEW R \in SUBSET Drawings, NEW b \in BOOLEAN
        PROVE  [kept |-> TRUE, rows |-> R, raced |-> b] \in Body
    BY DEF Body
  <1>3. ASSUME NEW body \in Body, body.kept = TRUE
        PROVE  /\ body.rows \in SUBSET Drawings /\ body.raced \in BOOLEAN
               /\ [body EXCEPT !.raced = TRUE] \in Body
               /\ [body EXCEPT !.raced = TRUE].raced = TRUE
               /\ [body EXCEPT !.raced = TRUE].kept = TRUE
    <2>1. body \in [kept : {TRUE}, rows : SUBSET Drawings, raced : BOOLEAN]
      <3>1. CASE body = NoBody
        BY <1>3, <3>1 DEF NoBody
      <3>2. CASE body # NoBody
        BY <3>2 DEF Body
      <3>3. QED BY <3>1, <3>2
    <2>2. [body EXCEPT !.raced = TRUE] \in [kept : {TRUE}, rows : SUBSET Drawings, raced : BOOLEAN]
      BY <2>1
    <2>3. QED BY <2>1, <2>2 DEF Body
  <1>4. QED BY <1>1, <1>2, <1>3

\* A request that begins.
LEMMA RequestState ==
  ASSUME TypeOK, NEW h \in Handlers, Request(h)
  PROVE  \E state \in HandlerState : state.pc \notin {"fill", "files", "invalidate"}
                                       /\ Begins(h, state)
  <1>1. ASSUME NEW w \in {"move", "create", "copy"}, NEW d \in Drawings, NEW p \in Places
        PROVE  /\ Towards(w, d, p) \in HandlerState
               /\ Towards(w, d, p).pc \in {"failed", "ensure", "write"}
    BY StateTypes DEF Towards, Failed
  <1>2. ASSUME NEW v \in Views
        PROVE  Lists(v) \in HandlerState /\ Lists(v).pc \in {"failed", "listed", "query"}
    <2>1. cache[v] \in Body
      BY DEF TypeOK
    <2>2. QED BY <2>1, BodyTypes, StateTypes DEF Lists, Listed, Failed, Body, NoBody
  <1>3. CASE \E v \in Views : List(h, v)
    BY <1>2, <1>3 DEF List
  <1>4. CASE ListCollections(h)
    BY <1>4, StateTypes DEF ListCollections, Done
  <1>5. CASE \E d \in Drawings, p \in Places : Create(h, d, p) \/ Move(h, d, p) \/ Duplicate(h, p, d)
    BY <1>1, <1>5 DEF Create, Move, Duplicate
  <1>6. CASE \E d \in Drawings : Delete(h, d)
    <2>1. PICK d \in Drawings : Delete(h, d)
      BY <1>6
    <2>2. [pc |-> "delete", drawing |-> d] \in HandlerState
      BY StateTypes
    <2>3. QED BY <2>1, <2>2 DEF Delete
  <1>7. CASE \E k \in Collections \cup {Trash} : DeleteCollection(h, k)
    <2>1. PICK k \in Collections \cup {Trash} : DeleteCollection(h, k)
      BY <1>7
    <2>2. [pc |-> "remove", collection |-> k] \in HandlerState
      BY StateTypes
    <2>3. QED BY <2>1, <2>2 DEF DeleteCollection
  <1>8. CASE \E a \in Archives : Import(h, a)
    <2>1. PICK a \in Archives : Import(h, a)
      BY <1>8
    <2>2. [pc |-> "import", archive |-> a] \in HandlerState
      BY StateTypes
    <2>3. QED BY <2>1, <2>2 DEF Import
  <1>9. QED BY <1>3, <1>4, <1>5, <1>6, <1>7, <1>8 DEF Request

\* The list that is read, and kept.
LEMMA ListType ==
  ASSUME TypeOK, NEW h \in Handlers, Query(h) \/ Fill(h) \/ Invalidate(h) \/ CopyFiles(h) \/ CopyFails(h)
  PROVE  TypeOK'
  <1>1. CASE Query(h)
    <2>1. Listing(handler[h].view) \in SUBSET Drawings /\ handler[h].view \in Views
      BY <1>1, HandlerTypes DEF Query, Listing, There
    <2>2. PICK state \in HandlerState : Becomes(h, state)
      BY <1>1, <2>1, StateTypes DEF Query
    <2>3. handler' \in [Handlers -> HandlerState]
      BY <2>2 DEF TypeOK, Becomes
    <2>4. QED BY <1>1, <2>3, RowsStay DEF Query, TypeOK, Collected, Jobs, Exists
  <1>2. CASE Fill(h)
    <2>1. handler[h].rows \in SUBSET Drawings /\ handler[h].raced \in BOOLEAN
      BY <1>2, HandlerTypes DEF Fill
    <2>2. cache' \in [Views -> Body]
      <3>1. [kept |-> TRUE, rows |-> handler[h].rows, raced |-> handler[h].raced] \in Body
        BY <2>1, BodyTypes
      <3>2. QED BY <1>2, <3>1 DEF Fill, TypeOK
    <2>3. handler' \in [Handlers -> HandlerState]
      <3>1. Listed(handler[h]) \in HandlerState
        BY <2>1, StateTypes DEF Listed
      <3>2. QED BY <1>2, <3>1 DEF Fill, Becomes, TypeOK
    <2>4. QED BY <1>2, <2>2, <2>3, RowsStay DEF Fill, TypeOK, Collected, Jobs, Exists
  <1>3. CASE Invalidate(h)
    <2>1. handler' \in [Handlers -> HandlerState]
      BY <1>3, RacedTypes, StateTypes DEF Invalidate
    <2>2. cache' \in [Views -> Body]
      BY <1>3, BodyTypes DEF Invalidate, invalidateDrawingsCache
    <2>3. QED BY <1>3, <2>1, <2>2, RowsStay DEF Invalidate, TypeOK, Collected, Jobs, Exists
  <1>4. CASE CopyFiles(h)
    <2>1. handler' \in [Handlers -> HandlerState]
      BY <1>4, StateTypes DEF CopyFiles, TypeOK, Becomes
    <2>2. QED BY <1>4, <2>1, RowsStay DEF CopyFiles, TypeOK, Collected, Jobs, Exists
  <1>5. CASE CopyFails(h)
    <2>1. handler' \in [Handlers -> HandlerState]
      BY <1>5, RacedTypes, StateTypes DEF CopyFails
    <2>2. cache' \in [Views -> Body]
      <3>1. ASSUME NEW v \in Views
            PROVE  (IF cache[v].kept THEN [cache[v] EXCEPT !.raced = TRUE] ELSE NoBody) \in Body
        BY BodyTypes DEF TypeOK, Body, NoBody
      <3>2. QED BY <1>5, <3>1 DEF CopyFails
    <2>3. QED BY <1>5, <2>1, <2>2, RowsStay DEF CopyFails, TypeOK, Collected, Jobs, Exists
  <1>6. QED BY <1>1, <1>2, <1>3, <1>4, <1>5

\* Types are kept by a step after which every drawing is in a collection that is
\* there.
LEMMA RowsChange ==
  ASSUME TypeOK, drawing' \in [Drawings -> Row], collection' \in Collected,
         \A d \in Drawings : drawing'[d].state = "there" /\ drawing'[d].place # None =>
           collection'[drawing'[d].place] = "there",
         cache' \in [Views -> Body], handler' \in [Handlers -> HandlerState],
         purge' \in Jobs
  PROVE  TypeOK'
  BY DEF TypeOK, There, Exists, Collected, Jobs

\* Where the drawings are.
LEMMA PlaceTypes ==
  ASSUME TypeOK, NEW d \in Drawings, drawing[d].state = "there"
  PROVE  /\ drawing[d].place \in Places
         /\ drawing[d].place # None =>
              /\ drawing[d].place \in Collections \cup {Trash}
              /\ collection[drawing[d].place] = "there"
  <1>1. drawing[d] \in Row /\ d \in There
    BY DEF TypeOK, There
  <1>2. drawing[d].place \in Places
    BY <1>1 DEF Row, Unused, Deleted
  <1>3. QED BY <1>1, <1>2 DEF TypeOK, Exists, Places

\* What an import and a collection that goes do to a row.
Moved(row, p, b) == [row EXCEPT !.place = p, !.evicted = @ \/ b]

\* A row that goes elsewhere with an import or with its collection.
LEMMA RowMoves ==
  ASSUME NEW row \in Row, row.state = "there", NEW p \in Places, NEW b \in BOOLEAN
  PROVE  /\ Moved(row, p, b) \in Row /\ Moved(row, p, b).state = "there"
         /\ Moved(row, p, b).place = p /\ Moved(row, p, b).trashed = row.trashed
         /\ Moved(row, p, b).evicted = (row.evicted \/ b)
  <1> DEFINE T == [state : {"there"}, place : Places, trashed : 0..Untimed, evicted : BOOLEAN]
  <1>1. row \in T
    BY DEF Row, Unused, Deleted
  <1>2. (row.evicted \/ b) \in BOOLEAN
    OBVIOUS
  <1>3. Moved(row, p, b) \in T
    BY <1>1, <1>2 DEF Moved
  <1>4. Moved(row, p, b).evicted = (row.evicted \/ b)
    BY <1>1, <1>2 DEF Moved
  <1>5. Moved(row, p, b).place = p /\ Moved(row, p, b).trashed = row.trashed
    BY <1>1 DEF Moved
  <1>6. QED BY <1>3, <1>4, <1>5 DEF Row

\* What time does to a row.
Aged(row) == [row EXCEPT !.trashed = Older(@)]

\* A row that gets older.
LEMMA RowAges ==
  ASSUME ConstantsAssumption, NEW row \in Row, row.state = "there"
  PROVE  /\ Aged(row) \in Row /\ Aged(row).state = "there" /\ Aged(row).place = row.place
         /\ Aged(row).evicted = row.evicted
         /\ Aged(row).trashed # Untimed => row.trashed # Untimed
  <1> DEFINE T == [state : {"there"}, place : Places, trashed : 0..Untimed, evicted : BOOLEAN]
  <1>1. row \in T
    BY DEF Row, Unused, Deleted
  <1>2. Older(row.trashed) \in 0..Untimed
        /\ (Older(row.trashed) # Untimed => row.trashed # Untimed)
    <2>1. row.trashed \in 0..Untimed
      BY <1>1
    <2>2. QED BY <2>1 DEF Older, Untimed, ConstantsAssumption
  <1>3. Aged(row) \in T
    BY <1>1, <1>2 DEF Aged
  <1>4. Aged(row).trashed = Older(row.trashed)
    BY <1>1 DEF Aged
  <1>5. Aged(row).place = row.place /\ Aged(row).evicted = row.evicted
    BY <1>1 DEF Aged
  <1>6. QED BY <1>2, <1>3, <1>4, <1>5 DEF Row

\* Drawings are written and deleted.
LEMMA WriteType ==
  ASSUME ConstantsAssumption, TypeOK, NEW h \in Handlers, Write(h) \/ DeleteCommit(h)
  PROVE  TypeOK'
  <1>1. CASE Write(h) /\ Refused(handler[h])
    <2>1. handler' \in [Handlers -> HandlerState] /\ UNCHANGED <<drawing, collection, cache, purge>>
      BY <1>1, StateTypes DEF Write, Becomes, TypeOK
    <2>2. QED BY <2>1, RowsStay DEF TypeOK, Collected, Jobs, Exists
  <1>2. CASE Write(h) /\ ~Refused(handler[h])
    <2>1. PICK age \in {0, Untimed} :
            drawing' = [drawing EXCEPT ![handler[h].drawing] = RowAt(handler[h].place, age)]
      BY <1>2 DEF Write
    <2>2. /\ handler[h].drawing \in Drawings /\ handler[h].place \in Places
          /\ handler[h].place # None => Exists(handler[h].place)
      BY <1>2, HandlerTypes DEF Write, Refused
    <2>3. RowAt(handler[h].place, age) \in Row /\ RowAt(handler[h].place, age).place = handler[h].place
      BY <2>2, RowTypes
    <2>4. drawing' \in [Drawings -> Row]
      BY <2>1, <2>2, <2>3 DEF TypeOK
    <2>5. handler' \in [Handlers -> HandlerState] /\ UNCHANGED <<collection, cache, purge>>
      BY <1>2, StateTypes DEF Write, Becomes, TypeOK
    <2>6. ASSUME NEW d \in Drawings, drawing'[d].state = "there", drawing'[d].place # None
          PROVE  collection'[drawing'[d].place] = "there"
      <3>1. CASE d = handler[h].drawing
        BY <2>1, <2>2, <2>3, <2>5, <2>6, <3>1 DEF TypeOK, Exists
      <3>2. CASE d # handler[h].drawing
        BY <2>1, <2>5, <2>6, <3>2, PlaceTypes DEF TypeOK
      <3>3. QED BY <3>1, <3>2
    <2>7. QED BY <2>4, <2>5, <2>6, RowsChange DEF TypeOK, Collected, Jobs
  <1>3. CASE DeleteCommit(h)
    <2>1. handler[h].drawing \in Drawings
      BY <1>3, HandlerTypes DEF DeleteCommit
    <2>2. drawing' = [drawing EXCEPT ![handler[h].drawing] = Deleted]
      BY <1>3 DEF DeleteCommit
    <2>3. drawing' \in [Drawings -> Row] /\ Deleted.state # "there"
      BY <2>1, <2>2, RowTypes DEF TypeOK, Deleted
    <2>4. handler' \in [Handlers -> HandlerState] /\ UNCHANGED <<collection, cache, purge>>
      BY <1>3, StateTypes DEF DeleteCommit, Becomes, TypeOK
    <2>5. ASSUME NEW d \in Drawings, drawing'[d].state = "there", drawing'[d].place # None
          PROVE  collection'[drawing'[d].place] = "there"
      BY <2>1, <2>2, <2>3, <2>4, <2>5, PlaceTypes DEF TypeOK
    <2>6. QED BY <2>3, <2>4, <2>5, RowsChange DEF TypeOK, Collected, Jobs
  <1>4. QED BY <1>1, <1>2, <1>3

\* What a collection that goes does to a drawing.
LEMMA RemovedRow ==
  ASSUME ConstantsAssumption, TypeOK, NEW h \in Handlers, RemoveCommit(h), NEW d \in Drawings
  PROVE  /\ drawing'[d] \in Row
         /\ drawing[d].state = "there" =>
              /\ drawing'[d].state = "there" /\ drawing'[d].trashed = drawing[d].trashed
              /\ \/ drawing[d].place = handler[h].collection /\ drawing'[d].place = None
                    /\ drawing'[d].evicted = (drawing[d].evicted \/ handler[h].collection = Trash)
                 \/ drawing[d].place # handler[h].collection /\ drawing'[d] = drawing[d]
         /\ drawing[d].state # "there" => drawing'[d] = drawing[d]
  <1>1. drawing[d] \in Row /\ None \in Places
    BY DEF TypeOK, Places
  <1>2. CASE drawing[d].state = "there" /\ drawing[d].place = handler[h].collection
    <2>1. PICK b \in BOOLEAN : b = (handler[h].collection = Trash)
      OBVIOUS
    <2>2. drawing'[d] = Moved(drawing[d], None, b)
      BY <1>2, <2>1 DEF RemoveCommit, There, Moved
    <2>3. PICK row \in Row : row = drawing[d]
      BY <1>1
    <2>4. /\ Moved(row, None, b) \in Row /\ Moved(row, None, b).state = "there"
          /\ Moved(row, None, b).place = None /\ Moved(row, None, b).trashed = row.trashed
          /\ Moved(row, None, b).evicted = (row.evicted \/ b)
      BY <1>1, <1>2, <2>3, RowMoves
    <2>5. Moved(row, None, b).evicted = (row.evicted \/ handler[h].collection = Trash)
      BY <2>1, <2>4
    <2>6. QED BY <1>2, <2>2, <2>3, <2>4, <2>5
  <1>3. CASE ~(drawing[d].state = "there" /\ drawing[d].place = handler[h].collection)
    BY <1>1, <1>3 DEF RemoveCommit, There
  <1>4. QED BY <1>2, <1>3

\* Collections are removed.
LEMMA RemoveType ==
  ASSUME ConstantsAssumption, TypeOK, NEW h \in Handlers, RemoveCommit(h)
  PROVE  TypeOK'
  <1>1. drawing' \in [Drawings -> Row]
    <2>1. drawing' = [d \in Drawings |-> drawing'[d]]
      BY DEF RemoveCommit
    <2>2. QED BY <2>1, RemovedRow
  <1>2. handler[h].collection \in Collections \cup {Trash}
    BY HandlerTypes DEF RemoveCommit
  <1>3. collection' \in Collected
        /\ \A k \in Collections \cup {Trash} : k # handler[h].collection => collection'[k] = collection[k]
    BY <1>2 DEF RemoveCommit, TypeOK, Collected
  <1>4. handler' \in [Handlers -> HandlerState] /\ UNCHANGED <<cache, purge>>
    BY StateTypes DEF RemoveCommit, Becomes, TypeOK
  <1>5. ASSUME NEW d \in Drawings, drawing'[d].state = "there", drawing'[d].place # None
        PROVE  collection'[drawing'[d].place] = "there"
    <2>1. drawing[d].place # handler[h].collection /\ drawing'[d] = drawing[d]
      BY <1>5, RemovedRow
    <2>2. QED BY <1>3, <1>5, <2>1, PlaceTypes
  <1>6. QED BY <1>1, <1>3, <1>4, <1>5, RowsChange DEF TypeOK, Jobs

\* What an import that does not fail does to a drawing, and where it is then.
LEMMA ImportedRow ==
  ASSUME ConstantsAssumption, TypeOK, NEW h \in Handlers, ImportCommit(h),
         handler'[h].pc = "invalidate", NEW d \in Drawings
  PROVE  /\ drawing'[d] \in Row
         /\ \/ drawing'[d] = drawing[d]
            \/ drawing'[d].state = "there" /\ drawing[d].state # "there"
                 /\ drawing'[d].trashed = Untimed
            \/ drawing'[d].state = "there" /\ drawing[d].state = "there"
                 /\ drawing'[d].trashed = drawing[d].trashed
                 /\ (drawing[d].trashed # Untimed => drawing'[d].evicted)
         /\ drawing'[d].state = "there" /\ drawing'[d].place # None =>
              collection'[drawing'[d].place] = "there"
  <1> DEFINE a == handler[h].archive
             there == {k \in DOMAIN collection : Exists(k)} \cup Imports(a)
             placed == {resolveCollectionId(a, a.place[e]) : e \in DOMAIN a.place}
  <1>1. a \in Archives /\ handler[h] \in HandlerState
    BY HandlerTypes DEF ImportCommit, TypeOK
  <1>2. /\ placed \subseteq there \cup {None}
        /\ collection' = [k \in DOMAIN collection |-> IF k \in there THEN "there" ELSE collection[k]]
        /\ drawing' = [e \in Drawings |->
             IF e \in DOMAIN a.place
             THEN Imported(drawing[e], resolveCollectionId(a, a.place[e])) ELSE drawing[e]]
    BY DEF ImportCommit, Becomes, Failed, TypeOK
  <1>3. drawing[d] \in Row /\ DOMAIN collection = Collections \cup {Trash}
        /\ None \notin Collections \cup {Trash}
    BY DEF TypeOK, ConstantsAssumption
  <1>4. \A p \in Places : p \in there => collection'[p] = "there"
    <2>1. Imports(a) \subseteq Collections \cup {Trash}
      BY <1>1 DEF Imports, ConstantsAssumption
    <2>2. QED BY <1>2, <1>3, <2>1
  <1>5. CASE d \in DOMAIN a.place
    <2>1. PICK p \in Places : p = resolveCollectionId(a, a.place[d]) /\ p \in there \cup {None}
      <3>1. resolveCollectionId(a, a.place[d]) \in Places
        BY <1>1, <1>5 DEF resolveCollectionId, ConstantsAssumption, Places
      <3>2. QED BY <3>1, <1>2, <1>5
    <2>2. drawing'[d] = Imported(drawing[d], p)
      BY <1>2, <1>5, <2>1
    <2>3. p # None => collection'[p] = "there"
      BY <1>4, <2>1
    <2>4. CASE drawing[d].state = "there"
      <3>1. PICK row \in Row : row = drawing[d]
        BY <1>3
      <3>2. PICK b \in BOOLEAN : b = (row.trashed # Untimed)
        OBVIOUS
      <3>3. drawing'[d] = Moved(row, p, b)
        BY <2>2, <2>4, <3>1, <3>2 DEF Imported, Moved
      <3>4. /\ Moved(row, p, b) \in Row /\ Moved(row, p, b).state = "there"
            /\ Moved(row, p, b).place = p /\ Moved(row, p, b).trashed = row.trashed
            /\ Moved(row, p, b).evicted = (row.evicted \/ b)
        BY <2>4, <3>1, RowMoves
      <3>5. row.trashed # Untimed => Moved(row, p, b).evicted
        BY <3>2, <3>4
      <3>6. QED BY <2>3, <2>4, <3>1, <3>3, <3>4, <3>5
    <2>5. CASE drawing[d].state # "there"
      <3>1. drawing'[d] = RowAt(p, Untimed)
        BY <2>2, <2>5 DEF Imported
      <3>2. QED BY <2>3, <2>5, <3>1, RowTypes
    <2>6. QED BY <2>4, <2>5
  <1>6. CASE d \notin DOMAIN a.place
    <2>1. drawing'[d] = drawing[d]
      BY <1>2, <1>6
    <2>2. ASSUME drawing[d].state = "there", drawing[d].place # None
          PROVE  collection'[drawing[d].place] = "there"
      <3>1. drawing[d].place \in Places /\ drawing[d].place \in DOMAIN collection
            /\ Exists(drawing[d].place)
        BY <1>3, <2>2, PlaceTypes DEF Exists
      <3>2. QED BY <1>4, <3>1
    <2>3. QED BY <1>3, <2>1, <2>2
  <1>7. QED BY <1>5, <1>6

\* Archives are imported.
LEMMA ImportType ==
  ASSUME ConstantsAssumption, TypeOK, NEW h \in Handlers, ImportCommit(h)
  PROVE  TypeOK'
  <1>1. handler' \in [Handlers -> HandlerState] /\ UNCHANGED <<cache, purge>>
        /\ \/ handler'[h] = Failed /\ UNCHANGED <<drawing, collection>>
           \/ handler'[h].pc = "invalidate"
    BY StateTypes DEF ImportCommit, Becomes, TypeOK
  <1>2. CASE UNCHANGED <<drawing, collection>>
    BY <1>1, <1>2, RowsStay DEF TypeOK, Collected, Jobs, Exists
  <1>3. CASE handler'[h].pc = "invalidate"
    <2>1. \A d \in Drawings :
            /\ drawing'[d] \in Row
            /\ drawing'[d].state = "there" /\ drawing'[d].place # None =>
                 collection'[drawing'[d].place] = "there"
      BY <1>3, ImportedRow
    <2>2. drawing' = [d \in Drawings |-> drawing'[d]]
      BY DEF ImportCommit, TypeOK
    <2>3. collection' \in Collected
      BY DEF ImportCommit, TypeOK, Collected
    <2>4. QED BY <1>1, <2>1, <2>2, <2>3, RowsChange DEF TypeOK, Jobs
  <1>4. QED BY <1>1, <1>2, <1>3 DEF Failed

\* The trash is created, and an answer is sent.
LEMMA EnsureType ==
  ASSUME ConstantsAssumption, TypeOK, NEW h \in Handlers, EnsureTrash(h) \/ Answer(h)
  PROVE  TypeOK'
  <1>1. CASE EnsureTrash(h)
    <2>1. [handler[h] EXCEPT !.pc = "write"] \in HandlerState \/ handler[h].pc # "ensure"
      BY StateChanges DEF TypeOK
    <2>2. handler' \in [Handlers -> HandlerState]
      BY <1>1, <2>1, StateTypes DEF EnsureTrash, Becomes, TypeOK
    <2>3. collection' \in Collected
          /\ \A k \in Collections \cup {Trash} : Exists(k) => collection'[k] = "there"
      BY <1>1 DEF EnsureTrash, Exists, TypeOK, Collected
    <2>4. QED BY <1>1, <2>2, <2>3, RowsStay DEF EnsureTrash, TypeOK, Jobs
  <1>2. CASE Answer(h)
    <2>1. handler' \in [Handlers -> HandlerState]
      BY <1>2, StateTypes DEF Answer, Becomes, TypeOK
    <2>2. QED BY <1>2, <2>1, RowsStay DEF Answer, TypeOK, Collected, Jobs, Exists
  <1>3. QED BY <1>1, <1>2

\* Time passes.
LEMMA TickType ==
  ASSUME ConstantsAssumption, TypeOK, Tick
  PROVE  /\ TypeOK'
         /\ \A d \in Drawings :
              /\ drawing[d].state = "there" =>
                   /\ drawing'[d].state = "there" /\ drawing'[d].place = drawing[d].place
                   /\ drawing'[d].evicted = drawing[d].evicted
                   /\ drawing'[d].trashed # Untimed => drawing[d].trashed # Untimed
              /\ drawing[d].state # "there" => drawing'[d] = drawing[d]
  <1>1. ASSUME NEW d \in Drawings
        PROVE  /\ drawing'[d] \in Row
               /\ drawing[d].state = "there" =>
                    /\ drawing'[d].state = "there" /\ drawing'[d].place = drawing[d].place
                    /\ drawing'[d].evicted = drawing[d].evicted
                    /\ drawing'[d].trashed # Untimed => drawing[d].trashed # Untimed
               /\ drawing[d].state # "there" => drawing'[d] = drawing[d]
    <2>1. PICK row \in Row : row = drawing[d]
      BY DEF TypeOK
    <2>2. CASE row.state = "there"
      <3>1. drawing'[d] = Aged(row)
        BY <2>1, <2>2 DEF Tick, There, Aged
      <3>2. QED BY <2>1, <2>2, <3>1, RowAges
    <2>3. CASE row.state # "there"
      BY <2>1, <2>3 DEF Tick, There
    <2>4. QED BY <2>2, <2>3
  <1>2. drawing' = [d \in Drawings |-> drawing'[d]]
    BY DEF Tick
  <1>3. drawing' \in [Drawings -> Row]
    BY <1>1, <1>2
  <1>4. ASSUME NEW d \in Drawings, drawing'[d].state = "there", drawing'[d].place # None
        PROVE  collection'[drawing'[d].place] = "there"
    BY <1>1, <1>4, PlaceTypes DEF Tick
  <1>5. TypeOK'
    BY <1>3, <1>4, RowsChange DEF Tick, TypeOK, Collected, Jobs
  <1>6. QED BY <1>1, <1>5

\* The job, collections that are created, bodies that expire, and restarts.
LEMMA OtherType ==
  ASSUME ConstantsAssumption, TypeOK,
         \/ \E k \in Collections : CreateCollection(k)
         \/ \E v \in Views : Expire(v)
         \/ Purge \/ Restart
  PROVE  TypeOK'
  <1>1. CASE \E k \in Collections : CreateCollection(k)
    <2>1. collection' \in Collected
          /\ \A k \in Collections \cup {Trash} : Exists(k) => collection'[k] = "there"
      BY <1>1 DEF CreateCollection, Exists, TypeOK, Collected
    <2>2. QED BY <1>1, <2>1, RowsStay DEF CreateCollection, TypeOK, Jobs
  <1>2. CASE \E v \in Views : Expire(v)
    <2>1. cache' \in [Views -> Body]
      BY <1>2, BodyTypes DEF Expire, TypeOK
    <2>2. QED BY <1>2, <2>1, RowsStay DEF Expire, TypeOK, Collected, Jobs, Exists
  <1>3. CASE PurgeList
    <2>1. purge' \in Jobs
      BY <1>3 DEF PurgeList, Jobs
    <2>2. QED BY <1>3, <2>1, RowsStay DEF PurgeList, TypeOK, Collected, Exists
  <1>4. CASE \E d \in Drawings : PurgeDelete(d)
    <2>1. PICK d \in Drawings : PurgeDelete(d)
      BY <1>4
    <2>2. purge' \in Jobs
      BY <2>1 DEF PurgeDelete, TypeOK, Jobs
    <2>3. drawing' \in [Drawings -> Row] /\ Deleted.state # "there"
      BY <2>1, RowTypes DEF PurgeDelete, TypeOK, Deleted
    <2>4. ASSUME NEW e \in Drawings, drawing'[e].state = "there", drawing'[e].place # None
          PROVE  collection'[drawing'[e].place] = "there"
      BY <2>1, <2>3, <2>4, PlaceTypes DEF PurgeDelete, TypeOK
    <2>5. QED BY <2>1, <2>2, <2>3, <2>4, RowsChange DEF PurgeDelete, TypeOK, Collected
  <1>5. CASE PurgeEnd
    <2>1. purge' \in Jobs
      BY <1>5 DEF PurgeEnd, Jobs, Resting
    <2>2. cache' \in [Views -> Body] /\ handler' \in [Handlers -> HandlerState]
      BY <1>5, BodyTypes, RacedTypes DEF PurgeEnd, invalidateDrawingsCache
    <2>3. QED BY <1>5, <2>1, <2>2, RowsStay DEF PurgeEnd, TypeOK, Collected, Exists
  <1>6. CASE Restart
    <2>1. purge' \in Jobs
      BY <1>6 DEF Restart, Jobs, Resting
    <2>2. cache' \in [Views -> Body] /\ handler' \in [Handlers -> HandlerState]
      BY <1>6, BodyTypes, StateTypes DEF Restart, invalidateDrawingsCache
    <2>3. QED BY <1>6, <2>1, <2>2, RowsStay DEF Restart, TypeOK, Collected, Exists
  <1>7. QED BY <1>1, <1>2, <1>3, <1>4, <1>5, <1>6 DEF Purge

\* Every step keeps the types.
LEMMA TypeStep == ConstantsAssumption /\ TypeOK /\ [Next]_vars => TypeOK'
  <1> SUFFICES ASSUME ConstantsAssumption, TypeOK, [Next]_vars PROVE TypeOK'
    OBVIOUS
  <1>1. CASE \E h \in Handlers : Request(h)
    <2>1. PICK h \in Handlers, state \in HandlerState : Begins(h, state)
      BY <1>1, RequestState
    <2>2. handler' \in [Handlers -> HandlerState]
      BY <2>1 DEF Begins, TypeOK
    <2>3. QED BY <2>1, <2>2, RowsStay DEF Begins, TypeOK, Collected, Jobs, Exists
  <1>2. CASE \E h \in Handlers : Serve(h) \/ Answer(h)
    BY <1>2, ListType, WriteType, RemoveType, ImportType, EnsureType DEF Serve
  <1>3. CASE \/ \E k \in Collections : CreateCollection(k)
             \/ \E v \in Views : Expire(v)
             \/ Purge \/ Restart
    BY <1>3, OtherType
  <1>4. CASE Tick
    BY <1>4, TickType
  <1>5. CASE UNCHANGED vars
    BY <1>5, RowsStay DEF vars, TypeOK, Collected, Jobs, Exists
  <1>6. QED BY <1>1, <1>2, <1>3, <1>4, <1>5 DEF Next

-----------------------------------------------------------------------------
(* The trash. *)

\* Steps after which a drawing has a time only where it had one before, and has
\* not been taken out of the trash, or it is known how.
LEMMA TimesStay ==
  ASSUME TimedOnlyInTrash,
         \A d \in Drawings : drawing'[d].state = "there" /\ drawing'[d].trashed # Untimed =>
           \/ drawing'[d].place = Trash \/ drawing'[d].evicted
           \/ /\ drawing[d].state = "there" /\ drawing[d].trashed # Untimed
              /\ drawing[d].place = drawing'[d].place /\ drawing[d].evicted = drawing'[d].evicted
  PROVE  TimedOnlyInTrash'
  BY DEF TimedOnlyInTrash, There

\* No step leaves the time of the trash on a drawing in use.
LEMMA TrashStep ==
  ConstantsAssumption /\ TypeOK /\ TimedOnlyInTrash /\ [Next]_vars => TimedOnlyInTrash'
  <1> SUFFICES ASSUME ConstantsAssumption, TypeOK, TimedOnlyInTrash, [Next]_vars
               PROVE  TimedOnlyInTrash'
    OBVIOUS
  <1>1. CASE UNCHANGED drawing
    BY <1>1, TimesStay
  <1>2. ASSUME NEW h \in Handlers, Write(h), ~UNCHANGED drawing
        PROVE  TimedOnlyInTrash'
    <2>1. PICK age \in {0, Untimed} :
            /\ drawing' = [drawing EXCEPT ![handler[h].drawing] = RowAt(handler[h].place, age)]
            /\ age # Untimed => handler[h].place = Trash
      BY <1>2 DEF Write
    <2>2. handler[h].drawing \in Drawings /\ handler[h].place \in Places
      BY <1>2, HandlerTypes DEF Write
    <2>3. /\ RowAt(handler[h].place, age).place = handler[h].place
          /\ RowAt(handler[h].place, age).trashed = age
      BY <2>2, RowTypes
    <2>4. QED BY <2>1, <2>2, <2>3, TimesStay DEF TypeOK
  <1>3. ASSUME NEW d \in Drawings, drawing' = [drawing EXCEPT ![d] = Deleted]
        PROVE  TimedOnlyInTrash'
    BY <1>3, TimesStay DEF TypeOK, Deleted
  <1>4. ASSUME NEW h \in Handlers, RemoveCommit(h) PROVE TimedOnlyInTrash'
    <2>1. ASSUME NEW d \in Drawings, drawing'[d].state = "there", drawing'[d].trashed # Untimed
          PROVE  \/ drawing'[d].place = Trash \/ drawing'[d].evicted
                 \/ drawing'[d] = drawing[d]
      <3>1. CASE drawing'[d] = drawing[d]
        BY <3>1
      <3>2. CASE /\ drawing[d].state = "there" /\ drawing'[d].trashed = drawing[d].trashed
                 /\ drawing[d].place = handler[h].collection
                 /\ drawing'[d].evicted = (drawing[d].evicted \/ handler[h].collection = Trash)
        <4>1. drawing[d].place = Trash \/ drawing[d].evicted
          BY <2>1, <3>2 DEF TimedOnlyInTrash, There
        <4>2. QED BY <3>2, <4>1
      <3>3. QED BY <1>4, <3>1, <3>2, RemovedRow
    <2>2. QED BY <2>1, TimesStay
  <1>5. ASSUME NEW h \in Handlers, ImportCommit(h), ~UNCHANGED drawing PROVE TimedOnlyInTrash'
    <2>1. handler'[h].pc = "invalidate"
      BY <1>5 DEF ImportCommit, Becomes, TypeOK
    <2>2. ASSUME NEW d \in Drawings, drawing'[d].state = "there", drawing'[d].trashed # Untimed
          PROVE  drawing'[d] = drawing[d] \/ drawing'[d].evicted
      BY <1>5, <2>1, <2>2, ImportedRow
    <2>3. QED BY <2>2, TimesStay
  <1>6. CASE Tick
    <2>1. ASSUME NEW d \in Drawings, drawing'[d].state = "there", drawing'[d].trashed # Untimed
          PROVE  /\ drawing[d].state = "there" /\ drawing[d].trashed # Untimed
                 /\ drawing[d].place = drawing'[d].place /\ drawing[d].evicted = drawing'[d].evicted
      BY <1>6, <2>1, TickType
    <2>2. QED BY <2>1, TimesStay
  <1>7. CASE \E h \in Handlers : Serve(h)
    <2>1. PICK h \in Handlers : Serve(h)
      BY <1>7
    <2>2. CASE DeleteCommit(h)
      BY <1>3, <2>2, HandlerTypes DEF DeleteCommit
    <2>3. CASE \/ Query(h) \/ Fill(h) \/ Invalidate(h) \/ EnsureTrash(h)
               \/ CopyFiles(h) \/ CopyFails(h)
      BY <1>1, <2>3 DEF Query, Fill, Invalidate, EnsureTrash, CopyFiles, CopyFails
    <2>4. QED BY <1>1, <1>2, <1>4, <1>5, <2>1, <2>2, <2>3 DEF Serve
  <1>8. CASE \E d \in Drawings : PurgeDelete(d)
    BY <1>3, <1>8 DEF PurgeDelete
  <1>9. CASE \/ \E h \in Handlers : Request(h) \/ Answer(h)
             \/ \E k \in Collections : CreateCollection(k)
             \/ \E v \in Views : Expire(v)
             \/ PurgeList \/ PurgeEnd \/ Restart \/ UNCHANGED vars
    <2>1. CASE \E h \in Handlers : Request(h)
      BY <1>1, <2>1, RequestState DEF Begins
    <2>2. CASE \E h \in Handlers : Answer(h)
      BY <1>1, <2>2 DEF Answer
    <2>3. QED BY <1>1, <1>9, <2>1, <2>2 DEF CreateCollection, Expire, PurgeList, PurgeEnd, Restart, vars
  <1>10. QED BY <1>6, <1>7, <1>8, <1>9 DEF Next, Purge

-----------------------------------------------------------------------------
(* The lists. *)

\* What is kept, and what is read and to be kept.
ListsOK == StaleOnlyWhenRaced /\ ReadsAreFresh

\* A list only depends on where the drawings are.
LEMMA ListingStays ==
  ASSUME \A d \in Drawings :
           /\ drawing'[d].state = "there" <=> drawing[d].state = "there"
           /\ drawing[d].state = "there" => drawing'[d].place = drawing[d].place
  PROVE  \A v \in Views : Listing(v)' = Listing(v)
  BY DEF Listing, There

\* A change that is still to be announced excuses every list.
LEMMA ExcusedLists ==
  ASSUME Unannounced'
  PROVE  ListsOK'
  BY DEF ListsOK, StaleOnlyWhenRaced, ReadsAreFresh

\* So does knowing of every list that it was overtaken.
LEMMA RacedLists ==
  ASSUME \A v \in Views : cache'[v].kept => cache'[v].raced,
         \A h \in Handlers : handler'[h].pc = "fill" => handler'[h].raced
  PROVE  ListsOK'
  BY DEF ListsOK, StaleOnlyWhenRaced, ReadsAreFresh

\* Lists stay right while nothing moves and nothing is announced.
LEMMA QuietLists ==
  ASSUME TypeOK, ListsOK, \A v \in Views : Listing(v)' = Listing(v),
         \A v \in Views : cache'[v].kept => cache'[v] = cache[v],
         \A h \in Handlers, v \in Views : handler'[h].pc = "fill" /\ handler'[h].view = v =>
           handler'[h] = handler[h] \/ handler'[h].rows = Listing(v),
         Unannounced => Unannounced'
  PROVE  ListsOK'
  <1>1. StaleOnlyWhenRaced'
    BY DEF ListsOK, StaleOnlyWhenRaced
  <1>2. ASSUME NEW h \in Handlers, NEW v \in Views,
               handler'[h].pc = "fill", handler'[h].view = v
        PROVE  handler'[h].rows = Listing(v)' \/ handler'[h].raced \/ Unannounced'
    <2>1. CASE handler'[h] = handler[h]
      BY <1>2, <2>1 DEF ListsOK, ReadsAreFresh
    <2>2. CASE handler'[h].rows = Listing(v)
      BY <2>2
    <2>3. QED BY <1>2, <2>1, <2>2
  <1>3. QED BY <1>1, <1>2 DEF ListsOK, ReadsAreFresh

\* A request that goes on announces nothing unless it was about to.
LEMMA StillUnannounced ==
  ASSUME TypeOK, NEW h \in Handlers, NEW state \in HandlerState,
         handler' = [handler EXCEPT ![h] = state], purge'.pc = purge.pc,
         handler[h].pc \in {"files", "invalidate"} => state.pc \in {"files", "invalidate"}
  PROVE  Unannounced => Unannounced'
  BY DEF Unannounced, TypeOK

\* Every step keeps the lists right.
LEMMA ListsStep ==
  ConstantsAssumption /\ TypeOK /\ PurgeIsAtIt /\ ListsOK /\ [Next]_vars => ListsOK'
  <1> SUFFICES ASSUME ConstantsAssumption, TypeOK, PurgeIsAtIt, ListsOK, [Next]_vars
               PROVE  ListsOK'
    OBVIOUS
  <1>1. ASSUME NEW h \in Handlers, NEW state \in HandlerState,
               handler' = [handler EXCEPT ![h] = state],
               state.pc \notin {"fill", "files", "invalidate"},
               handler[h].pc \notin {"files", "invalidate"},
               UNCHANGED <<drawing, cache, purge>>
        PROVE  ListsOK'
    <2>1. Unannounced => Unannounced'
      BY <1>1, StillUnannounced
    <2>2. \A g \in Handlers : handler'[g].pc = "fill" => handler'[g] = handler[g]
      BY <1>1 DEF TypeOK
    <2>3. \A v \in Views : Listing(v)' = Listing(v)
      BY <1>1, ListingStays
    <2>4. QED BY <1>1, <2>1, <2>2, <2>3, QuietLists
  <1>2. ASSUME NEW h \in Handlers, Request(h) PROVE ListsOK'
    <2>1. PICK state \in HandlerState :
            state.pc \notin {"fill", "files", "invalidate"} /\ Begins(h, state)
      BY <1>2, RequestState
    <2>2. /\ handler[h].pc \notin {"files", "invalidate"}
          /\ handler' = [handler EXCEPT ![h] = state] /\ UNCHANGED <<drawing, cache, purge>>
      BY <2>1 DEF Begins, Idle
    <2>3. QED BY <1>1, <2>1, <2>2
  <1>3. ASSUME NEW h \in Handlers, Query(h) PROVE ListsOK'
    <2>1. handler[h].view \in Views /\ Listing(handler[h].view) \in SUBSET Drawings
      BY <1>3, HandlerTypes DEF Query, Listing, There
    <2>2. PICK state \in HandlerState :
            /\ state.pc = "fill" /\ state.view \in Views /\ state.rows = Listing(state.view)
            /\ handler' = [handler EXCEPT ![h] = state]
      BY <1>3, <2>1, StateTypes DEF Query, Becomes
    <2>3. Unannounced => Unannounced'
      BY <1>3, <2>2, StillUnannounced DEF Query
    <2>4. \A g \in Handlers, v \in Views : handler'[g].pc = "fill" /\ handler'[g].view = v =>
            handler'[g] = handler[g] \/ handler'[g].rows = Listing(v)
      BY <2>2 DEF TypeOK
    <2>5. \A v \in Views : Listing(v)' = Listing(v)
      BY <1>3, ListingStays DEF Query
    <2>6. QED BY <1>3, <2>3, <2>4, <2>5, QuietLists DEF Query
  <1>4. ASSUME NEW h \in Handlers, Fill(h) PROVE ListsOK'
    <2>1. /\ handler[h].view \in Views /\ handler[h].rows \in SUBSET Drawings
          /\ handler[h].raced \in BOOLEAN
      BY <1>4, HandlerTypes DEF Fill
    <2>2. PICK state \in HandlerState :
            state.pc = "listed" /\ handler' = [handler EXCEPT ![h] = state]
      BY <1>4, <2>1, StateTypes DEF Fill, Becomes, Listed
    <2>3. Unannounced => Unannounced'
      BY <1>4, <2>2, StillUnannounced DEF Fill
    <2>4. \A v \in Views : Listing(v)' = Listing(v)
      BY <1>4, ListingStays DEF Fill
    <2>5. ASSUME NEW v \in Views, cache'[v].kept, cache'[v].rows # Listing(v)'
          PROVE  cache'[v].raced \/ Unannounced'
      <3>1. CASE cache'[v] = cache[v]
        BY <2>3, <2>4, <2>5, <3>1 DEF ListsOK, StaleOnlyWhenRaced
      <3>2. CASE /\ v = handler[h].view
                 /\ cache'[v].rows = handler[h].rows /\ cache'[v].raced = handler[h].raced
        BY <1>4, <2>3, <2>4, <2>5, <3>2 DEF ListsOK, ReadsAreFresh, Fill
      <3>3. QED BY <1>4, <3>1, <3>2 DEF Fill
    <2>6. ASSUME NEW g \in Handlers, NEW v \in Views,
                 handler'[g].pc = "fill", handler'[g].view = v
          PROVE  handler'[g].rows = Listing(v)' \/ handler'[g].raced \/ Unannounced'
      <3>1. handler'[g] = handler[g]
        BY <2>2, <2>6 DEF TypeOK
      <3>2. QED BY <2>3, <2>4, <2>6, <3>1 DEF ListsOK, ReadsAreFresh
    <2>7. QED BY <2>5, <2>6 DEF ListsOK, StaleOnlyWhenRaced, ReadsAreFresh
  <1>5. ASSUME NEW h \in Handlers, Invalidate(h) \/ CopyFails(h) PROVE ListsOK'
    <2>1. \A v \in Views : cache'[v].kept => cache'[v].raced
      <3>1. \A v \in Views : cache[v] \in Body
        BY DEF TypeOK
      <3>2. CASE Invalidate(h)
        BY <3>2, BodyTypes DEF Invalidate, invalidateDrawingsCache
      <3>3. CASE CopyFails(h)
        <4>1. ASSUME NEW v \in Views, cache'[v].kept PROVE cache'[v].raced
          <5>1. PICK body \in Body : body = cache[v]
            BY <3>1
          <5>2. body.kept = TRUE
            BY <3>3, <4>1, <5>1, BodyTypes DEF CopyFails, Body, NoBody
          <5>3. cache'[v] = [body EXCEPT !.raced = TRUE]
            BY <3>3, <5>1, <5>2 DEF CopyFails
          <5>4. QED BY <5>2, <5>3, BodyTypes
        <4>2. QED BY <4>1
      <3>4. QED BY <1>5, <3>2, <3>3
    <2>2. \A g \in Handlers : handler'[g].pc = "fill" => handler'[g].raced
      BY <1>5, RacedTypes DEF Invalidate, CopyFails, Done, Failed
    <2>3. QED BY <2>1, <2>2, RacedLists
  <1>6. ASSUME NEW h \in Handlers, handler'[h].pc \in {"files", "invalidate"}
        PROVE  ListsOK'
    BY <1>6, ExcusedLists DEF Unannounced
  <1>7. ASSUME NEW h \in Handlers, Serve(h) PROVE ListsOK'
    <2>1. CASE EnsureTrash(h)
      <3>1. [handler[h] EXCEPT !.pc = "write"] \in HandlerState \/ handler[h].pc # "ensure"
        BY StateChanges DEF TypeOK
      <3>2. handler[h].pc = "ensure" => [handler[h] EXCEPT !.pc = "write"].pc = "write"
        BY DEF TypeOK, HandlerState, Idle, Failed, Done
      <3>3. PICK state \in HandlerState :
              /\ state.pc \in {"failed", "done", "write"}
              /\ handler' = [handler EXCEPT ![h] = state]
        BY <2>1, <3>1, <3>2, StateTypes DEF EnsureTrash, Becomes, Failed, Done
      <3>4. QED BY <1>1, <2>1, <3>3 DEF EnsureTrash
    <2>2. CASE (Write(h) \/ DeleteCommit(h) \/ ImportCommit(h)) /\ handler'[h] = Failed /\ UNCHANGED drawing
      <3>1. handler' = [handler EXCEPT ![h] = Failed]
        BY <2>2 DEF Write, DeleteCommit, ImportCommit, Becomes, TypeOK
      <3>2. QED BY <1>1, <2>2, <3>1, StateTypes DEF Write, DeleteCommit, ImportCommit, Failed
    <2>3. CASE DeleteCommit(h) /\ handler'[h] = Failed
      <3>1. handler[h].drawing \in Drawings /\ drawing[handler[h].drawing].state # "there"
        BY <2>3, HandlerTypes DEF DeleteCommit, There, Becomes, Failed, TypeOK
      <3>2. \A v \in Views : Listing(v)' = Listing(v)
        BY <2>3, <3>1, ListingStays DEF DeleteCommit, TypeOK, Deleted
      <3>3. handler' = [handler EXCEPT ![h] = Failed]
        BY <2>3 DEF DeleteCommit, Becomes, TypeOK
      <3>4. Unannounced => Unannounced'
        BY <2>3, <3>3, StillUnannounced, StateTypes DEF DeleteCommit
      <3>5. \A g \in Handlers : handler'[g].pc = "fill" => handler'[g] = handler[g]
        BY <3>3 DEF TypeOK, Failed
      <3>6. QED BY <2>3, <3>2, <3>4, <3>5, QuietLists DEF DeleteCommit
    <2>4. CASE Write(h) \/ DeleteCommit(h) \/ RemoveCommit(h) \/ ImportCommit(h) \/ CopyFiles(h)
      <3>1. CASE handler'[h].pc \in {"files", "invalidate"}
        BY <1>6, <3>1
      <3>2. CASE Write(h) /\ handler'[h].pc \notin {"files", "invalidate"}
        <4>1. handler'[h] = Failed /\ UNCHANGED drawing
          BY <3>2 DEF Write, Becomes, TypeOK
        <4>2. QED BY <2>2, <3>2, <4>1
      <3>3. CASE ImportCommit(h) /\ handler'[h].pc \notin {"files", "invalidate"}
        <4>1. handler'[h] = Failed /\ UNCHANGED drawing
          BY <3>3 DEF ImportCommit, Becomes, TypeOK
        <4>2. QED BY <2>2, <3>3, <4>1
      <3>4. CASE DeleteCommit(h) /\ handler'[h].pc \notin {"files", "invalidate"}
        <4>1. handler'[h] = Failed
          BY <3>4 DEF DeleteCommit, Becomes, TypeOK
        <4>2. QED BY <2>3, <3>4, <4>1
      <3>5. RemoveCommit(h) \/ CopyFiles(h) => handler'[h].pc = "invalidate"
        <4>1. RemoveCommit(h) \/ CopyFiles(h) => handler' = [handler EXCEPT ![h] = [pc |-> "invalidate"]]
          BY DEF RemoveCommit, CopyFiles, Becomes
        <4>2. QED BY <4>1 DEF TypeOK
      <3>6. QED BY <2>4, <3>1, <3>2, <3>3, <3>4, <3>5
    <2>5. QED BY <1>3, <1>4, <1>5, <1>7, <2>1, <2>4 DEF Serve
  <1>8. ASSUME NEW h \in Handlers, Answer(h) PROVE ListsOK'
    BY <1>1, <1>8, StateTypes DEF Answer, Becomes, Idle
  <1>9. CASE Purge
    <2>1. CASE PurgeList \/ \E d \in Drawings : PurgeDelete(d)
      <3>1. purge'.pc = "delete"
        BY <2>1 DEF PurgeList, PurgeDelete, PurgeIsAtIt, TypeOK
      <3>2. QED BY <3>1, ExcusedLists DEF Unannounced
    <2>2. CASE PurgeEnd
      <3>1. \A v \in Views : cache'[v].kept => cache'[v].raced
        BY <2>2, BodyTypes DEF PurgeEnd, invalidateDrawingsCache
      <3>2. \A g \in Handlers : handler'[g].pc = "fill" => handler'[g].raced
        BY <2>2, RacedTypes DEF PurgeEnd
      <3>3. QED BY <3>1, <3>2, RacedLists
    <2>3. QED BY <1>9, <2>1, <2>2 DEF Purge
  <1>10. CASE Restart
    <2>1. \A v \in Views : cache'[v].kept => cache'[v].raced
      BY <1>10, BodyTypes DEF Restart, invalidateDrawingsCache
    <2>2. \A g \in Handlers : handler'[g].pc = "fill" => handler'[g].raced
      BY <1>10 DEF Restart, Idle
    <2>3. QED BY <2>1, <2>2, RacedLists
  <1>11. CASE \/ \E k \in Collections : CreateCollection(k)
              \/ \E v \in Views : Expire(v)
              \/ Tick \/ UNCHANGED vars
    <2>1. \A v \in Views : Listing(v)' = Listing(v)
      BY <1>11, TickType, ListingStays DEF CreateCollection, Expire, vars
    <2>2. UNCHANGED <<handler, purge>>
      BY <1>11 DEF CreateCollection, Expire, Tick, vars
    <2>3. \A v \in Views : cache'[v].kept => cache'[v] = cache[v]
      BY <1>11, BodyTypes DEF CreateCollection, Expire, Tick, vars, TypeOK
    <2>4. QED BY <2>1, <2>2, <2>3, QuietLists DEF Unannounced
  <1>12. QED BY <1>2, <1>7, <1>8, <1>9, <1>10, <1>11 DEF Next

-----------------------------------------------------------------------------
(* The theorems. *)

\* The inductive invariant.
LEMMA Invariant == Spec => []IInv
  <1>1. Init => IInv
    <2> SUFFICES ASSUME Init PROVE IInv
      OBVIOUS
    <2>1. PurgeIsAtIt /\ StaleOnlyWhenRaced /\ ReadsAreFresh /\ TimedOnlyInTrash
      BY DEF Init, Resting, NoBody, Idle, Unused, There,
             PurgeIsAtIt, StaleOnlyWhenRaced, ReadsAreFresh, TimedOnlyInTrash
    <2>2. QED BY <2>1, ConstantsAssumption, InitType DEF IInv
  <1>2. IInv /\ [Next]_vars => IInv'
    <2> SUFFICES ASSUME IInv, [Next]_vars PROVE IInv'
      OBVIOUS
    <2>1. TypeOK' /\ TimedOnlyInTrash'
      BY ConstantsAssumption, TypeStep, TrashStep DEF IInv
    <2>2. StaleOnlyWhenRaced' /\ ReadsAreFresh'
      BY ConstantsAssumption, ListsStep DEF IInv, ListsOK
    <2>3. PurgeIsAtIt'
      <3>1. CASE Purge
        BY <3>1 DEF Purge, PurgeList, PurgeDelete, PurgeEnd, Resting, IInv, PurgeIsAtIt, TypeOK
      <3>2. CASE Restart
        BY <3>2 DEF Restart, Resting, PurgeIsAtIt
      <3>3. CASE UNCHANGED purge
        BY <3>3 DEF IInv, PurgeIsAtIt
      <3>4. \A h \in Handlers : Request(h) => UNCHANGED purge
        BY RequestState DEF IInv, Begins
      <3>5. \A h \in Handlers : Serve(h) \/ Answer(h) => UNCHANGED purge
        BY DEF Serve, Answer, Query, Fill, Invalidate, EnsureTrash, Write, CopyFiles,
               CopyFails, DeleteCommit, RemoveCommit, ImportCommit
      <3>6. QED BY <3>1, <3>2, <3>3, <3>4, <3>5
                DEF Next, CreateCollection, Expire, Tick, vars
    <2>4. QED BY <2>1, <2>2, <2>3 DEF IInv
  <1>3. QED BY <1>1, <1>2, PTL DEF Spec

\* The variables have their types, and every drawing is in a collection that is
\* there: the foreign key of schema.prisma keeps it whatever is created, moved,
\* imported and removed at once.
THEOREM TypeCorrect == Spec => []TypeOK
  <1>1. IInv => TypeOK
    BY DEF IInv
  <1>2. QED BY <1>1, Invariant, PTL

\* The cache of drawings.ts holds the list of the rows there are, except while a
\* change is under way or where a read overlapped with it.
THEOREM ListsAreTrue == Spec => []StaleOnlyWhenRaced
  <1>1. IInv => StaleOnlyWhenRaced
    BY DEF IInv
  <1>2. QED BY <1>1, Invariant, PTL

\* Only drawings in the trash have the time for which the purge of index.ts lists them,
\* except those that an import was written over while they were there, and those of a trash
\* that an administrator deleted. What is listed is deleted, wherever it is by then.
THEOREM TimesBelongToTheTrash == Spec => []TimedOnlyInTrash
  <1>1. IInv => TimedOnlyInTrash
    BY DEF IInv
  <1>2. QED BY <1>1, Invariant, PTL

-----------------------------------------------------------------------------
(* The page. *)

\* The variables of the page are what their actions take them for.
PageShaped ==
  /\ page = [view |-> page.view, shown |-> page.shown, stale |-> page.stale,
             latest |-> page.latest, of |-> page.of, missed |-> page.missed, strayed |-> page.strayed, sure |-> page.sure]
  /\ handler = [h \in Handlers |-> handler[h]]
  /\ asked = [h \in Handlers |-> asked[h]]
  /\ \A h \in Handlers :
       asked[h] = Nothing
         \/ asked[h] = [for |-> asked[h].for, view |-> asked[h].view,
                        drawings |-> asked[h].drawings, alone |-> asked[h].alone]

\* The latest refresh is a request under way, for the view that is selected unless
\* it strayed. Without one the list is that view's, or the last refresh failed or
\* strayed.
LatestIsUnderWay ==
  IF page.latest \in Handlers
  THEN /\ handler[page.latest] # Idle
       /\ asked[page.latest] # Nothing /\ asked[page.latest].for = "refresh"
       /\ asked[page.latest].view = page.view \/ page.strayed
  ELSE page.of = page.view \/ page.missed \/ page.strayed

PageInv == PageShaped /\ LatestIsUnderWay

\* Every request that begins is one under way.
LEMMA ListsBegins ==
  ASSUME NEW v
  PROVE  Lists(v) # Idle
  BY DEF Lists, Listed, Failed, Idle

\* A list asked for by Disturbed keeps what it is for.
LEMMA DisturbedKeeps ==
  ASSUME PageShaped, NEW h \in Handlers
  PROVE  /\ asked[h] = Nothing => Disturbed[h] = Nothing
         /\ asked[h] # Nothing =>
              /\ Disturbed[h] = [for |-> asked[h].for, view |-> asked[h].view,
                                 drawings |-> asked[h].drawings, alone |-> FALSE]
              /\ Disturbed[h] # Nothing
  <1>1. Disturbed[h] = IF asked[h] = Nothing THEN Nothing
                       ELSE [asked[h] EXCEPT !.alone = FALSE]
    BY DEF Disturbed
  <1>2. CASE asked[h] = Nothing
    BY <1>1, <1>2
  <1>3. CASE asked[h] # Nothing
    <2>1. PICK f, v, S, b : asked[h] = [for |-> f, view |-> v, drawings |-> S, alone |-> b]
      BY <1>3 DEF PageShaped
    <2>2. Disturbed[h] = [for |-> f, view |-> v, drawings |-> S, alone |-> FALSE]
      <3>1. PICK c : c = FALSE
        OBVIOUS
      <3>2. Disturbed[h] = [asked[h] EXCEPT !.alone = c]
        BY ONLY <1>1, <1>3, <3>1
      <3>3. Disturbed[h] = [for |-> f, view |-> v, drawings |-> S, alone |-> c]
        BY ONLY <2>1, <3>2
      <3>4. QED BY ONLY <3>1, <3>3
    <2>3. Disturbed[h] # Nothing
      BY <2>2 DEF Nothing
    <2>4. QED BY <1>3, <2>1, <2>2, <2>3
  <1>4. QED BY <1>2, <1>3

\* The page goes on with the same latest refresh, which is still under way.
LEMMA PageGoesOn ==
  ASSUME PageInv, PageShaped',
         page'.view = page.view, page'.latest = page.latest, page'.of = page.of,
         page'.missed = page.missed, page'.strayed = page.strayed,
         page.latest \in Handlers =>
           /\ handler'[page.latest] # Idle
           /\ asked'[page.latest] # Nothing
           /\ asked'[page.latest].for = asked[page.latest].for
           /\ asked'[page.latest].view = asked[page.latest].view
  PROVE  PageInv'
  BY DEF PageInv, LatestIsUnderWay

\* A refresh for the view v begins on h, and is the latest.
LEMMA RefreshBegins ==
  ASSUME PageShaped, NEW h \in Handlers, NEW v, NEW w, NEW left,
         \/ page' = Refreshed([page EXCEPT !.view = w], h, v)
         \/ page' = Refreshed([page EXCEPT !.stale = left], h, v) /\ w = page.view,
         handler' = [i \in Handlers |-> handler'[i]],
         asked' = [i \in Handlers |-> asked'[i]],
         handler'[h] = Lists(v),
         asked'[h] # Nothing, asked'[h].for = "refresh", asked'[h].view = v,
         \A i \in Handlers :
           asked'[i] = Nothing
             \/ asked'[i] = [for |-> asked'[i].for, view |-> asked'[i].view,
                             drawings |-> asked'[i].drawings, alone |-> asked'[i].alone]
  PROVE  PageInv'
  <1>1. PICK kept :
          page' = [view |-> w, shown |-> page.shown, stale |-> kept, latest |-> h,
                   of |-> page.of, missed |-> FALSE, strayed |-> v # w, sure |-> FALSE]
    <2>1. CASE page' = Refreshed([page EXCEPT !.view = w], h, v)
      BY <2>1 DEF PageShaped, Refreshed
    <2>2. CASE page' = Refreshed([page EXCEPT !.stale = left], h, v) /\ w = page.view
      BY <2>2 DEF PageShaped, Refreshed
    <2>3. QED BY <2>1, <2>2
  <1>2. PageShaped'
    BY <1>1 DEF PageShaped
  <1>3. LatestIsUnderWay'
    <2>1. page'.latest = h /\ page'.view = w /\ page'.strayed = (v # w)
      BY <1>1
    <2>2. handler'[h] # Idle
      BY ListsBegins
    <2>3. QED BY <2>1, <2>2 DEF LatestIsUnderWay
  <1>4. QED BY <1>2, <1>3 DEF PageInv

-----------------------------------------------------------------------------
(* The steps of the page. *)

\* A list changes on the page and the requests do as PageGoesOn wants.
LEMMA ShowsGoesOn ==
  ASSUME PageInv, NEW rows, NEW left, NEW sure, Shows(rows, left, sure),
         handler' = [i \in Handlers |-> handler'[i]],
         asked' = [i \in Handlers |-> asked'[i]],
         \A i \in Handlers :
           asked'[i] = Nothing
             \/ asked'[i] = [for |-> asked'[i].for, view |-> asked'[i].view,
                             drawings |-> asked'[i].drawings, alone |-> asked'[i].alone],
         page.latest \in Handlers =>
           /\ handler'[page.latest] # Idle
           /\ asked'[page.latest] # Nothing
           /\ asked'[page.latest].for = asked[page.latest].for
           /\ asked'[page.latest].view = asked[page.latest].view
  PROVE  PageInv'
  <1>1. page' = [view |-> page.view, shown |-> rows, stale |-> left, latest |-> page.latest,
                 of |-> page.of, missed |-> page.missed, strayed |-> page.strayed, sure |-> page.sure /\ sure]
    BY DEF Shows, PageInv, PageShaped
  <1>2. PageShaped'
    BY <1>1 DEF PageShaped
  <1>3. QED BY <1>1, <1>2, PageGoesOn

\* What is asked of the requests H is new, and they were idle.
LEMMA AsksKeeps ==
  ASSUME PageInv, NEW H, NEW for, NEW v, NEW S, Asks(H, for, v, S),
         \A h \in H \cap Handlers : handler[h] = Idle
  PROVE  /\ asked' = [i \in Handlers |-> asked'[i]]
         /\ \A i \in Handlers :
              asked'[i] = Nothing
                \/ asked'[i] = [for |-> asked'[i].for, view |-> asked'[i].view,
                                drawings |-> asked'[i].drawings, alone |-> asked'[i].alone]
         /\ \A i \in H \cap Handlers :
              asked'[i] # Nothing /\ asked'[i].for = for /\ asked'[i].view = v
         /\ page.latest \in Handlers =>
              /\ page.latest \notin H
              /\ asked'[page.latest] # Nothing
              /\ asked'[page.latest].for = asked[page.latest].for
              /\ asked'[page.latest].view = asked[page.latest].view
  <1>1. \A i \in Handlers : asked'[i] =
          IF i \in H THEN [for |-> for, view |-> v, drawings |-> S, alone |-> Quiet]
          ELSE Disturbed[i]
    BY DEF Asks
  <1>2. asked' = [i \in Handlers |-> asked'[i]]
    BY DEF Asks
  <1>3. ASSUME NEW i \in Handlers, i \in H
        PROVE  /\ asked'[i] # Nothing /\ asked'[i].for = for /\ asked'[i].view = v
               /\ asked'[i] = [for |-> asked'[i].for, view |-> asked'[i].view,
                               drawings |-> asked'[i].drawings, alone |-> asked'[i].alone]
    BY <1>1, <1>3 DEF Nothing
  <1>4. ASSUME NEW i \in Handlers, i \notin H
        PROVE  /\ asked[i] # Nothing =>
                    /\ asked'[i] # Nothing
                    /\ asked'[i].for = asked[i].for /\ asked'[i].view = asked[i].view
               /\ \/ asked'[i] = Nothing
                  \/ asked'[i] = [for |-> asked'[i].for, view |-> asked'[i].view,
                                  drawings |-> asked'[i].drawings, alone |-> asked'[i].alone]
    <2>1. asked'[i] = Disturbed[i]
      BY <1>1, <1>4
    <2>2. PageShaped
      BY DEF PageInv
    <2>3. CASE asked[i] = Nothing
      BY <2>1, <2>2, <2>3, DisturbedKeeps
    <2>4. CASE asked[i] # Nothing
      <3>1. Disturbed[i] = [for |-> asked[i].for, view |-> asked[i].view,
                            drawings |-> asked[i].drawings, alone |-> FALSE]
              /\ Disturbed[i] # Nothing
        BY <2>2, <2>4, DisturbedKeeps
      <3>2. QED BY <2>1, <3>1
    <2>5. QED BY <2>3, <2>4
  <1>5. page.latest \in Handlers => page.latest \notin H /\ asked[page.latest] # Nothing
    BY DEF PageInv, LatestIsUnderWay
  <1>6. QED BY <1>2, <1>3, <1>4, <1>5

\* A batch of requests begins.
LEMMA SendsStep ==
  ASSUME PageInv, NEW S, NEW at, NEW for, NEW begun, Sends(S, at, for, begun),
         NEW rows, NEW left, NEW sure, Shows(rows, left, sure)
  PROVE  PageInv'
  <1> DEFINE H == {at[d] : d \in S}
             of(h) == CHOOSE d \in S : at[d] = h
             T == IF for = "delete" \/ Several(S) THEN S ELSE {}
  <1>1. /\ \A h \in H : handler[h] = Idle
        /\ handler' = [h \in Handlers |-> IF h \in H THEN begun[of(h)] ELSE handler[h]]
        /\ Asks(H, for, page.view, T)
    BY DEF Sends
  <1> HIDE DEF H, of, T
  <1>2. \A h \in H \cap Handlers : handler[h] = Idle
    BY <1>1
  <1>3. /\ handler' = [h \in Handlers |-> handler'[h]]
        /\ page.latest \in Handlers /\ page.latest \notin H =>
             handler'[page.latest] = handler[page.latest]
    BY <1>1
  <1>4. page.latest \in Handlers => handler[page.latest] # Idle
    BY DEF PageInv, LatestIsUnderWay
  <1>5. PICK v : v = page.view
    OBVIOUS
  <1>6. Asks(H, for, v, T)
    BY <1>1, <1>5
  <1>7. QED BY ONLY <1>2, <1>3, <1>4, <1>6, AsksKeeps, ShowsGoesOn, PageInv,
               Shows(rows, left, sure)

LEMMA BatchStep ==
  ASSUME PageInv, Batch
  PROVE  PageInv'
  <1>1. PICK S \in SUBSET Drawings : \E at \in [S -> {h \in Handlers : handler[h] = Idle}] :
          \/ MoveToTrash(S, at) \/ DeleteForever(S, at) \/ handleImportDrawings(S, at)
          \/ \E p \in Places : MoveToCollection(S, at, p) \/ handleDrop(S, at, p)
          \/ \E copied \in [S -> Drawings] : DuplicateDrawings(S, at, copied)
    BY DEF Batch
  <1>2. PICK at : \/ MoveToTrash(S, at) \/ DeleteForever(S, at) \/ handleImportDrawings(S, at)
                  \/ \E p, left : MoveCards(S, at, p, left) \/ Upload(S, at, p)
                  \/ \E copied : DuplicateDrawings(S, at, copied)
    BY <1>1 DEF handleDrop, MoveToCollection, DropCards
  <1>3. CASE MoveToTrash(S, at)
    BY <1>3, SendsStep DEF MoveToTrash
  <1>4. CASE DeleteForever(S, at)
    BY <1>4, SendsStep DEF DeleteForever, Stays
  <1>5. ASSUME NEW p, Upload(S, at, p)
        PROVE  PageInv'
    BY <1>5, SendsStep DEF Upload, Stays
  <1>6. CASE handleImportDrawings(S, at)
    BY <1>5, <1>6 DEF handleImportDrawings
  <1>7. ASSUME NEW p, NEW left, MoveCards(S, at, p, left)
        PROVE  PageInv'
    BY <1>7, SendsStep DEF MoveCards
  <1>8. ASSUME NEW copied, DuplicateDrawings(S, at, copied)
        PROVE  PageInv'
    BY <1>8, SendsStep DEF DuplicateDrawings, Stays
  <1>9. QED BY <1>2, <1>3, <1>4, <1>5, <1>6, <1>7, <1>8

\* One request that was idle begins for something else than a refresh.
LEMMA OneBegins ==
  ASSUME PageInv, NEW h \in Handlers, NEW state, Begins(h, state),
         NEW for, NEW v, NEW S, Asks({h}, for, v, S)
  PROVE  /\ handler' = [i \in Handlers |-> IF i = h THEN state ELSE handler[i]]
         /\ asked' = [i \in Handlers |-> asked'[i]]
         /\ \A i \in Handlers :
              asked'[i] = Nothing
                \/ asked'[i] = [for |-> asked'[i].for, view |-> asked'[i].view,
                                drawings |-> asked'[i].drawings, alone |-> asked'[i].alone]
         /\ asked'[h] # Nothing /\ asked'[h].for = for /\ asked'[h].view = v
         /\ page.latest \in Handlers =>
              /\ handler'[page.latest] # Idle
              /\ asked'[page.latest] # Nothing
              /\ asked'[page.latest].for = asked[page.latest].for
              /\ asked'[page.latest].view = asked[page.latest].view
  <1>1. handler' = [i \in Handlers |-> IF i = h THEN state ELSE handler[i]]
    BY DEF PageInv, PageShaped, Begins
  <1>2. handler[h] = Idle
    BY DEF Begins
  <1>3. \A i \in {h} \cap Handlers : handler[i] = Idle
    BY <1>2
  <1>4. page.latest \in Handlers => handler[page.latest] # Idle
    BY DEF PageInv, LatestIsUnderWay
  <1>5. PICK H : H = {h}
    OBVIOUS
  <1>6. Asks(H, for, v, S) /\ \A i \in H \cap Handlers : handler[i] = Idle
    BY <1>3, <1>5
  <1>7. QED BY ONLY <1>1, <1>4, <1>5, <1>6, AsksKeeps, PageInv, h \in Handlers

LEMMA ActStep ==
  ASSUME PageInv, NEW h \in Handlers, Act(h)
  PROVE  PageInv'
  <1>1. ASSUME NEW v \in Views, Select(h, v)
        PROVE  PageInv'
    <2>1. /\ Begins(h, Lists(v)) /\ Asks({h}, "refresh", v, {})
          /\ page' = Refreshed([page EXCEPT !.view = v], h, v)
      BY <1>1 DEF Select, List
    <2>2. /\ handler' = [i \in Handlers |-> IF i = h THEN Lists(v) ELSE handler[i]]
          /\ asked' = [i \in Handlers |-> asked'[i]]
          /\ \A i \in Handlers :
               asked'[i] = Nothing
                 \/ asked'[i] = [for |-> asked'[i].for, view |-> asked'[i].view,
                                 drawings |-> asked'[i].drawings, alone |-> asked'[i].alone]
          /\ asked'[h] # Nothing /\ asked'[h].for = "refresh" /\ asked'[h].view = v
      BY <2>1, OneBegins
    <2>3. /\ handler' = [i \in Handlers |-> handler'[i]] /\ handler'[h] = Lists(v)
          /\ PageShaped
      BY <2>2 DEF PageInv
    <2>4. QED BY ONLY <2>1, <2>2, <2>3, RefreshBegins, h \in Handlers
  <1>2. ASSUME NEW k \in Collections, RemoveCollection(h, k)
        PROVE  PageInv'
    <2>1. /\ Begins(h, [pc |-> "remove", collection |-> k])
          /\ Stays(Quiet) /\ Asks({h}, "remove", page.view, {})
      BY <1>2 DEF RemoveCollection, DeleteCollection
    <2>2. PICK state, v, rows, left, sure :
            Begins(h, state) /\ Shows(rows, left, sure) /\ Asks({h}, "remove", v, {})
      BY <2>1 DEF Stays
    <2>3. QED BY ONLY <2>2, OneBegins, ShowsGoesOn, PageInv, h \in Handlers
  <1>3. ASSUME NEW i \in Handlers, NEW k \in Collections, RemoveSelected(h, i, k)
        PROVE  PageInv'
    <2> DEFINE r == [for |-> "refresh", view |-> All, drawings |-> {}, alone |-> FALSE]
               o == [for |-> "remove", view |-> k, drawings |-> {}, alone |-> FALSE]
               state == [pc |-> "remove", collection |-> k]
    <2>1. /\ h # i /\ page' = Refreshed([page EXCEPT !.view = All], h, All)
          /\ handler' = [handler EXCEPT ![h] = Lists(All), ![i] = state]
          /\ asked' = [Disturbed EXCEPT ![h] = r, ![i] = o]
      BY <1>3 DEF RemoveSelected
    <2>2. /\ r # Nothing /\ r.for = "refresh" /\ r.view = All
          /\ r = [for |-> r.for, view |-> r.view, drawings |-> r.drawings, alone |-> r.alone]
          /\ o = [for |-> o.for, view |-> o.view, drawings |-> o.drawings, alone |-> o.alone]
      BY DEF Nothing
    <2> HIDE DEF r, o, state
    <2>3. /\ handler' = [j \in Handlers |-> handler'[j]] /\ handler'[h] = Lists(All)
          /\ asked' = [j \in Handlers |-> asked'[j]] /\ asked'[h] = r /\ asked'[i] = o
          /\ \A j \in Handlers \ {h, i} : asked'[j] = Disturbed[j]
      BY <2>1 DEF PageInv, PageShaped, Disturbed
    <2>4. ASSUME NEW j \in Handlers
          PROVE  \/ asked'[j] = Nothing
                 \/ asked'[j] = [for |-> asked'[j].for, view |-> asked'[j].view,
                                 drawings |-> asked'[j].drawings, alone |-> asked'[j].alone]
      BY <2>2, <2>3, DisturbedKeeps DEF PageInv
    <2>5. QED BY <2>1, <2>2, <2>3, <2>4, RefreshBegins DEF PageInv
  <1>4. QED BY <1>1, <1>2, <1>3 DEF Act

LEMMA ElsewhereStep ==
  ASSUME PageInv, NEW h \in Handlers, Elsewhere(h)
  PROVE  PageInv'
  <1>1. PICK state : Begins(h, state)
    BY DEF Elsewhere, Delete, Move
  <1>2. /\ handler' = [i \in Handlers |-> IF i = h THEN state ELSE handler[i]]
        /\ handler[h] = Idle
    BY <1>1 DEF Begins, PageInv, PageShaped
  <1>3. Stays(FALSE) /\ asked' = [Disturbed EXCEPT ![h] = Unawaited]
    BY DEF Elsewhere
  <1>4. /\ Unawaited = [for |-> Unawaited.for, view |-> Unawaited.view,
                        drawings |-> Unawaited.drawings, alone |-> Unawaited.alone]
        /\ Disturbed = [i \in Handlers |-> Disturbed[i]]
    BY DEF Unawaited, Disturbed
  <1>5. asked' = [i \in Handlers |-> IF i = h THEN Unawaited ELSE Disturbed[i]]
    BY <1>3, <1>4
  <1>6. page.latest \in Handlers => page.latest # h /\ handler[page.latest] # Idle
                                     /\ asked[page.latest] # Nothing
    BY <1>2 DEF PageInv, LatestIsUnderWay
  <1>7. ASSUME NEW i \in Handlers, i # h, asked[i] # Nothing
        PROVE  /\ asked'[i] # Nothing
               /\ asked'[i].for = asked[i].for /\ asked'[i].view = asked[i].view
    <2>1. /\ asked'[i] = [for |-> asked[i].for, view |-> asked[i].view,
                          drawings |-> asked[i].drawings, alone |-> FALSE]
          /\ asked'[i] # Nothing
      BY <1>5, <1>7, DisturbedKeeps DEF PageInv
    <2>2. QED BY <2>1
  <1>8. ASSUME NEW i \in Handlers
        PROVE  \/ asked'[i] = Nothing
               \/ asked'[i] = [for |-> asked'[i].for, view |-> asked'[i].view,
                               drawings |-> asked'[i].drawings, alone |-> asked'[i].alone]
    <2>1. CASE i = h
      BY <1>4, <1>5, <2>1
    <2>2. CASE i # h /\ asked[i] = Nothing
      BY <1>5, <2>2, DisturbedKeeps DEF PageInv
    <2>3. CASE i # h /\ asked[i] # Nothing
      <3>1. asked'[i] = [for |-> asked[i].for, view |-> asked[i].view,
                         drawings |-> asked[i].drawings, alone |-> FALSE]
        BY <1>5, <2>3, DisturbedKeeps DEF PageInv
      <3>2. QED BY <3>1
    <2>4. QED BY <2>1, <2>2, <2>3
  <1>9. PICK rows, left, sure : Shows(rows, left, sure)
    BY <1>3 DEF Stays
  <1>10. /\ handler' = [i \in Handlers |-> handler'[i]] /\ asked' = [i \in Handlers |-> asked'[i]]
         /\ page.latest \in Handlers => handler'[page.latest] # Idle
    BY <1>2, <1>5, <1>6
  <1>11. QED BY ONLY <1>6, <1>7, <1>8, <1>9, <1>10, ShowsGoesOn, PageInv

\* Of a batch whose request fails only requests for the same are given up.
LEMMA AbandonedKeeps ==
  ASSUME PageInv, NEW h \in Handlers, asked[h].for # "refresh"
  PROVE  /\ Abandoned(h) = [i \in Handlers |-> Abandoned(h)[i]]
         /\ \A i \in Handlers :
              Abandoned(h)[i] = Nothing
                \/ Abandoned(h)[i] = [for |-> Abandoned(h)[i].for, view |-> Abandoned(h)[i].view,
                                      drawings |-> Abandoned(h)[i].drawings,
                                      alone |-> Abandoned(h)[i].alone]
         /\ page.latest \in Handlers =>
              page.latest # h /\ Abandoned(h)[page.latest] = asked[page.latest]
         /\ Abandoned(h)[h] = asked[h]
  <1>1. /\ Abandoned(h) = [i \in Handlers |-> Abandoned(h)[i]]
        /\ \A i \in Handlers : Abandoned(h)[i] = IF i \in Rest(h) THEN Unawaited ELSE asked[i]
    BY DEF Abandoned
  <1>2. h \notin Rest(h) /\ \A i \in Rest(h) : asked[i].for = asked[h].for
    BY DEF Rest
  <1>3. Unawaited = [for |-> Unawaited.for, view |-> Unawaited.view,
                     drawings |-> Unawaited.drawings, alone |-> Unawaited.alone]
    BY DEF Unawaited
  <1>4. page.latest \in Handlers => asked[page.latest].for = "refresh"
    BY DEF PageInv, LatestIsUnderWay
  <1>5. ASSUME NEW i \in Handlers
        PROVE  \/ Abandoned(h)[i] = Nothing
               \/ Abandoned(h)[i] = [for |-> Abandoned(h)[i].for, view |-> Abandoned(h)[i].view,
                                     drawings |-> Abandoned(h)[i].drawings,
                                     alone |-> Abandoned(h)[i].alone]
    <2>1. CASE i \in Rest(h)
      BY <1>1, <1>3, <2>1
    <2>2. CASE i \notin Rest(h)
      BY <1>1, <2>2 DEF PageInv, PageShaped
    <2>3. QED BY <2>1, <2>2
  <1>6. QED BY <1>1, <1>2, <1>4, <1>5

LEMMA ShowStep ==
  ASSUME PageInv, NEW h \in Handlers, Show(h)
  PROVE  PageInv'
  <1>1. /\ asked[h].for = "refresh" /\ asked[h] # Nothing
        /\ handler' = [handler EXCEPT ![h] = Idle] /\ asked' = [asked EXCEPT ![h] = Nothing]
    BY DEF Show, Took, Ends, Answer, Becomes
  <1>2. /\ handler' = [i \in Handlers |-> handler'[i]] /\ asked' = [i \in Handlers |-> asked'[i]]
        /\ asked'[h] = Nothing
        /\ \A i \in Handlers \ {h} : handler'[i] = handler[i] /\ asked'[i] = asked[i]
    BY <1>1 DEF PageInv, PageShaped
  <1>3. ASSUME NEW i \in Handlers
        PROVE  \/ asked'[i] = Nothing
               \/ asked'[i] = [for |-> asked'[i].for, view |-> asked'[i].view,
                               drawings |-> asked'[i].drawings, alone |-> asked'[i].alone]
    BY <1>2 DEF PageInv, PageShaped
  <1>4. CASE page.latest # h
    <2>1. page' = page
      BY <1>4 DEF Show
    <2>2. PageShaped'
      BY <1>2, <1>3, <2>1 DEF PageInv, PageShaped
    <2>3. LatestIsUnderWay'
      BY <1>2, <1>4, <2>1 DEF PageInv, LatestIsUnderWay
    <2>4. QED BY <2>2, <2>3 DEF PageInv
  <1>5. CASE page.latest = h
    <2>1. asked[h].view = page.view \/ page.strayed
      BY <1>5 DEF PageInv, LatestIsUnderWay
    <2>2. CASE handler[h].pc = "listed"
      <3>1. PICK rows, sure :
              page' = [page EXCEPT !.latest = None, !.of = asked[h].view,
                                   !.shown = rows, !.stale = {}, !.sure = sure]
        BY <1>5, <2>2 DEF Show
      <3>2. page' = [view |-> page.view, shown |-> rows, stale |-> {}, latest |-> None,
                     of |-> asked[h].view, missed |-> page.missed,
                     strayed |-> page.strayed, sure |-> sure]
        BY <3>1 DEF PageInv, PageShaped
      <3>3. PageShaped'
        BY <1>2, <1>3, <3>2 DEF PageShaped
      <3>4. QED BY <2>1, <3>2, <3>3, DashAssumption DEF PageInv, LatestIsUnderWay
    <2>3. CASE handler[h].pc # "listed"
      <3>1. page' = [page EXCEPT !.latest = None, !.missed = TRUE]
        BY <1>5, <2>3 DEF Show
      <3>2. page' = [view |-> page.view, shown |-> page.shown, stale |-> page.stale,
                     latest |-> None, of |-> page.of, missed |-> TRUE,
                     strayed |-> page.strayed, sure |-> page.sure]
        BY <3>1 DEF PageInv, PageShaped
      <3>3. PageShaped'
        BY <1>2, <1>3, <3>2 DEF PageShaped
      <3>4. QED BY <3>2, <3>3, DashAssumption DEF PageInv, LatestIsUnderWay
    <2>4. QED BY <2>2, <2>3
  <1>6. QED BY <1>4, <1>5

LEMMA FollowUpStep ==
  ASSUME PageInv, NEW h \in Handlers, FollowUp(h)
  PROVE  PageInv'
  <1>1. asked[h] # Nothing /\ asked[h].for # "refresh" /\ Again(h)
    BY DEF FollowUp, Took
  <1>2. PICK v : v = asked[h].view
    OBVIOUS
  <1>3. Abandoned(h) = [i \in Handlers |-> Abandoned(h)[i]]
    BY <1>1, AbandonedKeeps
  <1>4. PICK c : c = (asked[h].alone /\ Rest(h) = {})
    OBVIOUS
  <1>5. PICK q : q = [for |-> "refresh", view |-> v, drawings |-> {}, alone |-> c]
    OBVIOUS
  <1>6. asked' = [Abandoned(h) EXCEPT ![h] = q]
    BY <1>1, <1>2, <1>4, <1>5 DEF Again
  <1>7. /\ asked' = [i \in Handlers |-> asked'[i]]
        /\ \A i \in Handlers \ {h} : asked'[i] = Abandoned(h)[i]
        /\ asked'[h] = q
    BY <1>3, <1>6
  <1>8. ASSUME NEW i \in Handlers
        PROVE  \/ asked'[i] = Nothing
               \/ asked'[i] = [for |-> asked'[i].for, view |-> asked'[i].view,
                               drawings |-> asked'[i].drawings, alone |-> asked'[i].alone]
    <2>1. CASE i = h
      BY <1>5, <1>7, <2>1
    <2>2. CASE i # h
      BY <1>1, <1>7, <2>2, AbandonedKeeps
    <2>3. QED BY <2>1, <2>2
  <1>9. /\ handler' = [handler EXCEPT ![h] = Lists(v)] /\ page' = Refreshed([page EXCEPT !.stale = LeftBy(h)], h, v)
    BY <1>1, <1>2 DEF Again
  <1>10. /\ handler' = [i \in Handlers |-> handler'[i]] /\ handler'[h] = Lists(v)
         /\ asked'[h] # Nothing /\ asked'[h].for = "refresh" /\ asked'[h].view = v
    <2>1. handler' = [i \in Handlers |-> handler'[i]] /\ handler'[h] = Lists(v)
      BY <1>9 DEF PageInv, PageShaped
    <2>2. q # Nothing /\ q.for = "refresh" /\ q.view = v
      BY <1>5 DEF Nothing
    <2>3. QED BY <1>7, <2>1, <2>2
  <1>11. PICK w, left : w = page.view /\ left = LeftBy(h)
    OBVIOUS
  <1>12. /\ page' = Refreshed([page EXCEPT !.stale = left], h, v) /\ w = page.view
         /\ PageShaped
    BY <1>9, <1>11 DEF PageInv
  <1>13. QED BY ONLY <1>7, <1>8, <1>10, <1>12, RefreshBegins, h \in Handlers

LEMMA SettleStep ==
  ASSUME PageInv, NEW h \in Handlers, Settle(h)
  PROVE  PageInv'
  <1>1. asked[h] # Nothing /\ asked[h].for # "refresh"
    BY DEF Settle, Took
  <1>2. PICK a : /\ a = asked \/ a = Abandoned(h)
                 /\ asked' = [a EXCEPT ![h] = Nothing]
    BY DEF Settle
  <1>3. /\ a = [i \in Handlers |-> a[i]]
        /\ \A i \in Handlers :
             a[i] = Nothing
               \/ a[i] = [for |-> a[i].for, view |-> a[i].view,
                          drawings |-> a[i].drawings, alone |-> a[i].alone]
        /\ page.latest \in Handlers => page.latest # h /\ a[page.latest] = asked[page.latest]
    <2>1. CASE a = asked
      BY <1>1, <2>1 DEF PageInv, PageShaped, LatestIsUnderWay
    <2>2. CASE a = Abandoned(h)
      BY <1>1, <2>2, AbandonedKeeps
    <2>3. QED BY <1>2, <2>1, <2>2
  <1>4. /\ asked' = [i \in Handlers |-> asked'[i]] /\ asked'[h] = Nothing
        /\ \A i \in Handlers \ {h} : asked'[i] = a[i]
    BY <1>2, <1>3
  <1>5. handler' = [i \in Handlers |-> IF i = h THEN Idle ELSE handler[i]]
    BY DEF Settle, Answer, Becomes, PageInv, PageShaped
  <1>6. PICK rows, left, sure : Shows(rows, left, sure)
    BY DEF Settle
  <1>7. page.latest \in Handlers => handler[page.latest] # Idle /\ asked[page.latest] # Nothing
    BY DEF PageInv, LatestIsUnderWay
  <1>8. ASSUME NEW i \in Handlers
        PROVE  \/ asked'[i] = Nothing
               \/ asked'[i] = [for |-> asked'[i].for, view |-> asked'[i].view,
                               drawings |-> asked'[i].drawings, alone |-> asked'[i].alone]
    BY <1>3, <1>4
  <1>9. /\ handler' = [i \in Handlers |-> handler'[i]]
        /\ page.latest \in Handlers =>
             /\ handler'[page.latest] # Idle /\ asked'[page.latest] # Nothing
             /\ asked'[page.latest].for = asked[page.latest].for
             /\ asked'[page.latest].view = asked[page.latest].view
    BY <1>3, <1>4, <1>5, <1>7
  <1>10. QED BY ONLY <1>4, <1>6, <1>8, <1>9, ShowsGoesOn, PageInv

\* A request that is served is not over, and the others are where they were, but
\* for the mark of those whose list is overtaken.
LEMMA ServeKeeps ==
  ASSUME PageShaped, NEW h \in Handlers, Serve(h)
  PROVE  /\ handler' = [i \in Handlers |-> handler'[i]]
         /\ \A i \in Handlers : handler[i] # Idle => handler'[i] # Idle
  <1>1. handler = [i \in Handlers |-> handler[i]]
    BY DEF PageShaped
  <1>2. /\ Raced = [i \in Handlers |-> Raced[i]]
        /\ \A i \in Handlers : handler[i] # Idle => Raced[i] # Idle
    <2>1. ASSUME NEW i \in Handlers, handler[i] # Idle
          PROVE  Raced[i] # Idle
      <3>1. CASE handler[i].pc = "fill"
        <4>1. Raced[i] = [handler[i] EXCEPT !.raced = TRUE]
          BY <3>1 DEF Raced
        <4>2. QED BY <3>1, <4>1 DEF Idle
      <3>2. CASE handler[i].pc # "fill"
        BY <2>1, <3>2 DEF Raced, Idle
      <3>3. QED BY <3>1, <3>2
    <2>2. QED BY <2>1 DEF Raced
  <1>3. ASSUME NEW state, state # Idle, Becomes(h, state)
        PROVE  /\ handler' = [i \in Handlers |-> handler'[i]]
               /\ \A i \in Handlers : handler[i] # Idle => handler'[i] # Idle
    <2>1. handler' = [i \in Handlers |-> IF i = h THEN state ELSE handler[i]]
      BY <1>1, <1>3 DEF Becomes
    <2>2. QED BY <1>3, <2>1
  <1>4. /\ Done # Idle /\ Failed # Idle
        /\ [pc |-> "invalidate"] # Idle /\ [pc |-> "files"] # Idle
    BY DEF Done, Failed, Idle
  <1>5. CASE Query(h)
    <2>1. PICK state : Becomes(h, state) /\ state # Idle
      BY <1>5 DEF Query, Idle
    <2>2. QED BY <1>3, <2>1
  <1>6. CASE Fill(h)
    <2>1. PICK state : Becomes(h, state) /\ state # Idle
      BY <1>6 DEF Fill, Listed, Idle
    <2>2. QED BY <1>3, <2>1
  <1>7. CASE Invalidate(h)
    BY <1>2, <1>4, <1>7 DEF Invalidate
  <1>8. CASE EnsureTrash(h)
    <2>1. CASE handler[h].pc = "ensure"
      <3>1. [handler[h] EXCEPT !.pc = "write"] # Idle
        <4>1. PICK x : x = handler[h]
          OBVIOUS
        <4>2. [x EXCEPT !.pc = "write"] # Idle
          BY DEF Idle
        <4>3. QED BY <4>1, <4>2
      <3>2. PICK state : Becomes(h, state) /\ state # Idle
        BY <1>4, <1>8, <2>1, <3>1 DEF EnsureTrash
      <3>3. QED BY <1>3, <3>2
    <2>2. CASE handler[h].pc = "trash"
      <3>1. PICK state : Becomes(h, state) /\ state # Idle
        BY <1>4, <1>8, <2>2 DEF EnsureTrash
      <3>2. QED BY <1>3, <3>1
    <2>3. QED BY <1>8, <2>1, <2>2 DEF EnsureTrash
  <1>9. CASE Write(h)
    <2>1. PICK state : Becomes(h, state) /\ state # Idle
      BY <1>4, <1>9 DEF Write
    <2>2. QED BY <1>3, <2>1
  <1>10. CASE CopyFiles(h)
    BY <1>3, <1>4, <1>10 DEF CopyFiles
  <1>11. CASE CopyFails(h)
    BY <1>2, <1>4, <1>11 DEF CopyFails
  <1>12. CASE DeleteCommit(h)
    <2>1. PICK state : Becomes(h, state) /\ state # Idle
      BY <1>4, <1>12 DEF DeleteCommit
    <2>2. QED BY <1>3, <2>1
  <1>13. CASE RemoveCommit(h)
    BY <1>3, <1>4, <1>13 DEF RemoveCommit
  <1>14. CASE ImportCommit(h)
    <2>1. PICK state : Becomes(h, state) /\ state # Idle
      BY <1>4, <1>14 DEF ImportCommit
    <2>2. QED BY <1>3, <2>1
  <1>15. QED BY <1>5, <1>6, <1>7, <1>8, <1>9, <1>10, <1>11, <1>12, <1>13, <1>14 DEF Serve

LEMMA PageInvariant == DashSpec => []PageInv
  <1>1. DashInit => PageInv
    <2> SUFFICES ASSUME DashInit PROVE PageInv
      OBVIOUS
    <2>1. PageShaped
      BY DEF DashInit, Init, PageShaped
    <2>2. LatestIsUnderWay
      BY DashAssumption DEF DashInit, LatestIsUnderWay
    <2>3. QED BY <2>1, <2>2 DEF PageInv
  <1>2. PageInv /\ [DashNext]_dashVars => PageInv'
    <2> SUFFICES ASSUME PageInv, [DashNext]_dashVars PROVE PageInv'
      OBVIOUS
    <2>1. CASE Batch
      BY <2>1, BatchStep
    <2>2. ASSUME NEW h \in Handlers,
                 Act(h) \/ Show(h) \/ FollowUp(h) \/ Settle(h) \/ Elsewhere(h)
          PROVE  PageInv'
      BY <2>2, ActStep, ShowStep, FollowUpStep, SettleStep, ElsewhereStep
    <2>3. ASSUME NEW h \in Handlers, Serve(h), UNCHANGED <<page, asked>>
          PROVE  PageInv'
      <3>1. /\ handler' = [i \in Handlers |-> handler'[i]]
            /\ \A i \in Handlers : handler[i] # Idle => handler'[i] # Idle
        BY <2>3, ServeKeeps DEF PageInv
      <3>2. PageShaped'
        BY <2>3, <3>1 DEF PageInv, PageShaped
      <3>3. QED BY <2>3, <3>1, <3>2, PageGoesOn DEF PageInv, LatestIsUnderWay
    <2>4. CASE UNCHANGED <<handler, page, asked>>
      BY <2>4 DEF PageInv, PageShaped, LatestIsUnderWay
    <2>5. QED BY <2>1, <2>2, <2>3, <2>4 DEF DashNext, Expire, dashVars, vars
  <1>3. QED BY <1>1, <1>2, PTL DEF DashSpec

\* However the answers to the refreshes of useDashboardData.ts come in, the page
\* shows a list of the view that is selected, or its refresh is under way, failed,
\* or followed an operation that began in another view.
THEOREM ListsFollowTheView == DashSpec => []ShowsTheSelectedView
  <1>1. PageInv => ShowsTheSelectedView
    BY DashAssumption DEF PageInv, LatestIsUnderWay, ShowsTheSelectedView
  <1>2. QED BY <1>1, PageInvariant, PTL

-----------------------------------------------------------------------------
(* What the page shows when it is alone. *)

\* What a request can be at that the page wants something of.
IsOneOf(want, s) ==
  /\ want.for = "move" => \/ s.pc \in {"ensure", "write"} /\ s.write = "move"
                          \/ s.pc \in {"invalidate", "done", "failed"}
  /\ want.for = "delete" => s.pc \in {"delete", "invalidate", "done", "failed"}
  /\ want.for = "refresh" =>
       \/ s.pc \in {"query", "fill"} /\ s.view = want.view
       \/ s.pc \in {"listed", "failed"}

\* What is wanted of the request, and whether there is one.
RequestOK(want, s) == (want = Nothing <=> s = Idle) /\ IsOneOf(want, s)

RequestsOK == \A h \in Handlers : RequestOK(asked[h], handler[h])

\* The types of the page over those of the server, without the purge.
ServerOK == TypeOK /\ ListsOK /\ purge = Resting
PageOK == page \in Page /\ asked \in [Handlers -> Asked]
PartsOK == ServerOK /\ PageOK /\ RequestsOK

\* A request that is only sent or answered leaves the server's lists as right as they were.
LEMMA ServerStays ==
  ASSUME ConstantsAssumption, ServerOK, handler' \in [Handlers -> HandlerState],
         UNCHANGED <<drawing, collection, cache, purge>>,
         \A h \in Handlers : handler'[h] # handler[h] =>
           /\ handler[h].pc \notin {"files", "invalidate"}
           /\ handler'[h].pc \notin {"fill", "files", "invalidate"}
  PROVE  ServerOK'
  <1>1. TypeOK'
    BY RowsStay DEF ServerOK, TypeOK, Collected, Jobs, Exists, There
  <1>2. \A v \in Views : Listing(v)' = Listing(v)
    BY ListingStays
  <1>3. Unannounced => Unannounced'
    BY DEF Unannounced
  <1>4. \A h \in Handlers : handler'[h].pc = "fill" => handler'[h] = handler[h]
    OBVIOUS
  <1>5. ListsOK'
    BY <1>2, <1>3, <1>4, QuietLists DEF ServerOK
  <1>6. QED BY <1>1, <1>5 DEF ServerOK, Resting

\* The requests stay as they are, begin, or end.
LEMMA RequestsGoOn ==
  ASSUME RequestsOK,
         \A h \in Handlers :
           \/ /\ handler'[h] = handler[h] /\ (asked'[h] = Nothing <=> asked[h] = Nothing)
              /\ \/ asked'[h].for = "other"
                 \/ asked'[h].for = asked[h].for /\ asked'[h].view = asked[h].view
           \/ RequestOK(asked'[h], handler'[h])
  PROVE  RequestsOK'
  <1>1. ASSUME NEW h \in Handlers, handler'[h] = handler[h],
               asked'[h] = Nothing <=> asked[h] = Nothing,
               \/ asked'[h].for = "other"
               \/ asked'[h].for = asked[h].for /\ asked'[h].view = asked[h].view
        PROVE  RequestOK(asked'[h], handler'[h])
    BY <1>1 DEF RequestsOK, RequestOK, IsOneOf
  <1>2. QED BY <1>1 DEF RequestsOK

\* What is wanted of a request that begins.
LEMMA AskedTypes ==
  /\ Nothing \in Asked
  /\ \A for \in {"refresh", "move", "delete", "duplicate", "upload", "remove", "other"},
        v \in Views, S \in SUBSET Drawings, b \in BOOLEAN :
       /\ [for |-> for, view |-> v, drawings |-> S, alone |-> b] \in Asked
       /\ [for |-> for, view |-> v, drawings |-> S, alone |-> b] # Nothing
  /\ Unawaited \in Asked /\ Unawaited # Nothing
  BY DashAssumption DEF Asked, Nothing, Unawaited

\* A request that is wanted is for something, in a view, and of some drawings.
LEMMA AskedFields ==
  ASSUME NEW a \in Asked, a # Nothing
  PROVE  /\ a \in [for : {"refresh", "move", "delete", "duplicate", "upload", "remove", "other"},
                   view : Views, drawings : SUBSET Drawings, alone : BOOLEAN]
  BY DEF Asked

\* What is not alone any more is wanted as before.
LEMMA DisturbedTypes ==
  ASSUME asked \in [Handlers -> Asked]
  PROVE  /\ Disturbed \in [Handlers -> Asked]
         /\ \A h \in Handlers :
              /\ asked[h] = Nothing <=> Disturbed[h] = Nothing
              /\ Disturbed[h].for = asked[h].for
              /\ asked[h] # Nothing => /\ Disturbed[h].view = asked[h].view
                                       /\ ~ Disturbed[h].alone
  <1>1. ASSUME NEW h \in Handlers
        PROVE  /\ Disturbed[h] \in Asked
               /\ asked[h] = Nothing <=> Disturbed[h] = Nothing
               /\ Disturbed[h].for = asked[h].for
               /\ asked[h] # Nothing => /\ Disturbed[h].view = asked[h].view
                                        /\ ~ Disturbed[h].alone
    <2>1. Disturbed[h] = IF asked[h] = Nothing THEN Nothing
                         ELSE [asked[h] EXCEPT !.alone = FALSE]
      BY DEF Disturbed
    <2>2. CASE asked[h] # Nothing
      <3>1. PICK a \in Asked : a = asked[h]
        OBVIOUS
      <3>2. a \in [for : {"refresh", "move", "delete", "duplicate", "upload", "remove", "other"},
                   view : Views, drawings : SUBSET Drawings, alone : BOOLEAN]
        BY <2>2, <3>1, AskedFields
      <3>3. Disturbed[h] = [a EXCEPT !.alone = FALSE]
        BY <2>1, <2>2, <3>1
      <3>4. Disturbed[h] = [for |-> a.for, view |-> a.view, drawings |-> a.drawings,
                            alone |-> FALSE]
        BY <3>2, <3>3
      <3>5. Disturbed[h] \in Asked /\ Disturbed[h] # Nothing
        BY <3>2, <3>4, AskedTypes
      <3>6. QED BY <2>2, <3>1, <3>4, <3>5
    <2>3. CASE asked[h] = Nothing
      BY <2>1, <2>3, AskedTypes
    <2>4. QED BY <2>2, <2>3
  <1>2. Disturbed = [h \in Handlers |-> Disturbed[h]]
    BY DEF Disturbed
  <1>3. QED BY <1>1, <1>2

\* What is wanted after a request for the drawings S is sent to each of H.
LEMMA AsksTypes ==
  ASSUME asked \in [Handlers -> Asked], NEW H \in SUBSET Handlers,
         NEW for \in {"refresh", "move", "delete", "duplicate", "upload", "remove"},
         NEW v \in Views, NEW S \in SUBSET Drawings, Asks(H, for, v, S)
  PROVE  /\ asked' \in [Handlers -> Asked]
         /\ \A h \in H : asked'[h] = [for |-> for, view |-> v, drawings |-> S, alone |-> Quiet]
                           /\ asked'[h] # Nothing
         /\ \A h \in Handlers \ H :
              /\ asked[h] = Nothing <=> asked'[h] = Nothing
              /\ asked'[h].for = asked[h].for
              /\ asked[h] # Nothing => asked'[h].view = asked[h].view /\ ~ asked'[h].alone
  <1>1. Quiet \in BOOLEAN
    BY DEF Quiet
  <1>2. /\ asked' = [h \in Handlers |-> asked'[h]]
        /\ \A h \in H : asked'[h] = [for |-> for, view |-> v, drawings |-> S, alone |-> Quiet]
        /\ \A h \in Handlers \ H : asked'[h] = Disturbed[h]
    BY DEF Asks
  <1>3. \A h \in H : asked'[h] \in Asked /\ asked'[h] # Nothing
    BY <1>1, <1>2, AskedTypes
  <1>4. \A h \in Handlers \ H : asked'[h] \in Asked
    BY <1>2, DisturbedTypes
  <1>5. QED BY <1>2, <1>3, <1>4, DisturbedTypes

\* The page with another list, and with a refresh that begins.
LEMMA PageTypes ==
  ASSUME page \in Page
  PROVE  /\ \A rows \in SUBSET Drawings, left \in SUBSET Drawings, sure \in BOOLEAN :
              Shows(rows, left, sure) => page' \in Page /\ page'.view = page.view
                                     /\ page'.shown = rows /\ page'.sure = (page.sure /\ sure)
         /\ \A sure \in BOOLEAN :
              Stays(sure) => page' \in Page /\ page'.view = page.view
                               /\ page'.shown = page.shown /\ page'.sure = (page.sure /\ sure)
         /\ \A h \in Handlers, v \in Views, w \in Views :
              page' = Refreshed([page EXCEPT !.view = w], h, v) =>
                page' \in Page /\ page'.view = w /\ ~ page'.sure /\ page'.shown = page.shown
         /\ \A h \in Handlers, v \in Views, left \in SUBSET Drawings :
              page' = Refreshed([page EXCEPT !.stale = left], h, v) =>
                /\ page' \in Page /\ page'.view = page.view
                /\ ~ page'.sure /\ page'.shown = page.shown
  <1>1. ASSUME NEW rows \in SUBSET Drawings, NEW left \in SUBSET Drawings,
               NEW sure \in BOOLEAN, Shows(rows, left, sure)
        PROVE  page' \in Page /\ page'.view = page.view
                 /\ page'.shown = rows /\ page'.sure = (page.sure /\ sure)
    BY <1>1 DEF Shows, Page
  <1>2. ASSUME NEW h \in Handlers, NEW v \in Views, NEW w \in Views,
               page' = Refreshed([page EXCEPT !.view = w], h, v)
        PROVE  page' \in Page /\ page'.view = w /\ ~ page'.sure /\ page'.shown = page.shown
    <2>1. PICK p \in Page : p = page
      OBVIOUS
    <2>2. [p EXCEPT !.view = w] = [view |-> w, shown |-> p.shown, stale |-> p.stale,
             latest |-> p.latest, of |-> p.of, missed |-> p.missed, strayed |-> p.strayed, sure |-> p.sure]
      BY DEF Page
    <2>3. page' = [view |-> w, shown |-> p.shown, stale |-> p.stale, latest |-> h,
             of |-> p.of, missed |-> FALSE, strayed |-> (v # w), sure |-> FALSE]
      <3>1. PICK q : /\ q = [p EXCEPT !.view = w]
                     /\ q = [view |-> w, shown |-> p.shown, stale |-> p.stale,
                             latest |-> p.latest, of |-> p.of, missed |-> p.missed,
                             strayed |-> p.strayed, sure |-> p.sure]
        BY <2>2
      <3>2. page' = Refreshed(q, h, v)
        BY <1>2, <2>1, <3>1
      <3>3. page' = [q EXCEPT !.latest = h, !.missed = FALSE, !.strayed = v # w, !.sure = FALSE]
        BY <3>1, <3>2 DEF Refreshed
      <3>4. QED BY ONLY <3>1, <3>3
    <2>4. QED BY <2>1, <2>3 DEF Page
  <1>3. ASSUME NEW h \in Handlers, NEW v \in Views, NEW left \in SUBSET Drawings,
               page' = Refreshed([page EXCEPT !.stale = left], h, v)
        PROVE  /\ page' \in Page /\ page'.view = page.view
               /\ ~ page'.sure /\ page'.shown = page.shown
    <2>1. PICK p \in Page : p = page
      OBVIOUS
    <2>2. PICK q : q = [p EXCEPT !.stale = left]
      OBVIOUS
    <2>3. q = [view |-> p.view, shown |-> p.shown, stale |-> left, latest |-> p.latest,
               of |-> p.of, missed |-> p.missed, strayed |-> p.strayed, sure |-> p.sure]
      BY <2>2 DEF Page
    <2>4. page' = [q EXCEPT !.latest = h, !.missed = FALSE, !.strayed = v # q.view, !.sure = FALSE]
      BY <1>3, <2>1, <2>2 DEF Refreshed
    <2>5. page' = [view |-> p.view, shown |-> p.shown, stale |-> left, latest |-> h,
                   of |-> p.of, missed |-> FALSE, strayed |-> (v # p.view), sure |-> FALSE]
      BY ONLY <2>3, <2>4
    <2>6. QED BY <2>1, <2>5 DEF Page
  <1>4. page.shown \in SUBSET Drawings /\ page.stale \in SUBSET Drawings
    BY DEF Page
  <1>5. QED BY <1>1, <1>2, <1>3, <1>4 DEF Stays

\* What may be selected though it is not shown.
LEMMA LeftTypes ==
  ASSUME page \in Page
  PROVE  /\ page.stale \in SUBSET Drawings /\ page.shown \in SUBSET Drawings
         /\ \A h \in Handlers : LeftBy(h) \in SUBSET Drawings
         /\ \A S \in SUBSET Drawings : Left(S) \in SUBSET Drawings
  BY DEF Page, LeftBy, Left

-----------------------------------------------------------------------------
(* The parts through each step. *)

\* What a list that is asked for begins with, and a write.
LEMMA ListsState ==
  ASSUME TypeOK, NEW v \in Views
  PROVE  /\ Lists(v) \in HandlerState /\ Lists(v) # Idle
         /\ Lists(v).pc \in {"failed", "listed", "query"}
         /\ Lists(v).pc = "query" => Lists(v).view = v
         /\ Lists(v).pc = "listed" => /\ cache[v].kept
                                      /\ Lists(v).rows = cache[v].rows
                                      /\ Lists(v).raced = cache[v].raced
  <1>1. cache[v] \in Body
    BY DEF TypeOK
  <1>2. /\ Lists(v) \in HandlerState
        /\ Lists(v).pc \in {"failed", "listed", "query"}
        /\ Lists(v).pc = "query" => Lists(v).view = v
    BY <1>1, BodyTypes, StateTypes DEF Lists, Listed, Failed, Body, NoBody
  <1>3. Lists(v).pc = "listed" => /\ cache[v].kept
                                  /\ Lists(v).rows = cache[v].rows
                                  /\ Lists(v).raced = cache[v].raced
    BY DEF Lists, Listed, Failed
  <1>4. QED BY <1>2, <1>3 DEF Idle

LEMMA TowardsState ==
  ASSUME NEW w \in {"move", "create", "copy"}, NEW d \in Drawings, NEW p \in Places
  PROVE  /\ Towards(w, d, p) \in HandlerState /\ Towards(w, d, p) # Idle
         /\ Towards(w, d, p).pc \in {"failed", "ensure", "write"}
         /\ Towards(w, d, p).pc # "failed" =>
              /\ Towards(w, d, p).write = w
              /\ Towards(w, d, p).drawing = d /\ Towards(w, d, p).place = p
         /\ Towards(w, d, p).pc = "failed" => Towards(w, d, p) = Failed
  BY StateTypes DEF Towards, Failed, Idle

\* A request that a batch may begin with, for what the batch is.
MayBegin(for, s) ==
  /\ s \in HandlerState /\ s # Idle /\ s.pc \notin {"fill", "files", "invalidate"}
  /\ for \in {"move", "delete", "duplicate", "upload"}
  /\ for = "move" => s = Failed \/ (s.pc \in {"ensure", "write"} /\ s.write = "move")
  /\ for = "delete" => s = Failed \/ s.pc = "delete"

\* The handlers of a batch begin, each with the request of one of its drawings.
LEMMA SendsBegins ==
  ASSUME NEW S, NEW at \in [S -> Handlers], NEW for, NEW begun, Sends(S, at, for, begun)
  PROVE  /\ \A d \in S : handler[at[d]] = Idle /\ handler'[at[d]] = begun[d]
         /\ \A h \in Handlers \ {at[d] : d \in S} : handler'[h] = handler[h]
         /\ handler' = [h \in Handlers |-> handler'[h]]
         /\ \A c, d \in S : at[c] = at[d] => c = d
         /\ S # {} /\ UNCHANGED <<drawing, collection, cache, purge>>
  <1> DEFINE H == {at[d] : d \in S}
             of(h) == CHOOSE d \in S : at[d] = h
  <1>1. /\ \A h \in H : handler[h] = Idle
        /\ handler' = [h \in Handlers |-> IF h \in H THEN begun[of(h)] ELSE handler[h]]
        /\ \A c, d \in S : at[c] = at[d] => c = d
    BY DEF Sends
  <1>2. \A d \in S : of(at[d]) = d
    BY <1>1
  <1>3. \A d \in S : at[d] \in H /\ at[d] \in Handlers
    OBVIOUS
  <1> HIDE DEF of
  <1>4. \A d \in S : handler[at[d]] = Idle /\ handler'[at[d]] = begun[d]
    BY <1>1, <1>2, <1>3
  <1>5. QED BY <1>1, <1>4 DEF Sends

\* What is wanted of them.
Batched(for, S) == IF for = "delete" \/ Several(S) THEN S ELSE {}

LEMMA SendsAsks ==
  ASSUME NEW S \in SUBSET Drawings, NEW at, NEW for, NEW begun,
         Sends(S, at, for, begun), NEW H, H = {at[d] : d \in S}
  PROVE  Asks(H, for, page.view, Batched(for, S)) /\ Batched(for, S) \in SUBSET Drawings
  BY DEF Sends, Batched

LEMMA SendsParts ==
  ASSUME ConstantsAssumption, PartsOK, NEW S \in SUBSET Drawings, NEW at \in [S -> Handlers],
         NEW for, NEW begun, Sends(S, at, for, begun), \A d \in S : MayBegin(for, begun[d]),
         NEW rows \in SUBSET Drawings, NEW left \in SUBSET Drawings,
         NEW sure \in BOOLEAN, Shows(rows, left, sure)
  PROVE  PartsOK'
  <1> DEFINE H == {at[d] : d \in S}
  <1>1. /\ \A d \in S : handler[at[d]] = Idle /\ handler'[at[d]] = begun[d]
        /\ \A h \in Handlers \ H : handler'[h] = handler[h]
        /\ handler' = [h \in Handlers |-> handler'[h]]
        /\ S # {} /\ UNCHANGED <<drawing, collection, cache, purge>>
    BY SendsBegins
  <1>2. H \in SUBSET Handlers
    OBVIOUS
  <1>3. PICK T \in SUBSET Drawings : Asks(H, for, page.view, T)
    BY SendsAsks
  <1>4. for \in {"move", "delete", "duplicate", "upload"}
    BY <1>1 DEF MayBegin
  <1>5. PICK v \in Views : v = page.view
    BY DEF PartsOK, PageOK, Page
  <1>6. asked \in [Handlers -> Asked]
    BY DEF PartsOK, PageOK
  <1>7. PICK b : b = Quiet
    OBVIOUS
  <1>8. /\ asked' \in [Handlers -> Asked]
        /\ \A h \in H : asked'[h] = [for |-> for, view |-> v, drawings |-> T, alone |-> b]
                          /\ asked'[h] # Nothing
        /\ \A h \in Handlers \ H :
             /\ asked[h] = Nothing <=> asked'[h] = Nothing
             /\ asked'[h].for = asked[h].for
             /\ asked[h] # Nothing => asked'[h].view = asked[h].view
    <2>1. Asks(H, for, v, T)
      BY <1>3, <1>5
    <2>2. for \in {"refresh", "move", "delete", "duplicate", "upload", "remove"}
      BY <1>4
    <2> HIDE DEF H
    <2>3. /\ asked' \in [Handlers -> Asked]
          /\ \A h \in H : asked'[h] = [for |-> for, view |-> v, drawings |-> T, alone |-> Quiet]
                            /\ asked'[h] # Nothing
          /\ \A h \in Handlers \ H :
               /\ asked[h] = Nothing <=> asked'[h] = Nothing
               /\ asked'[h].for = asked[h].for
               /\ asked[h] # Nothing => asked'[h].view = asked[h].view /\ ~ asked'[h].alone
      BY ONLY <1>2, <1>6, <2>1, <2>2, AsksTypes, v \in Views, T \in SUBSET Drawings, ZenonT(60)
    <2>4. QED BY ONLY <1>7, <2>3
  <1>9. \A h \in H : \E d \in S : handler[h] = Idle /\ handler'[h] = begun[d]
    BY <1>1
  <1> HIDE DEF H
  <1>10. handler' \in [Handlers -> HandlerState]
    <2>1. \A h \in H : handler'[h] \in HandlerState
      BY <1>9 DEF MayBegin
    <2>2. \A h \in Handlers \ H : handler'[h] \in HandlerState
      BY <1>1 DEF PartsOK, ServerOK, TypeOK
    <2>3. QED BY <1>1, <2>1, <2>2
  <1>11. ServerOK'
    <2>1. \A h \in Handlers : handler'[h] # handler[h] =>
             /\ handler[h].pc \notin {"files", "invalidate"}
             /\ handler'[h].pc \notin {"fill", "files", "invalidate"}
      BY <1>1, <1>9 DEF MayBegin, Idle
    <2>2. QED BY <1>1, <1>10, <2>1, ServerStays DEF PartsOK
  <1>12. PageOK'
    BY <1>8, PageTypes DEF PartsOK, PageOK
  <1>13. RequestsOK'
    <2>1. ASSUME NEW h \in H PROVE RequestOK(asked'[h], handler'[h])
      <3>1. PICK d \in S : handler'[h] = begun[d]
        BY <1>9
      <3>2. /\ asked'[h].for = for /\ asked'[h] # Nothing
            /\ MayBegin(for, handler'[h])
        BY <1>8, <3>1
      <3>3. QED BY <3>2 DEF RequestOK, IsOneOf, MayBegin, Failed
    <2>2. ASSUME NEW h \in Handlers \ H
          PROVE  /\ handler'[h] = handler[h] /\ (asked'[h] = Nothing <=> asked[h] = Nothing)
                 /\ asked'[h].for = asked[h].for /\ asked'[h].view = asked[h].view
      <3>1. asked[h] = Nothing => asked'[h] = asked[h]
        BY <1>8
      <3>2. QED BY <1>1, <1>8, <3>1
    <2>3. RequestsOK
      BY DEF PartsOK
    <2>4. QED BY ONLY <2>1, <2>2, <2>3, RequestsGoOn
  <1>14. QED BY <1>11, <1>12, <1>13 DEF PartsOK

\* Whether a drawing in the place p is shown in the view v.
Fits(p, v) == IF v = All THEN p # Trash ELSE p = v

\* What a batch for the drawings S does to the list: where it is sure, what is moved
\* is shown if it fits the view it is to be in, and what is deleted stays for now.
BatchOf(S, for, begun, rows, left, sure) ==
  /\ rows \in SUBSET Drawings /\ left \in SUBSET Drawings
  /\ sure \in BOOLEAN /\ (sure => Quiet)
  /\ \A d \in S : MayBegin(for, begun[d])
  /\ rows \ S = page.shown \ S
  /\ for # "move" => rows = page.shown
  /\ for = "move" =>
       \E p \in Places : \A d \in S :
         /\ \/ begun[d] = Failed
            \/ /\ begun[d].pc \in {"ensure", "write"}
               /\ begun[d].drawing = d /\ begun[d].place = p
         /\ sure => (d \in rows <=> Fits(p, page.view))
  /\ for = "delete" =>
       \A d \in S : begun[d] = Failed \/ begun[d] = [pc |-> "delete", drawing |-> d]

LEMMA BatchSends ==
  ASSUME ConstantsAssumption, PartsOK, Batch
  PROVE  \E S \in SUBSET Drawings : \E at \in [S -> Handlers] : \E for, begun, rows, left, sure :
           /\ Sends(S, at, for, begun) /\ Shows(rows, left, sure)
           /\ BatchOf(S, for, begun, rows, left, sure)
  <1>0. PICK S \in SUBSET Drawings : \E at \in [S -> {h \in Handlers : handler[h] = Idle}] :
          \/ MoveToTrash(S, at) \/ DeleteForever(S, at) \/ handleImportDrawings(S, at)
          \/ \E p \in Places : MoveToCollection(S, at, p) \/ handleDrop(S, at, p)
          \/ \E copied \in [S -> Drawings] : DuplicateDrawings(S, at, copied)
    BY DEF Batch
  <1>1. PICK at \in [S -> Handlers] :
          \/ MoveToTrash(S, at) \/ DeleteForever(S, at)
          \/ \E p \in Places : \/ Upload(S, at, p)
                            \/ \E left \in SUBSET Drawings : MoveCards(S, at, p, left)
          \/ \E copied \in [S -> Drawings] : DuplicateDrawings(S, at, copied)
    <2>2. PICK at \in [S -> {h \in Handlers : handler[h] = Idle}] :
            \/ MoveToTrash(S, at) \/ DeleteForever(S, at) \/ handleImportDrawings(S, at)
            \/ \E p \in Places : MoveToCollection(S, at, p) \/ handleDrop(S, at, p)
            \/ \E copied \in [S -> Drawings] : DuplicateDrawings(S, at, copied)
      BY <1>0
    <2>3. handleImportDrawings(S, at) => \E p \in Places : Upload(S, at, p)
      <3>1. ASSUME handleImportDrawings(S, at) PROVE \E p \in Places : Upload(S, at, p)
        <4>1. PICK p : p = (IF page.view = All THEN None ELSE page.view) /\ Upload(S, at, p)
          BY <3>1 DEF handleImportDrawings
        <4>2. page.view \in Views
          BY DEF PartsOK, PageOK, Page
        <4>3. p \in Places
          BY <4>1, <4>2 DEF ConstantsAssumption, Places
        <4>4. QED BY <4>1, <4>3
      <3>2. QED BY <3>1
    <2>4. at \in [S -> Handlers]
      OBVIOUS
    <2>5. ASSUME NEW p \in Places, MoveToCollection(S, at, p) \/ DropCards(S, at, p)
          PROVE  \E left \in SUBSET Drawings : MoveCards(S, at, p, left)
      <3>1. PICK gone : gone = (IF OnCard(S) THEN S \ Kept(S, p) ELSE {})
        OBVIOUS
      <3>2. Left(S) \in SUBSET Drawings /\ Left(S) \cup gone \in SUBSET Drawings
        BY <3>1, LeftTypes DEF PartsOK, PageOK
      <3>3. MoveCards(S, at, p, Left(S)) \/ MoveCards(S, at, p, Left(S) \cup gone)
        BY <2>5, <3>1 DEF MoveToCollection, DropCards
      <3>4. QED BY <3>2, <3>3
    <2>6. QED BY <2>2, <2>3, <2>4, <2>5 DEF handleDrop
  <1> DEFINE SentBy == \E for, begun, rows, left, sure :
                         /\ Sends(S, at, for, begun) /\ Shows(rows, left, sure)
                         /\ BatchOf(S, for, begun, rows, left, sure)
  <1>2. /\ page.shown \in SUBSET Drawings /\ page.view \in Views
        /\ page.stale \in SUBSET Drawings /\ Left(S) \in SUBSET Drawings
    BY LeftTypes DEF PartsOK, PageOK, Page
  <1>3. /\ Quiet \in BOOLEAN
        /\ \A p : (Quiet /\ S \subseteq page.shown /\ ~(page.view = All /\ p = Trash)) \in BOOLEAN
    BY DEF Quiet
  <1>4. Failed \in HandlerState /\ Failed # Idle /\ Failed.pc = "failed"
    BY StateTypes DEF Failed, Idle
  <1>5. ASSUME NEW p \in Places, NEW d \in S
        PROVE  /\ MayBegin("move", OfOneThere(d, Towards("move", d, p)))
               /\ \/ OfOneThere(d, Towards("move", d, p)) = Failed
                  \/ /\ OfOneThere(d, Towards("move", d, p)).pc \in {"ensure", "write"}
                     /\ OfOneThere(d, Towards("move", d, p)).drawing = d
                     /\ OfOneThere(d, Towards("move", d, p)).place = p
    <2>1. PICK s, t : s = Towards("move", d, p) /\ t = OfOneThere(d, s)
      OBVIOUS
    <2>2. /\ s \in HandlerState /\ s # Idle /\ s.pc \in {"failed", "ensure", "write"}
          /\ s.pc # "failed" => s.write = "move" /\ s.drawing = d /\ s.place = p
          /\ s.pc = "failed" => s = Failed
      BY <2>1, TowardsState
    <2>3. MayBegin("move", s) /\ MayBegin("move", Failed)
      BY <1>4, <2>2 DEF MayBegin
    <2>4. t = s \/ t = Failed
      BY <2>1 DEF OfOneThere
    <2>5. /\ MayBegin("move", t)
          /\ \/ t = Failed
             \/ t.pc \in {"ensure", "write"} /\ t.drawing = d /\ t.place = p
      BY <2>2, <2>3, <2>4
    <2>6. t = OfOneThere(d, Towards("move", d, p))
      BY <2>1
    <2>7. QED BY <2>5, <2>6
  <1>6. ASSUME NEW p \in Places, NEW rows \in SUBSET Drawings, NEW left \in SUBSET Drawings,
               NEW sure \in BOOLEAN, NEW begun,
               begun = [d \in S |-> OfOneThere(d, Towards("move", d, p))],
               Sends(S, at, "move", begun), Shows(rows, left, sure),
               sure => Quiet,
               rows \ S = page.shown \ S,
               \A d \in S : sure => (d \in rows <=> Fits(p, page.view))
        PROVE  SentBy
    <2>1. \A d \in S :
            /\ MayBegin("move", begun[d])
            /\ \/ begun[d] = Failed
               \/ /\ begun[d].pc \in {"ensure", "write"}
                  /\ begun[d].drawing = d /\ begun[d].place = p
      <3>1. \A d \in S : begun[d] = OfOneThere(d, Towards("move", d, p))
        BY <1>6
      <3>2. QED BY <1>5, <3>1
    <2>2. BatchOf(S, "move", begun, rows, left, sure)
      BY <1>6, <2>1 DEF BatchOf
    <2>3. QED BY <1>6, <2>2
  <1>7. ASSUME NEW p \in Places, NEW left \in SUBSET Drawings, MoveCards(S, at, p, left)
        PROVE  SentBy
    <2>1. Kept(S, p) \in SUBSET Drawings /\ Kept(S, p) \ S = page.shown \ S
      BY <1>2 DEF Kept
    <2>2. PICK sure \in BOOLEAN :
            sure = (Quiet /\ S \subseteq page.shown /\ ~(page.view = All /\ p = Trash))
      BY <1>3
    <2>3. PICK rows \in SUBSET Drawings : rows = Kept(S, p)
      BY <2>1
    <2>4. PICK begun : begun = [d \in S |-> OfOneThere(d, Towards("move", d, p))]
      OBVIOUS
    <2>5. Sends(S, at, "move", begun) /\ Shows(rows, left, sure)
      BY <1>7, <2>2, <2>3, <2>4 DEF MoveCards
    <2>6. ASSUME NEW d \in S, sure PROVE d \in rows <=> Fits(p, page.view)
      <3>1. d \in rows <=> page.view \in {All, p}
        BY <2>2, <2>3, <2>6 DEF Kept
      <3>2. ~(page.view = All /\ p = Trash)
        BY <2>2, <2>6
      <3>3. QED BY <3>1, <3>2 DEF Fits
    <2>7. (sure => Quiet) /\ rows \ S = page.shown \ S
      BY <2>1, <2>2, <2>3
    <2>8. QED BY <1>6, <2>4, <2>5, <2>6, <2>7
  <1>8. ASSUME MoveToTrash(S, at) PROVE SentBy
    <2>1. page.shown \ S \in SUBSET Drawings /\ Trash \in Places /\ page.view # Trash
      BY <1>2, <1>8 DEF Places, MoveToTrash
    <2>2. PICK p \in Places : p = Trash
      BY <2>1
    <2>3. PICK rows \in SUBSET Drawings, left \in SUBSET Drawings, sure \in BOOLEAN :
            /\ rows = page.shown \ S /\ left = Left(S)
            /\ sure = Quiet
      BY <1>2, <1>3, <2>1
    <2>4. PICK begun : begun = [d \in S |-> OfOneThere(d, Towards("move", d, p))]
      OBVIOUS
    <2>5. Sends(S, at, "move", begun) /\ Shows(rows, left, sure)
      BY <1>8, <2>2, <2>3, <2>4 DEF MoveToTrash
    <2>6. ~ Fits(p, page.view)
      BY <2>1, <2>2 DEF Fits
    <2>7. (sure => Quiet) /\ rows \ S = page.shown \ S
            /\ \A d \in S : sure => (d \in rows <=> Fits(p, page.view))
      BY <2>3, <2>6
    <2>8. QED BY <1>6, <2>4, <2>5, <2>7
  <1>9. ASSUME NEW for, for \in {"delete", "upload", "duplicate"}, NEW begun,
               Sends(S, at, for, begun), Stays(Quiet),
               \A d \in S : MayBegin(for, begun[d]),
               for = "delete" =>
                 \A d \in S : begun[d] = Failed \/ begun[d] = [pc |-> "delete", drawing |-> d]
        PROVE  SentBy
    <2>1. PICK rows \in SUBSET Drawings, left \in SUBSET Drawings, sure \in BOOLEAN :
            rows = page.shown /\ left = page.stale /\ sure = Quiet
      BY <1>2, <1>3
    <2>2. BatchOf(S, for, begun, rows, left, sure)
      BY <1>9, <2>1 DEF BatchOf
    <2>3. QED BY <1>9, <2>1, <2>2 DEF Stays
  <1>10. ASSUME DeleteForever(S, at) PROVE SentBy
    <2>1. PICK begun :
            /\ begun = [d \in S |-> OfOneThere(d, [pc |-> "delete", drawing |-> d])]
            /\ Sends(S, at, "delete", begun) /\ Stays(Quiet)
      BY <1>10 DEF DeleteForever
    <2>2. ASSUME NEW d \in S
          PROVE  /\ MayBegin("delete", begun[d])
                 /\ begun[d] = Failed \/ begun[d] = [pc |-> "delete", drawing |-> d]
      <3>1. PICK s : s = [pc |-> "delete", drawing |-> d]
        OBVIOUS
      <3>2. s \in HandlerState /\ s # Idle /\ s.pc = "delete"
        BY <3>1, StateTypes DEF Idle
      <3>3. MayBegin("delete", s) /\ MayBegin("delete", Failed)
        BY <1>4, <3>2 DEF MayBegin
      <3>4. begun[d] = s \/ begun[d] = Failed
        BY <2>1, <3>1 DEF OfOneThere
      <3>5. QED BY <3>1, <3>3, <3>4
    <2>3. QED BY <1>9, <2>1, <2>2
  <1>11. ASSUME NEW p \in Places, Upload(S, at, p)
        PROVE  SentBy
    <2>1. PICK begun : /\ begun = [d \in S |-> Towards("create", d, p)]
                       /\ Sends(S, at, "upload", begun) /\ Stays(Quiet)
      BY <1>11 DEF Upload
    <2>2. ASSUME NEW d \in S PROVE MayBegin("upload", begun[d])
      <3>1. /\ Towards("create", d, p) \in HandlerState /\ Towards("create", d, p) # Idle
            /\ Towards("create", d, p).pc \in {"failed", "ensure", "write"}
        BY TowardsState
      <3>2. begun[d] = Towards("create", d, p)
        BY <2>1
      <3>3. QED BY <3>1, <3>2 DEF MayBegin
    <2>3. QED BY <1>9, <2>1, <2>2
  <1>12. ASSUME NEW copied \in [S -> Drawings], DuplicateDrawings(S, at, copied)
        PROVE  SentBy
    <2>1. PICK begun :
            /\ begun = [d \in S |-> OfOneThere(copied[d],
                                      Towards("copy", d, drawing[copied[d]].place))]
            /\ Sends(S, at, "duplicate", begun) /\ Stays(Quiet)
      BY <1>12 DEF DuplicateDrawings
    <2>2. ASSUME NEW d \in S PROVE MayBegin("duplicate", begun[d])
      <3>1. PICK c, p : c \in Drawings /\ c = copied[d] /\ p = drawing[c].place
        OBVIOUS
      <3>2. begun[d] = IF c \in There THEN Towards("copy", d, p) ELSE Failed
        BY <2>1, <3>1 DEF OfOneThere
      <3>3. CASE c \in There
        <4>1. p \in Places
          BY <3>1, <3>3 DEF There, PartsOK, ServerOK, TypeOK, Row, Unused, Deleted
        <4>2. /\ Towards("copy", d, p) \in HandlerState /\ Towards("copy", d, p) # Idle
              /\ Towards("copy", d, p).pc \in {"failed", "ensure", "write"}
          BY <4>1, TowardsState
        <4>3. QED BY <3>2, <3>3, <4>2 DEF MayBegin
      <3>4. CASE c \notin There
        BY <1>4, <3>2, <3>4 DEF MayBegin
      <3>5. QED BY <3>3, <3>4
    <2>3. QED BY <1>9, <2>1, <2>2
  <1> HIDE DEF SentBy
  <1>13. SentBy
    <2>1. CASE \E p \in Places : \/ Upload(S, at, p)
                                 \/ \E left \in SUBSET Drawings : MoveCards(S, at, p, left)
      BY ONLY <1>7, <1>11, <2>1
    <2>2. CASE \E copied \in [S -> Drawings] : DuplicateDrawings(S, at, copied)
      BY ONLY <1>12, <2>2
    <2>3. QED BY ONLY <1>1, <1>8, <1>10, <2>1, <2>2
  <1>14. QED BY <1>13 DEF SentBy

LEMMA BatchParts ==
  ASSUME ConstantsAssumption, PartsOK, Batch
  PROVE  PartsOK'
  <1>1. PICK S \in SUBSET Drawings :
          \E at \in [S -> Handlers] : \E for, begun, rows, left, sure :
            /\ Sends(S, at, for, begun) /\ Shows(rows, left, sure)
            /\ BatchOf(S, for, begun, rows, left, sure)
    BY ConstantsAssumption, BatchSends
  <1>2. PICK at \in [S -> Handlers] : \E for, begun, rows, left, sure :
          /\ Sends(S, at, for, begun) /\ Shows(rows, left, sure)
          /\ BatchOf(S, for, begun, rows, left, sure)
    BY <1>1
  <1>3. PICK for, begun, rows, left, sure :
          /\ Sends(S, at, for, begun) /\ Shows(rows, left, sure)
          /\ BatchOf(S, for, begun, rows, left, sure)
    BY <1>2
  <1>4. /\ \A d \in S : MayBegin(for, begun[d])
        /\ rows \in SUBSET Drawings /\ left \in SUBSET Drawings /\ sure \in BOOLEAN
    BY <1>3 DEF BatchOf
  <1>5. QED BY ConstantsAssumption, <1>3, <1>4, SendsParts

\* A step in which nothing is served: requests begin and end.
LEMMA PartsGoOn ==
  ASSUME ConstantsAssumption, PartsOK, handler' \in [Handlers -> HandlerState], PageOK',
         UNCHANGED <<drawing, collection, cache, purge>>,
         \A h \in Handlers :
           \/ /\ handler'[h] = handler[h] /\ (asked'[h] = Nothing <=> asked[h] = Nothing)
              /\ \/ asked'[h].for = "other"
                 \/ asked'[h].for = asked[h].for /\ asked'[h].view = asked[h].view
           \/ /\ handler[h].pc \notin {"files", "invalidate"}
              /\ handler'[h].pc \notin {"fill", "files", "invalidate"}
              /\ RequestOK(asked'[h], handler'[h])
  PROVE  PartsOK'
  <1>1. RequestsOK'
    BY RequestsGoOn DEF PartsOK
  <1>2. ServerOK'
    BY ServerStays DEF PartsOK
  <1>3. QED BY <1>1, <1>2 DEF PartsOK

\* One request begins.
LEMMA OneParts ==
  ASSUME ConstantsAssumption, PartsOK, PageOK', NEW h \in Handlers, NEW state \in HandlerState,
         Begins(h, state), state.pc \notin {"fill", "files", "invalidate"},
         RequestOK(asked'[h], state),
         \A i \in Handlers \ {h} :
           /\ asked'[i] = Nothing <=> asked[i] = Nothing
           /\ asked'[i].for = asked[i].for
           /\ asked[i] # Nothing => asked'[i].view = asked[i].view
  PROVE  PartsOK'
  <1>1. /\ handler[h] = Idle /\ handler' = [handler EXCEPT ![h] = state]
        /\ UNCHANGED <<drawing, collection, cache, purge>>
    BY DEF Begins
  <1>2. handler \in [Handlers -> HandlerState]
    BY DEF PartsOK, ServerOK, TypeOK
  <1>3. /\ handler' \in [Handlers -> HandlerState] /\ handler'[h] = state
        /\ \A i \in Handlers \ {h} : handler'[i] = handler[i]
    BY <1>1, <1>2
  <1>4. \A i \in Handlers \ {h} : asked'[i].view = asked[i].view
    <2>1. \A i \in Handlers \ {h} : asked[i] = Nothing => asked'[i] = asked[i]
      OBVIOUS
    <2>2. QED BY <2>1
  <1>5. handler[h].pc \notin {"files", "invalidate"}
    BY <1>1 DEF Idle
  <1>6. ASSUME NEW i \in Handlers
        PROVE  \/ /\ handler'[i] = handler[i] /\ (asked'[i] = Nothing <=> asked[i] = Nothing)
                  /\ \/ asked'[i].for = "other"
                     \/ asked'[i].for = asked[i].for /\ asked'[i].view = asked[i].view
               \/ /\ handler[i].pc \notin {"files", "invalidate"}
                  /\ handler'[i].pc \notin {"fill", "files", "invalidate"}
                  /\ RequestOK(asked'[i], handler'[i])
    BY <1>3, <1>4, <1>5
  <1>7. QED BY <1>1, <1>3, <1>6, PartsGoOn

LEMMA AskOne ==
  ASSUME PageOK, NEW h \in Handlers, NEW for \in {"refresh", "remove"}, NEW v \in Views,
         Asks({h}, for, v, {})
  PROVE  /\ asked' \in [Handlers -> Asked]
         /\ asked'[h] = [for |-> for, view |-> v, drawings |-> {}, alone |-> Quiet]
         /\ asked'[h] # Nothing
         /\ \A i \in Handlers \ {h} :
              /\ asked'[i] = Nothing <=> asked[i] = Nothing
              /\ asked'[i].for = asked[i].for
              /\ asked[i] # Nothing => asked'[i].view = asked[i].view /\ ~ asked'[i].alone
  <1>1. PICK H \in SUBSET Handlers : H = {h}
    OBVIOUS
  <1>2. PICK S \in SUBSET Drawings : S = {}
    OBVIOUS
  <1>3. Asks(H, for, v, S) /\ h \in H
    BY <1>1, <1>2
  <1>4. for \in {"refresh", "move", "delete", "duplicate", "upload", "remove"}
    OBVIOUS
  <1>5. asked \in [Handlers -> Asked]
    BY DEF PageOK
  <1>6. /\ asked' \in [Handlers -> Asked]
        /\ \A i \in H : asked'[i] = [for |-> for, view |-> v, drawings |-> S, alone |-> Quiet]
                          /\ asked'[i] # Nothing
        /\ \A i \in Handlers \ H :
             /\ asked[i] = Nothing <=> asked'[i] = Nothing
             /\ asked'[i].for = asked[i].for
             /\ asked[i] # Nothing => asked'[i].view = asked[i].view /\ ~ asked'[i].alone
    BY ONLY <1>3, <1>4, <1>5, AsksTypes, v \in Views, S \in SUBSET Drawings, H \in SUBSET Handlers, ZenonT(60)
  <1>7. QED BY <1>1, <1>2, <1>6

LEMMA SelectParts ==
  ASSUME ConstantsAssumption, PartsOK, NEW h \in Handlers, NEW v \in Views, Select(h, v)
  PROVE  PartsOK'
  <1>1. /\ Begins(h, Lists(v)) /\ Asks({h}, "refresh", v, {})
        /\ page' = Refreshed([page EXCEPT !.view = v], h, v)
    BY DEF Select, List
  <1>2. page' \in Page
    BY <1>1, PageTypes DEF PartsOK, PageOK
  <1>3. /\ asked' \in [Handlers -> Asked]
        /\ asked'[h] = [for |-> "refresh", view |-> v, drawings |-> {}, alone |-> Quiet]
        /\ asked'[h] # Nothing
        /\ \A i \in Handlers \ {h} :
             /\ asked'[i] = Nothing <=> asked[i] = Nothing
             /\ asked'[i].for = asked[i].for
             /\ asked[i] # Nothing => asked'[i].view = asked[i].view
    BY <1>1, AskOne DEF PartsOK
  <1>4. /\ Lists(v) \in HandlerState /\ Lists(v) # Idle
        /\ Lists(v).pc \in {"failed", "listed", "query"}
        /\ Lists(v).pc = "query" => Lists(v).view = v
    BY ListsState DEF PartsOK, ServerOK
  <1>5. RequestOK(asked'[h], Lists(v))
    BY <1>3, <1>4 DEF RequestOK, IsOneOf
  <1>6. Lists(v).pc \notin {"fill", "files", "invalidate"} /\ PageOK'
    BY <1>2, <1>3, <1>4 DEF PageOK
  <1>7. QED BY ConstantsAssumption, <1>1, <1>3, <1>4, <1>5, <1>6, OneParts

LEMMA RemoveParts ==
  ASSUME ConstantsAssumption, PartsOK, NEW h \in Handlers, NEW k \in Collections,
         RemoveCollection(h, k)
  PROVE  PartsOK'
  <1>1. PICK s : s = [pc |-> "remove", collection |-> k]
    OBVIOUS
  <1>2. PICK v \in Views : v = page.view
    BY DEF PartsOK, PageOK, Page
  <1>3. /\ Begins(h, s) /\ Asks({h}, "remove", v, {}) /\ Stays(Quiet)
    BY <1>1, <1>2 DEF RemoveCollection, DeleteCollection
  <1>4. s \in HandlerState /\ s # Idle /\ s.pc = "remove"
    BY <1>1, StateTypes DEF Idle
  <1>5. page' \in Page
    <2>1. page.shown \in SUBSET Drawings /\ Quiet \in BOOLEAN
      BY DEF PartsOK, PageOK, Page, Quiet
    <2>2. QED BY <1>3, <2>1, PageTypes DEF PartsOK, PageOK
  <1>6. /\ asked' \in [Handlers -> Asked]
        /\ asked'[h] = [for |-> "remove", view |-> v, drawings |-> {}, alone |-> Quiet]
        /\ asked'[h] # Nothing
        /\ \A i \in Handlers \ {h} :
             /\ asked'[i] = Nothing <=> asked[i] = Nothing
             /\ asked'[i].for = asked[i].for
             /\ asked[i] # Nothing => asked'[i].view = asked[i].view
    BY <1>3, AskOne DEF PartsOK
  <1>7. RequestOK(asked'[h], s) /\ PageOK'
    BY <1>4, <1>5, <1>6 DEF RequestOK, IsOneOf, PageOK
  <1>8. QED BY ONLY <1>3, <1>4, <1>6, <1>7, OneParts, ConstantsAssumption, PartsOK, h \in Handlers

LEMMA ElsewhereParts ==
  ASSUME ConstantsAssumption, PartsOK, NEW h \in Handlers, Elsewhere(h)
  PROVE  PartsOK'
  <1>1. PICK d \in Drawings, p \in Places : Delete(h, d) \/ Move(h, d, p)
    BY DEF Elsewhere, Places
  <1>2. PICK s \in HandlerState :
          Begins(h, s) /\ s # Idle /\ s.pc \notin {"fill", "files", "invalidate"}
    <2>1. CASE Delete(h, d)
      <3>1. PICK s : s = [pc |-> "delete", drawing |-> d]
        OBVIOUS
      <3>2. s \in HandlerState /\ s # Idle /\ s.pc = "delete" /\ Begins(h, s)
        BY <2>1, <3>1, StateTypes DEF Delete, Idle
      <3>3. QED BY <3>2
    <2>2. CASE Move(h, d, p)
      BY <2>2, TowardsState DEF Move
    <2>3. QED BY <1>1, <2>1, <2>2
  <1>3. /\ Stays(FALSE) /\ asked' = [Disturbed EXCEPT ![h] = Unawaited]
    BY DEF Elsewhere
  <1>4. asked \in [Handlers -> Asked]
    BY DEF PartsOK, PageOK
  <1>5. /\ asked' \in [Handlers -> Asked] /\ asked'[h] = Unawaited
        /\ \A i \in Handlers \ {h} : asked'[i] = Disturbed[i]
    BY <1>3, <1>4, AskedTypes, DisturbedTypes
  <1>6. page' \in Page
    <2>1. page.shown \in SUBSET Drawings
      BY DEF PartsOK, PageOK, Page
    <2>2. QED BY <1>3, <2>1, PageTypes DEF PartsOK, PageOK
  <1>7. RequestOK(asked'[h], s) /\ PageOK'
    BY <1>2, <1>5, <1>6, AskedTypes DEF RequestOK, IsOneOf, PageOK, Unawaited
  <1>8. \A i \in Handlers \ {h} :
          /\ asked'[i] = Nothing <=> asked[i] = Nothing
          /\ asked'[i].for = asked[i].for
          /\ asked[i] # Nothing => asked'[i].view = asked[i].view
    BY <1>4, <1>5, DisturbedTypes
  <1>9. QED BY ConstantsAssumption, <1>2, <1>7, <1>8, OneParts

LEMMA RemoveSelectedParts ==
  ASSUME ConstantsAssumption, PartsOK, NEW h \in Handlers, NEW i \in Handlers,
         NEW k \in Collections, RemoveSelected(h, i, k)
  PROVE  PartsOK'
  <1>1. PICK s, r, o : /\ s = [pc |-> "remove", collection |-> k]
                       /\ r = [for |-> "refresh", view |-> All, drawings |-> {}, alone |-> FALSE]
                       /\ o = [for |-> "remove", view |-> k, drawings |-> {}, alone |-> FALSE]
    OBVIOUS
  <1>2. /\ h # i /\ handler[h] = Idle /\ handler[i] = Idle
        /\ handler' = [handler EXCEPT ![h] = Lists(All), ![i] = s]
        /\ page' = Refreshed([page EXCEPT !.view = All], h, All)
        /\ asked' = [Disturbed EXCEPT ![h] = r, ![i] = o]
        /\ UNCHANGED <<drawing, collection, cache, purge>>
        /\ k = page.view
    BY <1>1 DEF RemoveSelected
  <1>3. k \in Views /\ All \in Views
    BY <1>2, DashAssumption DEF PartsOK, PageOK, Page
  <1>4. /\ s \in HandlerState /\ s # Idle /\ s.pc = "remove"
        /\ Lists(All) \in HandlerState /\ Lists(All) # Idle
        /\ Lists(All).pc \in {"failed", "listed", "query"}
        /\ Lists(All).pc = "query" => Lists(All).view = All
    BY <1>1, <1>3, StateTypes, ListsState DEF Idle, PartsOK, ServerOK
  <1>5. handler \in [Handlers -> HandlerState] /\ asked \in [Handlers -> Asked]
    BY DEF PartsOK, ServerOK, PageOK, TypeOK
  <1>6. /\ handler' \in [Handlers -> HandlerState]
        /\ handler'[h] = Lists(All) /\ handler'[i] = s
        /\ \A j \in Handlers \ {h, i} : handler'[j] = handler[j]
    BY <1>2, <1>4, <1>5
  <1>7. r \in Asked /\ o \in Asked /\ r # Nothing /\ o # Nothing
    BY <1>1, <1>3, AskedTypes
  <1>8. /\ asked' \in [Handlers -> Asked] /\ asked'[h] = r /\ asked'[i] = o
        /\ \A j \in Handlers \ {h, i} : asked'[j] = Disturbed[j]
    BY <1>2, <1>5, <1>7, DisturbedTypes
  <1>9. PageOK'
    BY <1>2, <1>3, <1>8, PageTypes DEF PartsOK, PageOK
  <1>10. RequestOK(r, Lists(All)) /\ RequestOK(o, s)
    BY <1>1, <1>4, <1>7 DEF RequestOK, IsOneOf
  <1>11. handler[h].pc = "idle" /\ handler[i].pc = "idle"
    BY <1>2 DEF Idle
  <1>12. ASSUME NEW j \in Handlers
        PROVE  \/ /\ handler'[j] = handler[j] /\ (asked'[j] = Nothing <=> asked[j] = Nothing)
                  /\ \/ asked'[j].for = "other"
                     \/ asked'[j].for = asked[j].for /\ asked'[j].view = asked[j].view
               \/ /\ handler[j].pc \notin {"files", "invalidate"}
                  /\ handler'[j].pc \notin {"fill", "files", "invalidate"}
                  /\ RequestOK(asked'[j], handler'[j])
    <2>1. CASE j \in {h, i}
      BY <1>4, <1>6, <1>8, <1>10, <1>11, <2>1
    <2>2. CASE j \notin {h, i}
      BY <1>5, <1>6, <1>8, <2>2, DisturbedTypes
    <2>3. QED BY <2>1, <2>2
  <1>13. QED BY ONLY <1>2, <1>6, <1>9, <1>12, PartsGoOn, ConstantsAssumption, PartsOK

\* The answer of a request is sent, and nothing is wanted of it any more; of others
\* something else may be.
LEMMA AnswerParts ==
  ASSUME ConstantsAssumption, PartsOK, NEW h \in Handlers, Answer(h), page' \in Page,
         NEW a \in [Handlers -> Asked], asked' = [a EXCEPT ![h] = Nothing],
         \A i \in Handlers : a[i] = asked[i] \/ (a[i] = Unawaited /\ asked[i] # Nothing)
  PROVE  PartsOK'
  <1>1. /\ handler[h].pc \in {"listed", "done", "failed"}
        /\ handler' = [handler EXCEPT ![h] = Idle]
        /\ UNCHANGED <<drawing, collection, cache, purge>>
    BY DEF Answer, Becomes
  <1>2. Idle \in HandlerState /\ Idle.pc = "idle" /\ Nothing.for = "nothing"
    BY StateTypes DEF Idle, Nothing
  <1>3. handler \in [Handlers -> HandlerState]
    BY DEF PartsOK, ServerOK, TypeOK
  <1>4. /\ handler' \in [Handlers -> HandlerState] /\ handler'[h] = Idle
        /\ \A i \in Handlers \ {h} : handler'[i] = handler[i]
    BY <1>1, <1>2, <1>3
  <1>5. /\ asked' \in [Handlers -> Asked] /\ asked'[h] = Nothing
        /\ \A i \in Handlers \ {h} : asked'[i] = a[i]
    BY AskedTypes
  <1>6. PageOK'
    BY <1>5 DEF PageOK
  <1>7. RequestOK(Nothing, Idle)
    BY <1>2 DEF RequestOK, IsOneOf
  <1>8. Unawaited # Nothing /\ Unawaited.for = "other"
    BY AskedTypes DEF Unawaited
  <1>9. ASSUME NEW i \in Handlers
        PROVE  \/ /\ handler'[i] = handler[i] /\ (asked'[i] = Nothing <=> asked[i] = Nothing)
                  /\ \/ asked'[i].for = "other"
                     \/ asked'[i].for = asked[i].for /\ asked'[i].view = asked[i].view
               \/ /\ handler[i].pc \notin {"files", "invalidate"}
                  /\ handler'[i].pc \notin {"fill", "files", "invalidate"}
                  /\ RequestOK(asked'[i], handler'[i])
    <2>1. CASE i = h
      BY <1>1, <1>2, <1>4, <1>5, <1>7, <2>1
    <2>2. CASE i # h
      BY <1>4, <1>5, <1>8, <2>2
    <2>3. QED BY <2>1, <2>2
  <1>10. QED BY ONLY <1>1, <1>4, <1>6, <1>9, PartsGoOn, ConstantsAssumption, PartsOK

\* What is given up is wanted of others still.
LEMMA AbandonedTypes ==
  ASSUME asked \in [Handlers -> Asked], NEW h \in Handlers
  PROVE  /\ Abandoned(h) \in [Handlers -> Asked]
         /\ \A i \in Handlers : \/ Abandoned(h)[i] = asked[i]
                                \/ Abandoned(h)[i] = Unawaited /\ asked[i] # Nothing
         /\ \A i \in Rest(h) : Abandoned(h)[i] = Unawaited
         /\ \A i \in Handlers \ Rest(h) : Abandoned(h)[i] = asked[i]
  BY AskedTypes DEF Abandoned, Rest

LEMMA ShowParts ==
  ASSUME ConstantsAssumption, PartsOK, NEW h \in Handlers, Show(h)
  PROVE  PartsOK'
  <1>1. /\ asked[h].for = "refresh" /\ asked[h] # Nothing
        /\ Answer(h) /\ asked' = [asked EXCEPT ![h] = Nothing]
    BY DEF Show, Took, Ends
  <1>2. asked \in [Handlers -> Asked] /\ page \in Page
    BY DEF PartsOK, PageOK
  <1>3. page' \in Page
    <2>1. CASE page.latest # h
      BY <1>2, <2>1 DEF Show
    <2>2. CASE page.latest = h /\ handler[h].pc = "listed"
      <3>1. handler[h].rows \in SUBSET Drawings /\ handler[h].raced \in BOOLEAN
        BY <2>2 DEF PartsOK, ServerOK, TypeOK, HandlerState, Idle, Failed, Done
      <3>2. asked[h].view \in Views /\ asked[h].alone \in BOOLEAN
        BY <1>1, <1>2, AskedFields
      <3>3. PICK v \in Views, R \in SUBSET Drawings, b \in BOOLEAN :
              page' = [page EXCEPT !.latest = None, !.of = v, !.shown = R, !.stale = {},
                                   !.sure = b]
        BY <2>2, <3>1, <3>2 DEF Show
      <3>4. QED BY <1>2, <3>3 DEF Page
    <2>3. CASE page.latest = h /\ handler[h].pc # "listed"
      <3>1. page' = [page EXCEPT !.latest = None, !.missed = TRUE]
        BY <2>3 DEF Show
      <3>2. QED BY <1>2, <3>1 DEF Page
    <2>4. QED BY <2>1, <2>2, <2>3
  <1>4. QED BY ConstantsAssumption, <1>1, <1>2, <1>3, AnswerParts

LEMMA SettleParts ==
  ASSUME ConstantsAssumption, PartsOK, NEW h \in Handlers, Settle(h)
  PROVE  PartsOK'
  <1>1. asked \in [Handlers -> Asked] /\ page \in Page
    BY DEF PartsOK, PageOK
  <1>2. PICK a \in [Handlers -> Asked] :
          /\ asked' = [a EXCEPT ![h] = Nothing]
          /\ \A i \in Handlers : a[i] = asked[i] \/ (a[i] = Unawaited /\ asked[i] # Nothing)
    BY <1>1, AbandonedTypes DEF Settle
  <1>3. page' \in Page
    <2>1. asked[h] # Nothing
      BY DEF Settle, Took
    <2>2. Settled(h) \in SUBSET Drawings
      BY <1>1 DEF Settled, Page
    <2>3. asked[h].alone \in BOOLEAN
      BY <1>1, <2>1, AskedFields
    <2>4. (asked[h].alone /\ asked[h].for # "duplicate") \in BOOLEAN
      BY <2>3
    <2>5. Shows(Settled(h), LeftBy(h), asked[h].alone /\ asked[h].for # "duplicate")
      BY DEF Settle
    <2>6. QED BY <1>1, <2>2, <2>4, <2>5, PageTypes, LeftTypes
  <1>4. Answer(h)
    BY DEF Settle
  <1>5. QED BY ConstantsAssumption, <1>2, <1>3, <1>4, AnswerParts

LEMMA FollowUpParts ==
  ASSUME ConstantsAssumption, PartsOK, NEW h \in Handlers, FollowUp(h)
  PROVE  PartsOK'
  <1>1. asked[h] # Nothing /\ Again(h) /\ handler[h].pc \in {"listed", "done", "failed"}
    BY DEF FollowUp, Took, Answered
  <1>2. asked \in [Handlers -> Asked] /\ page \in Page /\ handler \in [Handlers -> HandlerState]
    BY DEF PartsOK, PageOK, ServerOK, TypeOK
  <1>3. PICK v \in Views, b \in BOOLEAN :
          v = asked[h].view /\ b = (asked[h].alone /\ Rest(h) = {})
    <2>1. asked[h].view \in Views /\ asked[h].alone \in BOOLEAN
      BY <1>1, <1>2, AskedFields
    <2>2. (asked[h].alone /\ Rest(h) = {}) \in BOOLEAN
      BY <2>1
    <2>3. QED BY <2>1, <2>2
  <1>4. PICK r : r = [for |-> "refresh", view |-> v, drawings |-> {}, alone |-> b]
    OBVIOUS
  <1>5. PICK left \in SUBSET Drawings : left = LeftBy(h)
    BY <1>2, LeftTypes
  <1>6. /\ handler' = [handler EXCEPT ![h] = Lists(v)]
        /\ page' = Refreshed([page EXCEPT !.stale = left], h, v)
        /\ asked' = [Abandoned(h) EXCEPT ![h] = r]
        /\ UNCHANGED <<drawing, collection, cache, purge>>
    BY <1>1, <1>3, <1>4, <1>5 DEF Again
  <1>7. r \in Asked /\ r # Nothing
    BY <1>4, AskedTypes
  <1>8. /\ asked' \in [Handlers -> Asked] /\ asked'[h] = r
        /\ \A i \in Handlers \ {h} : asked'[i] = Abandoned(h)[i]
    BY <1>2, <1>6, <1>7, AbandonedTypes
  <1>9. /\ Lists(v) \in HandlerState /\ Lists(v) # Idle
        /\ Lists(v).pc \in {"failed", "listed", "query"}
        /\ Lists(v).pc = "query" => Lists(v).view = v
    BY ListsState DEF PartsOK, ServerOK
  <1>10. /\ handler' \in [Handlers -> HandlerState] /\ handler'[h] = Lists(v)
         /\ \A i \in Handlers \ {h} : handler'[i] = handler[i]
    BY <1>2, <1>6, <1>9
  <1>11. page' \in Page
    BY <1>2, <1>6, PageTypes
  <1>12. RequestOK(r, Lists(v))
    BY <1>4, <1>7, <1>9 DEF RequestOK, IsOneOf
  <1>13. PageOK'
    BY <1>8, <1>11 DEF PageOK
  <1>14. Unawaited # Nothing /\ Unawaited.for = "other"
    BY AskedTypes DEF Unawaited
  <1>15. ASSUME NEW i \in Handlers
        PROVE  \/ /\ handler'[i] = handler[i] /\ (asked'[i] = Nothing <=> asked[i] = Nothing)
                  /\ \/ asked'[i].for = "other"
                     \/ asked'[i].for = asked[i].for /\ asked'[i].view = asked[i].view
               \/ /\ handler[i].pc \notin {"files", "invalidate"}
                  /\ handler'[i].pc \notin {"fill", "files", "invalidate"}
                  /\ RequestOK(asked'[i], handler'[i])
    <2>1. CASE i = h
      BY <1>1, <1>8, <1>9, <1>10, <1>12, <2>1
    <2>2. CASE i # h
      <3>1. \/ Abandoned(h)[i] = asked[i]
            \/ Abandoned(h)[i] = Unawaited /\ asked[i] # Nothing
        BY <1>2, AbandonedTypes
      <3>2. QED BY <1>8, <1>10, <1>14, <2>2, <3>1
    <2>3. QED BY <2>1, <2>2
  <1>16. QED BY ONLY <1>6, <1>10, <1>13, <1>15, PartsGoOn, ConstantsAssumption, PartsOK

-----------------------------------------------------------------------------
(* What is served. *)

\* A request is served according to the step it is at.
LEMMA ServedBy ==
  ASSUME NEW h \in Handlers, Serve(h)
  PROVE  /\ handler[h].pc \notin {"idle", "listed", "done", "failed"}
         /\ handler[h].pc = "query" => Query(h)
         /\ handler[h].pc = "fill" => Fill(h)
         /\ handler[h].pc = "ensure" => EnsureTrash(h)
         /\ handler[h].pc = "write" => Write(h)
         /\ handler[h].pc = "delete" => DeleteCommit(h)
         /\ handler[h].pc = "invalidate" => Invalidate(h)
  <1>1. /\ Query(h) => handler[h].pc = "query"
        /\ Fill(h) => handler[h].pc = "fill"
        /\ Invalidate(h) => handler[h].pc = "invalidate"
        /\ EnsureTrash(h) => handler[h].pc \in {"ensure", "trash"}
        /\ CopyFiles(h) \/ CopyFails(h) => handler[h].pc = "files"
    BY DEF Query, Fill, Invalidate, EnsureTrash, CopyFiles, CopyFails
  <1>2. /\ Write(h) => handler[h].pc = "write"
        /\ DeleteCommit(h) => handler[h].pc = "delete"
    BY DEF Write, DeleteCommit
  <1>3. /\ RemoveCommit(h) => handler[h].pc = "remove"
        /\ ImportCommit(h) => handler[h].pc = "import"
    BY DEF RemoveCommit, ImportCommit
  <1>4. QED BY <1>1, <1>2, <1>3 DEF Serve

\* The other requests are where they were, but for the mark of those whose list is
\* overtaken, and the job of the purge is not at anything.
LEMMA ServedOthers ==
  ASSUME TypeOK, NEW h \in Handlers, Serve(h), NEW g \in Handlers \ {h}
  PROVE  \/ handler'[g] = handler[g]
         \/ handler[g].pc = "fill" /\ handler'[g] = [handler[g] EXCEPT !.raced = TRUE]
  <1>1. handler \in [Handlers -> HandlerState]
    BY DEF TypeOK
  <1>2. Raced[g] = IF handler[g].pc = "fill" THEN [handler[g] EXCEPT !.raced = TRUE] ELSE handler[g]
    BY DEF Raced
  <1>3. Raced = [i \in Handlers |-> Raced[i]]
    BY DEF Raced
  <1>4. ASSUME NEW s, handler' = [handler EXCEPT ![h] = s]
        PROVE  handler'[g] = handler[g]
    BY <1>1, <1>4
  <1>5. ASSUME NEW s, handler' = [Raced EXCEPT ![h] = s]
        PROVE  handler'[g] = Raced[g]
    BY <1>3, <1>5
  <1>6. CASE Query(h) \/ Fill(h) \/ CopyFiles(h)
    BY <1>4, <1>6 DEF Query, Fill, CopyFiles, Becomes
  <1>7. CASE Invalidate(h) \/ CopyFails(h)
    BY <1>2, <1>5, <1>7 DEF Invalidate, CopyFails
  <1>8. CASE EnsureTrash(h)
    BY <1>4, <1>8 DEF EnsureTrash, Becomes
  <1>9. CASE Write(h)
    BY <1>4, <1>9 DEF Write, Becomes
  <1>10. CASE DeleteCommit(h)
    BY <1>4, <1>10 DEF DeleteCommit, Becomes
  <1>11. CASE RemoveCommit(h)
    BY <1>4, <1>11 DEF RemoveCommit, Becomes
  <1>12. CASE ImportCommit(h)
    BY <1>4, <1>12 DEF ImportCommit, Becomes
  <1>13. QED BY <1>6, <1>7, <1>8, <1>9, <1>10, <1>11, <1>12 DEF Serve

\* What becomes of a request that lists, moves or deletes.
LEMMA ServedList ==
  ASSUME TypeOK, NEW h \in Handlers, Serve(h)
  PROVE  /\ handler[h].pc = "query" =>
              handler'[h] = [pc |-> "fill", view |-> handler[h].view,
                             rows |-> Listing(handler[h].view), raced |-> FALSE]
         /\ handler[h].pc = "fill" =>
              handler'[h] = [pc |-> "listed", rows |-> handler[h].rows, raced |-> handler[h].raced]
         /\ handler[h].pc \in {"query", "fill"} => UNCHANGED drawing
  <1>1. handler \in [Handlers -> HandlerState]
    BY DEF TypeOK
  <1>2. CASE handler[h].pc = "query"
    BY <1>1, <1>2, ServedBy DEF Query, Becomes
  <1>3. CASE handler[h].pc = "fill"
    BY <1>1, <1>3, ServedBy DEF Fill, Becomes, Listed
  <1>4. QED BY <1>2, <1>3

\* A place as the row of a drawing that was moved there says it.
MovedTo(d, p) ==
  /\ drawing' \in [Drawings -> Row] /\ drawing'[d].state = "there" /\ drawing'[d].place = p
  /\ \A o \in Drawings \ {d} : drawing'[o] = drawing[o]

LEMMA ServedMove ==
  ASSUME TypeOK, NEW h \in Handlers, Serve(h)
  PROVE  /\ handler[h].pc = "ensure" =>
              /\ UNCHANGED drawing
              /\ \/ handler'[h] = Failed
                 \/ /\ handler'[h].pc = "write" /\ handler'[h].write = handler[h].write
                    /\ handler'[h].drawing = handler[h].drawing
                    /\ handler'[h].place = handler[h].place
         /\ handler[h].pc = "write" /\ handler[h].write = "move" =>
              \/ handler'[h] = Failed /\ UNCHANGED drawing
              \/ /\ handler'[h] = [pc |-> "invalidate"]
                 /\ MovedTo(handler[h].drawing, handler[h].place)
         /\ handler[h].pc = "delete" =>
              /\ handler'[h] = Failed \/ handler'[h] = [pc |-> "invalidate"]
              /\ drawing' = [drawing EXCEPT ![handler[h].drawing] = Deleted]
         /\ handler[h].pc = "invalidate" => handler'[h] = Done /\ UNCHANGED drawing
  <1>1. handler \in [Handlers -> HandlerState]
    BY DEF TypeOK
  <1>2. CASE handler[h].pc = "ensure"
    <2>1. EnsureTrash(h)
      BY <1>2, ServedBy
    <2>2. handler'[h] = Failed \/ handler'[h] = [handler[h] EXCEPT !.pc = "write"]
      BY <1>1, <1>2, <2>1 DEF EnsureTrash, Becomes
    <2>3. PICK s \in HandlerState : s = handler[h]
      BY <1>1
    <2>4. s \in [pc : {"ensure", "write"}, write : {"move", "create", "copy"},
                 drawing : Drawings, place : Places]
      BY <1>2, <2>3 DEF HandlerState, Idle, Failed, Done
    <2>5. QED BY <1>2, <2>1, <2>2, <2>3, <2>4 DEF EnsureTrash
  <1>3. CASE handler[h].pc = "write" /\ handler[h].write = "move"
    <2>1. Write(h)
      BY <1>3, ServedBy
    <2>2. CASE Refused(handler[h])
      BY <1>1, <2>1, <2>2 DEF Write, Becomes
    <2>3. CASE ~ Refused(handler[h])
      <3>1. PICK b : drawing' = [drawing EXCEPT ![handler[h].drawing] = RowAt(handler[h].place, b)]
        BY <2>1, <2>3 DEF Write
      <3>2. handler'[h] = [pc |-> "invalidate"]
        BY <1>1, <1>3, <2>1, <2>3 DEF Write, Becomes
      <3>3. handler[h].drawing \in Drawings
        BY <1>3, HandlerTypes
      <3>4. drawing' \in [Drawings -> Row]
        <4>1. Serve(h) => Next
          BY DEF Next
        <4>2. QED BY <4>1, ConstantsAssumption, TypeStep DEF TypeOK
      <3>5. PICK d, p : d \in Drawings /\ d = handler[h].drawing /\ p = handler[h].place
        BY <3>3
      <3>6. drawing' = [drawing EXCEPT ![d] = RowAt(p, b)]
        BY <3>1, <3>5
      <3>7. /\ drawing'[d] = RowAt(p, b)
            /\ \A o \in Drawings \ {d} : drawing'[o] = drawing[o]
        BY <3>5, <3>6 DEF TypeOK
      <3>8. RowAt(p, b).state = "there" /\ RowAt(p, b).place = p
        BY DEF RowAt
      <3>9. MovedTo(d, p)
        BY <3>4, <3>7, <3>8 DEF MovedTo
      <3>10. QED BY <1>3, <3>2, <3>5, <3>9
    <2>4. QED BY <2>2, <2>3
  <1>4. CASE handler[h].pc = "delete"
    BY <1>1, <1>4, ServedBy DEF DeleteCommit, Becomes
  <1>5. CASE handler[h].pc = "invalidate"
    <2>1. Raced = [i \in Handlers |-> Raced[i]]
      BY DEF Raced
    <2>2. QED BY <1>5, <2>1, ServedBy DEF Invalidate
  <1>6. QED BY <1>2, <1>3, <1>4, <1>5

LEMMA ShapedParts ==
  ASSUME TypeOK, PageOK
  PROVE  PageShaped
  <1>1. handler = [h \in Handlers |-> handler[h]] /\ asked = [h \in Handlers |-> asked[h]]
    BY DEF TypeOK, PageOK
  <1>2. page = [view |-> page.view, shown |-> page.shown, stale |-> page.stale,
                latest |-> page.latest, of |-> page.of, missed |-> page.missed,
                strayed |-> page.strayed, sure |-> page.sure]
    BY DEF PageOK, Page
  <1>3. ASSUME NEW h \in Handlers, asked[h] # Nothing
        PROVE  asked[h] = [for |-> asked[h].for, view |-> asked[h].view,
                           drawings |-> asked[h].drawings, alone |-> asked[h].alone]
    BY <1>3, AskedFields DEF PageOK
  <1>4. QED BY <1>1, <1>2, <1>3 DEF PageShaped

\* What the requests and the page are is kept by every step of the page.
LEMMA ServeParts ==
  ASSUME ConstantsAssumption, PartsOK, NEW h \in Handlers, Serve(h), UNCHANGED <<page, asked>>
  PROVE  PartsOK'
  <1>1. TypeOK /\ ListsOK /\ purge = Resting /\ RequestsOK /\ PageOK
    BY DEF PartsOK, ServerOK
  <1>2. Next
    BY DEF Next
  <1>3. purge' = purge
    BY DEF Serve, Query, Fill, Invalidate, EnsureTrash, Write, CopyFiles,
           CopyFails, DeleteCommit, RemoveCommit, ImportCommit
  <1>4. PurgeIsAtIt
    BY <1>1 DEF PurgeIsAtIt, Resting
  <1>5. TypeOK' /\ ListsOK'
    BY ConstantsAssumption, <1>1, <1>2, <1>4, TypeStep, ListsStep
  <1>6. \A i \in Handlers : handler[i] # Idle => handler'[i] # Idle
    BY <1>1, ShapedParts, ServeKeeps
  <1>7. ASSUME NEW g \in Handlers
        PROVE  RequestOK(asked[g], handler'[g])
    <2>1. RequestOK(asked[g], handler[g])
      BY <1>1 DEF RequestsOK
    <2>2. PICK s, t, a : s \in HandlerState /\ s = handler[g] /\ t = handler'[g] /\ a = asked[g]
      BY <1>1 DEF TypeOK
    <2>3. s # Idle => t # Idle
      BY <1>6, <2>2
    <2>4. CASE g = h
      <3>1. s.pc \notin {"idle", "listed", "done", "failed"}
        BY <2>2, <2>4, ServedBy
      <3>2. /\ s.pc = "query" => t = [pc |-> "fill", view |-> s.view, rows |-> Listing(s.view),
                                     raced |-> FALSE]
            /\ s.pc = "fill" => t = [pc |-> "listed", rows |-> s.rows, raced |-> s.raced]
        BY <1>1, <2>2, <2>4, ServedList
      <3>3. /\ s.pc = "ensure" => t = Failed \/ (t.pc = "write" /\ t.write = s.write)
            /\ s.pc = "write" /\ s.write = "move" => t = Failed \/ t = [pc |-> "invalidate"]
            /\ s.pc = "delete" => t = Failed \/ t = [pc |-> "invalidate"]
            /\ s.pc = "invalidate" => t = Done
        BY <1>1, <2>2, <2>4, ServedMove
      <3>4. s # Idle
        BY <3>1 DEF Idle
      <3>5. RequestOK(a, s)
        BY <2>1, <2>2
      <3>6. a # Nothing /\ t # Idle
        BY <2>3, <3>4, <3>5 DEF RequestOK
      <3>7. IsOneOf(a, t)
        BY <3>1, <3>2, <3>3, <3>5 DEF RequestOK, IsOneOf, Failed, Done
      <3>8. QED BY <2>2, <3>6, <3>7 DEF RequestOK
    <2>5. CASE g # h
      <3>1. t = s \/ (s.pc = "fill" /\ t = [s EXCEPT !.raced = TRUE])
        BY <1>1, <2>2, <2>5, ServedOthers
      <3>2. s.pc = "fill" =>
              s \in [pc : {"fill"}, view : Views, rows : SUBSET Drawings, raced : BOOLEAN]
        BY <2>2 DEF HandlerState, Idle, Failed, Done
      <3>3. t.pc = s.pc /\ (s.pc = "fill" => t.view = s.view) /\ (t # s => s.pc = "fill")
        BY <3>1, <3>2
      <3>4. CASE t = s
        BY <2>1, <2>2, <3>4
      <3>5. CASE t # s
        <4>1. RequestOK(a, s)
          BY <2>1, <2>2
        <4>2. t # Idle /\ s # Idle
          BY <3>3, <3>5 DEF Idle
        <4>3. QED BY <2>2, <3>3, <3>5, <4>1, <4>2 DEF RequestOK, IsOneOf
      <3>6. QED BY <3>4, <3>5
    <2>6. QED BY <2>4, <2>5
  <1>8. RequestsOK'
    BY <1>7 DEF RequestsOK
  <1>9. PageOK'
    BY <1>1 DEF PageOK
  <1>10. QED BY <1>1, <1>3, <1>5, <1>8, <1>9 DEF PartsOK, ServerOK, Resting

LEMMA PartsInit == ConstantsAssumption /\ DashInit => PartsOK
  <1> SUFFICES ASSUME ConstantsAssumption, DashInit PROVE PartsOK
    OBVIOUS
  <1>1. Init
    BY DEF DashInit
  <1>2. TypeOK /\ ListsOK /\ purge = Resting
    <2>1. StaleOnlyWhenRaced /\ ReadsAreFresh
      BY <1>1 DEF Init, NoBody, Idle, StaleOnlyWhenRaced, ReadsAreFresh
    <2>2. QED BY ConstantsAssumption, <1>1, <2>1, InitType DEF ListsOK, Init
  <1>3. PageOK
    BY DashAssumption, AskedTypes DEF DashInit, PageOK, Page
  <1>4. RequestsOK
    BY <1>1 DEF DashInit, Init, RequestsOK, RequestOK, IsOneOf, Nothing, Idle
  <1>5. QED BY <1>2, <1>3, <1>4 DEF PartsOK, ServerOK

LEMMA PartsStep == ConstantsAssumption /\ PartsOK /\ [DashNext]_dashVars => PartsOK'
  <1> SUFFICES ASSUME ConstantsAssumption, PartsOK, [DashNext]_dashVars PROVE PartsOK'
    OBVIOUS
  <1>1. CASE Batch
    BY ConstantsAssumption, <1>1, BatchParts
  <1>2. ASSUME NEW h \in Handlers,
               Act(h) \/ Show(h) \/ FollowUp(h) \/ Settle(h) \/ Elsewhere(h)
        PROVE  PartsOK'
    BY ConstantsAssumption, <1>2, SelectParts, RemoveParts, RemoveSelectedParts, ShowParts,
       FollowUpParts, SettleParts, ElsewhereParts DEF Act
  <1>3. ASSUME NEW h \in Handlers, Serve(h), UNCHANGED <<page, asked>>
        PROVE  PartsOK'
    BY ConstantsAssumption, <1>3, ServeParts
  <1>4. ASSUME NEW v \in Views, Expire(v), UNCHANGED <<page, asked>>
        PROVE  PartsOK'
    <2>1. TypeOK /\ ListsOK /\ PurgeIsAtIt /\ Next
      BY <1>4 DEF PartsOK, ServerOK, Next, PurgeIsAtIt, Resting
    <2>2. TypeOK' /\ ListsOK'
      BY ConstantsAssumption, <2>1, TypeStep, ListsStep
    <2>3. QED BY <1>4, <2>2 DEF Expire, PartsOK, ServerOK, PageOK, RequestsOK, Resting
  <1>5. CASE UNCHANGED dashVars
    <2>1. TypeOK /\ ListsOK /\ PurgeIsAtIt /\ UNCHANGED vars
      BY <1>5 DEF PartsOK, ServerOK, PurgeIsAtIt, Resting, dashVars
    <2>2. TypeOK' /\ ListsOK'
      BY ConstantsAssumption, <2>1, TypeStep, ListsStep
    <2>3. QED BY <1>5, <2>1, <2>2 DEF vars, dashVars, PartsOK, ServerOK, PageOK, RequestsOK, Resting
  <1>6. QED BY <1>1, <1>2, <1>3, <1>4, <1>5 DEF DashNext

-----------------------------------------------------------------------------
(* One thing at a time. *)

\* What is under way with a request that is alone is of its batch, and in the view
\* that is selected.
BelongsTogether ==
  \A h \in Handlers : asked[h] # Nothing /\ asked[h].alone =>
    /\ asked[h].view = page.view
    /\ \A i \in Handlers \ {h} :
         asked[i] # Nothing => asked[i] = asked[h] /\ Several(asked[h].drawings)

\* The answer to a refresh that is alone is the list, or it is known to be overtaken.
AnswersExact ==
  \A h \in Handlers, v \in Views :
    asked[h].for = "refresh" /\ asked[h].alone /\ asked[h].view = v =>
      /\ asked[h].drawings = {}
      /\ handler[h].pc = "listed" => handler[h].raced \/ handler[h].rows = Listing(v)

AloneOK == BelongsTogether /\ AnswersExact

\* While nothing is under way, nothing is about to change or to be announced.
LEMMA QuietServer ==
  ASSUME PartsOK, Quiet
  PROVE  ~ Unannounced /\ \A h \in Handlers : asked[h] = Nothing
  BY DEF PartsOK, ServerOK, RequestsOK, RequestOK, Quiet, Unannounced, Resting, Idle

\* Requests that begin are alone where nothing was under way, and only then.
LEMMA AsksTogether ==
  ASSUME PartsOK, NEW H \in SUBSET Handlers,
         NEW for \in {"refresh", "move", "delete", "duplicate", "upload", "remove"},
         NEW v \in Views, NEW S \in SUBSET Drawings, Asks(H, for, v, S), page'.view = v,
         \A h, i \in H : h # i => Several(S)
  PROVE  /\ BelongsTogether'
         /\ \A h \in Handlers : asked'[h] # Nothing /\ asked'[h].alone => Quiet /\ h \in H
  <1>1. PICK r : r = [for |-> for, view |-> v, drawings |-> S, alone |-> Quiet]
    OBVIOUS
  <1>2. asked \in [Handlers -> Asked]
    BY DEF PartsOK, PageOK
  <1>3. /\ \A h \in H : asked'[h] = r
        /\ \A h \in Handlers \ H :
             /\ asked[h] = Nothing <=> asked'[h] = Nothing
             /\ asked[h] # Nothing => ~ asked'[h].alone
    <2>1. /\ asked' \in [Handlers -> Asked]
          /\ \A h \in H : asked'[h] = [for |-> for, view |-> v, drawings |-> S, alone |-> Quiet]
                            /\ asked'[h] # Nothing
          /\ \A h \in Handlers \ H :
               /\ asked[h] = Nothing <=> asked'[h] = Nothing
               /\ asked'[h].for = asked[h].for
               /\ asked[h] # Nothing => asked'[h].view = asked[h].view /\ ~ asked'[h].alone
      BY ONLY <1>2, Asks(H, for, v, S), AsksTypes, v \in Views, S \in SUBSET Drawings,
              H \in SUBSET Handlers, ZenonT(60),
              for \in {"refresh", "move", "delete", "duplicate", "upload", "remove"}
    <2>2. QED BY ONLY <1>1, <2>1
  <1>4. r.alone = Quiet /\ r.view = v /\ r.drawings = S
    BY <1>1
  <1>5. \A h \in Handlers : asked'[h] # Nothing /\ asked'[h].alone => Quiet /\ h \in H
    BY <1>3, <1>4
  <1>6. Quiet => \A h \in Handlers \ H : asked'[h] = Nothing
    BY <1>3, QuietServer
  <1>7. ASSUME NEW h \in Handlers, asked'[h] # Nothing, asked'[h].alone
        PROVE  /\ asked'[h].view = page'.view
               /\ \A i \in Handlers \ {h} :
                    asked'[i] # Nothing => asked'[i] = asked'[h] /\ Several(asked'[h].drawings)
    <2>1. Quiet /\ h \in H /\ asked'[h] = r
      BY <1>3, <1>5, <1>7
    <2>2. ASSUME NEW i \in Handlers \ {h}, asked'[i] # Nothing
          PROVE  asked'[i] = asked'[h] /\ Several(asked'[h].drawings)
      BY <1>3, <1>4, <1>6, <2>1, <2>2
    <2>3. QED BY <1>4, <2>1, <2>2
  <1>8. BelongsTogether'
    BY <1>7 DEF BelongsTogether, Several
  <1>9. QED BY <1>5, <1>8

\* A list that is asked for while nothing is about to change is right, or overtaken.
LEMMA ListsExact ==
  ASSUME PartsOK, ~ Unannounced, NEW v \in Views, Lists(v).pc = "listed"
  PROVE  Lists(v).raced \/ Lists(v).rows = Listing(v)
  BY ListsState DEF PartsOK, ServerOK, ListsOK, StaleOnlyWhenRaced

\* Where no refresh is alone there is no answer to one.
LEMMA NoRefresh ==
  ASSUME \A h \in Handlers : asked'[h] # Nothing /\ asked'[h].alone => asked'[h].for # "refresh"
  PROVE  AnswersExact'
  BY DEF AnswersExact, Nothing

\* And where nothing is alone, nothing is said of it.
LEMMA NobodyAlone ==
  ASSUME \A h \in Handlers : asked'[h] # Nothing => ~ asked'[h].alone
  PROVE  AloneOK'
  <1>1. AnswersExact'
    BY NoRefresh
  <1>2. QED BY <1>1 DEF AloneOK, BelongsTogether

LEMMA BatchAlone ==
  ASSUME ConstantsAssumption, PartsOK, Batch
  PROVE  AloneOK'
  <1>1. PICK S \in SUBSET Drawings :
          \E at \in [S -> Handlers] : \E for, begun, rows, left, sure :
            /\ Sends(S, at, for, begun) /\ Shows(rows, left, sure)
            /\ BatchOf(S, for, begun, rows, left, sure)
    BY ConstantsAssumption, BatchSends
  <1>2. PICK at \in [S -> Handlers] : \E for, begun, rows, left, sure :
          /\ Sends(S, at, for, begun) /\ Shows(rows, left, sure)
          /\ BatchOf(S, for, begun, rows, left, sure)
    BY <1>1
  <1>3. PICK for, begun, rows, left, sure :
          /\ Sends(S, at, for, begun) /\ Shows(rows, left, sure)
          /\ BatchOf(S, for, begun, rows, left, sure)
    BY <1>2
  <1>4. PICK H \in SUBSET Handlers : H = {at[d] : d \in S}
    OBVIOUS
  <1>5. PICK v \in Views : v = page.view
    BY DEF PartsOK, PageOK, Page
  <1>6. PICK T \in SUBSET Drawings : Asks(H, for, v, T) /\ (Several(S) => T = S)
    <2>1. PICK T \in SUBSET Drawings : T = Batched(for, S) /\ Asks(H, for, page.view, T)
      BY <1>3, <1>4, SendsAsks
    <2>2. Asks(H, for, v, T)
      BY ONLY <1>4, <1>5, <2>1
    <2>3. QED BY <2>1, <2>2 DEF Batched
  <1>7. /\ S # {} /\ for \in {"move", "delete", "duplicate", "upload"}
        /\ page'.view = v
    <2>1. /\ \A d \in S : MayBegin(for, begun[d])
          /\ rows \in SUBSET Drawings /\ left \in SUBSET Drawings /\ sure \in BOOLEAN
      BY <1>3 DEF BatchOf
    <2>2. S # {}
      BY <1>3 DEF Sends
    <2>3. page'.view = v
      BY <1>3, <1>5, <2>1, PageTypes DEF PartsOK, PageOK
    <2>4. QED BY <2>1, <2>2, <2>3 DEF MayBegin
  <1>8. ASSUME NEW h \in H, NEW i \in H, h # i PROVE Several(T)
    <2>1. \E c, d \in S : c # d
      BY <1>4, <1>8
    <2>2. QED BY <1>6, <2>1 DEF Several
  <1>9. for \in {"refresh", "move", "delete", "duplicate", "upload", "remove"}
    BY <1>7
  <1>10. /\ BelongsTogether'
        /\ \A h \in Handlers : asked'[h] # Nothing /\ asked'[h].alone => Quiet /\ h \in H
    BY <1>6, <1>7, <1>8, <1>9, AsksTogether
  <1>11. \A h \in H : asked'[h].for = for
    BY <1>6 DEF Asks
  <1>12. AnswersExact'
    BY <1>7, <1>10, <1>11, NoRefresh
  <1>13. QED BY <1>10, <1>12 DEF AloneOK

\* One request that begins is alone where nothing was under way.
LEMMA OneTogether ==
  ASSUME PartsOK, NEW h \in Handlers, NEW for \in {"refresh", "remove"}, NEW v \in Views,
         Asks({h}, for, v, {}), page'.view = v
  PROVE  /\ BelongsTogether'
         /\ \A i \in Handlers : asked'[i] # Nothing /\ asked'[i].alone => Quiet /\ i = h
         /\ asked'[h].for = for /\ asked'[h].view = v /\ asked'[h].drawings = {}
  <1>1. PICK H \in SUBSET Handlers, S \in SUBSET Drawings : H = {h} /\ S = {}
    OBVIOUS
  <1>2. Asks(H, for, v, S) /\ \A i, j \in H : i # j => Several(S)
    BY <1>1
  <1>3. for \in {"refresh", "move", "delete", "duplicate", "upload", "remove"}
    OBVIOUS
  <1>4. /\ BelongsTogether'
        /\ \A i \in Handlers : asked'[i] # Nothing /\ asked'[i].alone => Quiet /\ i \in H
    BY <1>2, <1>3, AsksTogether
  <1>5. asked'[h] = [for |-> for, view |-> v, drawings |-> {}, alone |-> Quiet]
    BY AskOne DEF PartsOK
  <1>6. QED BY <1>1, <1>4, <1>5

LEMMA SelectAlone ==
  ASSUME PartsOK, NEW h \in Handlers, NEW v \in Views, Select(h, v)
  PROVE  AloneOK'
  <1>1. /\ handler' = [handler EXCEPT ![h] = Lists(v)]
        /\ Asks({h}, "refresh", v, {})
        /\ page' = Refreshed([page EXCEPT !.view = v], h, v)
        /\ UNCHANGED drawing
    BY DEF Select, List, Begins
  <1>2. page'.view = v
    BY <1>1, PageTypes DEF PartsOK, PageOK
  <1>3. /\ BelongsTogether'
        /\ \A i \in Handlers : asked'[i] # Nothing /\ asked'[i].alone => Quiet /\ i = h
        /\ asked'[h].for = "refresh" /\ asked'[h].view = v /\ asked'[h].drawings = {}
    BY <1>1, <1>2, OneTogether
  <1>4. handler'[h] = Lists(v)
    BY <1>1 DEF PartsOK, ServerOK, TypeOK
  <1>5. Listing(v)' = Listing(v)
    BY <1>1, ListingStays
  <1>6. ASSUME NEW i \in Handlers, NEW w \in Views,
               asked'[i].for = "refresh", asked'[i].alone, asked'[i].view = w
        PROVE  /\ asked'[i].drawings = {}
               /\ handler'[i].pc = "listed" => handler'[i].raced \/ handler'[i].rows = Listing(w)'
    <2>1. asked'[i] # Nothing
      BY <1>6 DEF Nothing
    <2>2. i = h /\ ~ Unannounced
      BY <1>3, <1>6, <2>1, QuietServer
    <2>3. Lists(v).pc = "listed" => Lists(v).raced \/ Lists(v).rows = Listing(v)
      BY <2>2, ListsExact
    <2>4. w = v
      BY <1>3, <1>6, <2>2
    <2>5. QED BY <1>3, <1>4, <1>5, <2>2, <2>3, <2>4
  <1>7. QED BY <1>3, <1>6 DEF AloneOK, AnswersExact

LEMMA RemoveAlone ==
  ASSUME PartsOK, NEW h \in Handlers, NEW k \in Collections, RemoveCollection(h, k)
  PROVE  AloneOK'
  <1>1. PICK v \in Views : v = page.view
    BY DEF PartsOK, PageOK, Page
  <1>2. Asks({h}, "remove", v, {}) /\ Stays(Quiet)
    BY <1>1 DEF RemoveCollection
  <1>3. page'.view = v
    <2>1. page.shown \in SUBSET Drawings /\ Quiet \in BOOLEAN
      BY DEF PartsOK, PageOK, Page, Quiet
    <2>2. QED BY <1>1, <1>2, <2>1, PageTypes DEF PartsOK, PageOK
  <1>4. /\ BelongsTogether'
        /\ \A i \in Handlers : asked'[i] # Nothing /\ asked'[i].alone => Quiet /\ i = h
        /\ asked'[h].for = "remove"
    BY <1>2, <1>3, OneTogether
  <1>5. AnswersExact'
    BY <1>4, NoRefresh
  <1>6. QED BY <1>4, <1>5 DEF AloneOK

LEMMA RemoveSelectedAlone ==
  ASSUME PartsOK, NEW h \in Handlers, NEW i \in Handlers,
         NEW k \in Collections, RemoveSelected(h, i, k)
  PROVE  AloneOK'
  <1>1. PICK r, o : /\ r = [for |-> "refresh", view |-> All, drawings |-> {}, alone |-> FALSE]
                    /\ o = [for |-> "remove", view |-> k, drawings |-> {}, alone |-> FALSE]
    OBVIOUS
  <1>2. h # i /\ asked' = [Disturbed EXCEPT ![h] = r, ![i] = o]
    BY <1>1 DEF RemoveSelected
  <1>3. asked \in [Handlers -> Asked]
    BY DEF PartsOK, PageOK
  <1>4. asked'[h] = r /\ asked'[i] = o /\ \A j \in Handlers \ {h, i} : asked'[j] = Disturbed[j]
    BY <1>2, <1>3, DisturbedTypes
  <1>5. ~ r.alone /\ ~ o.alone
    BY <1>1
  <1>6. \A j \in Handlers : asked'[j] # Nothing => ~ asked'[j].alone
    BY <1>3, <1>4, <1>5, DisturbedTypes
  <1>7. QED BY <1>6, NobodyAlone

LEMMA ElsewhereAlone ==
  ASSUME PartsOK, NEW h \in Handlers, Elsewhere(h)
  PROVE  AloneOK'
  <1>1. asked' = [Disturbed EXCEPT ![h] = Unawaited]
    BY DEF Elsewhere
  <1>2. asked \in [Handlers -> Asked]
    BY DEF PartsOK, PageOK
  <1>3. asked'[h] = Unawaited /\ \A i \in Handlers \ {h} : asked'[i] = Disturbed[i]
    BY <1>1, <1>2, DisturbedTypes
  <1>4. \A i \in Handlers : asked'[i] # Nothing => ~ asked'[i].alone
    BY <1>2, <1>3, DisturbedTypes DEF Unawaited
  <1>5. QED BY <1>4, NobodyAlone

\* A request that is answered while another one is alone is of its batch.
LEMMA AloneRest ==
  ASSUME BelongsTogether, NEW h \in Handlers, asked[h] # Nothing, NEW i \in Handlers \ {h},
         asked[i] # Nothing, asked[i].alone \/ asked[h].alone
  PROVE  i \in Rest(h) /\ asked[i] = asked[h]
  <1>1. asked[i] = asked[h] /\ Several(asked[h].drawings)
    BY DEF BelongsTogether
  <1>2. QED BY <1>1 DEF Rest

\* What is left of a batch is as together as it was, and what is given up is not alone.
LEMMA AnswerAlone ==
  ASSUME PartsOK, AloneOK, NEW h \in Handlers, asked[h] # Nothing, Answer(h),
         page'.view = page.view,
         asked' = [asked EXCEPT ![h] = Nothing] \/ asked' = [Abandoned(h) EXCEPT ![h] = Nothing]
  PROVE  AloneOK'
  <1>1. asked \in [Handlers -> Asked] /\ BelongsTogether
    BY DEF PartsOK, PageOK, AloneOK
  <1>2. /\ \A i \in Handlers \ {h} : handler'[i] = handler[i]
        /\ UNCHANGED drawing
    BY DEF Answer, Becomes, PartsOK, ServerOK, TypeOK
  <1>3. CASE asked' = [asked EXCEPT ![h] = Nothing]
    <2>1. asked'[h] = Nothing /\ \A i \in Handlers \ {h} : asked'[i] = asked[i]
      BY <1>1, <1>3
    <2>2. BelongsTogether'
      BY <1>1, <2>1 DEF BelongsTogether, Several
    <2>3. \A v \in Views : Listing(v)' = Listing(v)
      BY <1>2, ListingStays
    <2>4. AnswersExact
      BY DEF AloneOK
    <2>5. AnswersExact'
      BY <1>2, <2>1, <2>3, <2>4 DEF AnswersExact, Nothing
    <2>6. QED BY <2>2, <2>5 DEF AloneOK
  <1>4. CASE asked' = [Abandoned(h) EXCEPT ![h] = Nothing]
    <2>1. asked'[h] = Nothing /\ \A i \in Handlers \ {h} : asked'[i] = Abandoned(h)[i]
      BY <1>1, <1>4, AbandonedTypes
    <2>2. ASSUME NEW i \in Handlers, asked'[i] # Nothing PROVE ~ asked'[i].alone
      <3>1. i \in Handlers \ {h}
        BY <2>1, <2>2
      <3>2. CASE i \in Rest(h)
        BY <1>1, <2>1, <3>1, <3>2, AbandonedTypes DEF Unawaited
      <3>3. CASE i \notin Rest(h)
        <4>1. asked'[i] = asked[i]
          BY <1>1, <2>1, <3>1, <3>3, AbandonedTypes
        <4>2. QED BY <1>1, <2>2, <3>1, <3>3, <4>1, AloneRest
      <3>4. QED BY <3>2, <3>3
    <2>3. QED BY <2>2, NobodyAlone
  <1>5. QED BY <1>3, <1>4

LEMMA ShowAlone ==
  ASSUME PartsOK, AloneOK, NEW h \in Handlers, Show(h)
  PROVE  AloneOK'
  <1>1. /\ asked[h] # Nothing /\ Answer(h) /\ asked' = [asked EXCEPT ![h] = Nothing]
    BY DEF Show, Took, Ends
  <1>2. page \in Page
    BY DEF PartsOK, PageOK
  <1>3. page'.view = page.view
    <2>1. CASE page.latest # h
      BY <2>1 DEF Show
    <2>2. CASE page.latest = h /\ handler[h].pc = "listed"
      <3>1. PICK v, R, b :
              page' = [page EXCEPT !.latest = None, !.of = v, !.shown = R, !.stale = {}, !.sure = b]
        BY <2>2 DEF Show
      <3>2. QED BY <1>2, <3>1 DEF Page
    <2>3. CASE page.latest = h /\ handler[h].pc # "listed"
      <3>1. page' = [page EXCEPT !.latest = None, !.missed = TRUE]
        BY <2>3 DEF Show
      <3>2. QED BY <1>2, <3>1 DEF Page
    <2>4. QED BY <2>1, <2>2, <2>3
  <1>4. QED BY <1>1, <1>3, AnswerAlone

\* What Settle shows.
LEMMA SettleShows ==
  ASSUME PageOK, NEW h \in Handlers, Settle(h)
  PROVE  /\ asked[h] # Nothing /\ Settled(h) \in SUBSET Drawings
         /\ page'.view = page.view /\ page'.shown = Settled(h)
         /\ page'.sure = (page.sure /\ asked[h].alone /\ asked[h].for # "duplicate")
  <1>1. asked[h] # Nothing
    BY DEF Settle, Took
  <1>2. Settled(h) \in SUBSET Drawings
    BY DEF Settled, Page, PageOK
  <1>3. asked[h].alone \in BOOLEAN
    BY <1>1, AskedFields DEF PageOK
  <1>4. PICK b \in BOOLEAN : b = (asked[h].alone /\ asked[h].for # "duplicate")
    BY <1>3
  <1>5. Shows(Settled(h), LeftBy(h), b)
    BY <1>4 DEF Settle
  <1>6. /\ page'.view = page.view /\ page'.shown = Settled(h)
        /\ page'.sure = (page.sure /\ b)
    BY <1>2, <1>5, PageTypes, LeftTypes DEF PageOK
  <1>7. QED BY <1>1, <1>2, <1>4, <1>6

LEMMA SettleAlone ==
  ASSUME PartsOK, AloneOK, NEW h \in Handlers, Settle(h)
  PROVE  AloneOK'
  <1>1. PageOK
    BY DEF PartsOK
  <1>2. asked[h] # Nothing /\ page'.view = page.view
    BY <1>1, SettleShows
  <1>3. \/ asked' = [asked EXCEPT ![h] = Nothing]
        \/ asked' = [Abandoned(h) EXCEPT ![h] = Nothing]
    BY DEF Settle
  <1>4. Answer(h)
    BY DEF Settle
  <1>5. QED BY <1>2, <1>3, <1>4, AnswerAlone

LEMMA FollowUpAlone ==
  ASSUME PartsOK, AloneOK, NEW h \in Handlers, FollowUp(h)
  PROVE  AloneOK'
  <1>1. asked[h] # Nothing /\ Again(h) /\ handler[h].pc \in {"listed", "done", "failed"}
    BY DEF FollowUp, Took, Answered
  <1>2. /\ asked \in [Handlers -> Asked] /\ page \in Page /\ handler \in [Handlers -> HandlerState]
        /\ BelongsTogether
    BY DEF PartsOK, PageOK, ServerOK, TypeOK, AloneOK
  <1>3. PICK v \in Views, b \in BOOLEAN :
          v = asked[h].view /\ b = (asked[h].alone /\ Rest(h) = {})
    <2>1. asked[h].view \in Views /\ asked[h].alone \in BOOLEAN
      BY <1>1, <1>2, AskedFields
    <2>2. (asked[h].alone /\ Rest(h) = {}) \in BOOLEAN
      BY <2>1
    <2>3. QED BY <2>1, <2>2
  <1>4. PICK r : r = [for |-> "refresh", view |-> v, drawings |-> {}, alone |-> b]
    OBVIOUS
  <1>5. PICK left \in SUBSET Drawings : left = LeftBy(h)
    BY <1>2, LeftTypes
  <1>6. /\ handler' = [handler EXCEPT ![h] = Lists(v)]
        /\ page' = Refreshed([page EXCEPT !.stale = left], h, v)
        /\ asked' = [Abandoned(h) EXCEPT ![h] = r]
        /\ UNCHANGED <<drawing, collection, cache, purge>>
    BY <1>1, <1>3, <1>4, <1>5 DEF Again
  <1>7. /\ asked'[h] = r /\ handler'[h] = Lists(v)
        /\ \A i \in Handlers \ {h} : asked'[i] = Abandoned(h)[i]
    BY <1>2, <1>6, AbandonedTypes
  <1>8. PICK w \in Views : w = page.view /\ page'.view = w
    <2>1. page.view \in Views
      BY <1>2 DEF Page
    <2>2. QED BY <1>2, <1>6, <2>1, PageTypes
  <1>9. ASSUME NEW i \in Handlers \ {h}, asked'[i] # Nothing PROVE ~ asked'[i].alone
    <2>1. CASE i \in Rest(h)
      BY <1>2, <1>7, <2>1, AbandonedTypes DEF Unawaited
    <2>2. CASE i \notin Rest(h)
      <3>1. asked'[i] = asked[i]
        BY <1>2, <1>7, <2>2, AbandonedTypes
      <3>2. QED BY <1>1, <1>2, <1>9, <2>2, <3>1, AloneRest
    <2>3. QED BY <2>1, <2>2
  <1>10. ASSUME r.alone
         PROVE  /\ \A i \in Handlers \ {h} : asked[i] = Nothing /\ asked'[i] = Nothing
                /\ v = w /\ ~ Unannounced
    <2>1. asked[h].alone /\ Rest(h) = {}
      BY <1>3, <1>4, <1>10
    <2>2. \A i \in Handlers \ {h} : asked[i] = Nothing
      BY <1>1, <1>2, <2>1, AloneRest
    <2>3. \A i \in Handlers \ {h} : asked'[i] = Nothing
      BY <1>2, <1>7, <2>1, <2>2, AbandonedTypes
    <2>4. v = w
      BY <1>1, <1>2, <1>3, <1>8, <2>1 DEF BelongsTogether
    <2>5. ~ Unannounced
      <3>1. \A i \in Handlers \ {h} : handler[i] = Idle
        BY <2>2 DEF PartsOK, RequestsOK, RequestOK
      <3>2. QED BY <1>1, <3>1 DEF Unannounced, Idle, PartsOK, ServerOK, Resting
    <2>6. QED BY <2>2, <2>3, <2>4, <2>5
  <1>11. r.for = "refresh" /\ r.view = v /\ r.drawings = {}
    BY <1>4
  <1>12. BelongsTogether'
    BY <1>7, <1>8, <1>9, <1>10, <1>11 DEF BelongsTogether, Several
  <1>13. ASSUME NEW i \in Handlers, NEW u \in Views,
                asked'[i].for = "refresh", asked'[i].alone, asked'[i].view = u
         PROVE  /\ asked'[i].drawings = {}
                /\ handler'[i].pc = "listed" => handler'[i].raced \/ handler'[i].rows = Listing(u)'
    <2>1. asked'[i] # Nothing
      BY <1>13 DEF Nothing
    <2>2. i = h
      BY <1>9, <1>13, <2>1
    <2>3. u = v /\ r.alone
      BY <1>7, <1>11, <1>13, <2>2
    <2>4. Lists(v).pc = "listed" => Lists(v).raced \/ Lists(v).rows = Listing(v)
      BY <1>10, <2>3, ListsExact
    <2>5. Listing(v)' = Listing(v)
      BY <1>6, ListingStays
    <2>6. QED BY <1>7, <1>11, <2>2, <2>3, <2>4, <2>5
  <1>14. QED BY <1>12, <1>13 DEF AloneOK, AnswersExact

\* A refresh that is alone is the only request under way.
LEMMA AloneRefresh ==
  ASSUME PartsOK, AloneOK, NEW h \in Handlers, asked[h].for = "refresh", asked[h].alone
  PROVE  /\ asked[h] # Nothing /\ asked[h].view \in Views
         /\ \A i \in Handlers \ {h} : asked[i] = Nothing /\ handler[i] = Idle
         /\ ~ Unannounced
  <1>1. asked[h] # Nothing
    BY DEF Nothing
  <1>2. asked[h].view \in Views
    BY <1>1, AskedFields DEF PartsOK, PageOK
  <1>3. asked[h].drawings = {}
    BY <1>2 DEF AloneOK, AnswersExact
  <1>4. \A i \in Handlers \ {h} : asked[i] = Nothing
    BY <1>1, <1>3 DEF AloneOK, BelongsTogether, Several
  <1>5. \A i \in Handlers \ {h} : handler[i] = Idle
    BY <1>4 DEF PartsOK, RequestsOK, RequestOK
  <1>6. handler[h].pc \in {"query", "fill", "listed", "failed"}
    BY DEF PartsOK, RequestsOK, RequestOK, IsOneOf
  <1>7. ~ Unannounced
    BY <1>5, <1>6 DEF Unannounced, Idle, PartsOK, ServerOK, Resting
  <1>8. QED BY <1>1, <1>2, <1>4, <1>5, <1>7

LEMMA ServeAlone ==
  ASSUME PartsOK, AloneOK, NEW h \in Handlers, Serve(h), UNCHANGED <<page, asked>>
  PROVE  AloneOK'
  <1>1. BelongsTogether'
    BY DEF AloneOK, BelongsTogether, Several
  <1>2. TypeOK /\ ListsOK
    BY DEF PartsOK, ServerOK
  <1>3. ASSUME NEW i \in Handlers, NEW v \in Views,
               asked[i].for = "refresh", asked[i].alone, asked[i].view = v
        PROVE  /\ asked[i].drawings = {}
               /\ handler'[i].pc = "listed" => handler'[i].raced \/ handler'[i].rows = Listing(v)'
    <2>1. asked[i].drawings = {}
      BY <1>3 DEF AloneOK, AnswersExact
    <2>2. handler[h] # Idle
      BY ServedBy DEF Idle
    <2>3. i = h /\ ~ Unannounced
      BY <1>3, <2>2, AloneRefresh
    <2>4. ASSUME handler'[i].pc = "listed"
          PROVE  handler'[i].raced \/ handler'[i].rows = Listing(v)'
      <3>1. /\ handler[h].pc \in {"query", "fill"} /\ handler[h].view = v
        BY <1>3, <2>3, ServedBy DEF PartsOK, RequestsOK, RequestOK, IsOneOf
      <3>2. handler[h].pc # "query"
        <4>1. PICK s : s = handler'[h]
          OBVIOUS
        <4>2. handler[h].pc = "query" =>
                s = [pc |-> "fill", view |-> handler[h].view,
                     rows |-> Listing(handler[h].view), raced |-> FALSE]
          BY <1>2, <4>1, ServedList
        <4>3. handler[h].pc = "query" => s.pc = "fill"
          BY <4>2
        <4>4. QED BY <2>3, <2>4, <4>1, <4>3
      <3>3. /\ handler'[h] = [pc |-> "listed", rows |-> handler[h].rows,
                              raced |-> handler[h].raced]
            /\ UNCHANGED drawing
        BY <1>2, <3>1, <3>2, ServedList
      <3>4. handler[h].raced \/ handler[h].rows = Listing(v)
        BY <1>2, <2>3, <3>1, <3>2 DEF ListsOK, ReadsAreFresh
      <3>5. Listing(v)' = Listing(v)
        BY <3>3, ListingStays
      <3>6. handler'[h].rows = handler[h].rows /\ handler'[h].raced = handler[h].raced
        BY <3>3
      <3>7. QED BY <2>3, <3>4, <3>5, <3>6
    <2>5. QED BY <2>1, <2>4
  <1>4. AnswersExact'
    BY <1>3 DEF AnswersExact
  <1>5. QED BY <1>1, <1>4 DEF AloneOK

LEMMA AloneStep ==
  ConstantsAssumption /\ PartsOK /\ AloneOK /\ [DashNext]_dashVars => AloneOK'
  <1> SUFFICES ASSUME ConstantsAssumption, PartsOK, AloneOK, [DashNext]_dashVars PROVE AloneOK'
    OBVIOUS
  <1>1. CASE Batch
    BY ConstantsAssumption, <1>1, BatchAlone
  <1>2. ASSUME NEW h \in Handlers,
               Act(h) \/ Show(h) \/ FollowUp(h) \/ Settle(h) \/ Elsewhere(h)
        PROVE  AloneOK'
    BY <1>2, SelectAlone, RemoveAlone, RemoveSelectedAlone, ShowAlone,
       FollowUpAlone, SettleAlone, ElsewhereAlone DEF Act
  <1>3. ASSUME NEW h \in Handlers, Serve(h), UNCHANGED <<page, asked>>
        PROVE  AloneOK'
    BY <1>3, ServeAlone
  <1>4. CASE UNCHANGED <<page, asked, handler, drawing>>
    <2>1. \A v \in Views : Listing(v)' = Listing(v)
      BY <1>4, ListingStays
    <2>2. AnswersExact'
      BY <1>4, <2>1 DEF AloneOK, AnswersExact
    <2>3. BelongsTogether'
      BY <1>4 DEF AloneOK, BelongsTogether, Several
    <2>4. QED BY <2>2, <2>3 DEF AloneOK
  <1>5. QED BY <1>1, <1>2, <1>3, <1>4 DEF DashNext, Expire, dashVars, vars

-----------------------------------------------------------------------------
(* What the page is sure of. *)

Stopped == \E h \in Handlers : asked[h] # Nothing /\ handler[h] = Failed

Agrees(d) == d \in page.shown <=> d \in Listing(page.view)

\* Somebody is about to move or to delete d.
AboutTo(d, pcs) == \E h \in Handlers : handler[h].pc \in pcs /\ handler[h].drawing = d

\* Drawings that are to be moved are shown where they fit the view, others as they are.
MovesFit ==
  Stopped \/ ( /\ \A h \in Handlers : handler[h].pc \in {"ensure", "write"} =>
                    (handler[h].drawing \in page.shown <=> Fits(handler[h].place, page.view))
               /\ \A d \in Drawings : Agrees(d) \/ AboutTo(d, {"ensure", "write"}) )

\* Drawings that are to be deleted have gone, or somebody is at it.
DeletesFit(S) ==
  Stopped \/ ( /\ \A d \in Drawings \ S : Agrees(d)
               /\ \A d \in S : d \notin There \/ AboutTo(d, {"delete"})
               /\ \A h \in Handlers : handler[h].pc = "delete" => handler[h].drawing \in S )

\* Where the page is sure, what is under way is alone and is not a refresh.
SureOK ==
  page.sure =>
    /\ \A h \in Handlers : asked[h] # Nothing =>
         /\ asked[h].alone /\ asked[h].for \notin {"refresh", "other"}
         /\ asked[h].for = "move" => MovesFit
         /\ \A S \in SUBSET Drawings :
              asked[h].for = "delete" /\ asked[h].drawings = S => DeletesFit(S)
    /\ Quiet => page.shown = Listing(page.view)

\* A drawing is listed in a view if it is there, in a place that fits it.
LEMMA ListingOf ==
  ASSUME NEW v, NEW d \in Drawings
  PROVE  /\ d \in Listing(v) <=> drawing[d].state = "there" /\ Fits(drawing[d].place, v)
         /\ d \in Listing(v)' <=> drawing'[d].state = "there" /\ Fits(drawing'[d].place, v)
  BY DEF Listing, There, Fits

LEMMA ListingSubset ==
  ASSUME NEW v
  PROVE  Listing(v) \subseteq Drawings
  BY DEF Listing, There

\* A step after which the page is not sure.
LEMMA Unsure ==
  ASSUME ~ page'.sure
  PROVE  SureOK'
  BY DEF SureOK

LEMMA BatchSure ==
  ASSUME ConstantsAssumption, PartsOK, SureOK, Batch
  PROVE  SureOK'
  <1>1. PICK S \in SUBSET Drawings :
          \E at \in [S -> Handlers] : \E for, begun, rows, left, sure :
            /\ Sends(S, at, for, begun) /\ Shows(rows, left, sure)
            /\ BatchOf(S, for, begun, rows, left, sure)
    BY ConstantsAssumption, BatchSends
  <1>2. PICK at \in [S -> Handlers] : \E for, begun, rows, left, sure :
          /\ Sends(S, at, for, begun) /\ Shows(rows, left, sure)
          /\ BatchOf(S, for, begun, rows, left, sure)
    BY <1>1
  <1>3. PICK for, begun, rows, left, sure :
          /\ Sends(S, at, for, begun) /\ Shows(rows, left, sure)
          /\ BatchOf(S, for, begun, rows, left, sure)
    BY <1>2
  <1>4. /\ rows \in SUBSET Drawings /\ left \in SUBSET Drawings
        /\ sure \in BOOLEAN /\ (sure => Quiet)
        /\ \A d \in S : MayBegin(for, begun[d])
        /\ rows \ S = page.shown \ S
    BY <1>3 DEF BatchOf
  <1>5. PICK v \in Views : v = page.view
    BY DEF PartsOK, PageOK, Page
  <1>6. page'.view = v /\ page'.shown = rows /\ page'.sure = (page.sure /\ sure)
    BY <1>3, <1>4, <1>5, PageTypes DEF PartsOK, PageOK
  <1>7. CASE ~ (page.sure /\ sure)
    BY <1>6, <1>7, Unsure
  <1>8. CASE page.sure /\ sure
    <2>1. Quiet /\ \A h \in Handlers : asked[h] = Nothing /\ handler[h] = Idle
      BY <1>4, <1>8, QuietServer DEF Quiet
    <2>2. page.shown = Listing(v)
      BY <1>5, <1>8, <2>1 DEF SureOK
    <2>3. /\ \A d \in S : handler'[at[d]] = begun[d]
          /\ \A h \in Handlers : (\E d \in S : h = at[d]) \/ handler'[h] = Idle
          /\ S # {} /\ UNCHANGED drawing
      BY <1>3, <2>1, SendsBegins
    <2>4. PICK H \in SUBSET Handlers : H = {at[d] : d \in S}
      OBVIOUS
    <2>5. PICK T \in SUBSET Drawings : T = Batched(for, S) /\ Asks(H, for, v, T)
      <3>1. PICK T \in SUBSET Drawings : T = Batched(for, S) /\ Asks(H, for, page.view, T)
        BY <1>3, <2>4, SendsAsks
      <3>2. Asks(H, for, v, T)
        BY ONLY <1>5, <3>1
      <3>3. QED BY <3>1, <3>2
    <2>6. for \in {"move", "delete", "duplicate", "upload"}
      BY <1>4, <2>3 DEF MayBegin
    <2>7. /\ \A h \in H : asked'[h] # Nothing /\ asked'[h].for = for
                            /\ asked'[h].alone /\ asked'[h].drawings = T
          /\ \A h \in Handlers \ H : asked'[h] = Nothing
      <3>1. \A h \in Handlers : asked'[h] =
              IF h \in H THEN [for |-> for, view |-> v, drawings |-> T, alone |-> Quiet]
              ELSE Disturbed[h]
        BY <2>5 DEF Asks
      <3>2. \A h \in Handlers : Disturbed[h] = Nothing
        BY <2>1 DEF Disturbed
      <3>3. QED BY <2>1, <2>6, <3>1, <3>2 DEF Nothing
    <2>8. \A d \in S : at[d] \in H /\ begun[d] # Idle
      BY <1>4, <2>4 DEF MayBegin
    <2>9. ~ Quiet'
      BY <2>3, <2>8 DEF Quiet
    <2>10. Listing(v)' = Listing(v)
      BY <2>3, ListingStays
    <2>11. \A d \in Drawings \ S : Agrees(d)'
      BY <1>4, <1>6, <2>2, <2>10 DEF Agrees
    <2>12. (\E d \in S : begun[d] = Failed) => Stopped'
      BY <2>3, <2>7, <2>8 DEF Stopped
    <2>13. ASSUME for = "move" PROVE MovesFit'
      <3>1. PICK p \in Places : \A d \in S :
              /\ \/ begun[d] = Failed
                 \/ /\ begun[d].pc \in {"ensure", "write"}
                    /\ begun[d].drawing = d /\ begun[d].place = p
              /\ d \in rows <=> Fits(p, v)
        BY <1>3, <1>5, <1>8, <2>13 DEF BatchOf
      <3>2. CASE \E d \in S : begun[d] = Failed
        BY <2>12, <3>2 DEF MovesFit
      <3>3. CASE \A d \in S : begun[d] # Failed
        <4>1. ASSUME NEW h \in Handlers, handler'[h].pc \in {"ensure", "write"}
              PROVE  handler'[h].drawing \in page'.shown <=> Fits(handler'[h].place, page'.view)
          <5>1. PICK d \in S : handler'[h] = begun[d]
            BY <2>3, <4>1 DEF Idle
          <5>2. QED BY <1>6, <3>1, <3>3, <5>1
        <4>2. ASSUME NEW d \in Drawings PROVE Agrees(d)' \/ AboutTo(d, {"ensure", "write"})'
          <5>1. CASE d \in S
            <6>1. at[d] \in Handlers /\ handler'[at[d]] = begun[d]
              BY <2>3, <5>1
            <6>2. QED BY <3>1, <3>3, <5>1, <6>1 DEF AboutTo
          <5>2. CASE d \notin S
            BY <2>11, <5>2
          <5>3. QED BY <5>1, <5>2
        <4>3. QED BY <4>1, <4>2 DEF MovesFit
      <3>4. QED BY <3>2, <3>3
    <2>14. ASSUME for = "delete" PROVE T = S /\ DeletesFit(S)'
      <3>1. \A d \in S : begun[d] = Failed \/ begun[d] = [pc |-> "delete", drawing |-> d]
        BY <1>3, <2>14 DEF BatchOf
      <3>2. T = S
        BY <2>5, <2>14 DEF Batched
      <3>3. CASE \E d \in S : begun[d] = Failed
        BY <2>12, <3>2, <3>3 DEF DeletesFit
      <3>4. CASE \A d \in S : begun[d] # Failed
        <4>1. \A d \in S : begun[d].pc = "delete" /\ begun[d].drawing = d
          <5>1. ASSUME NEW d \in S PROVE begun[d].pc = "delete" /\ begun[d].drawing = d
            <6>1. PICK s : s = begun[d] /\ s = [pc |-> "delete", drawing |-> d]
              BY <3>1, <3>4
            <6>2. s.pc = "delete" /\ s.drawing = d
              BY <6>1
            <6>3. QED BY <6>1, <6>2
          <5>2. QED BY <5>1
        <4>2. \A h \in Handlers : handler'[h].pc = "delete" => handler'[h].drawing \in S
          BY <2>3, <4>1 DEF Idle
        <4>3. \A d \in S : AboutTo(d, {"delete"})'
          BY <2>3, <4>1 DEF AboutTo
        <4>4. QED BY <2>11, <3>2, <4>2, <4>3 DEF DeletesFit
      <3>5. QED BY <3>3, <3>4
    <2>15. ASSUME NEW h \in Handlers, asked'[h] # Nothing
           PROVE  /\ asked'[h].alone /\ asked'[h].for \notin {"refresh", "other"}
                  /\ asked'[h].for = "move" => MovesFit'
                  /\ \A R \in SUBSET Drawings :
                       asked'[h].for = "delete" /\ asked'[h].drawings = R => DeletesFit(R)'
      BY <2>6, <2>7, <2>13, <2>14, <2>15
    <2>16. QED BY <2>9, <2>15 DEF SureOK
  <1>9. QED BY <1>7, <1>8

LEMMA RemoveSure ==
  ASSUME PartsOK, SureOK, NEW h \in Handlers, NEW k \in Collections, RemoveCollection(h, k)
  PROVE  SureOK'
  <1>1. PICK v \in Views, b \in BOOLEAN : v = page.view /\ b = Quiet
    BY DEF PartsOK, PageOK, Page, Quiet
  <1>2. PICK s : s = [pc |-> "remove", collection |-> k]
    OBVIOUS
  <1>3. Begins(h, s) /\ Asks({h}, "remove", v, {}) /\ Stays(b)
    BY <1>1, <1>2 DEF RemoveCollection, DeleteCollection
  <1>4. page'.sure = (page.sure /\ b)
    <2>1. page.shown \in SUBSET Drawings
      BY DEF PartsOK, PageOK, Page
    <2>2. QED BY <1>3, <2>1, PageTypes DEF PartsOK, PageOK
  <1>5. CASE ~ (page.sure /\ b)
    BY <1>4, <1>5, Unsure
  <1>6. CASE page.sure /\ b
    <2>1. Quiet /\ \A i \in Handlers : asked[i] = Nothing
      BY <1>1, <1>6, QuietServer
    <2>2. \A i \in Handlers : asked'[i] =
            IF i \in {h} THEN [for |-> "remove", view |-> v, drawings |-> {}, alone |-> Quiet]
            ELSE Disturbed[i]
      BY <1>3 DEF Asks
    <2>3. \A i \in Handlers : Disturbed[i] = Nothing
      BY <2>1 DEF Disturbed
    <2>4. \A i \in Handlers : asked'[i] # Nothing => asked'[i].for = "remove" /\ asked'[i].alone
      BY <2>1, <2>2, <2>3
    <2>5. handler'[h] = s /\ s # Idle
      BY <1>2, <1>3 DEF Begins, Idle, PartsOK, ServerOK, TypeOK
    <2>6. ~ Quiet'
      BY <2>5 DEF Quiet
    <2>7. QED BY <2>4, <2>6 DEF SureOK
  <1>7. QED BY <1>5, <1>6

LEMMA SelectSure ==
  ASSUME PartsOK, NEW h \in Handlers, NEW v \in Views, Select(h, v)
  PROVE  SureOK'
  <1>1. page' = Refreshed([page EXCEPT !.view = v], h, v)
    BY DEF Select
  <1>2. ~ page'.sure
    BY <1>1, PageTypes DEF PartsOK, PageOK
  <1>3. QED BY <1>2, Unsure

LEMMA RemoveSelectedSure ==
  ASSUME PartsOK, NEW h \in Handlers, NEW i \in Handlers,
         NEW k \in Collections, RemoveSelected(h, i, k)
  PROVE  SureOK'
  <1>1. page' = Refreshed([page EXCEPT !.view = All], h, All)
    BY DEF RemoveSelected
  <1>2. ~ page'.sure
    BY DashAssumption, <1>1, PageTypes DEF PartsOK, PageOK
  <1>3. QED BY <1>2, Unsure

LEMMA FollowUpSure ==
  ASSUME PartsOK, NEW h \in Handlers, FollowUp(h)
  PROVE  SureOK'
  <1>1. asked[h] # Nothing /\ page' = Refreshed([page EXCEPT !.stale = LeftBy(h)], h, asked[h].view)
    BY DEF FollowUp, Took, Again
  <1>2. PICK v \in Views : v = asked[h].view
    BY <1>1, AskedFields DEF PartsOK, PageOK
  <1>3. PICK left \in SUBSET Drawings : left = LeftBy(h)
    BY LeftTypes DEF PartsOK, PageOK
  <1>4. page' = Refreshed([page EXCEPT !.stale = left], h, v)
    BY <1>1, <1>2, <1>3
  <1>5. ~ page'.sure
    BY <1>4, PageTypes DEF PartsOK, PageOK
  <1>6. QED BY <1>5, Unsure

LEMMA ElsewhereSure ==
  ASSUME PartsOK, NEW h \in Handlers, Elsewhere(h)
  PROVE  SureOK'
  <1>1. Stays(FALSE)
    BY DEF Elsewhere
  <1>2. page.shown \in SUBSET Drawings
    BY DEF PartsOK, PageOK, Page
  <1>3. ~ page'.sure
    BY <1>1, <1>2, PageTypes DEF PartsOK, PageOK
  <1>4. QED BY <1>3, Unsure

\* A list that is shown is right if the page is sure of it.
LEMMA ShowSure ==
  ASSUME PartsOK, AloneOK, SureOK, NEW h \in Handlers, Show(h)
  PROVE  SureOK'
  <1>1. /\ asked[h].for = "refresh" /\ asked[h] # Nothing
        /\ Answer(h) /\ asked' = [asked EXCEPT ![h] = Nothing]
    BY DEF Show, Took, Ends
  <1>2. asked \in [Handlers -> Asked] /\ page \in Page /\ handler \in [Handlers -> HandlerState]
    BY DEF PartsOK, PageOK, ServerOK, TypeOK
  <1>3. ~ page.sure
    BY <1>1 DEF SureOK
  <1>4. CASE page.latest # h
    BY <1>3, <1>4, Unsure DEF Show
  <1>5. CASE page.latest = h /\ handler[h].pc # "listed"
    <2>1. page' = [page EXCEPT !.latest = None, !.missed = TRUE]
      BY <1>5 DEF Show
    <2>2. page'.sure = page.sure
      BY <1>2, <2>1 DEF Page
    <2>3. QED BY <1>3, <2>2, Unsure
  <1>6. CASE page.latest = h /\ handler[h].pc = "listed"
    <2>1. PICK v, R, b : /\ v \in Views /\ v = asked[h].view /\ R = handler[h].rows
                         /\ b = (asked[h].alone /\ ~ handler[h].raced)
      BY <1>1, <1>2, AskedFields
    <2>2. page' = [page EXCEPT !.latest = None, !.of = v, !.shown = R, !.stale = {}, !.sure = b]
      BY <1>6, <2>1 DEF Show
    <2>3. page'.view = page.view /\ page'.shown = R /\ page'.sure = b
      BY <1>2, <2>2 DEF Page
    <2>4. CASE ~ b
      BY <2>3, <2>4, Unsure
    <2>5. CASE b
      <3>1. asked[h].alone /\ ~ handler[h].raced
        BY <2>1, <2>5
      <3>2. \A i \in Handlers \ {h} : asked[i] = Nothing
        BY <1>1, <3>1, AloneRefresh
      <3>3. \A i \in Handlers : asked'[i] = Nothing
        BY <1>1, <1>2, <3>2
      <3>4. v = page.view
        BY <1>1, <2>1, <3>1 DEF AloneOK, BelongsTogether
      <3>5. R = Listing(v)
        BY <1>1, <1>6, <2>1, <3>1 DEF AloneOK, AnswersExact
      <3>6. Listing(v)' = Listing(v)
        BY <1>1, <2>1, ListingStays DEF Answer
      <3>7. page'.shown = Listing(v)' /\ page'.view = v
        BY <2>3, <3>4, <3>5, <3>6
      <3>8. QED BY <3>3, <3>7 DEF SureOK, Listing, There
    <2>6. QED BY <2>4, <2>5
  <1>7. QED BY <1>4, <1>5, <1>6

\* What is left of a batch fits as it did when one that is done is answered.
LEMMA FitsStay ==
  ASSUME PartsOK, NEW h \in Handlers, handler[h] = Done, handler' = [handler EXCEPT ![h] = Idle],
         asked' = [asked EXCEPT ![h] = Nothing], UNCHANGED drawing,
         page'.view = page.view, page'.shown = page.shown
  PROVE  /\ MovesFit => MovesFit'
         /\ \A S \in SUBSET Drawings : DeletesFit(S) => DeletesFit(S)'
  <1>1. handler \in [Handlers -> HandlerState] /\ asked \in [Handlers -> Asked]
    BY DEF PartsOK, PageOK, ServerOK, TypeOK
  <1>2. /\ handler'[h].pc = "idle" /\ handler[h].pc = "done"
        /\ \A i \in Handlers \ {h} : handler'[i] = handler[i] /\ asked'[i] = asked[i]
    BY <1>1 DEF Idle, Done
  <1>3. Stopped => Stopped'
    BY <1>2 DEF Stopped, Failed
  <1>4. \A d \in Drawings : Agrees(d) => Agrees(d)'
    BY DEF Agrees, Listing, There
  <1>5. \A d \in Drawings : /\ AboutTo(d, {"ensure", "write"}) => AboutTo(d, {"ensure", "write"})'
                            /\ AboutTo(d, {"delete"}) => AboutTo(d, {"delete"})'
    BY <1>2 DEF AboutTo
  <1>6. MovesFit => MovesFit'
    BY <1>2, <1>3, <1>4, <1>5 DEF MovesFit
  <1>7. There' = There
    BY DEF There
  <1>8. ASSUME NEW S \in SUBSET Drawings, DeletesFit(S) PROVE DeletesFit(S)'
    BY <1>2, <1>3, <1>4, <1>5, <1>7, <1>8 DEF DeletesFit
  <1>9. QED BY <1>6, <1>8

\* Where everything is answered and nothing failed, what was moved fits.
LEMMA MovesEnd == PartsOK /\ MovesFit /\ Quiet => page.shown = Listing(page.view)
  <1> SUFFICES ASSUME PartsOK, MovesFit, Quiet PROVE page.shown = Listing(page.view)
    OBVIOUS
  <1>1. ~ Stopped /\ \A d \in Drawings : ~ AboutTo(d, {"ensure", "write"})
    BY DEF Quiet, Stopped, AboutTo, Idle, Failed
  <1>2. \A d \in Drawings : Agrees(d)
    BY <1>1 DEF MovesFit
  <1>3. page.shown \subseteq Drawings /\ Listing(page.view) \subseteq Drawings
    BY ListingSubset DEF PartsOK, PageOK, Page
  <1>4. QED BY <1>2, <1>3 DEF Agrees

LEMMA SettleSure ==
  ASSUME PartsOK, PartsOK', AloneOK, SureOK, NEW h \in Handlers, Settle(h)
  PROVE  SureOK'
  <1>1. /\ asked[h] # Nothing
        /\ page'.view = page.view /\ page'.shown = Settled(h)
        /\ page'.sure = (page.sure /\ asked[h].alone /\ asked[h].for # "duplicate")
    BY SettleShows DEF PartsOK
  <1>2. asked \in [Handlers -> Asked] /\ handler \in [Handlers -> HandlerState]
    BY DEF PartsOK, PageOK, ServerOK, TypeOK
  <1>3. CASE ~ page'.sure
    BY <1>3, Unsure
  <1>4. CASE page'.sure
    <2>1. page.sure /\ asked[h].alone /\ asked[h].for \notin {"duplicate", "refresh", "other"}
      BY <1>1, <1>4 DEF SureOK
    <2>2. /\ handler' = [handler EXCEPT ![h] = Idle] /\ UNCHANGED drawing
          /\ asked' = [asked EXCEPT ![h] = Nothing]
      BY <2>1 DEF Settle, Answer, Becomes
    <2>3. asked'[h] = Nothing /\ \A i \in Handlers \ {h} : asked'[i] = asked[i]
      BY <1>2, <2>2
    <2>4. ASSUME NEW i \in Handlers, asked'[i] # Nothing
          PROVE  asked[i] # Nothing /\ asked'[i] = asked[i] /\ asked[i] = asked[h] /\ i \in Rest(h)
      <3>1. i # h /\ asked'[i] = asked[i]
        BY <2>3, <2>4
      <3>2. QED BY <1>1, <2>1, <2>4, <3>1, AloneRest DEF AloneOK
    <2>5. Rest(h) # {} => ~ Quiet'
      <3>1. ASSUME NEW i \in Rest(h) PROVE handler'[i] # Idle
        BY <1>2, <2>2, <3>1 DEF Rest, PartsOK, RequestsOK, RequestOK
      <3>2. ASSUME NEW i \in Rest(h) PROVE i \in Handlers
        BY DEF Rest
      <3>3. QED BY <3>1, <3>2 DEF Quiet
    <2>6. PICK w \in Views : w = page.view
      BY DEF PartsOK, PageOK, Page
    <2>7. Listing(w)' = Listing(w)
      BY <2>2, ListingStays
    <2>8. ASSUME NEW S \in SUBSET Drawings, asked[h].for = "delete", asked[h].drawings = S
          PROVE  DeletesFit(S)
      BY <1>1, <2>1, <2>8 DEF SureOK
    <2>9. asked[h].for = "move" => MovesFit
      BY <1>1, <2>1 DEF SureOK
    <2>10. CASE asked[h].for = "move"
      <3>1. handler[h] = Done /\ page'.shown = page.shown
        BY <1>1, <2>10 DEF Settle, Took, Settled
      <3>2. MovesFit'
        BY <1>1, <2>2, <2>9, <2>10, <3>1, FitsStay
      <3>3. Quiet' => (page.shown = Listing(page.view))'
        BY <3>2, MovesEnd, PTL
      <3>4. QED BY <2>1, <2>4, <2>10, <3>2, <3>3 DEF SureOK
    <2>11. CASE asked[h].for = "delete" /\ Rest(h) # {}
      <3>1. handler[h] = Done /\ page'.shown = page.shown
        BY <1>1, <2>11 DEF Settle, Took, Settled
      <3>2. ASSUME NEW S \in SUBSET Drawings, asked[h].drawings = S PROVE DeletesFit(S)'
        BY <1>1, <2>2, <2>8, <2>11, <3>1, <3>2, FitsStay
      <3>3. QED BY <2>1, <2>4, <2>5, <2>11, <3>2 DEF SureOK
    <2>12. CASE asked[h].for = "delete" /\ Rest(h) = {}
      <3>1. handler[h] = Done
        BY <2>12 DEF Settle, Took
      <3>2. PICK S \in SUBSET Drawings : S = asked[h].drawings
        BY <1>1, <1>2, AskedFields
      <3>3. page'.shown = page.shown \ S
        BY <1>1, <2>12, <3>2 DEF Settled
      <3>4. \A i \in Handlers \ {h} : asked[i] = Nothing /\ handler[i] = Idle
        <4>1. \A i \in Handlers \ {h} : asked[i] = Nothing
          BY <2>3, <2>4, <2>12
        <4>2. QED BY <4>1 DEF PartsOK, RequestsOK, RequestOK
      <3>5. ~ Stopped /\ \A d \in Drawings : ~ AboutTo(d, {"delete"})
        BY <3>1, <3>4 DEF Stopped, AboutTo, Failed, Done, Idle
      <3>6. DeletesFit(S)
        BY <2>8, <2>12, <3>2
      <3>7. /\ \A d \in Drawings \ S : d \in page.shown <=> d \in Listing(w)
            /\ \A d \in S : d \notin There
        BY <2>6, <3>5, <3>6 DEF DeletesFit, Agrees
      <3>8. page.shown \subseteq Drawings /\ Listing(w) \subseteq There
        BY DEF PartsOK, PageOK, Page, Listing
      <3>9. page'.shown = Listing(w)
        BY <3>3, <3>7, <3>8, ListingSubset
      <3>10. \A i \in Handlers : asked'[i] = Nothing
        BY <2>3, <3>4
      <3>11. page'.shown = Listing(page.view)'
        BY <1>1, <2>2, <2>6, <3>9 DEF Listing, There
      <3>12. QED BY <3>10, <3>11 DEF SureOK
    <2>13. CASE asked[h].for \notin {"move", "delete"}
      <3>1. asked[h].for = "upload" /\ Rest(h) # {}
        BY <2>1, <2>13 DEF Settle, Took
      <3>2. QED BY <2>1, <2>4, <2>5, <3>1 DEF SureOK
    <2>14. QED BY <2>10, <2>11, <2>12, <2>13
  <1>5. QED BY <1>3, <1>4

\* While one batch is under way only its requests are served.
ServesBatch(h, for) ==
  /\ handler[h].pc \notin {"idle", "listed", "done", "failed"}
  /\ asked[h] # Nothing
  /\ \A g \in Handlers : handler[g] = Idle \/ IsOneOf([for |-> for], handler[g])
  /\ \A g \in Handlers \ {h} : handler'[g] = handler[g]

LEMMA ServeBatch ==
  ASSUME PartsOK, NEW h \in Handlers, Serve(h), NEW for \in {"move", "delete"},
         \A g \in Handlers : asked[g] # Nothing => asked[g].for = for
  PROVE  ServesBatch(h, for)
  <1>1. handler[h].pc \notin {"idle", "listed", "done", "failed"}
    BY ServedBy
  <1>2. handler[h] # Idle
    BY <1>1 DEF Idle
  <1>3. asked[h] # Nothing
    BY <1>2 DEF PartsOK, RequestsOK, RequestOK
  <1>4. PICK w : w = [for |-> for]
    OBVIOUS
  <1>5. w.for = for
    BY <1>4
  <1>6. ASSUME NEW g \in Handlers, handler[g] # Idle PROVE IsOneOf(w, handler[g])
    <2>1. asked[g] # Nothing /\ IsOneOf(asked[g], handler[g])
      BY <1>6 DEF PartsOK, RequestsOK, RequestOK
    <2>2. asked[g].for = for
      BY <2>1
    <2>3. QED BY <1>5, <2>1, <2>2 DEF IsOneOf
  <1>7. ASSUME NEW g \in Handlers \ {h} PROVE handler'[g] = handler[g]
    <2>1. \/ handler'[g] = handler[g]
          \/ handler[g].pc = "fill"
      BY ServedOthers DEF PartsOK, ServerOK
    <2>2. handler[g].pc # "fill"
      <3>1. CASE handler[g] = Idle
        BY <3>1 DEF Idle
      <3>2. CASE handler[g] # Idle
        BY <1>5, <1>6, <3>2 DEF IsOneOf
      <3>3. QED BY <3>1, <3>2
    <2>3. QED BY <2>1, <2>2
  <1>8. QED BY <1>1, <1>3, <1>4, <1>6, <1>7 DEF ServesBatch

\* A step of a batch that moves drawings: each ends up where it is shown already.
LEMMA ServeMoves ==
  ASSUME PartsOK, NEW h \in Handlers, Serve(h), UNCHANGED <<page, asked>>, MovesFit,
         \A g \in Handlers : asked[g] # Nothing => asked[g].for = "move"
  PROVE  MovesFit'
  <1>1. /\ handler[h].pc \notin {"idle", "listed", "done", "failed"}
        /\ asked'[h] # Nothing
        /\ \A g \in Handlers \ {h} : handler'[g] = handler[g]
        /\ IsOneOf([for |-> "move"], handler[h])
    BY ServeBatch DEF ServesBatch, Idle
  <1>2. \/ handler[h].pc = "ensure" \/ (handler[h].pc = "write" /\ handler[h].write = "move")
        \/ handler[h].pc = "invalidate"
    <2>1. PICK w : w = [for |-> "move"] /\ IsOneOf(w, handler[h])
      BY <1>1
    <2>2. w.for = "move"
      BY <2>1
    <2>3. QED BY <1>1, <2>1, <2>2 DEF IsOneOf
  <1>3. TypeOK
    BY DEF PartsOK, ServerOK
  <1>4. PICK v : v = page.view
    OBVIOUS
  <1>5. CASE Stopped \/ handler'[h] = Failed
    <2>1. Stopped'
      BY <1>1, <1>5 DEF Stopped, Failed
    <2>2. QED BY <2>1 DEF MovesFit
  <1>6. CASE ~ Stopped /\ handler'[h] # Failed
    <2>1. /\ \A g \in Handlers : handler[g].pc \in {"ensure", "write"} =>
               (handler[g].drawing \in page.shown <=> Fits(handler[g].place, v))
          /\ \A d \in Drawings : Agrees(d) \/ AboutTo(d, {"ensure", "write"})
      BY <1>4, <1>6 DEF MovesFit
    <2>2. ASSUME \A g \in Handlers : handler'[g].pc \in {"ensure", "write"} =>
                   (handler'[g].drawing \in page.shown <=> Fits(handler'[g].place, v)),
                 \A d \in Drawings : Agrees(d)' \/ AboutTo(d, {"ensure", "write"})'
          PROVE  MovesFit'
      BY <1>4, <2>2 DEF MovesFit
    <2>3. CASE handler[h].pc = "ensure"
      <3>1. /\ handler'[h].pc = "write" /\ handler'[h].drawing = handler[h].drawing
            /\ handler'[h].place = handler[h].place /\ UNCHANGED drawing
        BY <1>3, <1>6, <2>3, ServedMove
      <3>2. \A d \in Drawings : Agrees(d) => Agrees(d)'
        BY <3>1 DEF Agrees, Listing, There
      <3>3. \A d \in Drawings :
              AboutTo(d, {"ensure", "write"}) => AboutTo(d, {"ensure", "write"})'
        BY <1>1, <3>1 DEF AboutTo
      <3>4. \A g \in Handlers : handler'[g].pc \in {"ensure", "write"} =>
              (handler'[g].drawing \in page.shown <=> Fits(handler'[g].place, v))
        BY <1>1, <2>1, <2>3, <3>1
      <3>5. QED BY <2>1, <2>2, <3>2, <3>3, <3>4
    <2>4. CASE handler[h].pc = "write" /\ handler[h].write = "move"
      <3>1. PICK d, p : d = handler[h].drawing /\ p = handler[h].place
        OBVIOUS
      <3>2. d \in Drawings
        BY <1>3, <2>4, <3>1, HandlerTypes
      <3>3. handler'[h] = [pc |-> "invalidate"] /\ MovedTo(d, p)
        BY <1>3, <1>6, <2>4, <3>1, ServedMove
      <3>4. handler'[h].pc = "invalidate"
        BY <3>3
      <3>5. d \in page.shown <=> Fits(p, v)
        BY <2>1, <2>4, <3>1
      <3>6. d \in Listing(v)' <=> Fits(p, v)
        BY <3>2, <3>3, ListingOf DEF MovedTo
      <3>7. Agrees(d)'
        BY <1>4, <3>5, <3>6 DEF Agrees, Listing, There
      <3>8. ASSUME NEW o \in Drawings, o # d
            PROVE  Agrees(o)' \/ AboutTo(o, {"ensure", "write"})'
        <4>1. CASE Agrees(o)
          <5>1. drawing'[o] = drawing[o]
            BY <3>3, <3>8 DEF MovedTo
          <5>2. QED BY <4>1, <5>1 DEF Agrees, Listing, There
        <4>2. CASE AboutTo(o, {"ensure", "write"})
          BY <1>1, <3>1, <3>8, <4>2 DEF AboutTo
        <4>3. QED BY <2>1, <4>1, <4>2
      <3>9. \A g \in Handlers : handler'[g].pc \in {"ensure", "write"} =>
              (handler'[g].drawing \in page.shown <=> Fits(handler'[g].place, v))
        BY <1>1, <2>1, <3>4
      <3>10. QED BY <2>2, <3>7, <3>8, <3>9
    <2>5. CASE handler[h].pc = "invalidate"
      <3>1. handler'[h].pc = "done" /\ UNCHANGED drawing
        BY <1>3, <2>5, ServedMove DEF Done
      <3>2. \A d \in Drawings : Agrees(d) => Agrees(d)'
        BY <3>1 DEF Agrees, Listing, There
      <3>3. \A d \in Drawings :
              AboutTo(d, {"ensure", "write"}) => AboutTo(d, {"ensure", "write"})'
        BY <1>1, <2>5 DEF AboutTo
      <3>4. \A g \in Handlers : handler'[g].pc \in {"ensure", "write"} =>
              (handler'[g].drawing \in page.shown <=> Fits(handler'[g].place, v))
        BY <1>1, <2>1, <3>1
      <3>5. QED BY <2>1, <2>2, <3>2, <3>3, <3>4
    <2>6. QED BY <1>2, <2>3, <2>4, <2>5
  <1>7. QED BY <1>5, <1>6

\* A step of a batch that deletes drawings: they go one after the other.
LEMMA ServeDeletes ==
  ASSUME PartsOK, NEW h \in Handlers, Serve(h), UNCHANGED <<page, asked>>,
         NEW S \in SUBSET Drawings, DeletesFit(S),
         \A g \in Handlers : asked[g] # Nothing => asked[g].for = "delete"
  PROVE  DeletesFit(S)'
  <1>1. /\ handler[h].pc \notin {"idle", "listed", "done", "failed"}
        /\ asked'[h] # Nothing
        /\ \A g \in Handlers \ {h} : handler'[g] = handler[g]
        /\ IsOneOf([for |-> "delete"], handler[h])
    BY ServeBatch DEF ServesBatch, Idle
  <1>2. handler[h].pc \in {"delete", "invalidate"}
    <2>1. PICK w : w = [for |-> "delete"] /\ IsOneOf(w, handler[h])
      BY <1>1
    <2>2. w.for = "delete"
      BY <2>1
    <2>3. QED BY <1>1, <2>1, <2>2 DEF IsOneOf
  <1>3. TypeOK
    BY DEF PartsOK, ServerOK
  <1>4. CASE Stopped \/ handler'[h] = Failed
    <2>1. Stopped'
      BY <1>1, <1>4 DEF Stopped, Failed
    <2>2. QED BY <2>1 DEF DeletesFit
  <1>5. CASE ~ Stopped /\ handler'[h] # Failed
    <2>1. /\ \A d \in Drawings \ S : Agrees(d)
          /\ \A d \in S : d \notin There \/ AboutTo(d, {"delete"})
          /\ \A g \in Handlers : handler[g].pc = "delete" => handler[g].drawing \in S
      BY <1>5 DEF DeletesFit
    <2>2. CASE handler[h].pc = "delete"
      <3>1. PICK d \in S : d = handler[h].drawing
        BY <2>1, <2>2
      <3>2. handler'[h] = [pc |-> "invalidate"]
            /\ drawing' = [drawing EXCEPT ![d] = Deleted]
        BY <1>3, <1>5, <2>2, <3>1, ServedMove
      <3>3. handler'[h].pc = "invalidate"
        BY <3>2
      <3>4. drawing'[d] = Deleted /\ \A o \in Drawings \ {d} : drawing'[o] = drawing[o]
        BY <1>3, <3>2 DEF TypeOK
      <3>5. \A o \in Drawings \ S : Agrees(o)'
        BY <2>1, <3>4 DEF Agrees, Listing, There
      <3>6. ASSUME NEW o \in S PROVE o \notin There' \/ AboutTo(o, {"delete"})'
        <4>1. CASE o = d
          BY <3>4, <4>1 DEF There, Deleted
        <4>2. CASE o # d /\ o \notin There
          BY <3>4, <4>2 DEF There
        <4>3. CASE o # d /\ AboutTo(o, {"delete"})
          BY <1>1, <3>1, <4>3 DEF AboutTo
        <4>4. QED BY <2>1, <4>1, <4>2, <4>3
      <3>7. \A g \in Handlers : handler'[g].pc = "delete" => handler'[g].drawing \in S
        BY <1>1, <2>1, <3>3
      <3>8. QED BY <3>5, <3>6, <3>7 DEF DeletesFit
    <2>3. CASE handler[h].pc = "invalidate"
      <3>1. handler'[h].pc = "done" /\ UNCHANGED drawing
        BY <1>3, <2>3, ServedMove DEF Done
      <3>2. \A d \in Drawings : Agrees(d) => Agrees(d)'
        BY <3>1 DEF Agrees, Listing, There
      <3>3. \A d \in Drawings : AboutTo(d, {"delete"}) => AboutTo(d, {"delete"})'
        BY <1>1, <2>3 DEF AboutTo
      <3>4. There' = There
        BY <3>1 DEF There
      <3>5. \A g \in Handlers : handler'[g].pc = "delete" => handler'[g].drawing \in S
        BY <1>1, <2>1, <3>1
      <3>6. QED BY <2>1, <3>2, <3>3, <3>4, <3>5 DEF DeletesFit
    <2>4. QED BY <1>2, <2>2, <2>3
  <1>6. QED BY <1>4, <1>5

LEMMA ServeSure ==
  ASSUME PartsOK, PartsOK', AloneOK, SureOK, NEW h \in Handlers, Serve(h),
         UNCHANGED <<page, asked>>
  PROVE  SureOK'
  <1>1. handler[h] # Idle
    BY ServedBy DEF Idle
  <1>2. asked[h] # Nothing
    BY <1>1 DEF PartsOK, RequestsOK, RequestOK
  <1>3. ~ Quiet'
    BY <1>2 DEF Quiet, PartsOK, RequestsOK, RequestOK
  <1>4. CASE ~ page.sure
    BY <1>4, Unsure
  <1>5. CASE page.sure
    <2>1. asked[h].alone
      BY <1>2, <1>5 DEF SureOK
    <2>2. \A i \in Handlers : asked[i] # Nothing => asked[i] = asked[h]
      BY <1>2, <2>1 DEF AloneOK, BelongsTogether
    <2>3. ASSUME NEW i \in Handlers, asked[i] # Nothing, asked[i].for = "move"
          PROVE  MovesFit'
      <3>1. MovesFit
        BY <1>5, <2>3 DEF SureOK
      <3>2. \A g \in Handlers : asked[g] # Nothing => asked[g].for = "move"
        BY <2>2, <2>3
      <3>3. QED BY <3>1, <3>2, ServeMoves
    <2>4. ASSUME NEW i \in Handlers, asked[i] # Nothing, asked[i].for = "delete",
                 NEW S \in SUBSET Drawings, asked[i].drawings = S
          PROVE  DeletesFit(S)'
      <3>1. DeletesFit(S)
        BY <1>5, <2>4 DEF SureOK
      <3>2. \A g \in Handlers : asked[g] # Nothing => asked[g].for = "delete"
        BY <2>2, <2>4
      <3>3. QED BY <3>1, <3>2, ServeDeletes
    <2>5. QED BY <1>3, <1>5, <2>3, <2>4 DEF SureOK
  <1>6. QED BY <1>4, <1>5

LEMMA SureStep ==
  /\ ConstantsAssumption /\ PartsOK /\ PartsOK' /\ AloneOK /\ SureOK /\ [DashNext]_dashVars
  => SureOK'
  <1> SUFFICES ASSUME ConstantsAssumption, PartsOK, PartsOK', AloneOK, SureOK,
                      [DashNext]_dashVars
               PROVE  SureOK'
    OBVIOUS
  <1>1. CASE Batch
    BY ConstantsAssumption, <1>1, BatchSure
  <1>2. ASSUME NEW h \in Handlers,
               Act(h) \/ Show(h) \/ FollowUp(h) \/ Settle(h) \/ Elsewhere(h)
        PROVE  SureOK'
    BY <1>2, SelectSure, RemoveSure, RemoveSelectedSure, ShowSure,
       FollowUpSure, SettleSure, ElsewhereSure DEF Act
  <1>3. ASSUME NEW h \in Handlers, Serve(h), UNCHANGED <<page, asked>>
        PROVE  SureOK'
    BY <1>3, ServeSure
  <1>4. CASE UNCHANGED <<page, asked, handler, drawing>>
    <2>1. /\ MovesFit => MovesFit'
          /\ \A S \in SUBSET Drawings : DeletesFit(S) => DeletesFit(S)'
      <3>1. Stopped => Stopped'
        BY <1>4 DEF Stopped
      <3>2. There' = There /\ \A d \in Drawings : Agrees(d) => Agrees(d)'
        BY <1>4 DEF Agrees, Listing, There
      <3>3. \A d \in Drawings :
              /\ AboutTo(d, {"ensure", "write"}) => AboutTo(d, {"ensure", "write"})'
              /\ AboutTo(d, {"delete"}) => AboutTo(d, {"delete"})'
        BY <1>4 DEF AboutTo
      <3>4. MovesFit => MovesFit'
        BY <1>4, <3>1, <3>2, <3>3 DEF MovesFit
      <3>5. \A S \in SUBSET Drawings : DeletesFit(S) => DeletesFit(S)'
        BY <1>4, <3>1, <3>2, <3>3 DEF DeletesFit
      <3>6. QED BY <3>4, <3>5
    <2>2. Quiet' => Quiet
      BY <1>4 DEF Quiet
    <2>3. page.shown = Listing(page.view) => (page.shown = Listing(page.view))'
      BY <1>4 DEF Listing, There
    <2>4. QED BY <1>4, <2>1, <2>2, <2>3 DEF SureOK
  <1>5. QED BY <1>1, <1>2, <1>3, <1>4 DEF DashNext, Expire, dashVars, vars

LEMMA SureInvariant == DashSpec => [](PartsOK /\ AloneOK /\ SureOK)
  <1>1. DashInit => PartsOK
    BY ConstantsAssumption, PartsInit
  <1>2. DashInit => AloneOK /\ SureOK
    <2> SUFFICES ASSUME DashInit PROVE AloneOK /\ SureOK
      OBVIOUS
    <2>1. \A h \in Handlers : asked[h] = Nothing
      BY DEF DashInit
    <2>2. AloneOK
      BY <2>1 DEF AloneOK, BelongsTogether, AnswersExact, Nothing
    <2>3. page.shown = Listing(page.view)
      BY DEF DashInit, Init, Listing, There, Unused
    <2>4. SureOK
      BY <2>1, <2>3 DEF SureOK
    <2>5. QED BY <2>2, <2>4
  <1>3. PartsOK /\ [DashNext]_dashVars => PartsOK'
    BY ConstantsAssumption, PartsStep
  <1>4. PartsOK /\ AloneOK /\ [DashNext]_dashVars => AloneOK'
    BY ConstantsAssumption, AloneStep
  <1>5. PartsOK /\ PartsOK' /\ AloneOK /\ SureOK /\ [DashNext]_dashVars => SureOK'
    BY ConstantsAssumption, SureStep
  <1>6. QED BY <1>1, <1>2, <1>3, <1>4, <1>5, PTL DEF DashSpec

\* As long as the page does one thing at a time and nobody else changes anything,
\* what it shows is what the server has: for any number of drawings, collections,
\* batches and failures.
THEOREM PageIsExact == DashSpec => []ExactWhenAlone
  <1>1. SureOK => ExactWhenAlone
    BY DEF SureOK, ExactWhenAlone
  <1>2. QED BY <1>1, SureInvariant, PTL
=============================================================================
