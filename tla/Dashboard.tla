----------------------------- MODULE Dashboard -----------------------------
(***************************************************************************)
(* The page that lists drawings, over the server of module Library: the    *)
(* view that is selected, the list that is shown, the operations that      *)
(* change the list before the server answers, and the refreshes that       *)
(* replace it.                                                             *)
(*                                                                         *)
(* A request of the page is a request of Library with what the page does   *)
(* with the answer. An operation on several drawings is a batch: as many   *)
(* requests, whose answers are awaited together. The lists fit into one    *)
(* page; search and sorting are left out.                                  *)
(***************************************************************************)
EXTENDS Library

ASSUME DashAssumption == All \in Views /\ None \notin Handlers

VARIABLES
  page,   \* what the page shows
  asked   \* what the page wants of each request, and the view it had then

dashVars == <<vars, page, asked>>

-----------------------------------------------------------------------------
(* The page and its requests. *)

\* stale: what has left the list and may be selected still. latest: the refresh whose
\* answer is used. of, missed, strayed and sure are history: the view the list on the
\* page was asked for; the latest refresh failed; it was asked for by an operation that began in another view; the list was fetched,
\* and changed since, with nothing else under way.
Page ==
  [view : Views, shown : SUBSET Drawings, stale : SUBSET Drawings, latest : Handlers \cup {None},
   of : Views, missed : BOOLEAN, strayed : BOOLEAN, sure : BOOLEAN]

Nothing == [for |-> "nothing"]
Asked ==
  {Nothing}
    \cup [for : {"refresh", "move", "delete", "duplicate", "upload", "remove", "other"},
          view : Views, drawings : SUBSET Drawings, alone : BOOLEAN]

Quiet == \A h \in Handlers : handler[h] = Idle

\* What is under way already is not alone any more.
Disturbed == [h \in Handlers |->
  IF asked[h] = Nothing THEN Nothing ELSE [asked[h] EXCEPT !.alone = FALSE]]

\* Of others nothing is awaited.
Unawaited == [for |-> "other", view |-> All, drawings |-> {}, alone |-> FALSE]

Asks(H, for, v, S) ==
  asked' = [h \in Handlers |->
    IF h \in H THEN [for |-> for, view |-> v, drawings |-> S, alone |-> Quiet]
    ELSE Disturbed[h]]

Several(S) == \E c, d \in S : c # d

\* The requests of a batch for the drawings S, that of d on handler at[d].
Sends(S, at, for, begun) ==
  LET H == {at[d] : d \in S}
      of(h) == CHOOSE d \in S : at[d] = h
  IN  /\ S # {} /\ \A c, d \in S : at[c] = at[d] => c = d
      /\ \A h \in H : handler[h] = Idle
      /\ handler' = [h \in Handlers |-> IF h \in H THEN begun[of(h)] ELSE handler[h]]
      /\ Asks(H, for, page.view, IF for = "delete" \/ Several(S) THEN S ELSE {})
      /\ UNCHANGED <<drawing, collection, cache, purge>>

\* What is asked of a drawing that has gone is refused.
OfOneThere(d, state) == IF d \in There THEN state ELSE Failed

\* refreshData, which starts in the view it was made for.
Refreshed(p, h, v) ==
  [p EXCEPT !.latest = h, !.missed = FALSE, !.strayed = v # p.view, !.sure = FALSE]

-----------------------------------------------------------------------------
(* The user acts. *)

\* The selection of a view refreshes it.
Select(h, v) ==
  /\ List(h, v)
  /\ page' = Refreshed([page EXCEPT !.view = v], h, v)
  /\ Asks({h}, "refresh", v, {})

\* The menu of a card, of one that is shown.
OnCard(S) == \E d \in page.shown : S = {d}

\* Any cards may be selected, and so may what has left the list meanwhile.
Selectable == page.shown \cup page.stale
hasSelection(S) == S # {} /\ S \subseteq Selectable

\* An operation on several ends the selection. A card need not be selected.
Left(S) == IF OnCard(S) THEN page.stale ELSE {}

Shows(rows, left, sure) ==
  page' = [page EXCEPT !.shown = rows, !.stale = left, !.sure = @ /\ sure]

Stays(sure) == Shows(page.shown, page.stale, sure)

\* Where everything is shown nothing is taken off the list, whatever the target.
Kept(S, p) == IF page.view \in {All, p} THEN page.shown ELSE page.shown \ S

MutantMoveCards(S, at, p, left) ==
  /\ Sends(S, at, "move", [d \in S |-> OfOneThere(d, Towards("move", d, p))])
  /\ Shows(page.shown, left, Quiet /\ S \subseteq page.shown /\ ~(page.view = All /\ p = Trash))

MoveCards(S, at, p, left) ==
  /\ Sends(S, at, "move", [d \in S |-> OfOneThere(d, Towards("move", d, p))])
  /\ Shows(Kept(S, p), left, Quiet /\ S \subseteq page.shown /\ ~(page.view = All /\ p = Trash))

\* handleBulkMove, and handleMoveToCollection, after which the card is selected still
MoveToCollection(S, at, p) ==
  /\ hasSelection(S)
  /\ MoveCards(S, at, p, Left(S) \cup IF OnCard(S) THEN S \ Kept(S, p) ELSE {})

\* The card that is dragged takes along what is selected, if it is so itself.
DropCards(S, at, p) ==
  /\ hasSelection(S) /\ S \cap page.shown # {}
  /\ MoveCards(S, at, p, Left(S))

\* handleDeleteDrawing and executeBulkMoveToTrash
MoveToTrash(S, at) ==
  /\ hasSelection(S)
  /\ page.view # Trash
  /\ Sends(S, at, "move", [d \in S |-> OfOneThere(d, Towards("move", d, Trash))])
  /\ Shows(page.shown \ S, Left(S), Quiet)

\* executePermanentDelete and the one in bulk: the list changes when it is done.
DeleteForever(S, at) ==
  /\ hasSelection(S) /\ page.view = Trash
  /\ Sends(S, at, "delete", [d \in S |-> OfOneThere(d, [pc |-> "delete", drawing |-> d])])
  /\ Stays(Quiet)

\* handleDuplicateDrawing and, outside the trash, handleBulkDuplicate: d is the copy
\* of copied[d].
DuplicateDrawings(S, at, copied) ==
  /\ \A d \in S : drawing[d] = Unused
  /\ \A c, d \in S : copied[c] = copied[d] => c = d
  /\ LET originals == {copied[d] : d \in S}
     IN  OnCard(originals) \/ (page.view # Trash /\ hasSelection(originals))
  /\ Sends(S, at, "duplicate", [d \in S |-> OfOneThere(copied[d],
                                  Towards("copy", d, drawing[copied[d]].place))])
  /\ Stays(Quiet)

\* uploadFiles: as many drawings are created as files are valid, all at once.
Upload(S, at, p) ==
  /\ \A d \in S : drawing[d] = Unused
  /\ Sends(S, at, "upload", [d \in S |-> Towards("create", d, p)])
  /\ Stays(Quiet)

handleImportDrawings(S, at) ==
  page.view # Trash /\ Upload(S, at, IF page.view = All THEN None ELSE page.view)

\* Files or drawings are dropped on a collection.
handleDrop(S, at, p) == Upload(S, at, p) \/ DropCards(S, at, p)

\* handleDeleteCollection, of one that is not selected
RemoveCollection(h, k) ==
  /\ k # page.view /\ DeleteCollection(h, k)
  /\ Stays(Quiet)
  /\ Asks({h}, "remove", page.view, {})

\* Of the one that is selected: the page goes to the list of everything, which
\* it refreshes on h, while the collection is deleted on i.
RemoveSelected(h, i, k) ==
  /\ h # i /\ handler[h] = Idle /\ handler[i] = Idle
  /\ k = page.view /\ k \in Collections /\ Exists(k)
  /\ handler' = [handler EXCEPT ![h] = Lists(All), ![i] = [pc |-> "remove", collection |-> k]]
  /\ page' = Refreshed([page EXCEPT !.view = All], h, All)
  /\ asked' = [Disturbed EXCEPT
       ![h] = [for |-> "refresh", view |-> All, drawings |-> {}, alone |-> FALSE],
       ![i] = [for |-> "remove", view |-> k, drawings |-> {}, alone |-> FALSE]]
  /\ UNCHANGED <<drawing, collection, cache, purge>>

\* Another tab or device of the user.
Elsewhere(h) ==
  /\ \E d \in Drawings : Delete(h, d) \/ \E p \in Places : Move(h, d, p)
  /\ Stays(FALSE)
  /\ asked' = [Disturbed EXCEPT ![h] = Unawaited]

-----------------------------------------------------------------------------
(* Answers. *)

Answered(h) == handler[h].pc \in {"listed", "done", "failed"}

Took(h, for) == Answered(h) /\ asked[h] # Nothing /\ asked[h].for = for

Ends(h) == Answer(h) /\ asked' = [asked EXCEPT ![h] = Nothing]

MutantShow(h) ==
  LET ok == handler[h].pc = "listed"
  IN  /\ Took(h, "refresh")
      /\ Ends(h)
      /\ page' = IF ok
                THEN [page EXCEPT !.latest = None, !.of = asked[h].view,
                                  !.shown = handler[h].rows, !.stale = {},
                                  !.sure = asked[h].alone /\ ~handler[h].raced]
                ELSE [page EXCEPT !.latest = None, !.missed = TRUE]

\* Only the answer to the latest refresh counts, and ends the selection; a failure
\* leaves the list.
Show(h) ==
  LET ok == handler[h].pc = "listed"
  IN  /\ Took(h, "refresh")
      /\ Ends(h)
      /\ page' = IF page.latest # h THEN page
                ELSE IF ok
                THEN [page EXCEPT !.latest = None, !.of = asked[h].view,
                                  !.shown = handler[h].rows, !.stale = {},
                                  !.sure = asked[h].alone /\ ~handler[h].raced]
                ELSE [page EXCEPT !.latest = None, !.missed = TRUE]

\* The requests of the batch of h that are not answered.
Rest(h) ==
  {i \in Handlers \ {h} :
     Several(asked[h].drawings)
       /\ asked[i] # Nothing /\ asked[i].for = asked[h].for
       /\ asked[i].drawings = asked[h].drawings}

\* The rest of a batch is not waited for once one of it has failed.
Abandoned(h) == [i \in Handlers |->
  IF i \in Rest(h) THEN Unawaited ELSE asked[i]]

\* What is deleted or copied is selected until all of it is.
LeftBy(h) ==
  IF /\ asked[h].for \in {"delete", "duplicate"} /\ Several(asked[h].drawings)
     /\ handler[h] = Done /\ Rest(h) = {}
  THEN {} ELSE page.stale

\* The refresh that follows an operation, with the view it began in.
Again(h) ==
  /\ handler' = [handler EXCEPT ![h] = Lists(asked[h].view)]
  /\ page' = Refreshed([page EXCEPT !.stale = LeftBy(h)], h, asked[h].view)
  /\ asked' = [Abandoned(h) EXCEPT
       ![h] = [for |-> "refresh", view |-> asked[h].view, drawings |-> {},
               alone |-> asked[h].alone /\ Rest(h) = {}]]
  /\ UNCHANGED <<drawing, collection, cache, purge>>

\* A move or a deletion that failed ends in a refresh, and so do copies that were
\* all made, files that were all tried and a collection that was to be deleted.
FollowUp(h) ==
  /\ \/ Took(h, "move") /\ handler[h] = Failed
     \/ Took(h, "delete") /\ handler[h] = Failed
     \/ Took(h, "duplicate") /\ handler[h] = Done /\ Rest(h) = {}
     \/ Took(h, "upload") /\ Rest(h) = {}
     \/ Took(h, "remove")
  /\ Again(h)

\* The last of a batch was deleted: now they are taken off the list.
Settled(h) ==
  IF asked[h].for = "delete" /\ Rest(h) = {} THEN page.shown \ asked[h].drawings
  ELSE page.shown

\* Nothing else is done about a copy that failed.
Settle(h) ==
  /\ \/ Took(h, "move") /\ handler[h] = Done
     \/ Took(h, "delete") /\ handler[h] = Done
     \/ Took(h, "duplicate") /\ (handler[h] = Failed \/ Rest(h) # {})
     \/ Took(h, "upload") /\ Rest(h) # {}
     \/ Took(h, "other")
  /\ Answer(h)
  /\ asked' = [IF handler[h] = Failed /\ asked[h].for = "duplicate" THEN Abandoned(h) ELSE asked
               EXCEPT ![h] = Nothing]
  /\ Shows(Settled(h), LeftBy(h), asked[h].alone /\ asked[h].for # "duplicate")

-----------------------------------------------------------------------------

\* The page asks for the collections too, which creates the trash.
DashInit ==
  /\ Init /\ \A k \in Collections \cup {Trash} : Exists(k)
  /\ page = [view |-> All, shown |-> {}, stale |-> {}, latest |-> None, of |-> All,
             missed |-> FALSE, strayed |-> FALSE, sure |-> TRUE]
  /\ asked = [h \in Handlers |-> Nothing]

\* What the user does with one drawing or several.
Batch ==
  \E S \in SUBSET Drawings : \E at \in [S -> {h \in Handlers : handler[h] = Idle}] :
    \/ MoveToTrash(S, at) \/ DeleteForever(S, at) \/ handleImportDrawings(S, at)
    \/ \E p \in Places : MoveToCollection(S, at, p) \/ handleDrop(S, at, p)
    \/ \E copied \in [S -> Drawings] : DuplicateDrawings(S, at, copied)

Act(h) ==
  \/ \E v \in Views : Select(h, v)
  \/ \E k \in Collections : RemoveCollection(h, k)
  \/ \E i \in Handlers, k \in Collections : RemoveSelected(h, i, k)

DashNext ==
  \/ Batch
  \/ \E h \in Handlers : Act(h) \/ Show(h) \/ FollowUp(h) \/ Settle(h) \/ Elsewhere(h)
  \/ /\ \/ \E h \in Handlers : Serve(h)
        \/ \E v \in Views : Expire(v)
     /\ UNCHANGED <<page, asked>>

DashSpec == DashInit /\ [][DashNext]_dashVars

-----------------------------------------------------------------------------
(* Properties. *)

\* The list on the page is one of the view that is selected, or its refresh is
\* under way or failed: answers that arrive out of order never put a list of
\* another view there. The exception is an operation whose refresh comes after
\* the user went to another view: it shows the list of the view it began in.
ShowsTheSelectedView ==
  page.of = page.view \/ page.latest # None \/ page.missed \/ page.strayed

\* As long as the page does one thing at a time and nobody else changes anything,
\* what it shows is what the server has, though most operations only change the
\* list on the page.
ExactWhenAlone ==
  Quiet /\ page.sure => page.shown = Listing(page.view)
=============================================================================
