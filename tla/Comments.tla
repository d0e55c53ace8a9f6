------------------------------ MODULE Comments ------------------------------
(***************************************************************************)
(* The comments of one drawing: the rows of the server, and the list each  *)
(* open tab keeps of them by the answers of its own requests and by the    *)
(* events of the drawing's room.                                           *)
(*                                                                         *)
(* Everybody in the model may edit the drawing. A handler reads the        *)
(* comment, writes it, and tells the room after the write is answered;     *)
(* these are three steps. A comment's body and anchor have two values      *)
(* each and there is one emoji. Of replies a tab shows their number, which *)
(* is left out, and the open thread, of which the model keeps the user's   *)
(* own. A tab may have several requests under way, also on one comment, and *)
(* several lists. missed is a history variable: the comments a tab was not  *)
(* told everything about in order, or whose entry an answer sets back.      *)
(***************************************************************************)
EXTENDS Naturals, Sequences, FiniteSets

CONSTANTS
  Tabs,         \* open editors
  Users,        \* those who are signed in there
  Owner,        \* of the drawing
  Nothing,         \* no row, not listed
  CommentBound, \* comments and replies that can be made
  ListLimit,    \* comments the server's answer lists at most: 50, the editor names none
  Clicks,       \* each sends one request
  DropBound     \* how often a socket drops

ASSUME CommentsAssumption ==
  /\ Owner \in Users /\ IsFiniteSet(Users)
  /\ ListLimit \in Nat \ {0}
  /\ CommentBound \in Nat \ {0} /\ DropBound \in Nat

VARIABLES
  comment,  \* the Comment rows with their CommentReaction rows
  made,     \* how many there have been: ids are not reused
  tab,      \* the tabs' user, room membership, list and open thread
  request,  \* the requests the clicks send
  fetch,    \* those for the list: of the tab just opened, and of moves that failed
  queue,    \* the events under way to each tab
  missed,   \* history: the comments it may show wrongly
  drops     \* how many disconnects there were

commentsVars == <<comment, made, tab, request, fetch, queue, missed, drops>>

-----------------------------------------------------------------------------
Ids == 1..CommentBound
Loads == Clicks \cup {Nothing}

\* parent 0: a comment of its own, with a pin on the canvas.
Row == [parent : 0..CommentBound, author : Users, body : BOOLEAN, anchor : BOOLEAN,
        resolved : BOOLEAN, reacted : SUBSET Users]

Listed == [author : Users, body : BOOLEAN, anchor : BOOLEAN, resolved : BOOLEAN,
           count : Nat, mine : BOOLEAN]

Lists == [Ids -> Listed \cup {Nothing}]

ASSUME NothingAssumption == Nothing \notin Row \cup Listed

\* thread: the open one, and the user's own replies as it was read.
Tab == [user : Users, joined : BOOLEAN,
        thread : [of : Ids, own : SUBSET Ids], list : Lists]

\* What the list of a user says of a row.
Shown(row, u) ==
  [author |-> row.author, body |-> row.body, anchor |-> row.anchor,
   resolved |-> row.resolved, count |-> Cardinality(row.reacted), mine |-> u \in row.reacted]

TopLevel == {c \in Ids : comment[c] # Nothing /\ comment[c].parent = 0}

\* What a list with every comment would say.
Stored(u) == [c \in Ids |-> IF c \in TopLevel THEN Shown(comment[c], u) ELSE Nothing]

\* The list has the newest; nobody asks for the next page.
Newest == {c \in TopLevel : Cardinality({d \in TopLevel : d > c}) < ListLimit}

ListFor(u) == [c \in Ids |-> IF c \in Newest THEN Stored(u)[c] ELSE Nothing]

\* What the thread of c shows that this user may edit or delete.
OwnReplies(c, u) ==
  {d \in Ids : /\ comment[d] # Nothing /\ comment[d].parent = c
               /\ comment[d].author = u}

Ops == {"create", "reply", "edit", "resolve", "move", "react", "unreact", "delete"}

\* The answers these are given are merged into the comment as it was shown when
\* the popover's handler was called.
FromClosure == {"edit", "resolve", "react", "unreact"}

\* The events of these are not for the user who caused them.
NotForSelf == {"create", "edit", "react", "unreact"}

Unsent == [pc |-> "unsent"]
Done == [pc |-> "done"]
AtRest == {Unsent, Done}

\* entry: the comment as shown at the click; value: the new body or anchor, and
\* what resolved becomes; older: requests that wrote this comment before and have
\* not told the room.
Request == [pc : {"check", "write", "emit", "answer"}, tab : Tabs, op : Ops, id : 0..CommentBound,
            entry : Listed \cup {Nothing}, value : BOOLEAN, ok : BOOLEAN,
            older : SUBSET Clicks, late : BOOLEAN]

\* of: the request it tells of.
Event == [op : Ops \ {"reply"}, id : Ids, value : BOOLEAN, of : Clicks, by : Tabs, user : Users,
          late : BOOLEAN]

\* A request for the list, of the tab just opened (Nothing) or of a click whose move has
\* failed. list: Nothing until the server has read it; seen: what it may be wrong about.
Fetch == [tab : Tabs, list : Lists \cup {Nothing}, seen : SUBSET Ids]

Asked(t) == [tab |-> t, list |-> Nothing, seen |-> {}]

Busy(q) == request[q] \notin AtRest

InRoom(t) == tab[t].joined

\* The lists that were read and are on their way to one of these tabs.
UnderWay(ts) == {f \in DOMAIN fetch : /\ fetch[f] # Nothing /\ fetch[f].tab \in ts
                                      /\ fetch[f].list # Nothing}

\* Something these tabs are shown or told about cs, or miss of it, after that.
Touch(ts, cs) ==
  [f \in DOMAIN fetch |-> IF f \in UnderWay(ts)
                          THEN [fetch[f] EXCEPT !.seen = @ \cup cs] ELSE fetch[f]]

Miss(ts, c) == [t \in Tabs |-> IF t \in ts THEN missed[t] \cup {c} ELSE missed[t]]

-----------------------------------------------------------------------------
(* The click. *)

Send(r) ==
  /\ \E q \in Clicks : request[q] = Unsent /\ request' = [request EXCEPT ![q] = r]
  /\ UNCHANGED <<comment, made, fetch, queue, missed, drops>>

NewRequest(t, op, c, entry, value) ==
  [pc |-> "check", tab |-> t, op |-> op, id |-> c, entry |-> entry, value |-> value, ok |-> TRUE,
   older |-> {}, late |-> FALSE]

CreateComment(t) ==
  /\ Send(NewRequest(t, "create", 0, Nothing, FALSE))
  /\ UNCHANGED tab

\* The popover has a menu for the author, and a bin for the owner too.
MayEdit(e, u) == e.author = u
MayDelete(e, u) == e.author = u \/ Owner = u

\* A click on an emoji reacts, or takes back the reaction.
Toggles(e, op) == (op = "react" => ~e.mine) /\ (op = "unreact" => e.mine)

\* What is typed, or where the pin is dropped; nothing in the other requests.
Inputs(e, op) ==
  IF op = "edit" THEN BOOLEAN ELSE IF op = "move" THEN {~e.anchor} ELSE {FALSE}

\* The pin that is dragged is moved before the server answers.
Dragged(t, c) == [tab EXCEPT ![t].list[c].anchor = ~@]

Act(t, c, op) ==
  LET e == tab[t].list[c]
  IN  /\ e # Nothing
      /\ op = "edit" => MayEdit(e, tab[t].user)
      /\ op = "delete" => MayDelete(e, tab[t].user)
      /\ Toggles(e, op)
      /\ \E v \in Inputs(e, op) :
           Send(NewRequest(t, op, c, IF op \in FromClosure THEN e ELSE Nothing, v))
      /\ tab' = IF op = "move" THEN Dragged(t, c) ELSE tab

\* The popover of a comment reads its replies when it opens and whenever their
\* number changes; nothing else tells it of replies made or deleted elsewhere. Reading
\* the same once more changes nothing.
LoadReplies(t, c) ==
  /\ tab[t].list[c] # Nothing /\ comment[c] # Nothing
  /\ OwnReplies(c, tab[t].user) # tab[t].thread.own
  /\ tab' = [tab EXCEPT ![t].thread = [of |-> c, own |-> OwnReplies(c, tab[t].user)]]
  /\ UNCHANGED <<comment, made, request, fetch, queue, missed, drops>>

\* The reply may be gone, with its comment or by another tab of this user.
DeleteReply(t, c) ==
  /\ c \in tab[t].thread.own /\ tab[t].list[tab[t].thread.of] # Nothing
  /\ Send(NewRequest(t, "delete", c, Nothing, FALSE))
  /\ UNCHANGED tab

-----------------------------------------------------------------------------
(* The handlers. *)

Refuse(q) ==
  /\ request' = [request EXCEPT ![q] = [@ EXCEPT !.pc = "answer", !.ok = FALSE, !.entry = Nothing]]
  /\ UNCHANGED <<comment, made, tab, fetch, queue, missed, drops>>

\* Whether the comment is there, and may be changed in this way.
Allowed(q) ==
  LET r == request[q] u == tab[r.tab].user
  IN  r.op \notin {"create", "unreact"} =>
         /\ comment[r.id] # Nothing
         /\ r.op \in {"reply", "resolve", "move"} => comment[r.id].parent = 0
         /\ r.op = "edit" => comment[r.id].author = u
         /\ r.op = "delete" => comment[r.id].author = u \/ Owner = u

Check(q) ==
  LET r == request[q]
  IN  /\ r.pc = "check" /\ Allowed(q)
      /\ request' = [request EXCEPT ![q] =
           [r EXCEPT !.pc = "write",
                     !.value = IF r.op = "resolve" THEN ~comment[r.id].resolved ELSE @]]
      /\ UNCHANGED <<comment, made, tab, fetch, queue, missed, drops>>

CheckFails(q) == request[q].pc = "check" /\ ~Allowed(q) /\ Refuse(q)

\* The update fails when the row is gone; a parent that is gone fails the
\* foreign key of a reply.
WriteFails(q) ==
  /\ request[q].pc = "write" /\ request[q].op \notin {"create", "unreact"}
  /\ comment[request[q].id] = Nothing
  /\ Refuse(q)

\* A mutant of WithThread: the replies stay.
MutantWithThread(c) == {c}

\* The reactions and replies of a comment go with it.
WithThread(c) == {d \in Ids : d = c \/ (comment[d] # Nothing /\ comment[d].parent = c)}

Edited(row, value) == [row EXCEPT !.body = value]
Moved(row, value) == [row EXCEPT !.anchor = value]
Resolved(row, value) == [row EXCEPT !.resolved = value]
Reacted(row, u) == [row EXCEPT !.reacted = @ \cup {u}]
Unreacted(row, u) == [row EXCEPT !.reacted = @ \ {u}]

Written(q, c) ==
  LET r == request[q] u == tab[r.tab].user row == comment[c]
  IN  CASE r.op = "edit" -> Edited(row, r.value)
        [] r.op = "move" -> Moved(row, r.value)
        [] r.op = "resolve" -> Resolved(row, r.value)
        [] r.op = "react" -> Reacted(row, u)
        [] r.op = "unreact" -> Unreacted(row, u)
        [] OTHER -> Nothing

NewRow(q) ==
  [parent |-> IF request[q].op = "reply" THEN request[q].id ELSE 0, author |-> tab[request[q].tab].user,
   body |-> FALSE, anchor |-> FALSE, resolved |-> FALSE, reacted |-> {}]

\* Who wrote c and has not told the room yet.
Telling(c) == {q \in Clicks : request[q].pc = "emit" /\ request[q].id = c}

\* A reaction that is there already, and one that is not there, are announced as
\* well; every list then counts one too many or too few.
Misled(q, c) ==
  IF /\ request[q].op \in {"react", "unreact"}
     /\ comment[c] # Nothing /\ Written(q, c) = comment[c]
  THEN Tabs ELSE {}

Insert(q) ==
  /\ request[q].pc = "write" /\ request[q].op \in {"create", "reply"} /\ made < CommentBound
  /\ request[q].op = "reply" => comment[request[q].id] # Nothing
  /\ made' = made + 1
  /\ comment' = [comment EXCEPT ![made + 1] = NewRow(q)]
  /\ request' = [request EXCEPT ![q] = [@ EXCEPT !.pc = "emit", !.id = made + 1]]
  /\ UNCHANGED <<tab, fetch, queue, missed, drops>>

Deleted(c) == [d \in Ids |-> IF d \in WithThread(c) THEN Nothing ELSE comment[d]]

Write(q) ==
  LET c == request[q].id
  IN  /\ request[q].pc = "write" /\ request[q].op \notin {"create", "reply"}
      /\ comment[c] = Nothing => request[q].op = "unreact"
      /\ comment' = IF comment[c] = Nothing THEN comment
                    ELSE IF request[q].op = "delete" THEN Deleted(c)
                    ELSE [comment EXCEPT ![c] = Written(q, c)]
      /\ request' = [request EXCEPT ![q] = [@ EXCEPT !.pc = "emit", !.older = Telling(c)]]
      /\ missed' = Miss(Misled(q, c), c)
      /\ fetch' = Touch(Misled(q, c), {c})
      /\ UNCHANGED <<made, tab, queue, drops>>

\* A reply changes numbers of replies only.
IsReply(q) == request[q].op = "reply"

Emit(q) ==
  LET r == request[q]
      e == [op |-> r.op, id |-> r.id, value |-> r.value, of |-> q, by |-> r.tab,
            user |-> tab[r.tab].user, late |-> r.late]
      lost == {o \in Tabs : ~InRoom(o)}
      overtaken == r.older \cap Telling(r.id)
  IN  /\ r.pc = "emit"
      /\ queue' = IF IsReply(q) THEN queue
                  ELSE [o \in Tabs |-> IF InRoom(o) THEN Append(queue[o], e) ELSE queue[o]]
      /\ missed' = Miss(lost, r.id)
      /\ fetch' = Touch(lost, {r.id})
      /\ request' = [p \in Clicks |-> IF p = q THEN [r EXCEPT !.pc = "answer", !.older = {}]
                                    ELSE IF p \in overtaken THEN [request[p] EXCEPT !.late = TRUE]
                                    ELSE request[p]]
      /\ UNCHANGED <<comment, made, tab, drops>>

-----------------------------------------------------------------------------
(* The answer, and the events. *)

\* A reaction nobody is left with is taken off, and with it that it is one's own.
OneLess(entry) ==
  IF entry.count <= 1 THEN [entry EXCEPT !.count = 0, !.mine = FALSE]
  ELSE [entry EXCEPT !.count = @ - 1]

\* What the list says of a comment just made by user u.
Fresh(u) == [author |-> u, body |-> FALSE, anchor |-> FALSE, resolved |-> FALSE,
             count |-> 0, mine |-> FALSE]

Answered(q, entry) ==
  LET r == request[q]
  IN  IF r.op = "create" THEN Fresh(tab[r.tab].user)
      ELSE IF entry = Nothing THEN Nothing
      ELSE CASE r.op = "delete" -> Nothing
             [] r.op = "edit" -> [r.entry EXCEPT !.body = r.value]
             [] r.op = "resolve" -> [r.entry EXCEPT !.resolved = r.value]
             [] r.op = "react" -> [r.entry EXCEPT !.count = @ + 1, !.mine = TRUE]
             [] r.op = "unreact" -> [OneLess(r.entry) EXCEPT !.mine = FALSE]
             [] OTHER -> entry

\* Requests of tab t, but for those of qs, whose answers will set the entry of c back to what
\* it was at their clicks.
Pending(t, qs, c) ==
  {p \in Clicks \ qs : /\ Busy(p) /\ request[p].tab = t /\ request[p].id = c
                       /\ request[p].op \in FromClosure \cup {"create"}}

Answer(q) ==
  LET c == request[q].id t == request[q].tab
  IN  /\ request[q].pc = "answer" /\ request[q].ok
      /\ tab' = [tab EXCEPT ![t].list[c] = IF IsReply(q) THEN @ ELSE Answered(q, @),
                            ![t].thread.own = IF request[q].op = "delete" THEN @ \ {c} ELSE @]
      /\ missed' = Miss(IF request[q].op \in FromClosure /\ Pending(t, {q}, c) # {} THEN {t} ELSE {}, c)
      /\ fetch' = Touch({t}, {c})
      /\ request' = [request EXCEPT ![q] = Done]
      /\ UNCHANGED <<comment, made, queue, drops>>

\* Refused, or the answer is lost: a move then asks for the list again, beside any
\* other that is asked for.
AnswerFails(q) ==
  LET c == request[q].id t == request[q].tab
      wrong == IF request[q].ok \/ request[q].op = "move" THEN {t} ELSE {}
  IN  /\ request[q].pc = "answer"
      /\ missed' = Miss(wrong, c)
      /\ fetch' = [Touch(wrong, {c}) EXCEPT ![q] = IF request[q].op = "move" THEN Asked(t) ELSE @]
      /\ request' = [request EXCEPT ![q] = Done]
      /\ UNCHANGED <<comment, made, tab, queue, drops>>

\* What an event makes of an entry the list has.
Changed(entry, e) ==
  CASE e.op = "delete" -> Nothing
    [] e.op = "edit" -> [entry EXCEPT !.body = e.value]
    [] e.op = "move" -> [entry EXCEPT !.anchor = e.value]
    [] e.op = "resolve" -> [entry EXCEPT !.resolved = e.value]
    [] e.op = "react" -> [entry EXCEPT !.count = @ + 1]
    [] e.op = "unreact" -> OneLess(entry)
    [] OTHER -> entry

\* A mutant of Told: resolving toggles what the tab shows.
MutantTold(entry, e) ==
  IF entry = Nothing THEN IF e.op = "create" THEN Fresh(e.user) ELSE Nothing
  ELSE IF e.op = "resolve" THEN [entry EXCEPT !.resolved = ~@]
  ELSE Changed(entry, e)

\* What an event makes of the list's entry of its comment, or of there being none.
Told(entry, e) ==
  IF entry = Nothing THEN IF e.op = "create" THEN Fresh(e.user) ELSE Nothing
  ELSE Changed(entry, e)

Skipped(t, e) == e.op \in NotForSelf /\ e.user = tab[t].user

\* The list changes, and an answer that is still to come sets it back.
Undone(t, e) == ~Skipped(t, e) /\ Pending(t, {e.of}, e.id) # {}

Receive(t) ==
  LET e == Head(queue[t])
  IN  /\ queue[t] # << >>
      /\ queue' = [queue EXCEPT ![t] = Tail(@)]
      /\ tab' = IF Skipped(t, e) THEN tab ELSE [tab EXCEPT ![t].list[e.id] = Told(@, e)]
      /\ missed' = IF (Skipped(t, e) /\ e.by # t) \/ Undone(t, e) \/ e.late THEN Miss({t}, e.id) ELSE missed
      /\ fetch' = Touch({t}, {e.id})
      /\ UNCHANGED <<comment, made, request, drops>>

Join(t) ==
  /\ ~InRoom(t)
  /\ tab' = [tab EXCEPT ![t].joined = TRUE]
  /\ UNCHANGED <<comment, made, request, fetch, queue, missed, drops>>

\* What is under way to a socket that drops is lost. Nothing is read again when
\* the tab is back in the room.
Disconnect(t) ==
  LET lost == {queue[t][i].id : i \in 1..Len(queue[t])}
  IN  /\ InRoom(t) /\ drops < DropBound
      /\ drops' = drops + 1
      /\ tab' = [tab EXCEPT ![t].joined = FALSE]
      /\ queue' = [queue EXCEPT ![t] = << >>]
      /\ missed' = [missed EXCEPT ![t] = @ \cup lost]
      /\ fetch' = Touch({t}, lost)
      /\ UNCHANGED <<comment, made, request>>

-----------------------------------------------------------------------------
(* The list. *)

\* Counting events that this list already has the effect of.
CountedTwice(t) ==
  {queue[t][i].id : i \in {j \in 1..Len(queue[t]) : queue[t][j].op \in {"react", "unreact"}}}
    \cup {request[q].id : q \in {p \in Clicks : /\ request[p].pc = "emit"
                                               /\ request[p].op \in {"react", "unreact"}}}

GetComments(f) ==
  /\ fetch[f] # Nothing /\ fetch[f].list = Nothing
  /\ fetch' = [fetch EXCEPT ![f].list = ListFor(tab[fetch[f].tab].user),
                            ![f].seen = CountedTwice(fetch[f].tab) \cup (TopLevel \ Newest)]
  /\ UNCHANGED <<comment, made, tab, request, queue, missed, drops>>

SetComments(f) ==
  /\ fetch[f] # Nothing /\ fetch[f].list # Nothing
  /\ LET t == fetch[f].tab
     IN  /\ tab' = [tab EXCEPT ![t].list = fetch[f].list]
         /\ missed' = [missed EXCEPT ![t] = fetch[f].seen \cup {c \in Ids : Pending(t, {}, c) # {}}]
  /\ fetch' = [fetch EXCEPT ![f] = Nothing]
  /\ UNCHANGED <<comment, made, request, queue, drops>>

GetCommentsFails(f) ==
  /\ fetch[f] # Nothing
  /\ fetch' = [fetch EXCEPT ![f] = Nothing]
  /\ UNCHANGED <<comment, made, tab, request, queue, missed, drops>>

-----------------------------------------------------------------------------
\* There is a comment of somebody else than the owner, who may have reacted to it,
\* and one tab has just been opened.
CommentsInit ==
  /\ made = 1
  /\ \E a \in Users \ {Owner}, r \in SUBSET {Owner} :
       comment = [c \in Ids |-> IF c = 1 THEN [parent |-> 0, author |-> a, body |-> FALSE, anchor |-> FALSE,
                                               resolved |-> FALSE, reacted |-> r]
                                ELSE Nothing]
  /\ \E u \in [Tabs -> Users], opened \in Tabs :
       /\ tab = [t \in Tabs |-> [user |-> u[t], joined |-> TRUE,
                                 thread |-> [of |-> 1, own |-> {}],
                                 list |-> [c \in Ids |-> IF t = opened THEN Nothing ELSE ListFor(u[t])[c]]]]
       /\ missed = [t \in Tabs |-> IF t = opened THEN Ids ELSE {}]
       /\ fetch = [f \in Loads |-> IF f = Nothing THEN Asked(opened) ELSE Nothing]
  /\ request = [q \in Clicks |-> Unsent]
  /\ queue = [t \in Tabs |-> << >>]
  /\ drops = 0

CommentsNext ==
  \/ \E t \in Tabs :
       \/ CreateComment(t)
       \/ \E c \in Ids : LoadReplies(t, c) \/ DeleteReply(t, c) \/ (\E op \in Ops \ {"create"} : Act(t, c, op))
       \/ Receive(t) \/ Join(t) \/ Disconnect(t)
  \/ \E q \in Clicks :
       \/ Check(q) \/ CheckFails(q) \/ Insert(q) \/ Write(q) \/ WriteFails(q) \/ Emit(q)
       \/ Answer(q) \/ AnswerFails(q)
  \/ \E f \in Loads : GetComments(f) \/ SetComments(f) \/ GetCommentsFails(f)

CommentsSpec == CommentsInit /\ [][CommentsNext]_commentsVars

-----------------------------------------------------------------------------
Settled(t) ==
  /\ \A f \in Loads : fetch[f] = Nothing \/ fetch[f].tab # t
  /\ queue[t] = << >>
  /\ \A q \in Clicks : Busy(q) => request[q].tab # t /\ request[q].pc # "emit"

CommentsTypeOK ==
  /\ comment \in [Ids -> Row \cup {Nothing}] /\ made \in Ids
  /\ \A c \in Ids : comment[c] # Nothing => c <= made
  /\ tab \in [Tabs -> Tab]
  /\ request \in [Clicks -> Request \cup AtRest]
  /\ fetch \in [Loads -> Fetch \cup {Nothing}]
  /\ queue \in [Tabs -> Seq(Event)]
  /\ missed \in [Tabs -> SUBSET Ids]
  /\ drops \in 0..DropBound

\* However the answers of a tab's own requests, also of several at once, the events of
\* the others and the lists it asks for come in, it shows each comment as the server has
\* it when nothing is under way, except those that missed names: what it was not told,
\* what was told out of order, what an answer has set back to the click it belongs to,
\* and what the page of the list had no room for.
ExactUnlessMissed ==
  \A t \in Tabs : Settled(t) =>
    \A c \in Ids \ missed[t] : tab[t].list[c] = Stored(tab[t].user)[c]

\* A reply belongs to a comment that is there and is not a reply, whatever is
\* deleted between the check of the parent and the insertion.
ThreadsAreWhole ==
  \A c \in Ids : comment[c] # Nothing /\ comment[c].parent # 0 =>
    comment[comment[c].parent] # Nothing /\ comment[comment[c].parent].parent = 0
=============================================================================
