----------------------------- MODULE SharedRoom -----------------------------
(***************************************************************************)
(* One drawing, who may see or edit it, and the room of the sockets that   *)
(* have it open: grants, shares of collections and link policies, the      *)
(* access check of the server, its cache in each connection, the list of   *)
(* those present and the relay of edits.                                   *)
(*                                                                         *)
(* Authentication is on. An access check reads its tables one after the    *)
(* other and anything may happen between two reads. Time passes in ticks;  *)
(* entries of the cache and handlers have an age in ticks and nothing else *)
(* reads a clock. The role of a connection is the one it connected with.   *)
(***************************************************************************)
EXTENDS Naturals, Sequences, FiniteSets

CONSTANTS
  Users,        \* user ids
  Owner,        \* of the drawing and of the collections
  Admins,       \* the users who connect as administrators
  Sockets,      \* socket ids
  Collections,  \* where the drawing can be
  Guests,       \* who opens the drawing: users, or anonymous visitors
  Calls,        \* socket events under way at once
  Requests,     \* requests to change the sharing under way at once
  None,         \* an anonymous visitor; no collection; nobody listed
  TTL,          \* ticks an entry of the cache is used for
  CallBound,    \* ticks a handler can take
  LinkBound,    \* link policies that can be created
  ChangeBound   \* changes of anyone's rights

Visitors == Users \cup {None}
Level == {"none", "view", "edit", "owner"}
Grantable == {"view", "edit"}

ASSUME ConstantsAssumption ==
  /\ Owner \in Users /\ Admins \subseteq Users
  /\ None \notin Users \cup Sockets \cup Collections
  /\ Users \cap Sockets = {} /\ Calls \cap Requests = {}
  /\ Guests \subseteq Visitors
  /\ TTL \in Nat \ {0} /\ CallBound \in Nat
  /\ LinkBound \in Nat /\ ChangeBound \in Nat

VARIABLES
  permission,  \* DrawingPermission: what each user was granted
  share,       \* CollectionShare: the role of each user in each collection
  place,       \* the collection the drawing is in
  link,        \* DrawingLinkShare, in the order of creation
  fullAccess,  \* SystemConfig.adminFullAccess
  socket,      \* the connections, with their authorizedDrawingAccess
  listed,      \* roomUsers: the socket listed for each presence id
  call,        \* handlers under way
  changes,     \* how many changes of rights there were
  lately       \* history: ticks since each guest could last edit

rights == <<permission, share, place, link, fullAccess>>
vars == <<rights, socket, listed, call, changes, lately>>

-----------------------------------------------------------------------------
(* What a visitor may do with the drawing, read all at once. *)

accessRank(a) == CASE a = "owner" -> 3 [] a = "edit" -> 2 [] a = "view" -> 1 [] OTHER -> 0

maxAccess(a, b) == IF accessRank(a) >= accessRank(b) THEN a ELSE b

LinkAccess ==
  LET Active == {i \in DOMAIN link : link[i].live}
  IN  IF Active = {} THEN "none"
      ELSE link[CHOOSE i \in Active : \A j \in Active : j <= i].permission

\* The override and the grant come first; a share counts only without a grant.
DirectAccess(u) ==
  CASE fullAccess /\ u \in Admins -> "owner"
    [] u = Owner -> "owner"
    [] u = None -> "none"
    [] OTHER -> permission[u]

NeedsShare(u) == u # None /\ DirectAccess(u) = "none"

ShareAccess(u) == IF place = None THEN "none" ELSE share[place][u]

Access(u) ==
  maxAccess(IF NeedsShare(u) THEN ShareAccess(u) ELSE DirectAccess(u), LinkAccess)

CanEdit(access) == access \in {"edit", "owner"}

\* canManageDrawingSharing
CanManage(u) ==
  \/ fullAccess /\ u \in Admins
  \/ u = Owner
  \/ u \in Users /\ ShareAccess(u) = "edit"

-----------------------------------------------------------------------------
(* Connections, entries of the cache and handlers. *)

NoEntry == [access |-> "none", age |-> TTL, torn |-> FALSE]

\* torn is history: a grant, a share or the place changed between the reads
Entry == [access : Level, age : 0..TTL, torn : BOOLEAN]

\* asked: it has sent its join-room. present, replaced and late are history: its
\* join was completed, another tab of its user joined after it, and it went away
\* while its join was under way.
Socket ==
  [up : BOOLEAN, who : Visitors, asked : BOOLEAN, entry : Entry,
   present : BOOLEAN, replaced : BOOLEAN, late : BOOLEAN]

Offline ==
  [up |-> FALSE, who |-> None, asked |-> FALSE, entry |-> NoEntry,
   present |-> FALSE, replaced |-> FALSE, late |-> FALSE]

Idle == [pc |-> "idle"]
Checking == {"direct", "place", "share", "link"}
CallState ==
  {Idle}
    \cup [pc : Checking \cup {"name", "relay"}, socket : Sockets, for : {"join", "update"},
          base : Level, at : Collections \cup {None}, age : 0..CallBound, torn : BOOLEAN]
    \cup [pc : {"write", "create"}, by : Users, age : 0..CallBound]

\* The id under which a connection is listed.
PresenceId(s) == IF socket[s].who = None THEN s ELSE socket[s].who

Begins(c, state) == call[c] = Idle /\ call' = [call EXCEPT ![c] = state]

Becomes(c, state) == call' = [call EXCEPT ![c] = state]

Handlers == Calls \cup Requests

-----------------------------------------------------------------------------
(* Sockets come, join and go. *)

\* An id is not used again while anything of its former connection is left.
Connect(s, u) ==
  /\ ~socket[s].up
  /\ \A c \in Calls : call[c] # Idle => call[c].socket # s
  /\ \A i \in DOMAIN listed : listed[i] # s
  /\ socket' = [socket EXCEPT ![s] = [Offline EXCEPT !.up = TRUE, !.who = u]]
  /\ UNCHANGED <<rights, listed, call, changes>>

Check(s, for) ==
  [pc |-> "direct", socket |-> s, for |-> for, base |-> "none", at |-> None,
   age |-> 0, torn |-> FALSE]

\* A tab joins once for every connection it makes. Nothing is cached before.
Join(c, s) ==
  /\ socket[s].up /\ ~socket[s].asked
  /\ Begins(c, Check(s, "join"))
  /\ socket' = [socket EXCEPT ![s].asked = TRUE]
  /\ UNCHANGED <<rights, listed, changes>>

\* An edit arrives. An entry that is too old still lets it in, to be checked.
ElementUpdate(c, s) ==
  LET entry == socket[s].entry
      now == [Check(s, "update") EXCEPT !.base = entry.access, !.torn = entry.torn,
                                        !.pc = "relay"]
  IN  /\ socket[s].up /\ entry.access # "none"
      /\ IF entry.age < TTL
         THEN CanEdit(entry.access) /\ Begins(c, now)
         ELSE Begins(c, Check(s, "update"))
      /\ UNCHANGED <<rights, socket, listed, changes>>

\* The name of a user is looked up before the user is listed.
List(c) ==
  LET s == call[c].socket
      i == PresenceId(s)
  IN  /\ call[c].pc = "name"
      /\ listed' = [listed EXCEPT ![i] = s]
      /\ socket' = [t \in Sockets |->
           IF t = s THEN [socket[s] EXCEPT !.present = socket[s].up]
           ELSE IF socket[t].present /\ PresenceId(t) = i
                THEN [socket[t] EXCEPT !.replaced = TRUE]
                ELSE socket[t]]
      /\ Becomes(c, Idle)
      /\ UNCHANGED <<rights, changes>>

\* The others in the room get the edit.
Relay(c) ==
  /\ call[c].pc = "relay"
  /\ Becomes(c, Idle)
  /\ UNCHANGED <<rights, socket, listed, changes>>

JoinsUnderWay(s) ==
  {c \in Calls : call[c] # Idle /\ call[c].socket = s /\ call[c].for = "join"}

MutantDisconnectUser(s) ==
  /\ socket[s].up
  /\ socket' = [socket EXCEPT ![s] =
       [Offline EXCEPT !.who = socket[s].who, !.late = JoinsUnderWay(s) # {}]]
  /\ listed' = [listed EXCEPT ![PresenceId(s)] = None]
  /\ UNCHANGED <<rights, call, changes>>

MutantDisconnectAnonymous(s) ==
  /\ socket[s].up
  /\ socket' = [socket EXCEPT ![s] =
       [Offline EXCEPT !.who = socket[s].who, !.late = JoinsUnderWay(s) # {}]]
  /\ listed' = [i \in DOMAIN listed |-> IF i = s THEN None ELSE listed[i]]
  /\ UNCHANGED <<rights, call, changes>>

Disconnect(s) ==
  /\ socket[s].up
  /\ socket' = [socket EXCEPT ![s] =
       [Offline EXCEPT !.who = socket[s].who, !.late = JoinsUnderWay(s) # {}]]
  /\ listed' = [i \in DOMAIN listed |-> IF listed[i] = s THEN None ELSE listed[i]]
  /\ UNCHANGED <<rights, call, changes>>

-----------------------------------------------------------------------------
(* getDrawingAccess, one read at a time, and what its answer is used for. *)

At(c, pc) == call[c].pc = pc /\ UNCHANGED <<rights, listed, changes>>

ReadDirect(c) ==
  LET u == socket[call[c].socket].who
  IN  /\ At(c, "direct")
      /\ Becomes(c, [call[c] EXCEPT !.base = DirectAccess(u),
                                    !.pc = IF NeedsShare(u) THEN "place" ELSE "link"])
      /\ UNCHANGED socket

ReadPlace(c) ==
  /\ At(c, "place")
  /\ Becomes(c, [call[c] EXCEPT !.at = place,
                                !.pc = IF place = None THEN "link" ELSE "share"])
  /\ UNCHANGED socket

ReadShare(c) ==
  /\ At(c, "share")
  /\ Becomes(c, [call[c] EXCEPT !.base = share[call[c].at][socket[call[c].socket].who],
                                !.pc = "link"])
  /\ UNCHANGED socket

Older(age) == IF age < TTL THEN age + 1 ELSE TTL

MutantEntryFor(c, access) ==
  IF access = "none" THEN NoEntry
  ELSE [access |-> access, age |-> 0, torn |-> call[c].torn]

\* The entry is as old as the check: its time was taken before the first read.
EntryFor(c, access) ==
  IF access = "none" THEN NoEntry
  ELSE [access |-> access, age |-> IF call[c].age < TTL THEN call[c].age ELSE TTL,
        torn |-> call[c].torn]

\* The last read, what it is put into the cache as, and what the handler does.
ReadLink(c) ==
  LET s == call[c].socket
      access == maxAccess(call[c].base, LinkAccess)
      joins == call[c].for = "join" /\ access # "none"
      relays == call[c].for = "update" /\ CanEdit(access)
  IN  /\ At(c, "link")
      /\ Becomes(c, IF joins \/ relays
                    THEN [call[c] EXCEPT !.base = access,
                                         !.pc = IF joins THEN "name" ELSE "relay"]
                    ELSE Idle)
      /\ socket' = [socket EXCEPT ![s].entry = EntryFor(c, access)]

-----------------------------------------------------------------------------
(* Rights change. *)

HasRoom == changes < ChangeBound

\* Checks that have found no grant and have not read the share yet.
Torn ==
  [c \in Handlers |-> IF call[c].pc \in {"place", "share"}
                   THEN [call[c] EXCEPT !.torn = TRUE] ELSE call[c]]

\* A request to change the sharing of the drawing: u is found to be allowed to.
\* What it changes matters, and is chosen, when it is written.
Manage(c, u) ==
  /\ HasRoom /\ CanManage(u)
  /\ Begins(c, [pc |-> "write", by |-> u, age |-> 0])
  /\ UNCHANGED <<rights, socket, listed, changes>>

Changes(c) == HasRoom /\ changes' = changes + 1 /\ UNCHANGED <<fullAccess, socket, listed>>

\* POST, and with level "none" DELETE, of a permission
WritePermission(c, u, level) ==
  /\ call[c].pc = "write" /\ u # call[c].by
  /\ Changes(c)
  /\ permission' = [permission EXCEPT ![u] = level]
  /\ call' = [Torn EXCEPT ![c] = Idle]
  /\ UNCHANGED <<share, place, link>>

Revoked(rows) ==
  [i \in DOMAIN link |-> [link[i] EXCEPT !.live = link[i].live /\ i \notin rows]]

\* POST of a link policy: the active ones are revoked, then it is created.
RevokeLinks(c) ==
  /\ call[c].pc = "write"
  /\ link' = Revoked(DOMAIN link)
  /\ Becomes(c, [call[c] EXCEPT !.pc = "create"])
  /\ UNCHANGED <<permission, share, place, fullAccess, socket, listed, changes>>

CreateLink(c, level) ==
  /\ call[c].pc = "create" /\ Len(link) < LinkBound
  /\ Changes(c)
  /\ link' = Append(link, [permission |-> level, live |-> TRUE])
  /\ Becomes(c, Idle)
  /\ UNCHANGED <<permission, share, place>>

\* DELETE of a link policy
RevokeLink(c, i) ==
  /\ call[c].pc = "write"
  /\ Changes(c)
  /\ link' = Revoked({i})
  /\ Becomes(c, Idle)
  /\ UNCHANGED <<permission, share, place>>

\* The bound is met: the request of the model goes no further.
GiveUp(c) ==
  /\ \/ call[c].pc = "write" /\ ~HasRoom
     \/ call[c].pc = "create" /\ (~HasRoom \/ Len(link) = LinkBound)
  /\ Becomes(c, Idle)
  /\ UNCHANGED <<rights, socket, listed, changes>>

ExpireLink(i) ==
  /\ i \in DOMAIN link /\ link[i].live
  /\ link' = Revoked({i})
  /\ UNCHANGED <<permission, share, place, fullAccess, socket, listed, call, changes>>

\* The owner of the collection shares it, changes the role or takes it back.
ShareCollection(k, u, role) ==
  /\ HasRoom /\ changes' = changes + 1
  /\ u # Owner /\ share[k][u] # role
  /\ share' = [share EXCEPT ![k][u] = role]
  /\ call' = Torn
  /\ UNCHANGED <<permission, place, link, fullAccess, socket, listed>>

\* ensureTeamCollections, when a user lists collections behind a proxy that names
\* the user's teams: one share is put in, or one of a former team deleted. The
\* collections of teams belong to the system, the owner of the drawing needs none.
TeamShare(k, u, member) == ShareCollection(k, u, IF member THEN "edit" ELSE "none")

\* The owner of the drawing moves it.
Move(k) ==
  /\ HasRoom /\ changes' = changes + 1
  /\ k # place /\ place' = k
  /\ call' = Torn
  /\ UNCHANGED <<permission, share, link, fullAccess, socket, listed>>

SetFullAccess(on) ==
  /\ HasRoom /\ changes' = changes + 1
  /\ fullAccess # on /\ fullAccess' = on
  /\ UNCHANGED <<permission, share, place, link, socket, listed, call>>

-----------------------------------------------------------------------------
(* Time. *)

Tick ==
  /\ \A c \in Handlers : call[c] # Idle => call[c].age < CallBound
  /\ call' = [c \in Handlers |->
       IF call[c] = Idle THEN Idle ELSE [call[c] EXCEPT !.age = @ + 1]]
  /\ socket' = [s \in Sockets |-> [socket[s] EXCEPT !.entry.age = Older(@)]]
  /\ UNCHANGED <<rights, listed, changes>>

Horizon == TTL + CallBound

Remember(ticks) ==
  lately' = [u \in Guests |->
    IF CanEdit(Access(u))' THEN 0
    ELSE IF lately[u] + ticks < Horizon THEN lately[u] + ticks ELSE Horizon]

-----------------------------------------------------------------------------

Init ==
  /\ permission \in [Users -> Grantable \cup {"none"}] /\ permission[Owner] = "none"
  /\ share \in [Collections -> [Users -> Grantable \cup {"none"}]]
  /\ \A k \in Collections : share[k][Owner] = "none"
  /\ place \in Collections \cup {None}
  /\ link = <<>>
  /\ fullAccess \in BOOLEAN
  /\ socket = [s \in Sockets |-> Offline]
  /\ listed = [i \in Users \cup Sockets |-> None]
  /\ call = [c \in Handlers |-> Idle]
  /\ changes = 0
  /\ lately = [u \in Guests |-> IF CanEdit(Access(u)) THEN 0 ELSE Horizon]

CheckStep(c) == ReadDirect(c) \/ ReadPlace(c) \/ ReadShare(c) \/ ReadLink(c)

WriteStep(c) ==
  \/ \E u \in Users, level \in Grantable \cup {"none"} : WritePermission(c, u, level)
  \/ RevokeLinks(c)
  \/ \E level \in Grantable : CreateLink(c, level)
  \/ \E i \in DOMAIN link : RevokeLink(c, i)
  \/ GiveUp(c)

CallStep(c) == CheckStep(c) \/ List(c) \/ Relay(c)

Event ==
  \/ \E s \in Sockets : Disconnect(s) \/ \E u \in Guests : Connect(s, u)
  \/ \E c \in Calls, s \in Sockets : Join(c, s) \/ ElementUpdate(c, s)
  \/ \E c \in Requests, u \in Users : Manage(c, u)
  \/ \E i \in 1..LinkBound : ExpireLink(i)
  \/ \E k \in Collections, u \in Users, role \in Grantable \cup {"none"} :
       ShareCollection(k, u, role)
  \/ \E k \in Collections, u \in Users, member \in BOOLEAN : TeamShare(k, u, member)
  \/ \E k \in Collections \cup {None} : Move(k)
  \/ \E on \in BOOLEAN : SetFullAccess(on)

Handle ==
  \/ \E c \in Calls : CallStep(c)
  \/ \E c \in Requests : WriteStep(c)

Act == (Event \/ Handle) /\ Remember(0)
Pass == Tick /\ Remember(1)
Next == Act \/ Pass

Spec == Init /\ [][Next]_vars

-----------------------------------------------------------------------------
(* Properties. *)

\* The types of the variables, and the bounds on ages.
TypeOK ==
  /\ permission \in [Users -> Grantable \cup {"none"}]
  /\ share \in [Collections -> [Users -> Grantable \cup {"none"}]]
  /\ place \in Collections \cup {None}
  /\ link \in Seq([permission : Grantable, live : BOOLEAN])
  /\ fullAccess \in BOOLEAN
  /\ socket \in [Sockets -> Socket]
  /\ listed \in [Users \cup Sockets -> Sockets \cup {None}]
  /\ call \in [Handlers -> CallState]
  /\ changes \in 0..ChangeBound
  /\ lately \in [Guests -> 0..Horizon]

\* An edit is relayed only for a visitor who could edit within TTL before it
\* arrived or since: neither the entry of the connection nor a check that is
\* overtaken by changes extends a right any further. The exception is a check
\* that read the grant, the place and the share from different moments.
RelaysAreAuthorized ==
  \A c \in Calls :
    call[c].pc = "relay" =>
      call[c].torn \/ lately[socket[call[c].socket].who] < TTL + call[c].age

\* Someone with a tab whose join was completed is listed with that tab until
\* another tab of theirs joins: no other socket that goes away, late ones and
\* ones that were replaced included, takes the tab off the list.
ListedUnlessReplaced ==
  \A s \in Sockets :
    socket[s].up /\ socket[s].present /\ ~socket[s].replaced =>
      listed[PresenceId(s)] = s

\* A socket that is gone is only listed when it went away while its join was
\* under way; that entry stays, as nothing removes it.
GhostsJoinedLate ==
  \A i \in DOMAIN listed :
    listed[i] # None => socket[listed[i]].up \/ socket[listed[i]].late

\* What the code does not keep (TLC refutes it): "Enforce a single active
\* 'anyone with the link' policy per drawing" (drawings.ts).
SingleActiveLink ==
  Cardinality({i \in DOMAIN link : link[i].live}) <= 1
=============================================================================
