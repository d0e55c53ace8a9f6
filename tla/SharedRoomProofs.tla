-------------------------- MODULE SharedRoomProofs --------------------------
(***************************************************************************)
(* Proofs about SharedRoom for any users, sockets, collections, handlers   *)
(* and bounds.                                                             *)
(***************************************************************************)
EXTENDS SharedRoom, TLAPS, WellFoundedInduction

\* The visitor a handler acts for.
Who(c) == socket[call[c].socket].who

\* A handler of a socket is at a step of its check and acts for a guest.
TheirOwn(c) ==
  /\ call[c].pc \in Checking \cup {"name", "relay"}
  /\ Who(c) \in Guests
  /\ call[c].pc = "name" => call[c].for = "join"
  /\ call[c].pc = "share" => call[c].at \in Collections
  /\ call[c].pc \in {"place", "share"} => Who(c) \in Users \ {Owner}

\* A socket that went away during its join is known to have.
LateJoin(c) ==
  call[c].for = "join" => socket[call[c].socket].up \/ socket[call[c].socket].late

\* What a check has read was true at some moment since it began, unless it is torn:
\* then the parts belong to different moments.
ReadsAreTrue(c) ==
  ~call[c].torn =>
    /\ call[c].pc \in Checking /\ CanEdit(call[c].base) => lately[Who(c)] <= call[c].age
    /\ call[c].pc \in {"place", "share"} => permission[Who(c)] = "none"
    /\ call[c].pc = "share" => place = call[c].at

\* RelaysAreAuthorized, of one handler.
Authorized(c) ==
  call[c].pc = "relay" => call[c].torn \/ lately[Who(c)] < TTL + call[c].age

CallOK(c) ==
  call[c] # Idle => TheirOwn(c) /\ LateJoin(c) /\ ReadsAreTrue(c) /\ Authorized(c)

\* The other handlers change the sharing.
RequestsWrite == \A c \in Requests : call[c] # Idle => call[c].pc \in {"write", "create"}

\* An entry that is still used tells of a right its visitor had since it was made.
EntryOK(s) ==
  LET entry == socket[s].entry
  IN  /\ socket[s].up \/ entry.access # "none" => socket[s].who \in Guests
      /\ CanEdit(entry.access) /\ ~entry.torn /\ entry.age < TTL =>
           lately[socket[s].who] <= entry.age

CallsOK == (\A c \in Calls : CallOK(c)) /\ RequestsWrite

EntriesOK == \A s \in Sockets : EntryOK(s)

ListedOK == GhostsJoinedLate /\ ListedUnlessReplaced

IInv == TypeOK /\ CallsOK /\ EntriesOK /\ ListedOK

-----------------------------------------------------------------------------
(* Levels of access. *)

\* A set of positions has a last one.
LEMMA LastExists ==
  ASSUME NEW n \in Nat, NEW S \in SUBSET (1..n), S # {}
  PROVE  \E i \in S : \A j \in S : j <= i
  <1> DEFINE Above == {b \in Nat : \A j \in S : j <= b}
             R == OpToRel(<, Nat)
  <1>1. n \in Above
    OBVIOUS
  <1>2. \E b \in Above : \A a \in Above : <<a, b>> \notin R
    <2>1. IsWellFoundedOn(R, Nat)
      BY NatLessThanWellFounded
    <2>2. Above \subseteq Nat /\ Above # {}
      BY <1>1
    <2> HIDE DEF R, Above
    <2>3. QED BY <2>1, <2>2, WFMin
  <1>3. PICK b \in Above : \A a \in Above : ~(a < b)
    <2>1. \A a, b \in Nat : a < b => <<a, b>> \in R
      BY DEF OpToRel
    <2>2. QED BY <1>2, <2>1
  <1>4. b \in S
    <2> SUFFICES ASSUME b \notin S PROVE FALSE
      OBVIOUS
    <2>1. \A j \in S : j \in 1..n /\ j < b
      BY <1>3
    <2>2. PICK j \in S : TRUE
      OBVIOUS
    <2>3. b - 1 \in Nat
      BY <2>1, <2>2, <1>3
    <2>4. b - 1 \in Above
      BY <2>1, <2>3
    <2>5. QED BY <1>3, <2>3, <2>4
  <1>5. QED BY <1>3, <1>4

\* The greater of two levels.
LEMMA MaxAccess ==
  ASSUME NEW a, NEW b
  PROVE  /\ CanEdit(maxAccess(a, b)) <=> CanEdit(a) \/ CanEdit(b)
         /\ maxAccess(a, b) \in {a, b}
  BY DEF CanEdit, maxAccess, accessRank

\* What the links grant is a level.
LEMMA LinkLevel ==
  ASSUME TypeOK
  PROVE  LinkAccess \in {"none", "view", "edit"}
  <1> DEFINE Active == {i \in DOMAIN link : link[i].live}
  <1>1. CASE Active = {}
    BY <1>1 DEF LinkAccess
  <1>2. CASE Active # {}
    <2>1. Len(link) \in Nat /\ DOMAIN link = 1..Len(link)
          /\ \A i \in 1..Len(link) : link[i].permission \in Grantable
      <3> DEFINE Link == [permission : Grantable, live : BOOLEAN]
      <3>1. link \in Seq(Link) /\ \A l \in Link : l.permission \in Grantable
        BY DEF TypeOK
      <3> HIDE DEF Link
      <3>2. QED BY <3>1
    <2>2. \E i \in Active : \A j \in Active : j <= i
      BY <1>2, <2>1, LastExists
    <2>3. (CHOOSE i \in Active : \A j \in Active : j <= i) \in Active
      BY <2>2
    <2>4. LinkAccess = link[CHOOSE i \in Active : \A j \in Active : j <= i].permission
      BY <1>2 DEF LinkAccess
    <2>5. QED BY <2>1, <2>3, <2>4 DEF Grantable
  <1>3. QED BY <1>1, <1>2

\* What a visitor is granted directly is a level; who needs a share is a user.
LEMMA DirectLevel ==
  ASSUME TypeOK, NEW u \in Visitors
  PROVE  /\ DirectAccess(u) \in Level
         /\ NeedsShare(u) => u \in Users \ {Owner} /\ permission[u] = "none"
  BY DEF TypeOK, Visitors, DirectAccess, NeedsShare, Level, Grantable

\* Who can edit.
LEMMA EditAccess ==
  ASSUME NEW u
  PROVE  /\ CanEdit(DirectAccess(u)) => CanEdit(Access(u))
         /\ CanEdit(LinkAccess) => CanEdit(Access(u))
         /\ NeedsShare(u) /\ CanEdit(ShareAccess(u)) => CanEdit(Access(u))
  BY MaxAccess DEF Access, NeedsShare, CanEdit

-----------------------------------------------------------------------------
(* Types of the states of handlers, of entries and of connections. *)

\* A handler of a socket, at a step of its check.
Check0 == [pc : Checking \cup {"name", "relay"}, socket : Sockets, for : {"join", "update"},
           base : Level, at : Collections \cup {None}, age : 0..CallBound, torn : BOOLEAN]

\* A request to change the sharing.
Write0 == [pc : {"write", "create"}, by : Users, age : 0..CallBound]

\* What a handler holds.
LEMMA CallTypes ==
  ASSUME TypeOK, CallsOK
  PROVE  /\ \A c \in Calls : call[c] = Idle \/ call[c] \in Check0
         /\ \A c \in Requests : call[c] = Idle \/ call[c] \in Write0
  <1>1. \A c \in Handlers : call[c] \in {Idle} \cup Check0 \cup Write0
    BY DEF TypeOK, CallState, Check0, Write0
  <1>2. ASSUME NEW c \in Calls, call[c] # Idle PROVE call[c] \in Check0
    <2>1. call[c].pc \in Checking \cup {"name", "relay"}
      BY <1>2 DEF CallsOK, CallOK, TheirOwn
    <2>2. call[c] \in Check0 \/ call[c] \in Write0
      BY <1>1, <1>2 DEF Handlers
    <2>3. call[c] \notin Write0
      BY <2>1 DEF Write0, Checking
    <2>4. QED BY <2>2, <2>3
  <1>3. ASSUME NEW c \in Requests, call[c] # Idle PROVE call[c] \in Write0
    <2>1. call[c].pc \in {"write", "create"}
      BY <1>3 DEF CallsOK, RequestsWrite
    <2>2. call[c] \in Check0 \/ call[c] \in Write0
      BY <1>1, <1>3 DEF Handlers
    <2>3. call[c] \notin Check0
      BY <2>1 DEF Check0, Checking
    <2>4. QED BY <2>2, <2>3
  <1>4. QED BY <1>2, <1>3

\* The steps of a check: it has read a level or a place, is torn, or gets older.
Based(s, l, pc) == [s EXCEPT !.base = l, !.pc = pc]
Placed(s, k, pc) == [s EXCEPT !.at = k, !.pc = pc]
TornOne(s) == [s EXCEPT !.torn = TRUE]
Later(s) == [s EXCEPT !.age = @ + 1]

\* The fields of a check.
LEMMA CheckFields ==
  ASSUME NEW s \in Check0
  PROVE  /\ s.pc \in Checking \cup {"name", "relay"} /\ s.socket \in Sockets
         /\ s.for \in {"join", "update"} /\ s.base \in Level /\ s.at \in Collections \cup {None}
         /\ s.age \in 0..CallBound /\ s.torn \in BOOLEAN /\ s # Idle
  <1>1. s.pc \in Checking \cup {"name", "relay"} /\ s # Idle
    BY DEF Check0, Idle, Checking
  <1>2. /\ s.socket \in Sockets
        /\ s.for \in {"join", "update"} /\ s.base \in Level /\ s.at \in Collections \cup {None}
        /\ s.age \in 0..CallBound /\ s.torn \in BOOLEAN
    BY DEF Check0
  <1>3. QED BY <1>1, <1>2

\* A check that has read a level.
LEMMA BasedCheck ==
  ASSUME NEW s \in Check0, NEW l \in Level, NEW pc \in Checking \cup {"name", "relay"}
  PROVE  /\ Based(s, l, pc) \in Check0 /\ Based(s, l, pc).base = l /\ Based(s, l, pc).pc = pc
         /\ Based(s, l, pc).socket = s.socket /\ Based(s, l, pc).for = s.for
         /\ Based(s, l, pc).at = s.at /\ Based(s, l, pc).age = s.age
         /\ Based(s, l, pc).torn = s.torn
  BY DEF Check0, Based

\* A check that has read the place.
LEMMA PlacedCheck ==
  ASSUME NEW s \in Check0, NEW k \in Collections \cup {None}, NEW pc \in Checking
  PROVE  /\ Placed(s, k, pc) \in Check0 /\ Placed(s, k, pc).at = k /\ Placed(s, k, pc).pc = pc
         /\ Placed(s, k, pc).socket = s.socket /\ Placed(s, k, pc).for = s.for
         /\ Placed(s, k, pc).base = s.base /\ Placed(s, k, pc).age = s.age
         /\ Placed(s, k, pc).torn = s.torn
  BY DEF Check0, Placed

\* A check that is torn.
LEMMA TornCheck ==
  ASSUME NEW s \in Check0
  PROVE  /\ TornOne(s) \in Check0 /\ TornOne(s).torn = TRUE
         /\ TornOne(s).pc = s.pc /\ TornOne(s).socket = s.socket /\ TornOne(s).for = s.for
         /\ TornOne(s).base = s.base /\ TornOne(s).at = s.at /\ TornOne(s).age = s.age
  BY DEF Check0, TornOne

\* A check that gets older.
LEMMA LaterCheck ==
  ASSUME NEW s \in Check0, s.age < CallBound
  PROVE  /\ Later(s) \in Check0 /\ Later(s).age = s.age + 1
         /\ Later(s).pc = s.pc /\ Later(s).socket = s.socket /\ Later(s).for = s.for
         /\ Later(s).base = s.base /\ Later(s).at = s.at /\ Later(s).torn = s.torn
  <1>1. s.age \in 0..CallBound
    BY CheckFields
  <1>2. PICK n \in Nat : n = s.age + 1 /\ n \in 0..CallBound
    BY <1>1, ConstantsAssumption DEF ConstantsAssumption
  <1>3. Later(s) = [s EXCEPT !.age = n]
    BY <1>2 DEF Later
  <1>4. LET m == [s EXCEPT !.age = n]
        IN  /\ m \in Check0 /\ m.age = n /\ m.pc = s.pc /\ m.socket = s.socket
            /\ m.for = s.for /\ m.base = s.base /\ m.at = s.at /\ m.torn = s.torn
    BY <1>2 DEF Check0
  <1>5. QED BY <1>2, <1>3, <1>4

\* A check that begins: as that of a join, and as an edit that is relayed at once.
Relayed(s, l, torn) ==
  [Check(s, "update") EXCEPT !.base = l, !.torn = torn, !.pc = "relay"]

LEMMA FirstCheck ==
  ASSUME NEW s \in Sockets
  PROVE  /\ \A for \in {"join", "update"} :
              /\ Check(s, for) \in Check0 /\ Check(s, for).pc = "direct"
              /\ Check(s, for).socket = s /\ Check(s, for).for = for
              /\ Check(s, for).base = "none"
         /\ \A l \in Level, torn \in BOOLEAN :
              /\ Relayed(s, l, torn) \in Check0 /\ Relayed(s, l, torn).pc = "relay"
              /\ Relayed(s, l, torn).socket = s /\ Relayed(s, l, torn).for = "update"
              /\ Relayed(s, l, torn).age = 0 /\ Relayed(s, l, torn).torn = torn
  <1>1. 0 \in 0..CallBound /\ "none" \in Level
    BY ConstantsAssumption DEF ConstantsAssumption, Level
  <1>2. ASSUME NEW for \in {"join", "update"}
        PROVE  /\ Check(s, for) \in Check0 /\ Check(s, for).pc = "direct"
               /\ Check(s, for).socket = s /\ Check(s, for).for = for
               /\ Check(s, for).base = "none"
    BY <1>1 DEF Check, Check0, Checking
  <1>3. ASSUME NEW l \in Level, NEW torn \in BOOLEAN
        PROVE  /\ Relayed(s, l, torn) \in Check0 /\ Relayed(s, l, torn).pc = "relay"
               /\ Relayed(s, l, torn).socket = s /\ Relayed(s, l, torn).for = "update"
               /\ Relayed(s, l, torn).age = 0 /\ Relayed(s, l, torn).torn = torn
    <2>1. PICK first \in Check0 : /\ first = Check(s, "update") /\ first.socket = s
                                  /\ first.for = "update" /\ first.age = 0
      BY <1>2 DEF Check
    <2>2. LET n == [first EXCEPT !.base = l, !.torn = torn, !.pc = "relay"]
          IN  /\ n \in Check0 /\ n.pc = "relay" /\ n.socket = s /\ n.for = "update"
              /\ n.age = 0 /\ n.torn = torn
      BY <2>1 DEF Check0
    <2>3. QED BY <2>1, <2>2 DEF Relayed
  <1>4. QED BY <1>2, <1>3

\* Entries.
LEMMA EntryTypes ==
  ASSUME NEW e \in Entry
  PROVE  /\ e.access \in Level /\ e.age \in 0..TTL /\ e.torn \in BOOLEAN
         /\ NoEntry \in Entry /\ NoEntry.access = "none"
         /\ \A l \in Level, n \in 0..TTL, b \in BOOLEAN :
              [access |-> l, age |-> n, torn |-> b] \in Entry
  BY ConstantsAssumption DEF Entry, NoEntry, Level, ConstantsAssumption

\* An entry after a tick.
OlderEntry(e) == [e EXCEPT !.age = Older(@)]

LEMMA OlderEntryType ==
  ASSUME NEW e \in Entry
  PROVE  /\ OlderEntry(e) \in Entry /\ OlderEntry(e).age = Older(e.age)
         /\ OlderEntry(e).access = e.access /\ OlderEntry(e).torn = e.torn
  <1>1. Older(e.age) \in 0..TTL
    BY ConstantsAssumption, EntryTypes DEF Older, ConstantsAssumption
  <1>2. QED BY <1>1 DEF Entry, OlderEntry

-----------------------------------------------------------------------------
(* Connections. *)

\* What happens to a connection.
Asked(s) == [s EXCEPT !.asked = TRUE]
Present(s) == [s EXCEPT !.present = s.up]
Replaced(s) == [s EXCEPT !.replaced = TRUE]
WithEntry(s, e) == [s EXCEPT !.entry = e]
Gone(s, late) == [Offline EXCEPT !.who = s.who, !.late = late]
New(u) == [Offline EXCEPT !.up = TRUE, !.who = u]

\* The fields of a connection.
LEMMA SocketFields ==
  ASSUME NEW s \in Socket
  PROVE  /\ s.up \in BOOLEAN /\ s.who \in Visitors /\ s.asked \in BOOLEAN /\ s.entry \in Entry
         /\ s.present \in BOOLEAN /\ s.replaced \in BOOLEAN /\ s.late \in BOOLEAN
  BY DEF Socket

\* A connection whose join is asked for, is completed, or is followed by another
\* tab of its visitor.
LEMMA JoinedSocket ==
  ASSUME NEW s \in Socket
  PROVE  /\ Asked(s) \in Socket /\ Present(s) \in Socket /\ Replaced(s) \in Socket
         /\ Asked(s).up = s.up /\ Asked(s).who = s.who /\ Asked(s).entry = s.entry
         /\ Asked(s).present = s.present /\ Asked(s).replaced = s.replaced /\ Asked(s).late = s.late
         /\ Present(s).up = s.up /\ Present(s).who = s.who /\ Present(s).entry = s.entry
         /\ Present(s).present = s.up /\ Present(s).replaced = s.replaced /\ Present(s).late = s.late
         /\ Replaced(s).up = s.up /\ Replaced(s).who = s.who /\ Replaced(s).entry = s.entry
         /\ Replaced(s).present = s.present /\ Replaced(s).replaced = TRUE
         /\ Replaced(s).late = s.late
  BY DEF Socket, Asked, Present, Replaced

\* A connection with another entry.
LEMMA EnteredSocket ==
  ASSUME NEW s \in Socket, NEW e \in Entry
  PROVE  /\ WithEntry(s, e) \in Socket /\ WithEntry(s, e).entry = e
         /\ WithEntry(s, e).up = s.up /\ WithEntry(s, e).who = s.who
         /\ WithEntry(s, e).present = s.present /\ WithEntry(s, e).replaced = s.replaced
         /\ WithEntry(s, e).late = s.late
  BY DEF Socket, WithEntry

\* A connection that begins, and one that is gone.
LEMMA OtherSocket ==
  /\ Offline \in Socket /\ Offline.up = FALSE /\ Offline.entry = NoEntry
  /\ \A s \in Socket, late \in BOOLEAN :
       /\ Gone(s, late) \in Socket /\ Gone(s, late).up = FALSE /\ Gone(s, late).who = s.who
       /\ Gone(s, late).late = late /\ Gone(s, late).entry = NoEntry
  /\ \A u \in Visitors :
       /\ New(u) \in Socket /\ New(u).up = TRUE /\ New(u).who = u
       /\ New(u).present = FALSE /\ New(u).entry = NoEntry
  <1>1. NoEntry \in Entry
    BY ConstantsAssumption DEF Entry, NoEntry, Level, ConstantsAssumption
  <1>2. None \in Visitors
    BY DEF Visitors
  <1>3. Offline \in Socket /\ Offline.up = FALSE /\ Offline.entry = NoEntry
    BY <1>1, <1>2 DEF Socket, Offline
  <1>4. ASSUME NEW s \in Socket, NEW late \in BOOLEAN
        PROVE  /\ Gone(s, late) \in Socket /\ Gone(s, late).up = FALSE /\ Gone(s, late).who = s.who
               /\ Gone(s, late).late = late /\ Gone(s, late).entry = NoEntry
    <2>1. PICK o \in Socket : o = Offline /\ o.up = FALSE /\ o.entry = NoEntry
      BY <1>3
    <2>2. s.who \in Visitors
      BY SocketFields
    <2>3. LET n == [o EXCEPT !.who = s.who, !.late = late]
          IN  n \in Socket /\ n.up = FALSE /\ n.who = s.who /\ n.late = late /\ n.entry = NoEntry
      BY <2>1, <2>2 DEF Socket
    <2>4. QED BY <2>1, <2>3 DEF Gone
  <1>5. ASSUME NEW u \in Visitors
        PROVE  /\ New(u) \in Socket /\ New(u).up = TRUE /\ New(u).who = u
               /\ New(u).present = FALSE /\ New(u).entry = NoEntry
    <2>1. PICK o \in Socket : o = Offline /\ o.present = FALSE /\ o.entry = NoEntry
      BY <1>3 DEF Offline
    <2>2. LET n == [o EXCEPT !.up = TRUE, !.who = u]
          IN  n \in Socket /\ n.up = TRUE /\ n.who = u /\ n.present = FALSE /\ n.entry = NoEntry
      BY <2>1 DEF Socket
    <2>3. QED BY <2>1, <2>2 DEF New
  <1>6. QED BY <1>3, <1>4, <1>5

-----------------------------------------------------------------------------
(* Types. *)

Permissions == [Users -> Grantable \cup {"none"}]
Shares == [Collections -> [Users -> Grantable \cup {"none"}]]
Link == [permission : Grantable, live : BOOLEAN]
Listed == [Users \cup Sockets -> Sockets \cup {None}]

\* The types of who may do what.
RightsOK ==
  /\ permission \in Permissions /\ share \in Shares /\ place \in Collections \cup {None}
  /\ link \in Seq(Link) /\ fullAccess \in BOOLEAN /\ changes \in 0..ChangeBound

\* The types of the rest, but for the histories.
RoomOK ==
  /\ socket \in [Sockets -> Socket] /\ listed \in Listed /\ call \in [Handlers -> CallState]

LEMMA TypeParts == TypeOK <=> RightsOK /\ RoomOK /\ lately \in [Guests -> 0..Horizon]
  BY DEF TypeOK, RightsOK, RoomOK, Permissions, Shares, Link, Listed

\* The time since each guest could last edit.
LEMMA LatelyStep ==
  ASSUME lately \in [Guests -> 0..Horizon], NEW ticks \in {0, 1}, Remember(ticks)
  PROVE  /\ lately' \in [Guests -> 0..Horizon]
         /\ \A u \in Guests : /\ CanEdit(Access(u))' => lately'[u] = 0
                              /\ lately'[u] <= lately[u] + ticks
  <1>1. Horizon \in Nat
    BY ConstantsAssumption DEF ConstantsAssumption, Horizon
  <1>2. ASSUME NEW u \in Guests
        PROVE  /\ lately'[u] \in 0..Horizon
               /\ CanEdit(Access(u))' => lately'[u] = 0
               /\ lately'[u] <= lately[u] + ticks
    <2>1. lately[u] \in 0..Horizon
      OBVIOUS
    <2>2. lately'[u] = IF CanEdit(Access(u))' THEN 0
                       ELSE IF lately[u] + ticks < Horizon THEN lately[u] + ticks ELSE Horizon
      BY DEF Remember
    <2>3. QED BY <1>1, <2>1, <2>2
  <1>3. lately' = [u \in Guests |-> lately'[u]]
    BY DEF Remember
  <1>4. QED BY <1>2, <1>3

\* Links that are revoked.
LEMMA RevokedLinks ==
  ASSUME link \in Seq(Link), NEW rows
  PROVE  Revoked(rows) \in Seq(Link)
  <1>1. Len(link) \in Nat /\ DOMAIN link = 1..Len(link)
        /\ \A i \in 1..Len(link) : link[i] \in Link
    OBVIOUS
  <1>2. ASSUME NEW l \in Link, NEW b \in BOOLEAN
        PROVE  [l EXCEPT !.live = l.live /\ b] \in Link
    BY DEF Link
  <1>3. ASSUME NEW i \in DOMAIN link
        PROVE  [link[i] EXCEPT !.live = link[i].live /\ i \notin rows] \in Link
    <2>1. PICK l \in Link : l = link[i]
      BY <1>1
    <2>2. PICK b \in BOOLEAN : b = (i \notin rows)
      OBVIOUS
    <2>3. QED BY <1>2, <2>1, <2>2
  <1>4. QED BY <1>1, <1>3 DEF Revoked

\* Changes of rights have their types.
LEMMA RightsStep ==
  ASSUME RightsOK, Event \/ Handle \/ Tick
  PROVE  RightsOK'
  <1>1. ASSUME UNCHANGED <<rights, changes>> PROVE RightsOK'
    BY <1>1 DEF RightsOK, rights
  <1>2. ASSUME HasRoom, changes' = changes + 1 PROVE changes' \in 0..ChangeBound
    BY <1>2, ConstantsAssumption DEF HasRoom, RightsOK, ConstantsAssumption
  <1>3. ASSUME NEW c \in Requests, NEW u \in Users, NEW level \in Grantable \cup {"none"},
               WritePermission(c, u, level)
        PROVE  RightsOK'
    BY <1>2, <1>3 DEF WritePermission, Changes, RightsOK, Permissions
  <1>4. ASSUME NEW c \in Requests, RevokeLinks(c) PROVE RightsOK'
    BY <1>4, RevokedLinks DEF RevokeLinks, RightsOK
  <1>5. ASSUME NEW c \in Requests, NEW level \in Grantable, CreateLink(c, level) PROVE RightsOK'
    <2>1. [permission |-> level, live |-> TRUE] \in Link
      BY DEF Link
    <2>2. link' \in Seq(Link)
      BY <1>5, <2>1 DEF CreateLink, RightsOK
    <2>3. QED BY <1>2, <1>5, <2>2 DEF CreateLink, Changes, RightsOK
  <1>6. ASSUME NEW c \in Requests, NEW i \in DOMAIN link, RevokeLink(c, i) PROVE RightsOK'
    BY <1>2, <1>6, RevokedLinks DEF RevokeLink, Changes, RightsOK
  <1>7. ASSUME NEW i \in 1..LinkBound, ExpireLink(i) PROVE RightsOK'
    BY <1>7, RevokedLinks DEF ExpireLink, RightsOK
  <1>8. ASSUME NEW k \in Collections, NEW u \in Users, NEW role \in Grantable \cup {"none"},
               ShareCollection(k, u, role)
        PROVE  RightsOK'
    <2>1. share' \in Shares
      BY <1>8 DEF ShareCollection, RightsOK, Shares
    <2>2. QED BY <1>2, <1>8, <2>1 DEF ShareCollection, RightsOK
  <1>9. ASSUME NEW k \in Collections, NEW u \in Users, NEW member \in BOOLEAN,
               TeamShare(k, u, member)
        PROVE  RightsOK'
    <2>1. (IF member THEN "edit" ELSE "none") \in Grantable \cup {"none"}
      BY DEF Grantable
    <2>2. QED BY <1>8, <1>9, <2>1 DEF TeamShare
  <1>10. ASSUME NEW k \in Collections \cup {None}, Move(k) PROVE RightsOK'
    BY <1>2, <1>10 DEF Move, RightsOK
  <1>11. ASSUME NEW on \in BOOLEAN, SetFullAccess(on) PROVE RightsOK'
    BY <1>2, <1>11 DEF SetFullAccess, RightsOK
  <1>12. CASE Event
    BY <1>1, <1>7, <1>8, <1>9, <1>10, <1>11, <1>12
       DEF Event, Connect, Disconnect, Join, ElementUpdate, Manage
  <1>13. CASE Handle
    BY <1>1, <1>3, <1>4, <1>5, <1>6, <1>13
       DEF Handle, CallStep, CheckStep, WriteStep, GiveUp, List, Relay,
           ReadDirect, ReadPlace, ReadShare, ReadLink, At
  <1>14. CASE Tick
    BY <1>1, <1>14 DEF Tick
  <1>15. QED BY <1>12, <1>13, <1>14

-----------------------------------------------------------------------------
(* Handlers that something happens around. *)

\* What a handler can be given as its next state.
NextOf(c) == IF c \in Calls THEN {Idle} \cup Check0 ELSE {Idle} \cup Write0

\* No time passes, and who the connections belong to is not touched.
Moment ==
  /\ \A u \in Guests : lately'[u] \in Nat /\ lately'[u] <= lately[u]
  /\ \A s \in Sockets : socket'[s].who = socket[s].who

\* Sockets that are there, or are known to have gone early, stay so.
Remains ==
  \A s \in Sockets : socket[s].up \/ socket[s].late => socket'[s].up \/ socket'[s].late

\* A handler that nothing happens to, but that a change of rights may tear.
LEMMA CallStays ==
  ASSUME TypeOK, CallsOK, NEW c \in Calls, Moment,
         call[c] # Idle /\ call[c].for = "join" /\ LateJoin(c) =>
           socket'[call[c].socket].up \/ socket'[call[c].socket].late,
         \/ call'[c] = call[c]
            /\ (call[c].pc \in {"place", "share"} => UNCHANGED <<permission, place>>)
         \/ call[c] \in Check0 /\ call'[c] = TornOne(call[c])
              /\ call[c].pc \in {"place", "share"}
  PROVE  CallOK(c)'
  <1>1. CASE call[c] = Idle
    <2>1. call[c].pc = "idle" /\ call'[c] = Idle
      BY <1>1 DEF Idle
    <2>2. QED BY <2>1 DEF CallOK
  <1>2. CASE call[c] # Idle
    <2>1. call[c] \in Check0 /\ TheirOwn(c) /\ LateJoin(c) /\ ReadsAreTrue(c) /\ Authorized(c)
      BY <1>2, CallTypes DEF CallsOK, CallOK
    <2>2. PICK old \in Check0 : old = call[c]
      BY <2>1
    <2>3. PICK new \in Check0 :
            /\ new = call'[c] /\ new.pc = old.pc /\ new.socket = old.socket /\ new.for = old.for
            /\ new.base = old.base /\ new.at = old.at /\ new.age = old.age
            /\ \/ new.torn
               \/ new.torn = old.torn
                  /\ (old.pc \in {"place", "share"} => UNCHANGED <<permission, place>>)
      BY <2>2, TornCheck
    <2>4. old.socket \in Sockets /\ old.age \in Nat
      BY CheckFields
    <2>5. PICK w \in Visitors : /\ w = socket[old.socket].who /\ w = socket'[old.socket].who
                                /\ w \in Guests
      <3>1. socket[old.socket].who \in Visitors
        BY <2>4, SocketFields DEF TypeOK
      <3>2. QED BY <2>1, <2>2, <2>4, <3>1 DEF Moment, TheirOwn, Who
    <2>6. /\ lately'[w] \in Nat /\ lately[w] \in Nat /\ lately'[w] <= lately[w]
          /\ TTL \in Nat
      BY <2>5, ConstantsAssumption DEF Moment, TypeOK, ConstantsAssumption, Horizon
    <2>7. TheirOwn(c)'
      BY <2>1, <2>2, <2>3, <2>5 DEF TheirOwn, Who
    <2>8. LateJoin(c)'
      BY <1>2, <2>1, <2>2, <2>3 DEF LateJoin
    <2>9. ReadsAreTrue(c)'
      BY <2>1, <2>2, <2>3, <2>4, <2>5, <2>6 DEF ReadsAreTrue, Who
    <2>10. Authorized(c)'
      BY <2>1, <2>2, <2>3, <2>4, <2>5, <2>6 DEF Authorized, Who
    <2>11. QED BY <2>7, <2>8, <2>9, <2>10 DEF CallOK
  <1>3. QED BY <1>1, <1>2

\* What a handler can become has its type.
LEMMA NextTypes ==
  ASSUME TypeOK, NEW c \in Handlers, NEW state \in NextOf(c)
  PROVE  [call EXCEPT ![c] = state] \in [Handlers -> CallState]
  BY DEF TypeOK, NextOf, CallState, Check0, Write0

\* One handler takes a step.
LEMMA OneCall ==
  ASSUME TypeOK, CallsOK, NEW c \in Handlers, NEW state \in NextOf(c),
         call' = [call EXCEPT ![c] = state], Moment, Remains, UNCHANGED <<permission, place>>,
         c \in Calls => CallOK(c)'
  PROVE  call' \in [Handlers -> CallState] /\ CallsOK'
  <1>1. call' \in [Handlers -> CallState]
    BY NextTypes
  <1>2. ASSUME NEW d \in Calls PROVE CallOK(d)'
    <2>1. CASE d = c
      BY <2>1
    <2>2. CASE d # c
      <3>1. call'[d] = call[d]
        BY <2>2 DEF TypeOK, Handlers
      <3>2. call[d] # Idle => call[d].socket \in Sockets
        BY CallTypes, CheckFields
      <3>3. QED BY <3>1, <3>2, CallStays DEF Remains, LateJoin
    <2>3. QED BY <2>1, <2>2
  <1>3. ASSUME NEW d \in Requests, call'[d] # Idle PROVE call'[d].pc \in {"write", "create"}
    <2>1. CASE d = c
      <3>1. call'[d] \in Write0
        BY <1>3, <2>1, ConstantsAssumption DEF TypeOK, NextOf, ConstantsAssumption
      <3>2. QED BY <3>1 DEF Write0
    <2>2. CASE d # c
      <3>1. call'[d] = call[d]
        BY <2>2 DEF TypeOK, Handlers
      <3>2. QED BY <1>3, <3>1 DEF CallsOK, RequestsWrite
    <2>3. QED BY <2>1, <2>2
  <1>4. QED BY <1>1, <1>2, <1>3 DEF CallsOK, RequestsWrite

\* No handler takes a step.
LEMMA NoCall ==
  ASSUME TypeOK, CallsOK, UNCHANGED call, Moment, Remains, UNCHANGED <<permission, place>>
  PROVE  call' \in [Handlers -> CallState] /\ CallsOK'
  <1>1. ASSUME NEW d \in Calls PROVE CallOK(d)'
    <2>1. call[d] # Idle => call[d].socket \in Sockets
      BY CallTypes, CheckFields
    <2>2. QED BY <2>1, CallStays DEF Remains, LateJoin
  <1>2. QED BY <1>1 DEF CallsOK, RequestsWrite, TypeOK

\* A change of rights tears checks; a request may end with it.
LEMMA TornCalls ==
  ASSUME TypeOK, CallsOK, Moment, Remains,
         call' = Torn \/ \E c \in Requests : call' = [Torn EXCEPT ![c] = Idle]
  PROVE  call' \in [Handlers -> CallState] /\ CallsOK'
  <1>1. ASSUME NEW d \in Calls
        PROVE  IF call[d].pc \in {"place", "share"}
               THEN call[d] \in Check0 /\ Torn[d] = TornOne(call[d]) /\ TornOne(call[d]) \in Check0
               ELSE Torn[d] = call[d]
    <2>1. CASE call[d].pc \in {"place", "share"}
      <3>1. call[d] \in Check0
        BY <2>1, CallTypes DEF Idle
      <3>2. QED BY <2>1, <3>1, TornCheck DEF Torn, TornOne, Handlers
    <2>2. CASE call[d].pc \notin {"place", "share"}
      BY <2>2 DEF Torn, Handlers
    <2>3. QED BY <2>1, <2>2
  <1>2. ASSUME NEW d \in Requests PROVE Torn[d] = call[d]
    <2>1. call[d].pc \notin {"place", "share"}
      BY CallTypes DEF Idle, Write0
    <2>2. QED BY <2>1 DEF Torn, Handlers
  <1>3. /\ \A d \in Calls : call'[d] = Torn[d]
        /\ \A d \in Requests : call'[d] \in {Idle, Torn[d]}
    <2>1. DOMAIN Torn = Handlers /\ Calls \cap Requests = {}
      BY ConstantsAssumption DEF Torn, ConstantsAssumption
    <2>2. QED BY <2>1 DEF Handlers, Torn
  <1>4. call' \in [Handlers -> CallState]
    <2>1. \A d \in Handlers : call'[d] \in CallState
      <3>1. \A d \in Handlers : call[d] \in CallState /\ Idle \in CallState
        BY DEF TypeOK, CallState
      <3>2. Check0 \subseteq CallState
        BY DEF Check0, CallState
      <3>3. QED BY <1>1, <1>2, <1>3, <3>1, <3>2 DEF Handlers
    <2>2. call' = [d \in Handlers |-> call'[d]]
      BY DEF Torn
    <2>3. QED BY <2>1, <2>2
  <1>5. ASSUME NEW d \in Calls PROVE CallOK(d)'
    <2>1. call[d] # Idle => call[d].socket \in Sockets
      BY CallTypes, CheckFields
    <2>2. \/ call'[d] = call[d] /\ call[d].pc \notin {"place", "share"}
          \/ call[d] \in Check0 /\ call'[d] = TornOne(call[d]) /\ call[d].pc \in {"place", "share"}
      BY <1>1, <1>3
    <2>3. QED BY <2>1, <2>2, CallStays DEF Remains, LateJoin
  <1>6. ASSUME NEW d \in Requests, call'[d] # Idle PROVE call'[d].pc \in {"write", "create"}
    BY <1>2, <1>3, <1>6 DEF CallsOK, RequestsWrite
  <1>7. QED BY <1>4, <1>5, <1>6 DEF CallsOK, RequestsWrite

-----------------------------------------------------------------------------
(* Connections and lists that nothing happens to. *)

RestOK == RoomOK /\ CallsOK /\ EntriesOK /\ ListedOK

\* The times go on as Remember(0) has it.
Fading ==
  \A u \in Guests : /\ lately'[u] \in Nat /\ lately'[u] <= lately[u]
                    /\ CanEdit(Access(u))' => lately'[u] = 0

\* An entry that is left as it is.
LEMMA EntryStays ==
  ASSUME TypeOK, EntriesOK, Fading, NEW s \in Sockets,
         socket'[s].entry = socket[s].entry, socket'[s].who = socket[s].who,
         socket'[s].up => socket[s].up
  PROVE  EntryOK(s)'
  <1>1. socket[s].entry \in Entry /\ EntryOK(s)
    BY SocketFields DEF TypeOK, EntriesOK
  <1>2. PICK e \in Entry : e = socket[s].entry /\ e = socket'[s].entry
    BY <1>1
  <1>3. e.age \in Nat /\ TTL \in Nat
    BY EntryTypes, ConstantsAssumption DEF ConstantsAssumption
  <1>4. CanEdit(e.access) => e.access # "none"
    BY DEF CanEdit
  <1>5. (socket'[s].up \/ e.access # "none") => socket'[s].who \in Guests
    BY <1>1, <1>2 DEF EntryOK
  <1>6. ASSUME CanEdit(e.access), ~e.torn, e.age < TTL
        PROVE  lately'[socket'[s].who] <= e.age
    <2>1. PICK w \in Guests : w = socket[s].who
      BY <1>1, <1>2, <1>4, <1>6 DEF EntryOK
    <2>2. lately[w] <= e.age
      BY <1>1, <1>2, <1>6, <2>1 DEF EntryOK
    <2>3. lately[w] \in Nat /\ lately'[w] \in Nat /\ lately'[w] <= lately[w]
      BY ConstantsAssumption DEF TypeOK, Fading, Horizon, ConstantsAssumption
    <2>4. QED BY <1>3, <2>1, <2>2, <2>3
  <1>7. QED BY <1>2, <1>5, <1>6 DEF EntryOK

\* A connection without an entry.
LEMMA EmptyEntry ==
  ASSUME NEW s \in Sockets, socket'[s].entry = NoEntry, socket'[s].up => socket'[s].who \in Guests
  PROVE  EntryOK(s)'
  BY DEF EntryOK, NoEntry, CanEdit

\* The list is kept while nobody comes, joins or goes.
LEMMA ListStays ==
  ASSUME TypeOK, ListedOK, UNCHANGED listed,
         \A s \in Sockets :
           /\ socket'[s].up = socket[s].up /\ socket'[s].who = socket[s].who
           /\ socket'[s].late = socket[s].late /\ socket'[s].present = socket[s].present
           /\ socket'[s].replaced = socket[s].replaced
  PROVE  ListedOK'
  <1>1. ASSUME NEW i \in Users \cup Sockets, listed[i] # None
        PROVE  socket'[listed[i]].up \/ socket'[listed[i]].late
    BY <1>1 DEF TypeOK, ListedOK, GhostsJoinedLate
  <1>2. ASSUME NEW s \in Sockets, socket'[s].up, socket'[s].present, ~socket'[s].replaced
        PROVE  listed'[PresenceId(s)'] = s
    BY <1>2 DEF ListedOK, ListedUnlessReplaced, PresenceId
  <1>3. QED BY <1>1, <1>2 DEF ListedOK, GhostsJoinedLate, ListedUnlessReplaced, TypeOK

\* Steps that leave the connections and the list alone.
LEMMA SameSockets ==
  ASSUME TypeOK, EntriesOK, ListedOK, Fading, UNCHANGED <<socket, listed>>
  PROVE  /\ Moment /\ Remains /\ EntriesOK' /\ ListedOK'
         /\ socket' \in [Sockets -> Socket] /\ listed' \in Listed
  <1>1. Moment /\ Remains
    BY DEF Moment, Remains, Fading
  <1>2. EntriesOK'
    BY EntryStays DEF EntriesOK
  <1>3. ListedOK'
    BY ListStays
  <1>4. QED BY <1>1, <1>2, <1>3 DEF TypeOK, Listed

-----------------------------------------------------------------------------
(* The reads of a check. *)

\* Access is a matter of the rights alone.
LEMMA SameAccess ==
  ASSUME NEW u, UNCHANGED rights
  PROVE  Access(u)' = Access(u)
  BY DEF rights, Access, NeedsShare, DirectAccess, ShareAccess, LinkAccess

\* A share that is found where no grant is makes the visitor one who can edit.
LEMMA ShareRead ==
  ASSUME TypeOK, NEW u \in Users \ {Owner}, permission[u] = "none", place \in Collections,
         CanEdit(share[place][u])
  PROVE  CanEdit(Access(u))
  <1>1. DirectAccess(u) \in {"owner", "none"} /\ u # None /\ place # None
    BY ConstantsAssumption DEF DirectAccess, ConstantsAssumption
  <1>2. CASE DirectAccess(u) = "owner"
    BY <1>2, EditAccess DEF CanEdit
  <1>3. CASE DirectAccess(u) = "none"
    BY <1>1, <1>3, EditAccess DEF NeedsShare, ShareAccess
  <1>4. QED BY <1>1, <1>2, <1>3

\* What a handler at work knows of its connection.
LEMMA AtWork ==
  ASSUME TypeOK, CallsOK, NEW c \in Calls, call[c] # Idle
  PROVE  /\ call[c] \in Check0 /\ call[c].socket \in Sockets
         /\ Who(c) \in Guests /\ Who(c) \in Visitors
         /\ lately[Who(c)] \in Nat /\ call[c].age \in Nat
         /\ TheirOwn(c) /\ LateJoin(c) /\ ReadsAreTrue(c)
  <1>1. call[c] \in Check0 /\ TheirOwn(c) /\ LateJoin(c) /\ ReadsAreTrue(c)
    BY CallTypes DEF CallsOK, CallOK
  <1>2. call[c].socket \in Sockets /\ call[c].age \in Nat
    BY <1>1, CheckFields
  <1>3. Who(c) \in Guests
    BY <1>1 DEF TheirOwn
  <1>4. Who(c) \in Visitors /\ lately[Who(c)] \in Nat
    BY <1>2, <1>3, ConstantsAssumption DEF TypeOK, Horizon, ConstantsAssumption
  <1>5. QED BY <1>1, <1>2, <1>3, <1>4

\* A check that goes on with a state that is right.
LEMMA CheckGoesOn ==
  ASSUME TypeOK, CallsOK, NEW c \in Calls, call[c] # Idle, Moment, Remains,
         NEW n \in Check0, call'[c] = n, n.socket = call[c].socket, n.for = call[c].for,
         n.age = call[c].age, n.torn = call[c].torn, n.pc \in {"place", "share", "link"},
         UNCHANGED <<permission, place>>,
         n.pc = "share" => n.at \in Collections,
         n.pc \in {"place", "share"} => Who(c) \in Users \ {Owner},
         ~n.torn => /\ CanEdit(n.base) => lately'[Who(c)] <= call[c].age
                    /\ n.pc \in {"place", "share"} => permission[Who(c)] = "none"
                    /\ n.pc = "share" => place = n.at
  PROVE  CallOK(c)'
  <1>1. PICK w \in Guests : w = Who(c) /\ w = Who(c)'
    BY AtWork DEF Moment, Who
  <1>2. TheirOwn(c)'
    BY <1>1 DEF TheirOwn, Checking
  <1>3. LateJoin(c)'
    BY AtWork DEF LateJoin, Remains
  <1>4. ReadsAreTrue(c)'
    BY <1>1 DEF ReadsAreTrue
  <1>5. QED BY <1>2, <1>3, <1>4 DEF CallOK, Authorized

\* The first three reads.
LEMMA ReadStep ==
  ASSUME TypeOK, CallsOK, EntriesOK, ListedOK, Fading, NEW c \in Calls,
         ReadDirect(c) \/ ReadPlace(c) \/ ReadShare(c)
  PROVE  RestOK'
  <1>1. call[c].pc \in {"direct", "place", "share"} /\ call[c] # Idle
    BY DEF ReadDirect, ReadPlace, ReadShare, At, Idle
  <1>2. PICK old \in Check0 : old = call[c]
    BY <1>1, AtWork
  <1>3. PICK w \in Guests : w = Who(c) /\ w = socket[old.socket].who /\ w \in Visitors
    BY <1>1, <1>2, AtWork DEF Who
  <1>4. /\ Moment /\ Remains /\ EntriesOK' /\ ListedOK'
        /\ socket' \in [Sockets -> Socket] /\ listed' \in Listed
        /\ UNCHANGED rights
    BY SameSockets DEF ReadDirect, ReadPlace, ReadShare, At
  <1>5. CanEdit(Access(w)) => lately'[w] = 0
    BY <1>4, SameAccess DEF Fading
  <1>6. old.age \in Nat /\ lately'[w] \in Nat /\ lately[w] \in Nat /\ lately'[w] <= lately[w]
    BY <1>1, <1>2, <1>3, AtWork DEF Fading
  <1>7. ASSUME NEW n \in Check0, call' = [call EXCEPT ![c] = n], CallOK(c)'
        PROVE  RestOK'
    <2>1. n \in NextOf(c) /\ UNCHANGED <<permission, place>>
      BY <1>4, <1>7 DEF NextOf, rights
    <2>2. call' \in [Handlers -> CallState] /\ CallsOK'
      BY <1>4, <1>7, <2>1, OneCall DEF Handlers
    <2>3. QED BY <1>4, <2>2 DEF RestOK, RoomOK
  <1>8. CASE ReadDirect(c)
    <2>1. PICK l \in Level, pc \in {"place", "link"} :
            /\ l = DirectAccess(w) /\ (pc = "place" => NeedsShare(w))
            /\ call' = [call EXCEPT ![c] = Based(old, l, pc)]
      BY <1>2, <1>3, <1>8, DirectLevel DEF ReadDirect, Becomes, Based
    <2>2. pc \in Checking \cup {"name", "relay"}
      BY DEF Checking
    <2>3. PICK n \in Check0 : /\ n = Based(old, l, pc) /\ n.base = l /\ n.pc = pc
                              /\ n.socket = old.socket /\ n.for = old.for
                              /\ n.age = old.age /\ n.torn = old.torn
      BY <2>2, BasedCheck
    <2>4. call'[c] = n
      BY <2>1, <2>3 DEF TypeOK, Handlers
    <2>5. CanEdit(l) => lately'[w] <= old.age
      BY <1>5, <1>6, <2>1, EditAccess
    <2>6. pc = "place" => w \in Users \ {Owner} /\ permission[w] = "none"
      BY <1>3, <2>1, DirectLevel
    <2>7. CallOK(c)'
      BY <1>1, <1>2, <1>3, <1>4, <2>3, <2>4, <2>5, <2>6, CheckGoesOn DEF rights
    <2>8. QED BY <1>7, <2>1, <2>3, <2>7
  <1>9. CASE ReadPlace(c)
    <2>1. PICK k \in Collections \cup {None}, pc \in {"share", "link"} :
            /\ k = place /\ (pc = "share" => k # None)
            /\ call' = [call EXCEPT ![c] = Placed(old, k, pc)]
      BY <1>2, <1>9 DEF ReadPlace, Becomes, Placed, TypeOK
    <2>2. pc \in Checking /\ old.pc = "place"
      BY <1>2, <1>9 DEF Checking, ReadPlace, At
    <2>3. PICK n \in Check0 : /\ n = Placed(old, k, pc) /\ n.base = old.base /\ n.pc = pc
                              /\ n.at = k /\ n.socket = old.socket /\ n.for = old.for
                              /\ n.age = old.age /\ n.torn = old.torn
      BY <2>2, PlacedCheck
    <2>4. call'[c] = n
      BY <2>1, <2>3 DEF TypeOK, Handlers
    <2>5. TheirOwn(c) /\ ReadsAreTrue(c)
      BY <1>1, AtWork
    <2>6. ~old.torn => /\ CanEdit(old.base) => lately'[w] <= old.age
                       /\ permission[w] = "none"
      BY <1>2, <1>3, <1>6, <2>2, <2>5 DEF ReadsAreTrue, Checking
    <2>7. w \in Users \ {Owner}
      BY <1>2, <1>3, <2>2, <2>5 DEF TheirOwn
    <2>8. CallOK(c)'
      BY <1>1, <1>2, <1>3, <1>4, <2>1, <2>3, <2>4, <2>6, <2>7, CheckGoesOn DEF rights
    <2>9. QED BY <1>7, <2>1, <2>3, <2>8
  <1>10. CASE ReadShare(c)
    <2>1. TheirOwn(c) /\ ReadsAreTrue(c) /\ old.pc = "share"
      BY <1>1, <1>2, <1>10, AtWork DEF ReadShare, At
    <2>2. w \in Users \ {Owner} /\ old.at \in Collections
      BY <1>2, <1>3, <2>1 DEF TheirOwn
    <2>3. PICK l \in Level :
            /\ l = share[old.at][w] /\ call' = [call EXCEPT ![c] = Based(old, l, "link")]
      <3>1. share[old.at][w] \in Level
        BY <2>2 DEF TypeOK, Grantable, Level
      <3>2. QED BY <1>2, <1>3, <1>10, <3>1 DEF ReadShare, Becomes, Based
    <2>4. PICK n \in Check0 : /\ n = Based(old, l, "link") /\ n.base = l /\ n.pc = "link"
                              /\ n.socket = old.socket /\ n.for = old.for
                              /\ n.age = old.age /\ n.torn = old.torn
      BY BasedCheck DEF Checking
    <2>5. call'[c] = n
      BY <2>3, <2>4 DEF TypeOK, Handlers
    <2>6. ASSUME ~old.torn, CanEdit(l) PROVE lately'[w] <= old.age
      <3>1. permission[w] = "none" /\ place = old.at
        BY <1>2, <1>3, <2>1, <2>6 DEF ReadsAreTrue
      <3>2. CanEdit(Access(w))
        BY <2>2, <2>3, <2>6, <3>1, ShareRead
      <3>3. QED BY <1>5, <1>6, <3>2
    <2>7. CallOK(c)'
      BY <1>1, <1>2, <1>3, <1>4, <2>4, <2>5, <2>6, CheckGoesOn DEF rights
    <2>8. QED BY <1>7, <2>3, <2>4, <2>7
  <1>11. QED BY <1>8, <1>9, <1>10

\* The entry that a check leaves.
LEMMA EntryMade ==
  ASSUME NEW c, NEW old \in Check0, call[c] = old, NEW l \in Level
  PROVE  /\ EntryFor(c, l) \in Entry
         /\ EntryFor(c, l).access # "none" => EntryFor(c, l).access = l
         /\ EntryFor(c, l).access # "none" /\ EntryFor(c, l).age < TTL =>
              EntryFor(c, l).age = old.age /\ EntryFor(c, l).torn = old.torn
  <1>1. TTL \in Nat /\ CallBound \in Nat /\ old.age \in 0..CallBound /\ old.torn \in BOOLEAN
    BY ConstantsAssumption, CheckFields DEF ConstantsAssumption
  <1>2. CASE l = "none"
    <2>1. EntryFor(c, l) = NoEntry
      BY <1>2 DEF EntryFor
    <2>2. NoEntry \in Entry /\ NoEntry.access = "none"
      BY <1>1 DEF NoEntry, Entry, Level
    <2>3. QED BY <2>1, <2>2
  <1>3. CASE l # "none"
    <2>1. PICK n \in 0..TTL : /\ n = (IF old.age < TTL THEN old.age ELSE TTL)
                              /\ n < TTL => n = old.age
      BY <1>1
    <2>2. EntryFor(c, l) = [access |-> l, age |-> n, torn |-> old.torn]
      BY <1>3, <2>1 DEF EntryFor
    <2>3. QED BY <1>1, <2>1, <2>2 DEF Entry
  <1>4. QED BY <1>2, <1>3

\* The last read, and what it leads to.
LEMMA ReadLinkStep ==
  ASSUME TypeOK, CallsOK, EntriesOK, ListedOK, Fading, NEW c \in Calls, ReadLink(c)
  PROVE  RestOK'
  <1>1. call[c].pc = "link" /\ call[c] # Idle /\ UNCHANGED <<rights, listed>>
    BY DEF ReadLink, At, Idle
  <1>2. PICK old \in Check0 : old = call[c]
    BY <1>1, AtWork
  <1>3. PICK w \in Guests : w = Who(c) /\ w = socket[old.socket].who /\ w \in Visitors
    BY <1>1, <1>2, AtWork DEF Who
  <1>4. PICK s \in Sockets : s = old.socket
    BY <1>2, CheckFields
  <1>5. old.age \in Nat /\ lately'[w] \in Nat /\ lately[w] \in Nat /\ lately'[w] <= lately[w]
        /\ TTL \in Nat \ {0}
    BY <1>1, <1>2, <1>3, AtWork, ConstantsAssumption DEF Fading, ConstantsAssumption
  <1>6. PICK l \in Level : l = maxAccess(old.base, LinkAccess)
    BY MaxAccess, LinkLevel, CheckFields DEF Level
  <1>7. ASSUME CanEdit(l), ~old.torn PROVE lately'[w] <= old.age
    <2>1. CASE CanEdit(old.base)
      <3>1. ReadsAreTrue(c)
        BY <1>1, AtWork
      <3>2. QED BY <1>1, <1>2, <1>3, <1>5, <1>7, <2>1, <3>1 DEF ReadsAreTrue, Checking
    <2>2. CASE CanEdit(LinkAccess)
      <3>1. CanEdit(Access(w))'
        BY <1>1, <2>2, EditAccess, SameAccess
      <3>2. QED BY <1>5, <3>1 DEF Fading
    <2>3. QED BY <1>6, <1>7, <2>1, <2>2, MaxAccess
  <1>8. PICK e \in Entry :
          /\ e = EntryFor(c, l) /\ (e.access # "none" => e.access = l)
          /\ e.access # "none" /\ e.age < TTL => e.age = old.age /\ e.torn = old.torn
    BY <1>2, EntryMade
  <1>9. /\ socket' = [socket EXCEPT ![s] = WithEntry(socket[s], e)]
        /\ WithEntry(socket[s], e) \in Socket /\ WithEntry(socket[s], e).entry = e
        /\ WithEntry(socket[s], e).up = socket[s].up /\ WithEntry(socket[s], e).who = socket[s].who
        /\ WithEntry(socket[s], e).present = socket[s].present
        /\ WithEntry(socket[s], e).replaced = socket[s].replaced
        /\ WithEntry(socket[s], e).late = socket[s].late
    <2>1. socket' = [socket EXCEPT ![s] = WithEntry(socket[s], e)]
      BY <1>2, <1>4, <1>6, <1>8 DEF ReadLink, WithEntry
    <2>2. socket[s] \in Socket
      BY DEF TypeOK
    <2>3. QED BY <2>1, <2>2, EnteredSocket
  <1>10. /\ socket' \in [Sockets -> Socket]
         /\ \A t \in Sockets :
              /\ socket'[t].up = socket[t].up /\ socket'[t].who = socket[t].who
              /\ socket'[t].late = socket[t].late /\ socket'[t].present = socket[t].present
              /\ socket'[t].replaced = socket[t].replaced
              /\ t # s => socket'[t].entry = socket[t].entry
    BY <1>9 DEF TypeOK
  <1>11. ListedOK' /\ listed' \in Listed
    BY <1>1, <1>10, ListStays DEF TypeOK, Listed
  <1>12. Moment /\ Remains
    BY <1>10 DEF Moment, Remains, Fading
  <1>13. EntriesOK'
    <2>1. EntryOK(s)'
      <3>1. socket'[s].entry = e /\ socket'[s].who = w
        BY <1>3, <1>4, <1>9 DEF TypeOK
      <3>2. ASSUME CanEdit(e.access), ~e.torn, e.age < TTL PROVE lately'[w] <= e.age
        <4>1. e.access # "none"
          BY <3>2 DEF CanEdit
        <4>2. QED BY <1>7, <1>8, <3>2, <4>1
      <3>3. QED BY <3>1, <3>2 DEF EntryOK
    <2>2. \A t \in Sockets : t # s => EntryOK(t)'
      BY <1>10, EntryStays
    <2>3. QED BY <2>1, <2>2 DEF EntriesOK
  <1>14. PICK n \in {Idle} \cup Check0 :
           /\ call' = [call EXCEPT ![c] = n]
           /\ \/ n = Idle
              \/ /\ n.pc \in {"name", "relay"} /\ n.socket = old.socket /\ n.for = old.for
                 /\ n.age = old.age /\ n.torn = old.torn
                 /\ n.pc = "name" => n.for = "join"
                 /\ n.pc = "relay" => CanEdit(l)
    <2>1. CASE call' = [call EXCEPT ![c] = Idle]
      BY <2>1
    <2>2. CASE call' # [call EXCEPT ![c] = Idle]
      <3>1. PICK pc \in {"name", "relay"} :
              /\ call' = [call EXCEPT ![c] = Based(old, l, pc)]
              /\ pc = "name" => old.for = "join"
              /\ pc = "relay" => CanEdit(l)
        BY <1>2, <1>6, <2>2 DEF ReadLink, Becomes, Based
      <3>2. pc \in Checking \cup {"name", "relay"}
        OBVIOUS
      <3>3. PICK n \in Check0 : /\ n = Based(old, l, pc) /\ n.pc = pc /\ n.socket = old.socket
                                /\ n.for = old.for /\ n.age = old.age /\ n.torn = old.torn
        BY <3>2, BasedCheck
      <3>4. QED BY <3>1, <3>3
    <2>3. QED BY <2>1, <2>2
  <1>15. CallOK(c)'
    <2>1. call'[c] = n
      BY <1>14 DEF TypeOK, Handlers
    <2>2. CASE n = Idle
      BY <2>1, <2>2 DEF CallOK
    <2>3. CASE n # Idle
      <3>1. Who(c)' = w
        BY <1>3, <1>4, <1>10, <1>14, <2>1, <2>3 DEF Who
      <3>2. TheirOwn(c)'
        BY <1>14, <2>1, <2>3, <3>1 DEF TheirOwn
      <3>3. LateJoin(c)'
        <4>1. LateJoin(c)
          BY <1>1, AtWork
        <4>2. QED BY <1>2, <1>4, <1>10, <1>14, <2>1, <2>3, <4>1 DEF LateJoin
      <3>4. ReadsAreTrue(c)'
        BY <1>14, <2>1, <2>3 DEF ReadsAreTrue, Checking
      <3>5. Authorized(c)'
        BY <1>5, <1>7, <1>14, <2>1, <2>3, <3>1 DEF Authorized
      <3>6. QED BY <3>2, <3>3, <3>4, <3>5 DEF CallOK
    <2>4. QED BY <2>2, <2>3
  <1>16. call' \in [Handlers -> CallState] /\ CallsOK'
    BY <1>1, <1>12, <1>14, <1>15, OneCall DEF NextOf, Handlers, rights
  <1>17. QED BY <1>10, <1>11, <1>13, <1>16 DEF RestOK, RoomOK

-----------------------------------------------------------------------------
(* Events of sockets. *)

\* A socket asks to join, or an edit arrives.
LEMMA EventStep ==
  ASSUME TypeOK, CallsOK, EntriesOK, ListedOK, Fading, NEW c \in Calls, NEW s \in Sockets,
         Join(c, s) \/ ElementUpdate(c, s)
  PROVE  RestOK'
  <1>1. /\ socket[s].up \/ socket[s].entry.access # "none"
        /\ socket[s] \in Socket /\ EntryOK(s) /\ UNCHANGED <<rights, listed>>
    BY DEF Join, ElementUpdate, TypeOK, EntriesOK
  <1>2. socket[s].who \in Guests /\ socket[s].up
    BY <1>1 DEF EntryOK, Join, ElementUpdate
  <1>3. /\ socket' \in [Sockets -> Socket]
        /\ \A t \in Sockets :
             /\ socket'[t].up = socket[t].up /\ socket'[t].who = socket[t].who
             /\ socket'[t].late = socket[t].late /\ socket'[t].present = socket[t].present
             /\ socket'[t].replaced = socket[t].replaced /\ socket'[t].entry = socket[t].entry
    <2>1. CASE socket' = socket
      BY <2>1 DEF TypeOK
    <2>2. CASE socket' = [socket EXCEPT ![s] = Asked(socket[s])]
      <3>1. /\ Asked(socket[s]) \in Socket
            /\ Asked(socket[s]).up = socket[s].up /\ Asked(socket[s]).who = socket[s].who
            /\ Asked(socket[s]).entry = socket[s].entry
            /\ Asked(socket[s]).present = socket[s].present
            /\ Asked(socket[s]).replaced = socket[s].replaced
            /\ Asked(socket[s]).late = socket[s].late
        BY <1>1, JoinedSocket
      <3>2. QED BY <2>2, <3>1 DEF TypeOK
    <2>3. socket' = socket \/ socket' = [socket EXCEPT ![s] = Asked(socket[s])]
      BY DEF Join, ElementUpdate, Asked
    <2>4. QED BY <2>1, <2>2, <2>3
  <1>4. /\ Moment /\ Remains /\ ListedOK' /\ listed' \in Listed
    BY <1>1, <1>3, ListStays DEF Moment, Remains, Fading, TypeOK, Listed
  <1>5. EntriesOK'
    BY <1>3, EntryStays DEF EntriesOK
  <1>6. PICK w \in Guests : w = socket[s].who /\ w = socket'[s].who
    BY <1>2, <1>3
  <1>7. PICK n \in Check0 :
          /\ call' = [call EXCEPT ![c] = n] /\ n.socket = s /\ n # Idle
          /\ \/ n.pc = "direct" /\ n.base = "none"
             \/ /\ n.pc = "relay" /\ n.for = "update" /\ n.age = 0
                /\ n.torn \/ lately'[w] < TTL
    <2>1. CASE Join(c, s) \/ call' = [call EXCEPT ![c] = Check(s, "update")]
      <3>1. PICK for \in {"join", "update"} : call' = [call EXCEPT ![c] = Check(s, for)]
        BY <2>1 DEF Join, Begins
      <3>2. /\ Check(s, for) \in Check0 /\ Check(s, for).pc = "direct"
            /\ Check(s, for).socket = s /\ Check(s, for).base = "none"
        BY FirstCheck
      <3>3. QED BY <3>1, <3>2, CheckFields
    <2>2. CASE ElementUpdate(c, s) /\ call' # [call EXCEPT ![c] = Check(s, "update")]
      <3>1. PICK e \in Entry : e = socket[s].entry
        BY <1>1, SocketFields
      <3>2. e.access \in Level /\ e.torn \in BOOLEAN /\ e.age \in Nat /\ TTL \in Nat
        BY EntryTypes, ConstantsAssumption DEF ConstantsAssumption
      <3>3. /\ e.age < TTL /\ CanEdit(e.access)
            /\ call' = [call EXCEPT ![c] = Relayed(s, e.access, e.torn)]
        BY <2>2, <3>1 DEF ElementUpdate, Begins, Relayed
      <3>4. e.torn \/ lately'[w] < TTL
        <4>1. e.torn \/ lately[w] <= e.age
          BY <1>1, <1>6, <3>1, <3>3 DEF EntryOK
        <4>2. lately[w] \in Nat /\ lately'[w] \in Nat /\ lately'[w] <= lately[w]
          BY ConstantsAssumption DEF TypeOK, Fading, Horizon, ConstantsAssumption
        <4>3. QED BY <3>2, <3>3, <4>1, <4>2
      <3>5. PICK n \in Check0 : /\ n = Relayed(s, e.access, e.torn) /\ n.pc = "relay"
                                /\ n.socket = s /\ n.for = "update" /\ n.age = 0 /\ n.torn = e.torn
        BY <3>2, FirstCheck
      <3>6. n # Idle
        BY CheckFields
      <3>7. QED BY <3>3, <3>4, <3>5, <3>6
    <2>3. QED BY <2>1, <2>2
  <1>8. CallOK(c)'
    <2>1. call'[c] = n /\ TTL \in Nat
      BY <1>7, ConstantsAssumption DEF TypeOK, Handlers, ConstantsAssumption
    <2>2. Who(c)' = w
      BY <1>6, <1>7, <2>1 DEF Who
    <2>3. TheirOwn(c)'
      BY <1>7, <2>1, <2>2 DEF TheirOwn, Checking
    <2>4. LateJoin(c)'
      BY <1>2, <1>3, <1>7, <2>1 DEF LateJoin
    <2>5. ReadsAreTrue(c)'
      BY <1>7, <2>1 DEF ReadsAreTrue, Checking, CanEdit
    <2>6. Authorized(c)'
      BY <1>7, <2>1, <2>2 DEF Authorized
    <2>7. QED BY <2>3, <2>4, <2>5, <2>6 DEF CallOK
  <1>9. call' \in [Handlers -> CallState] /\ CallsOK'
    BY <1>1, <1>4, <1>7, <1>8, OneCall DEF NextOf, Handlers, rights
  <1>10. QED BY <1>3, <1>4, <1>5, <1>9 DEF RestOK, RoomOK

\* An edit is relayed, and requests to change the sharing begin, go on and end,
\* where no check can be torn.
LEMMA EndStep ==
  ASSUME TypeOK, CallsOK, EntriesOK, ListedOK, Fading, NEW c \in Handlers,
         NEW n \in NextOf(c), call' = [call EXCEPT ![c] = n], c \in Calls => n = Idle,
         UNCHANGED <<permission, place, socket, listed>>
  PROVE  RestOK'
  <1>1. /\ Moment /\ Remains /\ EntriesOK' /\ ListedOK'
        /\ socket' \in [Sockets -> Socket] /\ listed' \in Listed
    BY SameSockets
  <1>2. c \in Calls => CallOK(c)'
    <2>1. call'[c] = n
      BY DEF TypeOK
    <2>2. QED BY <2>1 DEF CallOK
  <1>3. QED BY <1>1, <1>2, OneCall DEF RestOK, RoomOK

\* A join is completed: its socket is listed.
LEMMA ListStep ==
  ASSUME TypeOK, CallsOK, EntriesOK, ListedOK, Fading, NEW c \in Calls, List(c)
  PROVE  RestOK'
  <1>1. call[c].pc = "name" /\ call[c] # Idle /\ UNCHANGED <<rights, changes>>
    BY DEF List, Idle
  <1>2. PICK s \in Sockets : s = call[c].socket
    BY <1>1, AtWork
  <1>3. PICK i \in Users \cup Sockets : i = PresenceId(s)
    <2>1. socket[s].who \in Visitors
      BY SocketFields DEF TypeOK
    <2>2. QED BY <2>1 DEF PresenceId, Visitors
  <1>4. /\ listed' = [listed EXCEPT ![i] = s]
        /\ call' = [call EXCEPT ![c] = Idle]
        /\ socket' = [t \in Sockets |->
             IF t = s THEN Present(socket[s])
             ELSE IF socket[t].present /\ PresenceId(t) = i THEN Replaced(socket[t])
             ELSE socket[t]]
    BY <1>2, <1>3 DEF List, Becomes, Present, Replaced
  <1>5. ASSUME NEW t \in Sockets
        PROVE  /\ socket'[t] \in Socket
               /\ socket'[t].up = socket[t].up /\ socket'[t].who = socket[t].who
               /\ socket'[t].late = socket[t].late /\ socket'[t].entry = socket[t].entry
               /\ t # s /\ ~(socket[t].present /\ PresenceId(t) = i) => socket'[t] = socket[t]
               /\ t # s /\ socket[t].present /\ PresenceId(t) = i => socket'[t].replaced
    <2>1. socket[t] \in Socket
      BY DEF TypeOK
    <2>2. PICK a \in Socket : a = socket[t]
      BY <2>1
    <2>3. /\ Present(a) \in Socket /\ Present(a).up = a.up /\ Present(a).who = a.who
          /\ Present(a).entry = a.entry /\ Present(a).late = a.late
          /\ Replaced(a) \in Socket /\ Replaced(a).up = a.up /\ Replaced(a).who = a.who
          /\ Replaced(a).entry = a.entry /\ Replaced(a).late = a.late
          /\ Replaced(a).replaced = TRUE
      BY JoinedSocket
    <2>4. CASE t = s
      <3>1. socket'[t] = Present(a)
        BY <1>4, <2>2, <2>4
      <3>2. QED BY <2>2, <2>3, <2>4, <3>1
    <2>5. CASE t # s /\ socket[t].present /\ PresenceId(t) = i
      <3>1. socket'[t] = Replaced(a)
        BY <1>4, <2>2, <2>5
      <3>2. QED BY <2>2, <2>3, <2>5, <3>1
    <2>6. CASE t # s /\ ~(socket[t].present /\ PresenceId(t) = i)
      <3>1. socket'[t] = a
        BY <1>4, <2>2, <2>6
      <3>2. QED BY <2>2, <2>6, <3>1
    <2>7. QED BY <2>4, <2>5, <2>6
  <1>6. socket' \in [Sockets -> Socket] /\ listed' \in Listed
    BY <1>4, <1>5 DEF TypeOK, Listed
  <1>7. Moment /\ Remains
    BY <1>5 DEF Moment, Remains, Fading
  <1>8. EntriesOK'
    BY <1>5, EntryStays DEF EntriesOK
  <1>9. \A t \in Sockets : PresenceId(t)' = PresenceId(t)
    BY <1>5 DEF PresenceId
  <1>10. ASSUME NEW j \in Users \cup Sockets, listed'[j] # None
         PROVE  socket'[listed'[j]].up \/ socket'[listed'[j]].late
    <2>1. CASE j = i
      <3>1. call[c].for = "join" /\ LateJoin(c)
        BY <1>1, AtWork DEF TheirOwn
      <3>2. listed'[j] = s
        BY <1>4, <2>1 DEF TypeOK
      <3>3. QED BY <1>2, <1>5, <3>1, <3>2 DEF LateJoin
    <2>2. CASE j # i
      <3>1. listed'[j] = listed[j] /\ listed[j] \in Sockets
        BY <1>4, <1>10, <2>2 DEF TypeOK
      <3>2. socket[listed[j]].up \/ socket[listed[j]].late
        BY <1>10, <3>1 DEF ListedOK, GhostsJoinedLate, TypeOK
      <3>3. QED BY <1>5, <3>1, <3>2
    <2>3. QED BY <2>1, <2>2
  <1>11. ASSUME NEW t \in Sockets, socket'[t].up, socket'[t].present, ~socket'[t].replaced
         PROVE  listed'[PresenceId(t)'] = t
    <2>1. CASE t = s
      BY <1>3, <1>4, <1>9, <2>1 DEF TypeOK
    <2>2. CASE t # s
      <3>1. socket'[t] = socket[t] /\ PresenceId(t) # i
        BY <1>5, <1>11, <2>2
      <3>2. listed[PresenceId(t)] = t
        BY <1>11, <3>1 DEF ListedOK, ListedUnlessReplaced
      <3>3. listed'[PresenceId(t)] = listed[PresenceId(t)]
        BY <1>4, <3>1 DEF TypeOK
      <3>4. QED BY <1>9, <3>2, <3>3
    <2>3. QED BY <2>1, <2>2
  <1>12. ListedOK'
    <2>1. DOMAIN listed' = Users \cup Sockets
      BY <1>6 DEF Listed
    <2>2. GhostsJoinedLate'
      BY <1>10, <2>1 DEF GhostsJoinedLate
    <2>3. ListedUnlessReplaced'
      BY <1>11 DEF ListedUnlessReplaced
    <2>4. QED BY <2>2, <2>3 DEF ListedOK
  <1>13. CallOK(c)'
    <2>1. call'[c] = Idle
      BY <1>4 DEF TypeOK, Handlers
    <2>2. QED BY <2>1 DEF CallOK
  <1>14. call' \in [Handlers -> CallState] /\ CallsOK'
    BY <1>1, <1>4, <1>7, <1>13, OneCall DEF NextOf, Handlers, rights
  <1>15. QED BY <1>6, <1>8, <1>12, <1>14 DEF RestOK, RoomOK

\* A socket comes.
LEMMA ConnectStep ==
  ASSUME TypeOK, CallsOK, EntriesOK, ListedOK, Fading,
         NEW s \in Sockets, NEW u \in Guests, Connect(s, u)
  PROVE  RestOK'
  <1>1. u \in Visitors /\ UNCHANGED <<rights, listed, call>> /\ socket' = [socket EXCEPT ![s] = New(u)]
    BY ConstantsAssumption DEF Connect, New, ConstantsAssumption
  <1>2. /\ New(u) \in Socket /\ New(u).up = TRUE /\ New(u).who = u
        /\ New(u).present = FALSE /\ New(u).entry = NoEntry
    BY <1>1, OtherSocket
  <1>3. socket' \in [Sockets -> Socket] /\ socket'[s] = New(u)
        /\ \A t \in Sockets : t # s => socket'[t] = socket[t]
    BY <1>1, <1>2 DEF TypeOK
  <1>4. ASSUME NEW c \in Calls PROVE CallOK(c)'
    <2>1. CASE call[c] = Idle
      BY <1>1, <2>1 DEF CallOK
    <2>2. CASE call[c] # Idle
      <3>1. call[c].socket \in Sockets /\ call[c].socket # s /\ CallOK(c)
        BY <2>2, AtWork DEF Connect, CallsOK
      <3>2. socket'[call[c].socket] = socket[call[c].socket]
        BY <1>3, <3>1
      <3>3. PICK w \in Guests : w = Who(c) /\ w = Who(c)'
        BY <1>1, <2>2, <3>2, AtWork DEF Who
      <3>4. /\ lately[w] \in Nat /\ lately'[w] \in Nat /\ lately'[w] <= lately[w]
            /\ call[c].age \in Nat /\ TTL \in Nat
        BY <2>2, <3>3, AtWork, ConstantsAssumption DEF Fading, ConstantsAssumption
      <3>5. TheirOwn(c)' /\ LateJoin(c)'
        BY <1>1, <2>2, <3>1, <3>2, <3>3 DEF CallOK, TheirOwn, LateJoin
      <3>6. ReadsAreTrue(c)'
        BY <1>1, <2>2, <3>1, <3>3, <3>4 DEF CallOK, ReadsAreTrue, rights
      <3>7. Authorized(c)'
        BY <1>1, <2>2, <3>1, <3>3, <3>4 DEF CallOK, Authorized
      <3>8. QED BY <3>5, <3>6, <3>7 DEF CallOK
    <2>3. QED BY <2>1, <2>2
  <1>5. CallsOK' /\ call' \in [Handlers -> CallState]
    BY <1>1, <1>4 DEF CallsOK, RequestsWrite, TypeOK
  <1>6. EntriesOK'
    <2>1. EntryOK(s)'
      BY <1>2, <1>3, EmptyEntry
    <2>2. \A t \in Sockets : t # s => EntryOK(t)'
      BY <1>3, EntryStays
    <2>3. QED BY <2>1, <2>2 DEF EntriesOK
  <1>7. ListedOK'
    <2>1. ASSUME NEW i \in Users \cup Sockets, listed[i] # None
          PROVE  socket'[listed[i]].up \/ socket'[listed[i]].late
      <3>1. listed[i] # s /\ listed[i] \in Sockets
        BY <2>1 DEF Connect, TypeOK
      <3>2. QED BY <1>3, <2>1, <3>1 DEF ListedOK, GhostsJoinedLate, TypeOK
    <2>2. ASSUME NEW t \in Sockets, socket'[t].up, socket'[t].present, ~socket'[t].replaced
          PROVE  listed[PresenceId(t)'] = t
      BY <1>2, <1>3, <2>2 DEF ListedOK, ListedUnlessReplaced, PresenceId
    <2>3. QED BY <1>1, <2>1, <2>2 DEF ListedOK, GhostsJoinedLate, ListedUnlessReplaced, TypeOK
  <1>8. QED BY <1>1, <1>3, <1>5, <1>6, <1>7 DEF RestOK, RoomOK, TypeOK, Listed

\* A socket goes.
LEMMA DisconnectStep ==
  ASSUME TypeOK, CallsOK, EntriesOK, ListedOK, Fading, NEW s \in Sockets, Disconnect(s)
  PROVE  RestOK'
  <1>1. PICK late \in BOOLEAN :
          /\ late = (JoinsUnderWay(s) # {})
          /\ socket' = [socket EXCEPT ![s] = Gone(socket[s], late)]
    BY DEF Disconnect, Gone
  <1>2. UNCHANGED <<rights, call>>
        /\ listed' = [i \in Users \cup Sockets |-> IF listed[i] = s THEN None ELSE listed[i]]
    BY DEF Disconnect, TypeOK
  <1>3. /\ Gone(socket[s], late) \in Socket /\ Gone(socket[s], late).up = FALSE
        /\ Gone(socket[s], late).who = socket[s].who
        /\ Gone(socket[s], late).late = late /\ Gone(socket[s], late).entry = NoEntry
    BY OtherSocket DEF TypeOK
  <1>4. socket' \in [Sockets -> Socket] /\ socket'[s] = Gone(socket[s], late)
        /\ \A t \in Sockets : t # s => socket'[t] = socket[t]
    BY <1>1, <1>3 DEF TypeOK
  <1>5. Moment
    BY <1>3, <1>4 DEF Moment, Fading
  <1>6. ASSUME NEW c \in Calls PROVE CallOK(c)'
    <2>1. ASSUME call[c] # Idle, call[c].for = "join", LateJoin(c)
          PROVE  socket'[call[c].socket].up \/ socket'[call[c].socket].late
      <3>1. CASE call[c].socket = s
        <4>1. c \in JoinsUnderWay(s)
          BY <2>1, <3>1 DEF JoinsUnderWay
        <4>2. late = TRUE
          BY <1>1, <4>1
        <4>3. QED BY <1>3, <1>4, <3>1, <4>2
      <3>2. CASE call[c].socket # s
        <4>1. call[c].socket \in Sockets
          BY <2>1, AtWork
        <4>2. QED BY <1>4, <2>1, <3>2, <4>1 DEF LateJoin
      <3>3. QED BY <3>1, <3>2
    <2>2. call'[c] = call[c] /\ UNCHANGED <<permission, place>>
      BY <1>2 DEF rights
    <2>3. QED BY <1>5, <2>1, <2>2, CallStays
  <1>7. CallsOK' /\ call' \in [Handlers -> CallState]
    BY <1>2, <1>6 DEF CallsOK, RequestsWrite, TypeOK
  <1>8. EntriesOK'
    <2>1. EntryOK(s)'
      BY <1>3, <1>4, EmptyEntry
    <2>2. \A t \in Sockets : t # s => EntryOK(t)'
      BY <1>4, EntryStays
    <2>3. QED BY <2>1, <2>2 DEF EntriesOK
  <1>9. listed' \in Listed
    BY <1>2 DEF TypeOK, Listed
  <1>10. ListedOK'
    <2>1. ASSUME NEW i \in Users \cup Sockets, listed'[i] # None
          PROVE  socket'[listed'[i]].up \/ socket'[listed'[i]].late
      <3>1. listed'[i] = listed[i] /\ listed[i] # s /\ listed[i] \in Sockets
        BY <1>2, <2>1 DEF TypeOK
      <3>2. QED BY <1>4, <2>1, <3>1 DEF ListedOK, GhostsJoinedLate, TypeOK
    <2>2. ASSUME NEW t \in Sockets, socket'[t].up, socket'[t].present, ~socket'[t].replaced
          PROVE  listed'[PresenceId(t)'] = t
      <3>1. t # s /\ socket'[t] = socket[t] /\ PresenceId(t)' = PresenceId(t)
        BY <1>3, <1>4, <2>2 DEF PresenceId
      <3>2. listed[PresenceId(t)] = t
        BY <2>2, <3>1 DEF ListedOK, ListedUnlessReplaced
      <3>3. PresenceId(t) \in Users \cup Sockets
        <4>1. socket[t].who \in Visitors
          BY SocketFields DEF TypeOK
        <4>2. QED BY <4>1 DEF PresenceId, Visitors
      <3>4. QED BY <1>2, <3>1, <3>2, <3>3
    <2>3. DOMAIN listed' = Users \cup Sockets
      BY <1>2
    <2>4. QED BY <2>1, <2>2, <2>3 DEF ListedOK, GhostsJoinedLate, ListedUnlessReplaced
  <1>11. QED BY <1>4, <1>7, <1>8, <1>9, <1>10 DEF RestOK, RoomOK

-----------------------------------------------------------------------------
(* Requests to change the sharing, and the other changes of rights. *)

\* A request goes on: to its second write.
LEMMA WritingOn ==
  ASSUME NEW n \in Write0
  PROVE  /\ n # Idle /\ n.pc \in {"write", "create"}
         /\ [n EXCEPT !.pc = "create"] \in Write0
         /\ n.age < CallBound => /\ Later(n) \in Write0 /\ Later(n).pc = n.pc
  <1>1. n # Idle /\ n.pc \in {"write", "create"}
    BY DEF Write0, Idle
  <1>2. [n EXCEPT !.pc = "create"] \in Write0
    BY DEF Write0
  <1>3. ASSUME n.age < CallBound PROVE Later(n) \in Write0 /\ Later(n).pc = n.pc
    <2>1. n.age + 1 \in 0..CallBound
      BY <1>3, ConstantsAssumption DEF Write0, ConstantsAssumption
    <2>2. QED BY <2>1 DEF Write0, Later
  <1>4. QED BY <1>1, <1>2, <1>3

\* A request begins.
LEMMA ManageStep ==
  ASSUME TypeOK, CallsOK, EntriesOK, ListedOK, Fading, NEW c \in Requests, NEW u \in Users,
         Manage(c, u)
  PROVE  RestOK'
  <1>1. c \in Handlers /\ c \notin Calls
    BY ConstantsAssumption DEF Handlers, ConstantsAssumption
  <1>2. [pc |-> "write", by |-> u, age |-> 0] \in NextOf(c)
    BY <1>1, ConstantsAssumption DEF NextOf, Write0, ConstantsAssumption
  <1>3. /\ call' = [call EXCEPT ![c] = [pc |-> "write", by |-> u, age |-> 0]]
        /\ UNCHANGED <<permission, place, socket, listed>>
    BY DEF Manage, Begins, rights
  <1>4. QED BY <1>1, <1>2, <1>3, EndStep

\* A request takes a step.
LEMMA WriteStays ==
  ASSUME TypeOK, CallsOK, EntriesOK, ListedOK, Fading, NEW c \in Requests, WriteStep(c)
  PROVE  RestOK'
  <1>1. c \in Handlers /\ c \notin Calls /\ Idle \in NextOf(c)
    BY ConstantsAssumption DEF Handlers, NextOf, ConstantsAssumption
  <1>2. /\ Moment /\ Remains /\ EntriesOK' /\ ListedOK'
        /\ socket' \in [Sockets -> Socket] /\ listed' \in Listed
    <2>1. UNCHANGED <<socket, listed>>
      BY DEF WriteStep, WritePermission, RevokeLinks, CreateLink, RevokeLink, GiveUp, Changes
    <2>2. QED BY <2>1, SameSockets
  <1>3. ASSUME NEW u \in Users, NEW level \in Grantable \cup {"none"},
               WritePermission(c, u, level)
        PROVE  RestOK'
    <2>1. call' = [Torn EXCEPT ![c] = Idle]
      BY <1>3 DEF WritePermission
    <2>2. call' \in [Handlers -> CallState] /\ CallsOK'
      BY <1>2, <2>1, TornCalls
    <2>3. QED BY <1>2, <2>2 DEF RestOK, RoomOK
  <1>4. ASSUME RevokeLinks(c) PROVE RestOK'
    <2>1. call[c].pc = "write" /\ call[c] # Idle
      BY <1>4 DEF RevokeLinks, Idle
    <2>2. call[c] \in Write0
      BY <2>1, CallTypes
    <2>3. [call[c] EXCEPT !.pc = "create"] \in NextOf(c)
      BY <1>1, <2>2, WritingOn DEF NextOf
    <2>4. /\ call' = [call EXCEPT ![c] = [call[c] EXCEPT !.pc = "create"]]
          /\ UNCHANGED <<permission, place, socket, listed>>
      BY <1>4 DEF RevokeLinks, Becomes
    <2>5. QED BY <1>1, <2>3, <2>4, EndStep
  <1>5. ASSUME \/ \E level \in Grantable : CreateLink(c, level)
               \/ \E i \in DOMAIN link : RevokeLink(c, i)
               \/ GiveUp(c)
        PROVE  RestOK'
    <2>1. /\ call' = [call EXCEPT ![c] = Idle]
          /\ UNCHANGED <<permission, place, socket, listed>>
      BY <1>5 DEF CreateLink, RevokeLink, GiveUp, Becomes, Changes, rights
    <2>2. QED BY <1>1, <2>1, EndStep
  <1>6. QED BY <1>3, <1>4, <1>5 DEF WriteStep

\* The rights change otherwise.
LEMMA ChangeStep ==
  ASSUME TypeOK, CallsOK, EntriesOK, ListedOK, Fading,
         \/ \E i \in 1..LinkBound : ExpireLink(i)
         \/ \E k \in Collections, u \in Users, role \in Grantable \cup {"none"} :
              ShareCollection(k, u, role)
         \/ \E k \in Collections, u \in Users, member \in BOOLEAN : TeamShare(k, u, member)
         \/ \E k \in Collections \cup {None} : Move(k)
         \/ \E on \in BOOLEAN : SetFullAccess(on)
  PROVE  RestOK'
  <1>1. /\ UNCHANGED <<socket, listed>>
        /\ call' = Torn \/ UNCHANGED <<call, permission, place>>
    BY DEF ExpireLink, ShareCollection, TeamShare, Move, SetFullAccess
  <1>2. /\ Moment /\ Remains /\ EntriesOK' /\ ListedOK'
        /\ socket' \in [Sockets -> Socket] /\ listed' \in Listed
    BY <1>1, SameSockets
  <1>3. call' \in [Handlers -> CallState] /\ CallsOK'
    BY <1>1, <1>2, TornCalls, NoCall
  <1>4. QED BY <1>2, <1>3 DEF RestOK, RoomOK

-----------------------------------------------------------------------------
(* All steps. *)

\* A step in which no time passes.
LEMMA ActStep ==
  ASSUME IInv, Act
  PROVE  IInv'
  <1>1. TypeOK /\ CallsOK /\ EntriesOK /\ ListedOK
    BY DEF IInv
  <1>2. lately' \in [Guests -> 0..Horizon] /\ Fading
    <2>1. lately \in [Guests -> 0..Horizon] /\ Remember(0) /\ Horizon \in Nat
      BY <1>1, ConstantsAssumption DEF TypeOK, Act, Horizon, ConstantsAssumption
    <2>2. /\ lately' \in [Guests -> 0..Horizon]
          /\ \A u \in Guests : /\ CanEdit(Access(u))' => lately'[u] = 0
                               /\ lately'[u] <= lately[u] + 0
      BY <2>1, LatelyStep
    <2>3. ASSUME NEW u \in Guests PROVE lately'[u] \in Nat /\ lately'[u] <= lately[u]
      <3>1. lately'[u] \in 0..Horizon /\ lately[u] \in 0..Horizon
            /\ lately'[u] <= lately[u] + 0
        BY <2>1, <2>2
      <3>2. QED BY <2>1, <3>1
    <2>4. QED BY <2>2, <2>3 DEF Fading
  <1>3. RightsOK'
    BY <1>1, TypeParts, RightsStep DEF Act
  <1>4. RestOK'
    <2>1. ASSUME NEW s \in Sockets, Disconnect(s) PROVE RestOK'
      BY <1>1, <1>2, <2>1, DisconnectStep
    <2>2. ASSUME NEW s \in Sockets, NEW u \in Guests, Connect(s, u) PROVE RestOK'
      BY <1>1, <1>2, <2>2, ConnectStep
    <2>3. ASSUME NEW c \in Calls, NEW s \in Sockets, Join(c, s) \/ ElementUpdate(c, s)
          PROVE  RestOK'
      BY <1>1, <1>2, <2>3, EventStep
    <2>4. ASSUME NEW c \in Requests, NEW u \in Users, Manage(c, u) PROVE RestOK'
      BY <1>1, <1>2, <2>4, ManageStep
    <2>5. CASE Event
      BY <1>1, <1>2, <2>1, <2>2, <2>3, <2>4, <2>5, ChangeStep DEF Event
    <2>6. ASSUME NEW c \in Calls, CallStep(c) PROVE RestOK'
      <3>1. CASE ReadDirect(c) \/ ReadPlace(c) \/ ReadShare(c)
        BY <1>1, <1>2, <3>1, ReadStep
      <3>2. CASE ReadLink(c)
        BY <1>1, <1>2, <3>2, ReadLinkStep
      <3>3. CASE List(c)
        BY <1>1, <1>2, <3>3, ListStep
      <3>4. CASE Relay(c)
        <4>1. c \in Handlers /\ Idle \in NextOf(c)
          BY DEF Handlers, NextOf
        <4>2. /\ call' = [call EXCEPT ![c] = Idle]
              /\ UNCHANGED <<permission, place, socket, listed>>
          BY <3>4 DEF Relay, Becomes, rights
        <4>3. QED BY <1>1, <1>2, <4>1, <4>2, EndStep
      <3>5. QED BY <2>6, <3>1, <3>2, <3>3, <3>4 DEF CallStep, CheckStep
    <2>7. ASSUME NEW c \in Requests, WriteStep(c) PROVE RestOK'
      BY <1>1, <1>2, <2>7, WriteStays
    <2>8. CASE Handle
      BY <2>6, <2>7, <2>8 DEF Handle
    <2>9. QED BY <2>5, <2>8 DEF Act
  <1>5. TypeOK'
    BY <1>2, <1>3, <1>4
       DEF TypeOK, RightsOK, RestOK, RoomOK, Permissions, Shares, Link, Listed
  <1>6. QED BY <1>4, <1>5 DEF IInv, RestOK

\* Time passes: everything gets older together.
LEMMA PassStep ==
  ASSUME IInv, Pass
  PROVE  IInv'
  <1>1. /\ TypeOK /\ CallsOK /\ EntriesOK /\ ListedOK /\ Tick
        /\ UNCHANGED <<rights, listed>>
    BY DEF IInv, Pass, Tick
  <1>2. /\ lately' \in [Guests -> 0..Horizon]
        /\ \A u \in Guests : /\ lately[u] \in Nat /\ lately'[u] \in Nat
                             /\ lately'[u] <= lately[u] + 1
    <2>1. lately \in [Guests -> 0..Horizon] /\ Remember(1) /\ Horizon \in Nat
      BY <1>1, ConstantsAssumption DEF TypeOK, Pass, Horizon, ConstantsAssumption
    <2>2. /\ lately' \in [Guests -> 0..Horizon]
          /\ \A u \in Guests : lately'[u] <= lately[u] + 1
      BY <2>1, LatelyStep
    <2>3. QED BY <2>1, <2>2
  <1>3. RightsOK'
    BY <1>1, TypeParts, RightsStep
  <1>4. TTL \in Nat \ {0} /\ CallBound \in Nat
    BY ConstantsAssumption DEF ConstantsAssumption
  <1>5. ASSUME NEW s \in Sockets
        PROVE  \E a \in Socket, e \in Entry :
                 /\ a = socket[s] /\ e = socket[s].entry
                 /\ socket'[s] = WithEntry(a, OlderEntry(e)) /\ socket'[s] \in Socket
                 /\ OlderEntry(e) \in Entry /\ socket'[s].entry = OlderEntry(e)
                 /\ socket'[s].up = a.up /\ socket'[s].who = a.who /\ socket'[s].late = a.late
                 /\ socket'[s].present = a.present /\ socket'[s].replaced = a.replaced
    <2>1. PICK a \in Socket : a = socket[s]
      BY <1>1 DEF TypeOK
    <2>2. PICK e \in Entry : e = a.entry
      BY SocketFields
    <2>3. socket'[s] = WithEntry(a, OlderEntry(e))
      BY <1>1, <2>1, <2>2 DEF Tick, WithEntry, OlderEntry
    <2>4. OlderEntry(e) \in Entry
      BY OlderEntryType
    <2>5. QED BY <2>1, <2>2, <2>3, <2>4, EnteredSocket
  <1>6. socket' \in [Sockets -> Socket]
    <2>1. socket' = [s \in Sockets |-> socket'[s]]
      BY <1>1 DEF Tick
    <2>2. \A s \in Sockets : socket'[s] \in Socket
      BY <1>5
    <2>3. QED BY <2>1, <2>2
  <1>7. ListedOK'
    <2>1. \A s \in Sockets :
            /\ socket'[s].up = socket[s].up /\ socket'[s].who = socket[s].who
            /\ socket'[s].late = socket[s].late /\ socket'[s].present = socket[s].present
            /\ socket'[s].replaced = socket[s].replaced
      BY <1>5
    <2>2. QED BY <1>1, <2>1, ListStays
  <1>8. ASSUME NEW s \in Sockets PROVE EntryOK(s)'
    <2>1. PICK a \in Socket, e \in Entry :
            /\ a = socket[s] /\ e = socket[s].entry /\ socket'[s].entry = OlderEntry(e)
            /\ socket'[s].up = a.up /\ socket'[s].who = a.who
      BY <1>5
    <2>2. PICK f \in Entry : /\ f = OlderEntry(e) /\ f.age = Older(e.age)
                             /\ f.access = e.access /\ f.torn = e.torn
      BY OlderEntryType
    <2>3. EntryOK(s)
      BY <1>1 DEF EntriesOK
    <2>4. socket'[s].up \/ f.access # "none" => socket'[s].who \in Guests
      BY <2>1, <2>2, <2>3 DEF EntryOK
    <2>5. ASSUME CanEdit(f.access), ~f.torn, f.age < TTL PROVE lately'[a.who] <= f.age
      <3>1. e.age \in Nat /\ e.age < TTL /\ f.age = e.age + 1
        BY <1>4, <2>2, <2>5, EntryTypes DEF Older
      <3>2. CanEdit(e.access) /\ ~e.torn
        BY <2>2, <2>5
      <3>3. e.access # "none"
        BY <3>2 DEF CanEdit
      <3>4. a.who \in Guests /\ lately[a.who] <= e.age
        BY <2>1, <2>3, <3>1, <3>2, <3>3 DEF EntryOK
      <3>5. lately[a.who] \in Nat /\ lately'[a.who] \in Nat
            /\ lately'[a.who] <= lately[a.who] + 1
        BY <1>2, <3>4
      <3>6. QED BY <3>1, <3>4, <3>5
    <2>6. QED BY <2>1, <2>2, <2>4, <2>5 DEF EntryOK
  <1>9. ASSUME NEW c \in Handlers
        PROVE  /\ call[c] = Idle => call'[c] = Idle
               /\ call[c] # Idle => call'[c] = Later(call[c]) /\ call[c].age < CallBound
    BY <1>1 DEF Tick, Later
  <1>10. ASSUME NEW c \in Calls, call[c] # Idle
         PROVE  \E old, new \in Check0 :
                  /\ old = call[c] /\ new = call'[c] /\ new.age = old.age + 1
                  /\ new.pc = old.pc /\ new.socket = old.socket /\ new.for = old.for
                  /\ new.base = old.base /\ new.at = old.at /\ new.torn = old.torn
    <2>1. PICK old \in Check0 : old = call[c]
      BY <1>1, <1>10, AtWork
    <2>2. old.age < CallBound /\ call'[c] = Later(old)
      BY <1>9, <1>10, <2>1 DEF Handlers
    <2>3. QED BY <2>1, <2>2, LaterCheck
  <1>11. ASSUME NEW c \in Calls PROVE CallOK(c)'
    <2>1. CASE call[c] = Idle
      BY <1>9, <2>1 DEF CallOK, Handlers
    <2>2. CASE call[c] # Idle
      <3>1. PICK old \in Check0, new \in Check0 :
              /\ old = call[c] /\ new = call'[c] /\ new.age = old.age + 1
              /\ new.pc = old.pc /\ new.socket = old.socket /\ new.for = old.for
              /\ new.base = old.base /\ new.at = old.at /\ new.torn = old.torn
        BY <1>10, <2>2
      <3>2. TheirOwn(c) /\ LateJoin(c) /\ ReadsAreTrue(c) /\ Authorized(c)
        BY <1>1, <2>2 DEF CallsOK, CallOK
      <3>3. /\ socket'[old.socket].up = socket[old.socket].up
            /\ socket'[old.socket].who = socket[old.socket].who
            /\ socket'[old.socket].late = socket[old.socket].late
        BY <1>5, CheckFields
      <3>4. PICK w \in Guests : w = Who(c) /\ w = Who(c)'
        BY <3>1, <3>2, <3>3 DEF Who, TheirOwn
      <3>5. /\ lately[w] \in Nat /\ lately'[w] \in Nat /\ lately'[w] <= lately[w] + 1
            /\ old.age \in Nat
        BY <1>2, CheckFields
      <3>6. TheirOwn(c)'
        BY <3>1, <3>2, <3>4 DEF TheirOwn
      <3>7. LateJoin(c)'
        BY <3>1, <3>2, <3>3 DEF LateJoin
      <3>8. ReadsAreTrue(c)'
        BY <1>1, <3>1, <3>2, <3>4, <3>5 DEF ReadsAreTrue, rights
      <3>9. Authorized(c)'
        BY <1>4, <3>1, <3>2, <3>4, <3>5 DEF Authorized
      <3>10. QED BY <3>6, <3>7, <3>8, <3>9 DEF CallOK
    <2>3. QED BY <2>1, <2>2
  <1>12. ASSUME NEW c \in Requests
         PROVE  /\ call'[c] \in {Idle} \cup Write0
                /\ call'[c] # Idle => call'[c].pc \in {"write", "create"}
    <2>1. CASE call[c] = Idle
      BY <1>9, <2>1 DEF Handlers
    <2>2. CASE call[c] # Idle
      <3>1. call[c] \in Write0 /\ call[c].age < CallBound /\ call'[c] = Later(call[c])
        BY <1>1, <1>9, <2>2, CallTypes DEF Handlers
      <3>2. QED BY <3>1, WritingOn
    <2>3. QED BY <2>1, <2>2
  <1>13. call' \in [Handlers -> CallState] /\ CallsOK'
    <2>1. call' = [c \in Handlers |-> call'[c]]
      BY <1>1 DEF Tick
    <2>2. \A c \in Calls : call'[c] \in {Idle} \cup Check0
      BY <1>9, <1>10 DEF Handlers
    <2>3. {Idle} \cup Check0 \subseteq CallState /\ {Idle} \cup Write0 \subseteq CallState
      BY DEF CallState, Check0, Write0
    <2>4. \A c \in Handlers : call'[c] \in CallState
      BY <1>12, <2>2, <2>3 DEF Handlers
    <2>5. CallsOK'
      BY <1>11, <1>12 DEF CallsOK, RequestsWrite
    <2>6. QED BY <2>1, <2>4, <2>5
  <1>14. listed' \in Listed
    BY <1>1 DEF TypeOK, Listed
  <1>15. TypeOK'
    BY <1>2, <1>3, <1>6, <1>13, <1>14
       DEF TypeOK, RightsOK, Permissions, Shares, Link, Listed
  <1>16. QED BY <1>7, <1>8, <1>13, <1>15 DEF IInv, EntriesOK

\* The initial states.
LEMMA InitOK ==
  ASSUME Init
  PROVE  IInv
  <1>1. /\ Offline \in Socket /\ Offline.up = FALSE /\ Offline.entry = NoEntry
        /\ \A s \in Sockets : socket[s] = Offline
    BY OtherSocket DEF Init
  <1>2. TTL \in Nat /\ CallBound \in Nat /\ ChangeBound \in Nat /\ Horizon \in Nat
    BY ConstantsAssumption DEF ConstantsAssumption, Horizon
  <1>3. RightsOK
    <2>1. link \in Seq(Link)
      BY DEF Init
    <2>2. QED BY <1>2, <2>1 DEF Init, RightsOK, Permissions, Shares
  <1>4. RoomOK
    <2>1. Idle \in CallState
      BY DEF CallState
    <2>2. QED BY <1>1, <2>1 DEF Init, RoomOK, Listed
  <1>5. lately \in [Guests -> 0..Horizon]
    <2>1. \A u \in Guests : (IF CanEdit(Access(u)) THEN 0 ELSE Horizon) \in 0..Horizon
      BY <1>2
    <2>2. lately = [u \in Guests |-> IF CanEdit(Access(u)) THEN 0 ELSE Horizon]
      BY DEF Init
    <2>3. QED BY <2>1, <2>2
  <1>6. CallsOK
    BY DEF Init, Handlers, CallsOK, CallOK, RequestsWrite
  <1>7. EntriesOK
    BY <1>1 DEF EntriesOK, EntryOK, NoEntry, CanEdit
  <1>8. ListedOK
    BY <1>1 DEF Init, ListedOK, GhostsJoinedLate, ListedUnlessReplaced
  <1>9. QED BY <1>3, <1>4, <1>5, <1>6, <1>7, <1>8, TypeParts DEF IInv

\* A step that changes nothing.
LEMMA StutterStep ==
  ASSUME IInv, UNCHANGED vars
  PROVE  IInv'
  <1>1. TypeOK'
    BY DEF IInv, TypeOK, vars, rights
  <1>2. CallsOK'
    BY DEF IInv, CallsOK, CallOK, RequestsWrite, TheirOwn, LateJoin, ReadsAreTrue, Authorized,
           Who, vars, rights
  <1>3. EntriesOK'
    BY DEF IInv, EntriesOK, EntryOK, vars, rights
  <1>4. ListedOK'
    BY DEF IInv, ListedOK, GhostsJoinedLate, ListedUnlessReplaced, PresenceId, vars, rights
  <1>5. QED BY <1>1, <1>2, <1>3, <1>4 DEF IInv

\* The inductive invariant.
LEMMA Invariance == Spec => []IInv
  <1>1. IInv /\ [Next]_vars => IInv'
    BY ActStep, PassStep, StutterStep DEF Next
  <1>2. QED BY InitOK, <1>1, PTL DEF Spec

-----------------------------------------------------------------------------
(* What holds of the room. *)

\* The tables, connections, entries and handlers have their types, and nothing is
\* counted beyond its bound (drawings.ts, socket.ts).
THEOREM TypeCorrect == Spec => []TypeOK
  BY Invariance, PTL DEF IInv

\* However grants, shares, the place and links change while checks are under way:
\* socket.ts relays an element-update only for a visitor who could edit within TTL
\* before it arrived or since, unless the check was torn by a change between its reads.
THEOREM EditsAreAuthorized == Spec => []RelaysAreAuthorized
  <1>1. IInv => RelaysAreAuthorized
    BY DEF IInv, CallsOK, CallOK, Authorized, Who, RelaysAreAuthorized, Idle
  <1>2. QED BY <1>1, Invariance, PTL

\* In whatever order tabs of the same user connect, join and go: the tab that joined
\* last is the one listed in roomUsers, as the disconnect of socket.ts takes off only
\* entries of the socket that goes.
THEOREM TabsStayListed == Spec => []ListedUnlessReplaced
  <1>1. IInv => ListedUnlessReplaced
    BY DEF IInv, ListedOK
  <1>2. QED BY <1>1, Invariance, PTL

\* Whoever is listed without being connected went away while the join-room handler of
\* socket.ts was waiting for its check or for the name of the user.
THEOREM GhostsAreExplained == Spec => []GhostsJoinedLate
  <1>1. IInv => GhostsJoinedLate
    BY DEF IInv, ListedOK
  <1>2. QED BY <1>1, Invariance, PTL
=============================================================================
