-------------------------- MODULE ApiClientProofs --------------------------
(***************************************************************************)
(* Proofs about ApiClient for any tabs, slots and bounds.                  *)
(***************************************************************************)
EXTENDS ApiClient, TLAPS

\* What is on its way to a tab in answer to a request.
Reply == [status : {"ok", "401", "403", "404"}, refresh : Nat \cup {None}]
Answers == Token \cup {None} \cup Reply

\* A request.
Req ==
  [pc : {"idle", "ready", "sent", "fetch", "mode", "joins", "redirect"},
   kind : Guarded \cup {"read", "me"}, retry : BOOLEAN, csrfRetry : BOOLEAN,
   authModeRetry : BOOLEAN, swapped : BOOLEAN, answer : Answers]

\* The page and the tokens of a tab.
Tab == [page : Pages, csrf : Nat, fetch : Token \cup {None}]

\* What the slot of a request says of it, and how far its answer is typed.
SlotOK(s, r) ==
  /\ r.pc # "idle" => /\ s = "me" => r.kind = "me"
                      /\ s = "refresh" => r.kind = "refresh"
                      /\ s \in Work => r.kind \notin {"me", "refresh"}
  /\ r.pc = "sent" => r.answer \in Reply /\ (r.answer.status # "ok" => r.answer.refresh = None)
  /\ r.pc = "fetch" => r.answer \in Token
  /\ r.pc \in {"mode", "joins", "redirect"} => r.kind \in {"read", "write"}

\* A page waits for nothing but what it loads.
IdleBut(rs, S) == \A s \in Slots \ S : rs[s].pc = "idle"

PageOK(page, rs) ==
  /\ page \in {"status", "error"} => IdleBut(rs, {})
  /\ page \in {"me", "again"} => IdleBut(rs, {"me"})
  /\ page = "refresh" => IdleBut(rs, {"refresh"})
  /\ page \in {"app", "login"} => rs["me"].pc = "idle"

TabOK(t) == PageOK(tab[t].page, req[t]) /\ \A s \in Slots : SlotOK(s, req[t][s])

\* An answer on its way that sets the cookie of the refresh token: to a row that
\* lives while the session is kept, that nobody used and that came only once.
Carries(t, s) == req[t][s].pc = "sent" /\ req[t][s].answer.refresh # None

CarrierOK(t, s) ==
  LET r == req[t][s].answer.refresh
  IN  Carries(t, s) => /\ r \in 0..server.issued
                       /\ history.kept => r \in server.live
                       /\ r # 0 => r # jar.refresh /\ usedBy[r] = None

OneEach ==
  \A t, u \in Tabs, s, r \in Slots :
    /\ Carries(t, s) /\ Carries(u, r)
    /\ req[t][s].answer.refresh = req[u][r].answer.refresh
    => req[t][s].answer.refresh = 0 \/ (t = u /\ s = r)

RowsOK ==
  /\ server.live \subseteq 1..server.issued
  /\ jar.refresh \in 0..server.issued
  /\ Len(usedBy) = server.issued

TokensOK ==
  RowsOK /\ OneEach /\ SessionSurvives /\ \A t \in Tabs, s \in Slots : CarrierOK(t, s)

\* While the browser still holds the token that a tab used, the next is on its way
\* to that tab.
UsedOK ==
  /\ RefreshedOnce
  /\ \A t \in Tabs :
       jar.refresh # 0 /\ usedBy[jar.refresh] = t => Carries(t, "refresh")

\* A CSRF token that will be right when it arrives.
Right(token) == token.sets \/ token.client = jar.client

\* Under way since the cookie was last replaced.
Due(t, s) == req[t][s].pc # "idle" /\ ~req[t][s].swapped

CsrfDue(t, s) ==
  Due(t, s) =>
    /\ tab[t].fetch # None => Right(tab[t].fetch)
    /\ \A r \in Slots : req[t][r].pc = "fetch" => Right(req[t][r].answer)
    /\ req[t][s].csrfRetry =>
         /\ tab[t].csrf \in {0, jar.client}
         /\ req[t][s].pc = "sent" => req[t][s].answer.status # "403"

CsrfOK == WritesPassCsrf /\ \A t \in Tabs, s \in Slots : CsrfDue(t, s)

TabsOK == \A t \in Tabs : TabOK(t)

IInv == TypeOK /\ TabsOK /\ TokensOK /\ UsedOK /\ CsrfOK

-----------------------------------------------------------------------------
(* Requests. *)

\* What happens to a request.
Sending(r, a) == [r EXCEPT !.pc = "sent", !.answer = a]
Asking(r) == [r EXCEPT !.pc = "mode", !.answer = None]
Fetching(r, a) == [r EXCEPT !.csrfRetry = TRUE, !.pc = "fetch", !.answer = a]
Again(r) == [r EXCEPT !.pc = "ready", !.answer = None]
Goes(r, pc) == [r EXCEPT !.pc = pc]
Joining(r) == [r EXCEPT !.pc = "joins", !.retry = TRUE]
Retrying(r) == [r EXCEPT !.pc = "ready", !.authModeRetry = TRUE]
Missed(r) == [r EXCEPT !.swapped = TRUE]
Started(kind, b) == [Idle EXCEPT !.pc = "ready", !.kind = kind, !.swapped = b]

\* The fields of a request.
LEMMA ReqFields ==
  ASSUME NEW r \in Req
  PROVE  /\ r.pc \in {"idle", "ready", "sent", "fetch", "mode", "joins", "redirect"}
         /\ r.kind \in Guarded \cup {"read", "me"} /\ r.csrfRetry \in BOOLEAN
         /\ r.swapped \in BOOLEAN /\ r.answer \in Answers
  BY DEF Req

\* The same request, further on.
Same(r, n, pc) ==
  /\ n \in Req /\ n.pc = pc /\ n.kind = r.kind
  /\ n.csrfRetry = r.csrfRetry /\ n.swapped = r.swapped

LEMMA SentReq ==
  ASSUME NEW r \in Req, NEW a \in Answers
  PROVE  Same(r, Sending(r, a), "sent") /\ Sending(r, a).answer = a
  BY DEF Req, Same, Sending

LEMMA AskingReq ==
  ASSUME NEW r \in Req
  PROVE  Same(r, Asking(r), "mode")
  <1>1. None \in Answers
    BY DEF Answers
  <1>2. QED BY <1>1 DEF Req, Same, Asking

LEMMA FetchingReq ==
  ASSUME NEW r \in Req, NEW a \in Answers
  PROVE  /\ Fetching(r, a) \in Req /\ Fetching(r, a).pc = "fetch"
         /\ Fetching(r, a).kind = r.kind /\ Fetching(r, a).swapped = r.swapped
         /\ Fetching(r, a).answer = a
  BY DEF Req, Fetching

LEMMA AgainReq ==
  ASSUME NEW r \in Req
  PROVE  Same(r, Again(r), "ready")
  <1>1. None \in Answers
    BY DEF Answers
  <1>2. QED BY <1>1 DEF Req, Same, Again

LEMMA GoingReq ==
  ASSUME NEW r \in Req, NEW pc \in {"ready", "redirect"}
  PROVE  Same(r, Goes(r, pc), pc)
  BY DEF Req, Same, Goes

LEMMA JoiningReq ==
  ASSUME NEW r \in Req
  PROVE  Same(r, Joining(r), "joins")
  BY DEF Req, Same, Joining

LEMMA RetryingReq ==
  ASSUME NEW r \in Req
  PROVE  Same(r, Retrying(r), "ready")
  BY DEF Req, Same, Retrying

LEMMA MissedReq ==
  ASSUME NEW r \in Req
  PROVE  /\ Missed(r) \in Req /\ Missed(r).pc = r.pc /\ Missed(r).kind = r.kind
         /\ Missed(r).swapped = TRUE /\ Missed(r).answer = r.answer
  BY DEF Req, Missed

LEMMA IdleReq == Idle \in Req /\ Idle.pc = "idle"
  <1>1. None \in Answers
    BY DEF Answers
  <1>2. QED BY <1>1 DEF Req, Idle

LEMMA StartedReq ==
  ASSUME NEW kind \in Guarded \cup {"read", "me"}, NEW b \in BOOLEAN
  PROVE  /\ Started(kind, b) \in Req /\ Started(kind, b).pc = "ready"
         /\ Started(kind, b).kind = kind /\ Started(kind, b).csrfRetry = FALSE
         /\ Started(kind, b).swapped = b
  <1>1. PICK r \in Req : r = Idle /\ r.csrfRetry = FALSE
    BY IdleReq DEF Idle
  <1>2. LET n == [r EXCEPT !.pc = "ready", !.kind = kind, !.swapped = b]
        IN  n \in Req /\ n.pc = "ready" /\ n.kind = kind /\ n.csrfRetry = FALSE /\ n.swapped = b
    BY <1>1 DEF Req
  <1>3. QED BY <1>1, <1>2 DEF Started

-----------------------------------------------------------------------------
(* The requests of a tab, as they go on. *)

\* A request that is over, or that was not served for good.
Landed(r, n) ==
  /\ n.pc \notin {"sent", "fetch"}
  /\ n.pc # "idle" => /\ r.pc # "idle" /\ n.kind = r.kind
                      /\ n.csrfRetry = r.csrfRetry /\ n.swapped = r.swapped

\* A request that is made.
Fresh(t, n) == n.pc = "ready" /\ ~n.csrfRetry /\ n.swapped = Swapped(t)

Onward(t, rs) ==
  /\ rs \in [Slots -> Req]
  /\ \A s \in Slots :
       /\ SlotOK(s, rs[s])
       /\ \/ rs[s] = req[t][s]
          \/ Landed(req[t][s], rs[s])
          \/ req[t][s].pc = "idle" /\ Fresh(t, rs[s])

\* The types of requests and tabs.
LEMMA TabTypes ==
  ASSUME TypeOK, TabsOK, NEW t \in Tabs
  PROVE  /\ req \in [Tabs -> [Slots -> Req]] /\ tab \in [Tabs -> Tab]
         /\ req[t] \in [Slots -> Req] /\ tab[t] \in Tab /\ TabOK(t)
         /\ Onward(t, req[t])
  <1>1. req \in [Tabs -> [Slots -> Req]] /\ tab \in [Tabs -> Tab]
    BY DEF TypeOK, Req, Tab, Answers, Reply
  <1>2. TabOK(t)
    BY DEF TabsOK
  <1>3. QED BY <1>1, <1>2 DEF TabOK, Onward

\* A request that goes on by itself.
LEMMA SameGoesOn ==
  ASSUME NEW s \in Slots, NEW r \in Req, SlotOK(s, r), r.pc # "idle",
         NEW pc \in {"ready", "mode", "joins", "redirect"}, NEW n, Same(r, n, pc),
         pc # "ready" => r.kind \in {"read", "write"}
  PROVE  Landed(r, n) /\ SlotOK(s, n) /\ n \in Req
  BY DEF Same, SlotOK, Landed

\* A request is over.
LEMMA OnwardIdle ==
  ASSUME NEW t \in Tabs, NEW s \in Slots, NEW rs, Onward(t, rs)
  PROVE  Onward(t, [rs EXCEPT ![s] = Idle])
  <1>1. Idle \in Req /\ SlotOK(s, Idle) /\ Landed(req[t][s], Idle)
    BY IdleReq DEF SlotOK, Landed
  <1>2. QED BY <1>1 DEF Onward

\* A request goes on.
LEMMA OnwardSame ==
  ASSUME NEW t \in Tabs, NEW s \in Slots, NEW rs, Onward(t, rs), rs[s] = req[t][s],
         rs[s].pc # "idle", NEW pc \in {"ready", "mode", "joins", "redirect"},
         NEW n, Same(rs[s], n, pc), pc # "ready" => rs[s].kind \in {"read", "write"}
  PROVE  Onward(t, [rs EXCEPT ![s] = n])
  <1>1. rs[s] \in Req /\ SlotOK(s, rs[s])
    BY DEF Onward
  <1>2. Landed(req[t][s], n) /\ SlotOK(s, n) /\ n \in Req
    BY <1>1, SameGoesOn
  <1>3. QED BY <1>2 DEF Onward

\* What is made in a tab.
LEMMA RequestMade ==
  ASSUME NEW t, NEW kind \in Guarded \cup {"read", "me"}
  PROVE  /\ Request(t, kind) \in Req /\ Fresh(t, Request(t, kind))
         /\ Request(t, kind).kind = kind /\ Request(t, kind).pc = "ready"
  <1>1. PICK b \in BOOLEAN : b = Swapped(t)
    BY DEF Swapped
  <1>2. Request(t, kind) = Started(kind, b)
    BY <1>1 DEF Request, Started
  <1>3. /\ Started(kind, b) \in Req /\ Started(kind, b).pc = "ready"
        /\ Started(kind, b).kind = kind /\ Started(kind, b).csrfRetry = FALSE
        /\ Started(kind, b).swapped = b
    BY StartedReq
  <1>4. ~Started(kind, b).csrfRetry
    BY <1>3
  <1>5. QED BY <1>1, <1>2, <1>3, <1>4, Zenon DEF Fresh

\* A request is made where none was.
LEMMA OnwardRequest ==
  ASSUME NEW t \in Tabs, NEW s \in Slots, NEW rs, Onward(t, rs), req[t][s].pc = "idle",
         NEW kind \in Guarded \cup {"read", "me"},
         /\ s = "me" => kind = "me"
         /\ s = "refresh" => kind = "refresh"
         /\ s \in Work => kind \notin {"me", "refresh"}
  PROVE  Onward(t, [rs EXCEPT ![s] = Request(t, kind)])
  <1>1. PICK n \in Req : /\ n = Request(t, kind) /\ Fresh(t, n) /\ n.kind = kind /\ n.pc = "ready"
    BY RequestMade
  <1>2. SlotOK(s, n)
    BY <1>1 DEF SlotOK
  <1>3. QED BY <1>1, <1>2 DEF Onward

\* Those who joined a refresh go on.
LEMMA OnwardJoined ==
  ASSUME NEW t \in Tabs, NEW rs, Onward(t, rs), NEW all \in {Resumed(rs), TurnedAway(rs)}
  PROVE  /\ Onward(t, all)
         /\ \A s \in Slots : /\ rs[s].pc # "joins" => all[s] = rs[s]
                             /\ all[s].pc = "idle" <=> rs[s].pc = "idle"
  <1>1. PICK pc \in {"ready", "redirect"} :
          all = [s \in Slots |-> IF rs[s].pc = "joins" THEN Goes(rs[s], pc) ELSE rs[s]]
    BY DEF Resumed, TurnedAway, Goes
  <1>2. ASSUME NEW s \in Slots
        PROVE  /\ all[s] \in Req /\ SlotOK(s, all[s])
               /\ \/ all[s] = req[t][s]
                  \/ Landed(req[t][s], all[s])
                  \/ req[t][s].pc = "idle" /\ Fresh(t, all[s])
               /\ rs[s].pc # "joins" => all[s] = rs[s]
               /\ all[s].pc = "idle" <=> rs[s].pc = "idle"
    <2>1. CASE rs[s].pc # "joins"
      <3>1. all[s] = rs[s]
        BY <1>1, <2>1
      <3>2. QED BY <3>1 DEF Onward
    <2>2. CASE rs[s].pc = "joins"
      <3>1. PICK r \in Req : r = rs[s] /\ SlotOK(s, r) /\ r.pc = "joins"
        BY <2>2 DEF Onward
      <3>2. all[s] = Goes(r, pc) /\ Same(r, Goes(r, pc), pc)
        BY <1>1, <2>2, <3>1, GoingReq
      <3>3. r.kind \in {"read", "write"}
        BY <3>1 DEF SlotOK
      <3>4. Landed(r, all[s]) /\ SlotOK(s, all[s]) /\ all[s] \in Req /\ all[s].pc = pc
        BY <3>1, <3>2, <3>3, SameGoesOn DEF Same
      <3>5. r = req[t][s] \/ Landed(req[t][s], r)
        BY <3>1 DEF Onward, Fresh
      <3>6. Landed(req[t][s], all[s])
        BY <3>1, <3>4, <3>5 DEF Landed
      <3>7. QED BY <2>2, <3>4, <3>6
    <2>3. QED BY <2>1, <2>2
  <1>3. all \in [Slots -> Req]
    BY <1>1, <1>2
  <1>4. QED BY <1>2, <1>3 DEF Onward

-----------------------------------------------------------------------------
(* Tabs, as they go on. *)

\* A tab gives up a token or the fetch of one, at most.
Less(x, y) == y \in Tab /\ y.csrf \in {x.csrf, 0} /\ y.fetch \in {x.fetch, None}

Paged(x, page) == [x EXCEPT !.page = page]
Unfetched(x, page) == [x EXCEPT !.fetch = None, !.page = page]
Untokened(x) == [x EXCEPT !.csrf = 0]
Tokened(x, csrf, fetch) == [x EXCEPT !.csrf = csrf, !.fetch = fetch]
Awaiting(x, fetch) == [x EXCEPT !.fetch = fetch]

LEMMA TabFields ==
  ASSUME NEW x \in Tab
  PROVE  /\ x.page \in Pages /\ x.csrf \in Nat /\ x.fetch \in Token \cup {None}
         /\ Less(x, x)
         /\ \A page \in Pages : Less(x, Paged(x, page)) /\ Paged(x, page).page = page
         /\ \A page \in Pages : Less(x, Unfetched(x, page)) /\ Unfetched(x, page).page = page
         /\ Less(x, Untokened(x)) /\ Untokened(x).page = x.page /\ Untokened(x).csrf = 0
         /\ Less(x, [page |-> "status", csrf |-> 0, fetch |-> None])
  BY DEF Tab, Less, Paged, Unfetched, Untokened, Pages

LEMMA TokenTab ==
  ASSUME NEW x \in Tab, NEW fetch \in Token \cup {None}, NEW csrf \in Nat
  PROVE  /\ Tokened(x, csrf, fetch) \in Tab /\ Tokened(x, csrf, fetch).page = x.page
         /\ Tokened(x, csrf, fetch).csrf = csrf /\ Tokened(x, csrf, fetch).fetch = fetch
         /\ Awaiting(x, fetch) \in Tab /\ Awaiting(x, fetch).page = x.page
         /\ Awaiting(x, fetch).csrf = x.csrf /\ Awaiting(x, fetch).fetch = fetch
  BY DEF Tab, Tokened, Awaiting

\* A tab whose requests end, wait or begin; nothing comes to it.
GoesOn(t) ==
  \E rs \in [Slots -> Req], x \in Tab :
    /\ Onward(t, rs) /\ Less(tab[t], x) /\ PageOK(x.page, rs)
    /\ req' = [req EXCEPT ![t] = rs] /\ tab' = [tab EXCEPT ![t] = x]

\* Only the requests in S, and those that wait for a refresh, may change.
Leaves(t, S) ==
  \A s \in Slots \ S : req[t][s].pc \notin {"idle", "joins"} => req'[t][s] = req[t][s]

\* What the state of a tab is for the next steps.
LEMMA GoesOnTypes ==
  ASSUME TypeOK, TabsOK, NEW t \in Tabs, GoesOn(t)
  PROVE  /\ req' \in [Tabs -> [Slots -> Req]] /\ tab' \in [Tabs -> Tab] /\ TabsOK'
         /\ \A u \in Tabs \ {t} : req'[u] = req[u] /\ tab'[u] = tab[u]
         /\ Onward(t, req'[t]) /\ Less(tab[t], tab'[t])
  <1>1. PICK rs \in [Slots -> Req], x \in Tab :
          /\ Onward(t, rs) /\ Less(tab[t], x) /\ PageOK(x.page, rs)
          /\ req' = [req EXCEPT ![t] = rs] /\ tab' = [tab EXCEPT ![t] = x]
    BY DEF GoesOn
  <1>2. req \in [Tabs -> [Slots -> Req]] /\ tab \in [Tabs -> Tab]
    BY TabTypes
  <1>3. /\ req' \in [Tabs -> [Slots -> Req]] /\ tab' \in [Tabs -> Tab]
        /\ \A u \in Tabs \ {t} : req'[u] = req[u] /\ tab'[u] = tab[u]
        /\ req'[t] = rs /\ tab'[t] = x
    BY <1>1, <1>2
  <1>4. ASSUME NEW u \in Tabs PROVE TabOK(u)'
    <2>1. CASE u = t
      <3>1. \A s \in Slots : SlotOK(s, rs[s])
        BY <1>1 DEF Onward
      <3>2. QED BY <1>1, <1>3, <2>1, <3>1 DEF TabOK
    <2>2. CASE u # t
      <3>1. TabOK(u) /\ req'[u] = req[u] /\ tab'[u] = tab[u]
        BY <1>3, <2>2 DEF TabsOK
      <3>2. QED BY <3>1 DEF TabOK
    <2>3. QED BY <2>1, <2>2
  <1>5. QED BY <1>1, <1>3, <1>4 DEF TabsOK

\* A request that gives up.
LEMMA GivesUpGoesOn ==
  ASSUME TypeOK, TabsOK, NEW t \in Tabs, NEW s \in Slots, req[t][s].pc # "idle", GivesUp(t, s)
  PROVE  GoesOn(t) /\ Leaves(t, {s})
  <1>1. /\ req \in [Tabs -> [Slots -> Req]] /\ tab \in [Tabs -> Tab]
        /\ PageOK(tab[t].page, req[t]) /\ SlotOK(s, req[t][s]) /\ tab[t] \in Tab
        /\ "me" \in Slots /\ "refresh" \in Slots
    BY TabTypes DEF TabOK, Slots
  <1>2. PICK rs \in [Slots -> Req] :
          rs = [req[t] EXCEPT ![s] = Idle] /\ Onward(t, rs) /\ rs[s].pc = "idle"
    <2>1. Onward(t, [req[t] EXCEPT ![s] = Idle])
      BY TabTypes, OnwardIdle
    <2>2. [req[t] EXCEPT ![s] = Idle][s].pc = "idle"
      BY <1>1, IdleReq
    <2>3. QED BY <2>1, <2>2 DEF Onward
  <1>3. \A r \in Slots : /\ r # s => rs[r] = req[t][r]
                         /\ req[t][r].pc = "idle" => rs[r].pc = "idle"
    BY <1>1, <1>2
  <1>4. /\ req[t][s].kind = "me" => s = "me"
        /\ req[t][s].kind = "refresh" => s = "refresh"
    BY <1>1 DEF SlotOK, Slots
  <1>5. CASE req[t][s].kind = "refresh"
    <2>1. PICK page \in Pages :
            /\ page = (IF tab[t].page = "refresh" THEN "login" ELSE tab[t].page)
            /\ tab' = [tab EXCEPT ![t] = Paged(tab[t], page)]
      <3>1. tab[t].page \in Pages
        BY <1>1, TabFields
      <3>2. (IF tab[t].page = "refresh" THEN "login" ELSE tab[t].page) \in Pages
        BY <3>1 DEF Pages
      <3>3. tab' = [tab EXCEPT ![t] =
                      Paged(tab[t], IF tab[t].page = "refresh" THEN "login" ELSE tab[t].page)]
        BY <1>5 DEF GivesUp, Paged
      <3>4. QED BY <3>2, <3>3
    <2>2. req' = [req EXCEPT ![t] = TurnedAway(rs)]
      BY <1>2, <1>5 DEF GivesUp
    <2>3. /\ Onward(t, TurnedAway(rs)) /\ TurnedAway(rs) \in [Slots -> Req]
          /\ \A r \in Slots : /\ rs[r].pc # "joins" => TurnedAway(rs)[r] = rs[r]
                              /\ TurnedAway(rs)[r].pc = "idle" <=> rs[r].pc = "idle"
      BY <1>2, OnwardJoined DEF Onward
    <2>4. PageOK(page, TurnedAway(rs))
      <3>1. IdleBut(req[t], {"refresh"}) => TurnedAway(rs)["me"].pc = "idle"
        BY <1>1, <1>3, <2>3 DEF IdleBut
      <3>2. CASE tab[t].page = "refresh"
        BY <1>1, <2>1, <3>1, <3>2 DEF PageOK
      <3>3. CASE tab[t].page # "refresh"
        <4>1. \A r \in Slots : req[t][r].pc = "idle" => TurnedAway(rs)[r].pc = "idle"
          BY <1>3, <2>3
        <4>2. QED BY <1>1, <2>1, <3>3, <4>1 DEF PageOK, IdleBut
      <3>4. QED BY <3>2, <3>3
    <2>5. Leaves(t, {s})
      BY <1>1, <1>3, <2>2, <2>3 DEF Leaves
    <2>6. Paged(tab[t], page) \in Tab /\ Less(tab[t], Paged(tab[t], page))
          /\ Paged(tab[t], page).page = page
      BY <1>1, TabFields DEF Less
    <2>7. QED BY <2>1, <2>2, <2>3, <2>4, <2>5, <2>6 DEF GoesOn
  <1>6. CASE req[t][s].kind = "me" /\ tab[t].page = "me"
    <2>1. s = "me" /\ req[t]["refresh"].pc = "idle" /\ rs["refresh"].pc = "idle"
      BY <1>1, <1>3, <1>4, <1>6 DEF PageOK, IdleBut
    <2>2. PICK qs : qs = [rs EXCEPT !["refresh"] = Request(t, "refresh")]
      OBVIOUS
    <2>3. /\ req' = [req EXCEPT ![t] = qs]
          /\ tab' = [tab EXCEPT ![t] = Paged(tab[t], "refresh")]
      BY <1>2, <1>6, <2>2 DEF GivesUp, Paged
    <2>4. "refresh" \in Guarded \cup {"read", "me"} /\ "refresh" \notin Work
      BY ClientAssumption DEF Guarded, ClientAssumption
    <2>5. Onward(t, qs) /\ qs \in [Slots -> Req]
      <3>1. Onward(t, [rs EXCEPT !["refresh"] = Request(t, "refresh")])
        BY <1>1, <1>2, <2>1, <2>4, OnwardRequest
      <3>2. Onward(t, qs)
        BY <2>2, <3>1
      <3>3. QED BY <3>2 DEF Onward
    <2>6. \A r \in Slots : r # "refresh" => qs[r] = rs[r]
      BY <2>2
    <2>7. PageOK("refresh", qs)
      BY <1>1, <1>2, <1>3, <1>6, <2>1, <2>6 DEF PageOK, IdleBut
    <2>8. Leaves(t, {s})
      BY <1>1, <1>3, <2>1, <2>3, <2>6 DEF Leaves
    <2>9. Paged(tab[t], "refresh") \in Tab /\ Less(tab[t], Paged(tab[t], "refresh"))
          /\ Paged(tab[t], "refresh").page = "refresh"
      BY <1>1, TabFields DEF Less, Pages
    <2>10. QED BY <2>3, <2>5, <2>7, <2>8, <2>9 DEF GoesOn
  <1>7. CASE req[t][s].kind = "me" /\ tab[t].page # "me"
    <2>1. /\ req' = [req EXCEPT ![t] = rs]
          /\ tab' = [tab EXCEPT ![t] = Paged(tab[t], "login")]
      BY <1>2, <1>7 DEF GivesUp, Paged
    <2>2. PageOK("login", rs)
      BY <1>2, <1>4, <1>7 DEF PageOK
    <2>3. Leaves(t, {s})
      BY <1>1, <1>3, <2>1 DEF Leaves
    <2>4. Paged(tab[t], "login") \in Tab /\ Less(tab[t], Paged(tab[t], "login"))
          /\ Paged(tab[t], "login").page = "login"
      BY <1>1, TabFields DEF Less, Pages
    <2>5. QED BY <1>2, <2>1, <2>2, <2>3, <2>4 DEF GoesOn
  <1>8. CASE req[t][s].kind \notin {"me", "refresh"}
    <2>1. req' = [req EXCEPT ![t] = rs] /\ tab' = [tab EXCEPT ![t] = tab[t]]
      BY <1>1, <1>2, <1>8 DEF GivesUp
    <2>2. PageOK(tab[t].page, rs)
      BY <1>1, <1>3 DEF PageOK, IdleBut
    <2>3. Leaves(t, {s})
      BY <1>1, <1>3, <2>1 DEF Leaves
    <2>4. Less(tab[t], tab[t])
      BY <1>1, TabFields
    <2>5. QED BY <1>1, <1>2, <2>1, <2>2, <2>3, <2>4 DEF GoesOn
  <1>9. QED BY <1>5, <1>6, <1>7, <1>8

\* Where requests only end or go on, the page waits for no more than before.
LEMMA StaysOnPage ==
  ASSUME TypeOK, TabsOK, NEW t \in Tabs, NEW rs, Onward(t, rs),
         req' = [req EXCEPT ![t] = rs], UNCHANGED tab,
         \A r \in Slots : req[t][r].pc = "idle" => rs[r].pc = "idle"
  PROVE  GoesOn(t)
  <1>1. tab[t] \in Tab /\ tab \in [Tabs -> Tab] /\ PageOK(tab[t].page, req[t]) /\ "me" \in Slots
    BY TabTypes DEF TabOK, Slots
  <1>2. PageOK(tab[t].page, rs)
    BY <1>1 DEF PageOK, IdleBut
  <1>3. Less(tab[t], tab[t]) /\ tab' = [tab EXCEPT ![t] = tab[t]]
    BY <1>1, TabFields
  <1>4. QED BY <1>1, <1>2, <1>3 DEF GoesOn, Onward

\* Another page is shown.
LEMMA TurnsPage ==
  ASSUME TypeOK, TabsOK, NEW t \in Tabs, NEW rs, Onward(t, rs), NEW page \in Pages,
         req' = [req EXCEPT ![t] = rs], tab' = [tab EXCEPT ![t] = Paged(tab[t], page)],
         PageOK(page, rs)
  PROVE  GoesOn(t)
  <1>1. tab[t] \in Tab
    BY TabTypes
  <1>2. /\ Paged(tab[t], page) \in Tab /\ Less(tab[t], Paged(tab[t], page))
        /\ Paged(tab[t], page).page = page
    BY <1>1, TabFields DEF Less
  <1>3. QED BY <1>2 DEF GoesOn, Onward

\* A request of the page is made only where the application or the login is shown.
LEMMA WorkAtPage ==
  ASSUME TypeOK, TabsOK, NEW t \in Tabs, NEW s \in Slots, req[t][s].pc # "idle",
         s \notin {"me", "refresh"}
  PROVE  tab[t].page \in {"app", "login"} /\ req[t]["me"].pc = "idle"
  <1>1. tab[t].page \in Pages /\ PageOK(tab[t].page, req[t])
    BY TabTypes, TabFields DEF TabOK
  <1>2. QED BY <1>1 DEF PageOK, IdleBut, Pages

\* What the slot says of a request.
LEMMA SlotKinds ==
  ASSUME TypeOK, TabsOK, NEW t \in Tabs, NEW s \in Slots, req[t][s].pc # "idle"
  PROVE  /\ req[t][s] \in Req
         /\ req[t][s].kind = "me" <=> s = "me"
         /\ req[t][s].kind = "refresh" <=> s = "refresh"
  <1>1. req[t][s] \in Req /\ SlotOK(s, req[t][s])
    BY TabTypes DEF TabOK
  <1>2. QED BY <1>1, ClientAssumption DEF SlotOK, Slots, ClientAssumption

\* A request succeeds.
LEMMA SucceedsGoesOn ==
  ASSUME TypeOK, TabsOK, NEW t \in Tabs, NEW s \in Slots, Succeeds(t, s)
  PROVE  GoesOn(t) /\ Leaves(t, {s}) /\ req'[t][s].pc = "idle"
  <1>1. /\ req \in [Tabs -> [Slots -> Req]] /\ tab \in [Tabs -> Tab]
        /\ PageOK(tab[t].page, req[t]) /\ tab[t].page \in Pages
        /\ "me" \in Slots /\ "refresh" \in Slots /\ req[t][s].pc # "idle"
    BY TabTypes, TabFields DEF TabOK, Slots, Succeeds, Sent
  <1>2. PICK rs \in [Slots -> Req] :
          rs = [req[t] EXCEPT ![s] = Idle] /\ Onward(t, rs) /\ rs[s].pc = "idle"
    <2>1. Onward(t, [req[t] EXCEPT ![s] = Idle])
      BY TabTypes, OnwardIdle
    <2>2. [req[t] EXCEPT ![s] = Idle][s].pc = "idle"
      BY <1>1, IdleReq
    <2>3. QED BY <2>1, <2>2 DEF Onward
  <1>3. \A r \in Slots : /\ r # s => rs[r] = req[t][r]
                         /\ req[t][r].pc = "idle" => rs[r].pc = "idle"
    BY <1>1, <1>2
  <1>4. /\ Onward(t, Resumed(rs)) /\ Resumed(rs) \in [Slots -> Req]
        /\ \A r \in Slots : /\ rs[r].pc # "joins" => Resumed(rs)[r] = rs[r]
                            /\ Resumed(rs)[r].pc = "idle" <=> rs[r].pc = "idle"
    BY <1>2, OnwardJoined DEF Onward
  <1>5. CASE req[t][s].kind = "refresh" /\ tab[t].page = "refresh"
    <2>1. s = "refresh" /\ req[t]["me"].pc = "idle" /\ IdleBut(req[t], {"refresh"})
      BY <1>1, <1>5, SlotKinds DEF PageOK, IdleBut
    <2>2. PICK qs : qs = [Resumed(rs) EXCEPT !["me"] = Request(t, "me")]
      OBVIOUS
    <2>3. /\ req' = [req EXCEPT ![t] = qs]
          /\ tab' = [tab EXCEPT ![t] = Paged(tab[t], "again")]
      BY <1>2, <1>5, <2>2 DEF Succeeds, Paged
    <2>4. "me" \in Guarded \cup {"read", "me"} /\ "me" \notin Work
      BY ClientAssumption DEF ClientAssumption
    <2>5. Onward(t, qs)
      <3>1. Onward(t, [Resumed(rs) EXCEPT !["me"] = Request(t, "me")])
        BY <1>1, <1>4, <2>1, <2>4, OnwardRequest
      <3>2. QED BY <2>2, <3>1
    <2>6. \A r \in Slots : r # "me" => qs[r] = Resumed(rs)[r]
      BY <1>4, <2>2
    <2>7. PageOK("again", qs)
      BY <1>2, <1>3, <1>4, <2>1, <2>6 DEF PageOK, IdleBut
    <2>8. Leaves(t, {s})
      BY <1>1, <1>3, <1>4, <2>1, <2>3, <2>5, <2>6 DEF Leaves
    <2>9. GoesOn(t)
      BY <2>3, <2>5, <2>7, TurnsPage DEF Pages
    <2>10. req'[t][s].pc = "idle"
      BY <1>1, <1>2, <1>4, <2>1, <2>3, <2>6
    <2>11. QED BY <2>8, <2>9, <2>10
  <1>6. CASE req[t][s].kind = "refresh" /\ tab[t].page # "refresh"
    <2>1. req' = [req EXCEPT ![t] = Resumed(rs)] /\ UNCHANGED tab
      BY <1>2, <1>6 DEF Succeeds
    <2>2. GoesOn(t)
      BY <1>3, <1>4, <2>1, StaysOnPage
    <2>3. req'[t][s].pc = "idle"
      BY <1>1, <1>2, <1>4, <2>1
    <2>4. QED BY <1>1, <1>3, <1>4, <2>1, <2>2, <2>3 DEF Leaves
  <1>7. CASE req[t][s].kind \in {"me", "login"}
    <2>1. /\ req' = [req EXCEPT ![t] = rs]
          /\ tab' = [tab EXCEPT ![t] = Paged(tab[t], "app")]
      BY <1>2, <1>7 DEF Succeeds, Paged
    <2>2. PageOK("app", rs)
      <3>1. CASE s = "me"
        BY <1>2, <3>1 DEF PageOK
      <3>2. CASE s # "me"
        <4>1. s \notin {"me", "refresh"}
          BY <1>1, <1>7, <3>2, SlotKinds
        <4>2. req[t]["me"].pc = "idle"
          BY <1>1, <4>1, WorkAtPage
        <4>3. QED BY <1>1, <1>3, <4>2 DEF PageOK
      <3>3. QED BY <3>1, <3>2
    <2>3. GoesOn(t)
      BY <1>2, <2>1, <2>2, TurnsPage DEF Pages
    <2>4. QED BY <1>1, <1>2, <1>3, <2>1, <2>3 DEF Leaves
  <1>8. CASE req[t][s].kind \notin {"refresh", "me", "login"}
    <2>1. req' = [req EXCEPT ![t] = rs] /\ UNCHANGED tab
      BY <1>2, <1>8 DEF Succeeds
    <2>2. GoesOn(t)
      BY <1>2, <1>3, <2>1, StaysOnPage
    <2>3. QED BY <1>1, <1>2, <1>3, <2>1, <2>2 DEF Leaves
  <1>9. QED BY <1>5, <1>6, <1>7, <1>8

\* A request is refused, or fails for good.
LEMMA RefusalGoesOn ==
  ASSUME TypeOK, TabsOK, NEW t \in Tabs, NEW s \in Slots,
         \/ Unauthorized(t, s)
         \/ Fails(t, s)
         \/ Forbidden(t, s) /\ req[t][s].csrfRetry
  PROVE  GoesOn(t) /\ Leaves(t, {s})
  <1>1. req[t][s].pc = "sent" /\ req[t][s] \in Req /\ req[t] \in [Slots -> Req]
        /\ req \in [Tabs -> [Slots -> Req]]
    BY TabTypes DEF Unauthorized, Fails, Forbidden, Sent
  <1>2. CASE GivesUp(t, s)
    BY <1>1, <1>2, GivesUpGoesOn
  <1>3. CASE Unauthorized(t, s) /\ req[t][s].kind \in {"read", "write"}
    <2>1. /\ req' = [req EXCEPT ![t] = [req[t] EXCEPT ![s] = Asking(req[t][s])]]
          /\ UNCHANGED tab
      BY <1>3 DEF Unauthorized, Asking
    <2>2. Same(req[t][s], Asking(req[t][s]), "mode")
      BY <1>1, AskingReq
    <2>3. Onward(t, req[t])
      BY TabTypes
    <2>4. Onward(t, [req[t] EXCEPT ![s] = Asking(req[t][s])])
      BY <1>1, <1>3, <2>2, <2>3, OnwardSame
    <2>5. GoesOn(t)
      <3>1. PICK rs : rs = [req[t] EXCEPT ![s] = Asking(req[t][s])]
        OBVIOUS
      <3>2. \A r \in Slots : req[t][r].pc = "idle" => rs[r].pc = "idle"
        BY <1>1, <3>1
      <3>3. req' = [req EXCEPT ![t] = rs] /\ UNCHANGED tab /\ Onward(t, rs)
        BY <2>1, <2>4, <3>1
      <3>4. QED BY <3>2, <3>3, StaysOnPage
    <2>6. QED BY <1>1, <2>1, <2>5 DEF Leaves
  <1>4. QED BY <1>2, <1>3 DEF Unauthorized, Fails, Forbidden

\* It is known whether authentication is on.
LEMMA ModeGoesOn ==
  ASSUME TypeOK, TabsOK, NEW t \in Tabs, NEW s \in Slots, NEW enabled \in BOOLEAN,
         ModeKnown(t, s, enabled)
  PROVE  GoesOn(t) /\ Leaves(t, {s})
  <1>1. /\ req[t][s].pc = "mode" /\ req[t][s] \in Req /\ req[t] \in [Slots -> Req]
        /\ req \in [Tabs -> [Slots -> Req]] /\ SlotOK(s, req[t][s]) /\ Onward(t, req[t])
        /\ "refresh" \in Slots /\ UNCHANGED tab
    BY TabTypes DEF ModeKnown, TabOK, Slots
  <1>2. req[t][s].kind \in {"read", "write"}
    BY <1>1 DEF SlotOK
  <1>3. s \notin {"me", "refresh"}
    BY <1>1, <1>2, SlotKinds
  <1>4. ASSUME NEW rs, Onward(t, rs), req' = [req EXCEPT ![t] = rs],
               \A r \in Slots \ {s} : rs[r] = req[t][r]
        PROVE  GoesOn(t) /\ Leaves(t, {s})
    <2>1. GoesOn(t)
      <3>1. \A r \in Slots : req[t][r].pc = "idle" => rs[r].pc = "idle"
        BY <1>1, <1>4
      <3>2. QED BY <1>1, <1>4, <3>1, StaysOnPage
    <2>2. QED BY <1>1, <1>4, <2>1 DEF Leaves
  <1>5. CASE ~enabled /\ req[t][s].authModeRetry
    <2>1. req' = [req EXCEPT ![t] = [req[t] EXCEPT ![s] = Idle]]
      BY <1>5 DEF ModeKnown, ModeOff
    <2>2. Onward(t, [req[t] EXCEPT ![s] = Idle])
      BY <1>1, OnwardIdle
    <2>3. QED BY <1>1, <1>4, <2>1, <2>2
  <1>6. CASE ~enabled /\ ~req[t][s].authModeRetry
    <2>1. req' = [req EXCEPT ![t] = [req[t] EXCEPT ![s] = Retrying(req[t][s])]]
      BY <1>6 DEF ModeKnown, ModeOff, Retrying
    <2>2. Onward(t, [req[t] EXCEPT ![s] = Retrying(req[t][s])])
      BY <1>1, RetryingReq, OnwardSame
    <2>3. QED BY <1>1, <1>4, <2>1, <2>2
  <1>7. CASE enabled /\ req[t][s].retry
    <2>1. req' = [req EXCEPT ![t] = [req[t] EXCEPT ![s] = Goes(req[t][s], "redirect")]]
      BY <1>7 DEF ModeKnown, Goes
    <2>2. Onward(t, [req[t] EXCEPT ![s] = Goes(req[t][s], "redirect")])
      BY <1>1, <1>2, GoingReq, OnwardSame
    <2>3. QED BY <1>1, <1>4, <2>1, <2>2
  <1>8. CASE enabled /\ ~req[t][s].retry
    <2>1. PICK rs : rs = [req[t] EXCEPT ![s] = Joining(req[t][s])]
      OBVIOUS
    <2>2. Onward(t, rs) /\ \A r \in Slots \ {s} : rs[r] = req[t][r]
      <3>1. Onward(t, [req[t] EXCEPT ![s] = Joining(req[t][s])])
        BY <1>1, <1>2, JoiningReq, OnwardSame
      <3>2. QED BY <1>1, <2>1, <3>1
    <2>3. req' = [req EXCEPT ![t] = IF rs["refresh"].pc = "idle"
                                    THEN [rs EXCEPT !["refresh"] = Request(t, "refresh")] ELSE rs]
      BY <1>8, <2>1 DEF ModeKnown, Joins, Joining
    <2>4. CASE rs["refresh"].pc # "idle"
      BY <1>4, <2>2, <2>3, <2>4
    <2>5. CASE rs["refresh"].pc = "idle"
      <3>1. req[t]["refresh"].pc = "idle"
        BY <1>1, <1>3, <2>2, <2>5
      <3>2. "refresh" \in Guarded \cup {"read", "me"} /\ "refresh" \notin Work
        BY ClientAssumption DEF Guarded, ClientAssumption
      <3>3. PICK qs : qs = [rs EXCEPT !["refresh"] = Request(t, "refresh")]
        OBVIOUS
      <3>4. Onward(t, qs)
        <4>1. Onward(t, [rs EXCEPT !["refresh"] = Request(t, "refresh")])
          BY <1>1, <2>2, <3>1, <3>2, OnwardRequest
        <4>2. QED BY <3>3, <4>1
      <3>5. req' = [req EXCEPT ![t] = qs] /\ \A r \in Slots \ {"refresh"} : qs[r] = rs[r]
        BY <2>2, <2>3, <2>5, <3>3 DEF Onward
      <3>6. tab[t].page \in {"app", "login"} /\ req[t]["me"].pc = "idle" /\ "me" \in Slots
        BY <1>1, <1>3, WorkAtPage DEF Slots
      <3>7. qs["me"].pc = "idle"
        BY <1>3, <2>2, <3>5, <3>6
      <3>8. PageOK(tab[t].page, qs)
        BY <3>6, <3>7 DEF PageOK
      <3>9. tab[t] \in Tab /\ tab \in [Tabs -> Tab] /\ Less(tab[t], tab[t])
        BY TabTypes, TabFields
      <3>10. GoesOn(t)
        BY <1>1, <3>4, <3>5, <3>8, <3>9 DEF GoesOn, Onward
      <3>11. QED BY <1>1, <2>2, <3>1, <3>5, <3>10 DEF Leaves, Onward
    <2>6. QED BY <2>4, <2>5
  <1>9. QED BY <1>5, <1>6, <1>7, <1>8

\* A tab goes to the login page, or finds that it need not.
LEMMA RedirectGoesOn ==
  ASSUME TypeOK, TabsOK, NEW t \in Tabs, NEW s \in Slots, NEW enabled \in BOOLEAN,
         Redirect(t, s, enabled)
  PROVE  GoesOn(t) /\ (~(enabled /\ tab[t].page # "login") => Leaves(t, {s}))
  <1>1. /\ Onward(t, req[t]) /\ req[t] \in [Slots -> Req] /\ tab[t] \in Tab
        /\ Idle \in Req /\ Idle.pc = "idle"
    BY TabTypes, IdleReq
  <1>2. CASE enabled /\ tab[t].page # "login"
    <2>1. PICK rs \in [Slots -> Req] : rs = [r \in Slots |-> Idle] /\ \A r \in Slots : rs[r] = Idle
      <3>1. [r \in Slots |-> Idle] \in [Slots -> Req]
        BY <1>1
      <3>2. QED BY <3>1
    <2>2. PICK x \in Tab : x = [page |-> "status", csrf |-> 0, fetch |-> None]
                           /\ Less(tab[t], x) /\ x.page = "status"
      BY <1>1, TabFields DEF Less
    <2>3. req' = [req EXCEPT ![t] = rs] /\ tab' = [tab EXCEPT ![t] = x]
      BY <1>2, <2>1, <2>2 DEF Redirect
    <2>4. Onward(t, rs)
      BY <1>1, <2>1 DEF Onward, Landed, SlotOK
    <2>5. PageOK(x.page, rs)
      BY <1>1, <2>1, <2>2 DEF PageOK, IdleBut
    <2>6. QED BY <1>2, <2>2, <2>3, <2>4, <2>5 DEF GoesOn
  <1>3. CASE ~(enabled /\ tab[t].page # "login")
    <2>1. PICK rs : rs = [req[t] EXCEPT ![s] = Idle]
      OBVIOUS
    <2>2. req' = [req EXCEPT ![t] = rs] /\ UNCHANGED tab
      BY <1>3, <2>1, TabTypes DEF Redirect
    <2>3. Onward(t, rs)
      <3>1. Onward(t, [req[t] EXCEPT ![s] = Idle])
        BY <1>1, OnwardIdle
      <3>2. QED BY <2>1, <3>1
    <2>4. \A r \in Slots : req[t][r].pc = "idle" => rs[r].pc = "idle"
      BY <1>1, <2>1
    <2>5. GoesOn(t)
      BY <2>2, <2>3, <2>4, StaysOnPage
    <2>6. Leaves(t, {s})
      BY <1>1, <2>1, <2>2, TabTypes DEF Leaves
    <2>7. QED BY <2>5, <2>6
  <1>4. QED BY <1>2, <1>3

\* The page loads.
LEMMA LoadGoesOn ==
  ASSUME TypeOK, TabsOK, NEW t \in Tabs,
         \/ LoadStatus(t)
         \/ \E enabled \in BOOLEAN : StatusFails(t, enabled)
         \/ RetryAuthStatus(t)
  PROVE  GoesOn(t) /\ Leaves(t, {})
  <1>1. /\ Onward(t, req[t]) /\ req[t] \in [Slots -> Req] /\ req \in [Tabs -> [Slots -> Req]]
        /\ PageOK(tab[t].page, req[t]) /\ tab[t].page \in {"status", "error"}
        /\ "me" \in Slots
    BY TabTypes DEF TabOK, Slots, LoadStatus, StatusFails, RetryAuthStatus
  <1>2. \A r \in Slots : req[t][r].pc = "idle"
    BY <1>1 DEF PageOK, IdleBut
  <1>3. Leaves(t, {})
    BY <1>2 DEF Leaves
  <1>4. CASE UNCHANGED req
    <2>1. PICK page \in {"app", "error", "status"} : tab' = [tab EXCEPT ![t] = Paged(tab[t], page)]
      <3>1. CASE LoadStatus(t)
        <4>1. CASE AuthStatus
          <5>1. req'[t]["me"] = Request(t, "me") /\ Request(t, "me").pc = "ready"
            BY <1>1, <3>1, <4>1, RequestMade DEF LoadStatus
          <5>2. QED BY <1>1, <1>2, <1>4, <5>1
        <4>2. CASE ~AuthStatus
          BY <3>1, <4>2 DEF LoadStatus, Paged
        <4>3. QED BY <4>1, <4>2
      <3>2. CASE \E enabled \in BOOLEAN : StatusFails(t, enabled)
        BY <3>2 DEF StatusFails, Paged
      <3>3. CASE RetryAuthStatus(t)
        BY <3>3 DEF RetryAuthStatus, Paged
      <3>4. QED BY <3>1, <3>2, <3>3
    <2>2. PageOK(page, req[t]) /\ page \in Pages
      BY <1>1, <1>2 DEF PageOK, IdleBut, Pages
    <2>3. req' = [req EXCEPT ![t] = req[t]]
      BY <1>1, <1>4
    <2>4. QED BY <1>1, <1>3, <2>1, <2>2, <2>3, TurnsPage
  <1>5. CASE LoadStatus(t) /\ AuthStatus
    <2>1. PICK rs : rs = [req[t] EXCEPT !["me"] = Request(t, "me")]
      OBVIOUS
    <2>2. req' = [req EXCEPT ![t] = rs] /\ tab' = [tab EXCEPT ![t] = Paged(tab[t], "me")]
      BY <1>5, <2>1 DEF LoadStatus, Paged
    <2>3. Onward(t, rs)
      <3>1. "me" \in Guarded \cup {"read", "me"} /\ "me" \notin Work
        BY ClientAssumption DEF ClientAssumption
      <3>2. Onward(t, [req[t] EXCEPT !["me"] = Request(t, "me")])
        BY <1>1, <1>2, <3>1, OnwardRequest
      <3>3. QED BY <2>1, <3>2
    <2>4. PageOK("me", rs) /\ "me" \in Pages
      BY <1>1, <1>2, <2>1 DEF PageOK, IdleBut, Pages
    <2>5. QED BY <1>3, <2>2, <2>3, <2>4, TurnsPage
  <1>6. QED BY <1>4, <1>5 DEF LoadStatus, StatusFails, RetryAuthStatus

\* The user asks for something.
LEMMA BeginGoesOn ==
  ASSUME TypeOK, TabsOK, NEW t \in Tabs,
         (\E kind \in {"read", "write"} : Ask(t, kind)) \/ Login(t) \/ Logout(t)
  PROVE  GoesOn(t) /\ Leaves(t, {})
  <1>1. /\ Onward(t, req[t]) /\ req[t] \in [Slots -> Req] /\ req \in [Tabs -> [Slots -> Req]]
        /\ tab \in [Tabs -> Tab] /\ tab[t] \in Tab /\ PageOK(tab[t].page, req[t])
        /\ tab[t].page \in {"app", "login"} /\ "me" \in Slots
    BY TabTypes DEF TabOK, Slots, Ask, Login, Logout
  <1>2. PICK kind \in {"read", "write", "login", "logout"} : Begin(t, kind)
    BY DEF Ask, Login, Logout
  <1>3. PICK s \in Work : /\ req[t][s].pc = "idle"
                          /\ req' = [req EXCEPT ![t] = [req[t] EXCEPT ![s] = Request(t, kind)]]
    <2>1. (CHOOSE s \in Free(t) : TRUE) \in Free(t)
      BY <1>2 DEF Begin
    <2>2. QED BY <1>2, <2>1 DEF Begin, Free
  <1>4. s \in Slots /\ s \notin {"me", "refresh"}
    BY ClientAssumption DEF Slots, ClientAssumption
  <1>5. PICK rs : rs = [req[t] EXCEPT ![s] = Request(t, kind)]
    OBVIOUS
  <1>6. Onward(t, rs)
    <2>1. kind \in Guarded \cup {"read", "me"} /\ kind \notin {"me", "refresh"}
      BY DEF Guarded
    <2>2. Onward(t, [req[t] EXCEPT ![s] = Request(t, kind)])
      BY <1>1, <1>3, <1>4, <2>1, OnwardRequest
    <2>3. QED BY <1>5, <2>2
  <1>7. PICK page \in {"app", "login"} : tab' = [tab EXCEPT ![t] = Paged(tab[t], page)]
    <2>1. CASE Logout(t)
      BY <2>1 DEF Logout, Paged
    <2>2. CASE UNCHANGED tab
      <3>1. tab[t] = Paged(tab[t], tab[t].page)
        BY <1>1 DEF Paged, Tab
      <3>2. tab' = [tab EXCEPT ![t] = tab[t]]
        BY <1>1, <2>2
      <3>3. QED BY <1>1, <3>1, <3>2
    <2>3. QED BY <2>1, <2>2 DEF Ask, Login, Logout
  <1>8. PageOK(page, rs) /\ page \in Pages
    BY <1>1, <1>4, <1>5 DEF PageOK, Pages
  <1>9. req' = [req EXCEPT ![t] = rs]
    BY <1>3, <1>5
  <1>10. GoesOn(t)
    BY <1>6, <1>7, <1>8, <1>9, TurnsPage
  <1>11. QED BY <1>1, <1>3, <1>4, <1>5, <1>9, <1>10 DEF Leaves

\* A request or the fetch of a token is lost.
LEMMA LostGoesOn ==
  ASSUME TypeOK, TabsOK, NEW t \in Tabs, NEW s \in Slots, Lost(t, s)
  PROVE  GoesOn(t) /\ Leaves(t, {s})
  BY GivesUpGoesOn DEF Lost

LEMMA EnsureFailsGoesOn ==
  ASSUME TypeOK, TabsOK, NEW t \in Tabs, EnsureFails(t)
  PROVE  GoesOn(t) /\ Leaves(t, HeldBack(t))
  <1>1. /\ Onward(t, req[t]) /\ req[t] \in [Slots -> Req] /\ req \in [Tabs -> [Slots -> Req]]
        /\ tab[t] \in Tab /\ tab \in [Tabs -> Tab] /\ PageOK(tab[t].page, req[t])
        /\ tab[t].page \in Pages /\ "me" \in Slots /\ "refresh" \in Slots
        /\ Idle \in Req /\ Idle.pc = "idle"
    BY TabTypes, TabFields, IdleReq DEF TabOK, Slots
  <1>2. PICK rs \in [Slots -> Req] :
          /\ rs = [s \in Slots |-> IF s \in HeldBack(t) THEN Idle ELSE req[t][s]]
          /\ \A s \in Slots : rs[s] = IF s \in HeldBack(t) THEN Idle ELSE req[t][s]
    <2>1. [s \in Slots |-> IF s \in HeldBack(t) THEN Idle ELSE req[t][s]] \in [Slots -> Req]
      BY <1>1
    <2>2. QED BY <2>1
  <1>3. Onward(t, rs)
    BY <1>1, <1>2 DEF Onward, Landed, SlotOK
  <1>4. PICK qs : qs = IF "refresh" \in HeldBack(t) THEN TurnedAway(rs) ELSE rs
    OBVIOUS
  <1>5. /\ Onward(t, qs)
        /\ \A s \in Slots : /\ rs[s].pc # "joins" => qs[s] = rs[s]
                            /\ qs[s].pc = "idle" <=> rs[s].pc = "idle"
    <2>1. CASE "refresh" \in HeldBack(t)
      BY <1>3, <1>4, <2>1, OnwardJoined
    <2>2. CASE "refresh" \notin HeldBack(t)
      BY <1>3, <1>4, <2>2
    <2>3. QED BY <2>1, <2>2
  <1>6. PICK page \in Pages :
          /\ page = (IF tab[t].page = "refresh" /\ "refresh" \in HeldBack(t)
                     THEN "login" ELSE tab[t].page)
          /\ tab' = [tab EXCEPT ![t] = Unfetched(tab[t], page)]
    <2>1. (IF tab[t].page = "refresh" /\ "refresh" \in HeldBack(t)
           THEN "login" ELSE tab[t].page) \in Pages
      BY <1>1 DEF Pages
    <2>2. tab' = [tab EXCEPT ![t] =
                    Unfetched(tab[t], IF tab[t].page = "refresh" /\ "refresh" \in HeldBack(t)
                                      THEN "login" ELSE tab[t].page)]
      BY DEF EnsureFails, Unfetched
    <2>3. QED BY <2>1, <2>2
  <1>7. req' = [req EXCEPT ![t] = qs]
    BY <1>2, <1>4 DEF EnsureFails
  <1>8. \A s \in Slots : req[t][s].pc = "idle" => qs[s].pc = "idle"
    BY <1>1, <1>2, <1>5
  <1>9. PageOK(page, qs)
    <2>1. CASE tab[t].page = "refresh" /\ "refresh" \in HeldBack(t)
      BY <1>1, <1>6, <1>8, <2>1 DEF PageOK, IdleBut
    <2>2. CASE ~(tab[t].page = "refresh" /\ "refresh" \in HeldBack(t))
      BY <1>1, <1>6, <1>8, <2>2 DEF PageOK, IdleBut
    <2>3. QED BY <2>1, <2>2
  <1>10. Unfetched(tab[t], page) \in Tab /\ Less(tab[t], Unfetched(tab[t], page))
         /\ Unfetched(tab[t], page).page = page
    BY <1>1, TabFields DEF Less
  <1>11. GoesOn(t)
    BY <1>5, <1>6, <1>7, <1>9, <1>10 DEF GoesOn, Onward
  <1>12. Leaves(t, HeldBack(t))
    BY <1>1, <1>2, <1>5, <1>7 DEF Leaves, Onward
  <1>13. QED BY <1>11, <1>12

-----------------------------------------------------------------------------
(* The cookies, the server and the history. *)

Jar == [access : BOOLEAN, refresh : Nat, client : Nat]
Server ==
  [enabled : BOOLEAN, modes : SUBSET BOOLEAN, live : SUBSET Nat, issued : Nat, clients : Nat]
History == [kept : BOOLEAN, wasted : BOOLEAN, wronged : BOOLEAN]

StateOK ==
  /\ jar \in Jar /\ server \in Server /\ history \in History
  /\ usage \in [requests : Nat, events : Nat] /\ usedBy \in Seq(Tabs \cup {None})

LEMMA TypeParts ==
  TypeOK <=> StateOK /\ req \in [Tabs -> [Slots -> Req]] /\ tab \in [Tabs -> Tab]
  BY DEF TypeOK, StateOK, Jar, Server, History, Req, Tab, Answers, Reply

\* What happens to them.
SetRefresh(j, r) == [j EXCEPT !.access = r # 0, !.refresh = r]
SetClient(j, c) == [j EXCEPT !.client = c]
Expired(j) == [j EXCEPT !.access = FALSE]
Issued(sv, old) == [sv EXCEPT !.live = (@ \ old) \cup {sv.issued + 1}, !.issued = @ + 1]
Living(sv, live) == [sv EXCEPT !.live = live]
Clients(sv, n) == [sv EXCEPT !.clients = n]
Switched(sv) == [sv EXCEPT !.enabled = ~@, !.modes = BOOLEAN]
Kept(h, b) == [h EXCEPT !.kept = b]
Wasted(h, b) == [h EXCEPT !.wasted = b]
Wronged(h, b) == [h EXCEPT !.wronged = b]

LEMMA JarFields ==
  ASSUME NEW j \in Jar
  PROVE  /\ j.access \in BOOLEAN /\ j.refresh \in Nat /\ j.client \in Nat
         /\ Expired(j) \in Jar /\ Expired(j).refresh = j.refresh /\ Expired(j).client = j.client
         /\ \A n \in Nat :
              /\ SetClient(j, n) \in Jar /\ SetClient(j, n).refresh = j.refresh
              /\ SetClient(j, n).client = n
  BY DEF Jar, Expired, SetClient

LEMMA RefreshedJar ==
  ASSUME NEW j \in Jar, NEW n \in Nat
  PROVE  /\ SetRefresh(j, n) \in Jar /\ SetRefresh(j, n).refresh = n
         /\ SetRefresh(j, n).client = j.client
  <1>1. PICK b \in BOOLEAN : b = (n # 0)
    OBVIOUS
  <1>2. LET k == [j EXCEPT !.access = b, !.refresh = n]
        IN  k \in Jar /\ k.refresh = n /\ k.client = j.client
    BY DEF Jar
  <1>3. QED BY <1>1, <1>2 DEF SetRefresh

LEMMA ServerFields ==
  ASSUME NEW sv \in Server
  PROVE  /\ sv.live \subseteq Nat /\ sv.issued \in Nat /\ sv.clients \in Nat
         /\ sv.enabled \in BOOLEAN /\ sv.modes \in SUBSET BOOLEAN
  BY DEF Server

LEMMA IssuedServer ==
  ASSUME NEW sv \in Server, NEW old
  PROVE  /\ Issued(sv, old) \in Server /\ Issued(sv, old).issued = sv.issued + 1
         /\ Issued(sv, old).live = (sv.live \ old) \cup {sv.issued + 1}
  <1>1. PICK n \in Nat, live \in SUBSET Nat :
          n = sv.issued + 1 /\ live = (sv.live \ old) \cup {sv.issued + 1}
    <2>1. sv.issued + 1 \in Nat /\ (sv.live \ old) \cup {sv.issued + 1} \in SUBSET Nat
      BY ServerFields
    <2>2. QED BY <2>1
  <1>2. LET k == [sv EXCEPT !.live = live, !.issued = n]
        IN  k \in Server /\ k.issued = n /\ k.live = live
    BY DEF Server
  <1>3. Issued(sv, old) = [sv EXCEPT !.live = live, !.issued = n]
    BY <1>1 DEF Issued
  <1>4. QED BY <1>1, <1>2, <1>3

LEMMA OtherServer ==
  ASSUME NEW sv \in Server
  PROVE  /\ \A live \in SUBSET Nat :
              /\ Living(sv, live) \in Server /\ Living(sv, live).live = live
              /\ Living(sv, live).issued = sv.issued
         /\ \A n \in Nat :
              /\ Clients(sv, n) \in Server /\ Clients(sv, n).live = sv.live
              /\ Clients(sv, n).issued = sv.issued /\ Clients(sv, n).clients = n
  BY DEF Server, Living, Clients

LEMMA SwitchedServer ==
  ASSUME NEW sv \in Server
  PROVE  /\ Switched(sv) \in Server /\ Switched(sv).live = sv.live
         /\ Switched(sv).issued = sv.issued
  <1>1. PICK b \in BOOLEAN, all \in SUBSET BOOLEAN : b = ~sv.enabled /\ all = BOOLEAN
    OBVIOUS
  <1>2. LET k == [sv EXCEPT !.enabled = b, !.modes = all]
        IN  k \in Server /\ k.live = sv.live /\ k.issued = sv.issued
    BY DEF Server
  <1>3. Switched(sv) = [sv EXCEPT !.enabled = b, !.modes = all]
    BY <1>1 DEF Switched
  <1>4. QED BY <1>2, <1>3

LEMMA HistoryFields ==
  ASSUME NEW h \in History
  PROVE  /\ h.kept \in BOOLEAN /\ h.wasted \in BOOLEAN /\ h.wronged \in BOOLEAN
         /\ \A b \in BOOLEAN :
              /\ Kept(h, b) \in History /\ Kept(h, b).kept = b
              /\ Kept(h, b).wasted = h.wasted /\ Kept(h, b).wronged = h.wronged
              /\ Wasted(h, b) \in History /\ Wasted(h, b).kept = h.kept
              /\ Wasted(h, b).wasted = b /\ Wasted(h, b).wronged = h.wronged
              /\ Wronged(h, b) \in History /\ Wronged(h, b).kept = h.kept
              /\ Wronged(h, b).wasted = h.wasted /\ Wronged(h, b).wronged = b
  BY DEF History, Kept, Wasted, Wronged

-----------------------------------------------------------------------------
(* The invariants of the tokens, where none is issued. *)

\* No answer with a cookie is added.
Fewer ==
  \A u \in Tabs, s \in Slots :
    Carries(u, s)' => Carries(u, s) /\ req'[u][s].answer = req[u][s].answer

LEMMA TokensStay ==
  ASSUME TypeOK, TokensOK, Fewer, jar'.refresh = jar.refresh,
         server'.live = server.live, server'.issued = server.issued,
         Len(usedBy') = Len(usedBy),
         \A n \in 1..server.issued : usedBy'[n] \in {usedBy[n], None},
         history'.kept =>
           history.kept /\ \A u \in Tabs, s \in Slots : Carries(u, s) => Carries(u, s)'
  PROVE  TokensOK'
  <1>1. RowsOK'
    BY DEF TokensOK, RowsOK
  <1>2. OneEach'
    BY DEF TokensOK, OneEach, Fewer
  <1>3. SessionSurvives'
    <2>1. SUFFICES ASSUME history'.kept
                   PROVE  \/ jar.refresh \in server.live
                          \/ \E t \in Tabs, s \in Slots :
                               req'[t][s].pc = "sent" /\ req'[t][s].answer.refresh \in server.live
      BY DEF SessionSurvives
    <2>2. SessionSurvives /\ history.kept
      BY <2>1 DEF TokensOK
    <2>3. ASSUME NEW t \in Tabs, NEW s \in Slots, req[t][s].pc = "sent",
                 req[t][s].answer.refresh \in server.live
          PROVE  req'[t][s].pc = "sent" /\ req'[t][s].answer.refresh \in server.live
      <3>1. req[t][s].answer.refresh # None
        BY <2>3, ClientAssumption DEF TypeOK, ClientAssumption
      <3>2. Carries(t, s) /\ Carries(t, s)'
        BY <2>1, <2>3, <3>1 DEF Carries
      <3>3. QED BY <2>3, <3>2 DEF Fewer, Carries
    <2>4. QED BY <2>2, <2>3 DEF SessionSurvives
  <1>4. ASSUME NEW t \in Tabs, NEW s \in Slots PROVE CarrierOK(t, s)'
    <2>1. SUFFICES ASSUME Carries(t, s)' PROVE CarrierOK(t, s)'
      BY DEF CarrierOK
    <2>2. Carries(t, s) /\ req'[t][s].answer = req[t][s].answer /\ CarrierOK(t, s)
      BY <2>1 DEF Fewer, TokensOK
    <2>3. PICK r \in 0..server.issued : r = req[t][s].answer.refresh
      BY <2>2 DEF CarrierOK
    <2>4. /\ history.kept => r \in server.live
          /\ r # 0 => r # jar.refresh /\ usedBy[r] = None
      BY <2>2, <2>3 DEF CarrierOK
    <2>5. r # 0 => usedBy'[r] = None
      <3>1. server.issued \in Nat
        BY DEF TypeOK
      <3>2. r # 0 => r \in 1..server.issued
        BY <2>3, <3>1
      <3>3. QED BY <2>4, <3>2
    <2>6. QED BY <2>2, <2>3, <2>4, <2>5 DEF CarrierOK
  <1>5. QED BY <1>1, <1>2, <1>3, <1>4 DEF TokensOK

LEMMA UsedStays ==
  ASSUME UsedOK, jar'.refresh = jar.refresh, history'.wasted = history.wasted,
         \A t \in Tabs :
           jar.refresh # 0 /\ usedBy'[jar.refresh] = t =>
             usedBy[jar.refresh] = t /\ (Carries(t, "refresh") => Carries(t, "refresh")')
  PROVE  UsedOK'
  BY DEF UsedOK, RefreshedOnce

\* A tab that goes on receives nothing.
LEMMA GoesOnFewer ==
  ASSUME TypeOK, TabsOK, NEW t \in Tabs, GoesOn(t)
  PROVE  /\ Fewer
         /\ \A S \in SUBSET Slots :
              Leaves(t, S) =>
                \A u \in Tabs, s \in Slots :
                  Carries(u, s) /\ ~(u = t /\ s \in S) => Carries(u, s)'
  <1>1. /\ \A u \in Tabs \ {t} : req'[u] = req[u]
        /\ Onward(t, req'[t])
    BY GoesOnTypes
  <1>2. Fewer
    BY <1>1 DEF Fewer, Carries, Onward, Landed, Fresh
  <1>3. ASSUME NEW S \in SUBSET Slots, Leaves(t, S), NEW u \in Tabs, NEW s \in Slots,
               Carries(u, s), ~(u = t /\ s \in S)
        PROVE  Carries(u, s)'
    BY <1>1, <1>3 DEF Carries, Leaves
  <1>4. QED BY <1>2, <1>3

\* Nor does its CSRF token become wrong.
LEMMA CalmCsrf ==
  ASSUME TypeOK, TabsOK, CsrfOK, NEW t \in Tabs, GoesOn(t), jar'.client = jar.client,
         history'.wronged = history.wronged
  PROVE  CsrfOK'
  <1>1. /\ \A u \in Tabs \ {t} : req'[u] = req[u] /\ tab'[u] = tab[u]
        /\ Onward(t, req'[t]) /\ Less(tab[t], tab'[t])
    BY GoesOnTypes
  <1>2. \A token : Right(token) <=> Right(token)'
    BY DEF Right
  <1>3. ASSUME NEW u \in Tabs, NEW s \in Slots, u # t PROVE CsrfDue(u, s)'
    <2>1. CsrfDue(u, s) /\ req'[u] = req[u] /\ tab'[u] = tab[u]
      BY <1>1, <1>3 DEF CsrfOK
    <2>2. QED BY <1>2, <2>1 DEF CsrfDue, Due
  <1>4. ASSUME NEW s \in Slots, Due(t, s)'
        PROVE  /\ tab'[t].fetch # None => Right(tab'[t].fetch)
               /\ \A r \in Slots : req'[t][r].pc = "fetch" => Right(req'[t][r].answer)
               /\ req'[t][s].csrfRetry =>
                    /\ tab'[t].csrf \in {0, jar.client}
                    /\ req'[t][s].pc = "sent" => req'[t][s].answer.status # "403"
    <2>1. \A r \in Slots : req'[t][r].pc = "fetch" => req'[t][r] = req[t][r]
      BY <1>1 DEF Onward, Landed, Fresh
    <2>2. CASE Due(t, s)
      <3>1. CsrfDue(t, s)
        BY DEF CsrfOK
      <3>2. req'[t][s] = req[t][s]
            \/ Landed(req[t][s], req'[t][s])
        BY <1>1, <2>2 DEF Onward, Due
      <3>3. req'[t][s].csrfRetry =>
              req[t][s].csrfRetry /\ (req'[t][s].pc = "sent" => req'[t][s] = req[t][s])
        BY <1>4, <3>2 DEF Landed, Due
      <3>4. QED BY <1>1, <2>1, <2>2, <3>1, <3>3 DEF CsrfDue, Less
    <2>3. CASE ~Due(t, s)
      <3>1. Fresh(t, req'[t][s])
        BY <1>1, <1>4, <2>3 DEF Onward, Landed, Due
      <3>2. ~Swapped(t)
        BY <1>4, <3>1 DEF Fresh, Due
      <3>3. tab[t].fetch # None => Right(tab[t].fetch)
        BY <3>2 DEF Swapped, Right
      <3>4. ASSUME NEW r \in Slots, req[t][r].pc = "fetch" PROVE Right(req[t][r].answer)
        <4>1. Due(t, r)
          BY <3>2, <3>4 DEF Swapped, Due
        <4>2. QED BY <3>4, <4>1 DEF CsrfOK, CsrfDue
      <3>5. QED BY <1>1, <2>1, <3>1, <3>3, <3>4 DEF Less, Fresh
    <2>4. QED BY <2>2, <2>3
  <1>5. ASSUME NEW s \in Slots PROVE CsrfDue(t, s)'
    BY <1>2, <1>4 DEF CsrfDue, Right
  <1>6. QED BY <1>3, <1>5 DEF CsrfOK, WritesPassCsrf

\* The state of the requests is as it must be.
RestOK ==
  /\ req \in [Tabs -> [Slots -> Req]] /\ tab \in [Tabs -> Tab]
  /\ TabsOK /\ TokensOK /\ UsedOK /\ CsrfOK

\* Steps that concern one tab and no token.
LEMMA QuietStep ==
  ASSUME TypeOK, TabsOK, TokensOK, UsedOK, CsrfOK, NEW t \in Tabs, GoesOn(t),
         NEW S \in SUBSET Slots, Leaves(t, S), \A s \in S : ~Carries(t, s),
         jar'.refresh = jar.refresh, jar'.client = jar.client, UNCHANGED usedBy,
         server'.live = server.live, server'.issued = server.issued,
         history'.kept = history.kept, history'.wasted = history.wasted,
         history'.wronged = history.wronged
  PROVE  RestOK'
  <1>1. req' \in [Tabs -> [Slots -> Req]] /\ tab' \in [Tabs -> Tab] /\ TabsOK'
    BY GoesOnTypes
  <1>2. Fewer /\ \A u \in Tabs, s \in Slots : Carries(u, s) => Carries(u, s)'
    BY GoesOnFewer
  <1>3. TokensOK'
    BY <1>2, TokensStay
  <1>4. UsedOK'
    <2>1. "refresh" \in Slots
      BY DEF Slots
    <2>2. QED BY <1>2, <2>1, UsedStays
  <1>5. CsrfOK'
    BY CalmCsrf
  <1>6. QED BY <1>1, <1>3, <1>4, <1>5 DEF RestOK

-----------------------------------------------------------------------------
(* One lemma for the steps of each kind. *)

Good == StateOK /\ RestOK

\* A request that is answered well, its cookies with it.
LEMMA SucceedsStep ==
  ASSUME TypeOK, TabsOK, TokensOK, UsedOK, CsrfOK, NEW t \in Tabs, NEW s \in Slots,
         Succeeds(t, s)
  PROVE  Good'
  <1>1. /\ GoesOn(t) /\ Leaves(t, {s}) /\ req'[t][s].pc = "idle"
        /\ UNCHANGED <<server, usage, usedBy, history>>
        /\ req[t][s].pc = "sent" /\ StateOK /\ TabOK(t)
    BY SucceedsGoesOn, TypeParts DEF Succeeds, Sent, TabsOK
  <1>2. /\ jar \in Jar /\ server.issued \in Nat
    BY <1>1, ServerFields DEF StateOK
  <1>3. CASE req[t][s].answer.refresh = None
    <2>1. UNCHANGED jar
      BY <1>3 DEF Succeeds, SetCookies
    <2>2. \A r \in {s} : ~Carries(t, r)
      BY <1>3 DEF Carries
    <2>3. {s} \in SUBSET Slots
      OBVIOUS
    <2>4. RestOK'
      BY <1>1, <2>1, <2>2, <2>3, QuietStep
    <2>5. QED BY <1>1, <2>1, <2>4 DEF Good, StateOK
  <1>4. CASE req[t][s].answer.refresh # None
    <2>1. Carries(t, s) /\ CarrierOK(t, s)
      BY <1>1, <1>4 DEF Carries, TokensOK
    <2>2. PICK n \in 0..server.issued :
            /\ n = req[t][s].answer.refresh
            /\ history.kept => n \in server.live
            /\ n # 0 => usedBy[n] = None
      BY <2>1 DEF CarrierOK
    <2>3. jar' = SetRefresh(jar, n)
      BY <1>4, <2>2 DEF Succeeds, SetCookies, SetRefresh
    <2>4. jar' \in Jar /\ jar'.refresh = n /\ jar'.client = jar.client
      BY <1>2, <2>3, RefreshedJar
    <2>5. Fewer
      BY <1>1, GoesOnFewer
    <2>6. TokensOK'
      <3>1. RowsOK'
        BY <1>1, <2>4 DEF TokensOK, RowsOK
      <3>2. OneEach'
        <4>1. OneEach
          BY DEF TokensOK
        <4>2. QED BY <2>5, <4>1 DEF OneEach, Fewer
      <3>3. SessionSurvives'
        BY <1>1, <2>2, <2>4 DEF SessionSurvives
      <3>4. ASSUME NEW u \in Tabs, NEW r \in Slots, Carries(u, r)'
            PROVE  CarrierOK(u, r)'
        <4>1. /\ Carries(u, r) /\ CarrierOK(u, r) /\ ~(u = t /\ r = s)
              /\ req'[u][r].answer = req[u][r].answer
          BY <1>1, <2>5, <3>4 DEF Fewer, Carries, TokensOK
        <4>2. req[u][r].answer.refresh # 0 => req[u][r].answer.refresh # n
          BY <2>1, <2>2, <4>1 DEF TokensOK, OneEach
        <4>3. QED BY <1>1, <2>4, <4>1, <4>2 DEF CarrierOK
      <3>5. \A u \in Tabs, r \in Slots : CarrierOK(u, r)'
        BY <3>4 DEF CarrierOK
      <3>6. QED BY <3>1, <3>2, <3>3, <3>5 DEF TokensOK
    <2>7. UsedOK'
      BY <1>1, <2>2, <2>4, ClientAssumption DEF UsedOK, RefreshedOnce, ClientAssumption
    <2>8. CsrfOK'
      BY <1>1, <2>4, CalmCsrf
    <2>9. req' \in [Tabs -> [Slots -> Req]] /\ tab' \in [Tabs -> Tab] /\ TabsOK'
      BY <1>1, GoesOnTypes
    <2>10. StateOK'
      BY <1>1, <2>4 DEF StateOK
    <2>11. QED BY <2>6, <2>7, <2>8, <2>9, <2>10 DEF Good, RestOK
  <1>5. QED BY <1>3, <1>4

\* A request that is refused, or fails for good.
LEMMA RefusalStep ==
  ASSUME TypeOK, TabsOK, TokensOK, UsedOK, CsrfOK, NEW t \in Tabs, NEW s \in Slots,
         \/ Unauthorized(t, s)
         \/ Fails(t, s)
         \/ Forbidden(t, s) /\ req[t][s].csrfRetry
  PROVE  Good'
  <1>1. /\ GoesOn(t) /\ Leaves(t, {s}) /\ {s} \in SUBSET Slots
        /\ req[t][s].pc = "sent" /\ StateOK /\ TabOK(t) /\ req[t][s] \in Req
        /\ UNCHANGED <<server, usage, usedBy>>
    BY RefusalGoesOn, TypeParts, TabTypes DEF Unauthorized, Fails, Forbidden, Sent, TabsOK
  <1>2. req[t][s].answer.status # "ok"
    BY DEF Unauthorized, Fails, Forbidden, Sent
  <1>3. req[t][s].answer.refresh = None
    BY <1>1, <1>2 DEF TabOK, SlotOK
  <1>4. \A r \in {s} : ~Carries(t, r)
    BY <1>3 DEF Carries
  <1>5. UNCHANGED jar
    BY <1>3 DEF Unauthorized, Fails, Forbidden, SetCookies
  <1>6. history' = history
    <2>1. CASE Unauthorized(t, s) \/ Fails(t, s)
      BY <2>1 DEF Unauthorized, Fails
    <2>2. CASE Forbidden(t, s) /\ req[t][s].csrfRetry
      <3>1. req[t][s].answer.status = "403"
        BY <2>2 DEF Forbidden, Sent
      <3>2. CsrfDue(t, s)
        BY DEF CsrfOK
      <3>3. req[t][s].swapped = TRUE
        BY <1>1, <2>2, <3>1, <3>2, ReqFields DEF CsrfDue, Due
      <3>4. history.wronged = FALSE /\ history \in History
        BY <1>1, HistoryFields DEF StateOK, CsrfOK, WritesPassCsrf
      <3>5. history' = Wronged(history, history.wronged \/ ~req[t][s].swapped)
        BY <2>2 DEF Forbidden, Wronged
      <3>6. history' = Wronged(history, FALSE)
        BY <3>3, <3>4, <3>5
      <3>7. Wronged(history, FALSE) = history
        BY <3>4 DEF Wronged, History
      <3>8. QED BY <3>6, <3>7
    <2>3. QED BY <2>1, <2>2
  <1>7. RestOK'
    BY <1>1, <1>4, <1>5, <1>6, QuietStep
  <1>8. QED BY <1>1, <1>5, <1>6, <1>7 DEF Good, StateOK

\* What goes on in a tab and in no token.
LEMMA TabStep ==
  ASSUME TypeOK, TabsOK, TokensOK, UsedOK, CsrfOK, NEW t \in Tabs, GoesOn(t),
         NEW S \in SUBSET Slots, Leaves(t, S), \A s \in S : req[t][s].pc # "sent",
         UNCHANGED <<jar, server, usedBy, history>>,
         usage' \in [requests : Nat, events : Nat]
  PROVE  Good'
  <1>1. \A s \in S : ~Carries(t, s)
    BY DEF Carries
  <1>2. RestOK'
    BY <1>1, QuietStep
  <1>3. StateOK
    BY TypeParts
  <1>4. QED BY <1>2, <1>3 DEF Good, StateOK

\* What happens is counted.
LEMMA UsageTypes ==
  ASSUME TypeOK
  PROVE  /\ usage \in [requests : Nat, events : Nat]
         /\ Happens => usage' \in [requests : Nat, events : Nat]
         /\ \A t, kind : Begin(t, kind) => usage' \in [requests : Nat, events : Nat]
  <1>1. usage \in [requests : Nat, events : Nat]
    BY DEF TypeOK
  <1>2. [usage EXCEPT !.requests = @ + 1] \in [requests : Nat, events : Nat]
    BY <1>1
  <1>3. [usage EXCEPT !.events = @ + 1] \in [requests : Nat, events : Nat]
    BY <1>1
  <1>4. ASSUME NEW t, NEW kind, Begin(t, kind)
        PROVE  usage' \in [requests : Nat, events : Nat]
    BY <1>2, <1>4 DEF Begin
  <1>5. QED BY <1>1, <1>3, <1>4, <1>2 DEF Happens

LEMMA OwnStep ==
  ASSUME TypeOK, TabsOK, TokensOK, UsedOK, CsrfOK, NEW t \in Tabs,
         \/ \E s \in Slots, enabled \in BOOLEAN : ModeKnown(t, s, enabled)
         \/ LoadStatus(t) \/ (\E enabled \in BOOLEAN : StatusFails(t, enabled))
         \/ RetryAuthStatus(t) \/ EnsureFails(t)
         \/ (\E kind \in {"read", "write"} : Ask(t, kind)) \/ Logout(t) \/ Login(t)
  PROVE  Good'
  <1>1. usage' \in [requests : Nat, events : Nat]
    BY UsageTypes
       DEF ModeKnown, LoadStatus, StatusFails, RetryAuthStatus, EnsureFails, Ask, Logout, Login
  <1>2. UNCHANGED <<jar, server, usedBy, history>>
    BY DEF ModeKnown, LoadStatus, StatusFails, RetryAuthStatus, EnsureFails, Ask, Logout, Login
  <1>3. ASSUME NEW s \in Slots, NEW enabled \in BOOLEAN, ModeKnown(t, s, enabled) PROVE Good'
    <2>1. \A r \in {s} : req[t][r].pc # "sent"
      BY <1>3 DEF ModeKnown
    <2>2. {s} \in SUBSET Slots
      OBVIOUS
    <2>3. GoesOn(t) /\ Leaves(t, {s})
      BY <1>3, ModeGoesOn
    <2>4. QED BY <1>1, <1>2, <2>1, <2>2, <2>3, TabStep
  <1>4. ASSUME GoesOn(t), Leaves(t, {}) PROVE Good'
    <2>1. {} \in SUBSET Slots /\ \A s \in {} : req[t][s].pc # "sent"
      OBVIOUS
    <2>2. QED BY <1>1, <1>2, <1>4, <2>1, TabStep
  <1>5. CASE EnsureFails(t)
    <2>1. GoesOn(t) /\ Leaves(t, HeldBack(t))
      BY <1>5, EnsureFailsGoesOn
    <2>2. HeldBack(t) \in SUBSET Slots /\ \A s \in HeldBack(t) : req[t][s].pc # "sent"
      BY DEF HeldBack
    <2>3. QED BY <1>1, <1>2, <2>1, <2>2, TabStep
  <1>6. QED BY <1>3, <1>4, <1>5, LoadGoesOn, BeginGoesOn

\* A page is left, or a request lost, with the answers that were under way.
LEMMA LeavingStep ==
  ASSUME TypeOK, TabsOK, TokensOK, UsedOK, CsrfOK, NEW t \in Tabs, GoesOn(t),
         NEW S \in SUBSET Slots, Leaves(t, S),
         UNCHANGED <<jar, server>>, usage' \in [requests : Nat, events : Nat],
         history' = Unstored({req[t][s] : s \in S}), usedBy' = Forgiven(t)
  PROVE  Good'
  <1>1. StateOK
    BY TypeParts
  <1>2. Len(usedBy) = server.issued /\ jar.refresh \in 0..server.issued
        /\ server.issued \in Nat /\ usedBy \in Seq(Tabs \cup {None}) /\ history \in History
    BY <1>1, ServerFields DEF TokensOK, RowsOK, StateOK
  <1>3. /\ usedBy' \in Seq(Tabs \cup {None}) /\ Len(usedBy') = Len(usedBy)
        /\ \A n \in 1..Len(usedBy) :
             usedBy'[n] = IF usedBy[n] = t THEN None ELSE usedBy[n]
    BY <1>2 DEF Forgiven
  <1>4. PICK lost \in BOOLEAN :
          /\ lost = (\E r \in {req[t][s] : s \in S} : r.pc = "sent" /\ r.answer.refresh # None)
          /\ history' = [history EXCEPT !.kept = @ /\ ~lost]
    BY DEF Unstored
  <1>5. PICK kept \in BOOLEAN : kept = (history.kept /\ ~lost) /\ history' = Kept(history, kept)
    BY <1>4 DEF Kept
  <1>6. /\ history' \in History /\ history'.kept = kept /\ history'.wasted = history.wasted
        /\ history'.wronged = history.wronged
    <2>1. /\ Kept(history, kept) \in History /\ Kept(history, kept).kept = kept
          /\ Kept(history, kept).wasted = history.wasted
          /\ Kept(history, kept).wronged = history.wronged
      BY <1>2, HistoryFields
    <2>2. QED BY <1>5, <2>1
  <1>7. Fewer /\ \A u \in Tabs, s \in Slots : Carries(u, s) /\ ~(u = t /\ s \in S) => Carries(u, s)'
    BY GoesOnFewer
  <1>8. ASSUME history'.kept
        PROVE  history.kept /\ \A u \in Tabs, s \in Slots : Carries(u, s) => Carries(u, s)'
    <2>1. history.kept /\ ~lost
      BY <1>5, <1>6, <1>8
    <2>2. \A s \in S : ~Carries(t, s)
      BY <1>4, <2>1 DEF Carries
    <2>3. QED BY <1>7, <2>1, <2>2
  <1>9. \A n \in 1..server.issued : usedBy'[n] \in {usedBy[n], None}
    BY <1>2, <1>3
  <1>10. TokensOK'
    BY <1>3, <1>7, <1>8, <1>9, TokensStay
  <1>11. UsedOK'
    <2>1. ASSUME NEW u \in Tabs, jar.refresh # 0, usedBy'[jar.refresh] = u
          PROVE  usedBy[jar.refresh] = u /\ (Carries(u, "refresh") => Carries(u, "refresh")')
      <3>1. jar.refresh \in 1..Len(usedBy)
        BY <1>2, <2>1
      <3>2. usedBy[jar.refresh] = u /\ u # t
        BY <1>3, <2>1, <3>1, ClientAssumption DEF ClientAssumption
      <3>3. QED BY <1>7, <3>2 DEF Slots
    <2>2. QED BY <1>6, <2>1, UsedStays
  <1>12. CsrfOK'
    BY <1>6, CalmCsrf
  <1>13. req' \in [Tabs -> [Slots -> Req]] /\ tab' \in [Tabs -> Tab] /\ TabsOK'
    BY GoesOnTypes
  <1>14. StateOK'
    BY <1>1, <1>3, <1>6 DEF StateOK
  <1>15. QED BY <1>10, <1>11, <1>12, <1>13, <1>14 DEF Good, RestOK

LEMMA LostStep ==
  ASSUME TypeOK, TabsOK, TokensOK, UsedOK, CsrfOK, NEW t \in Tabs, NEW s \in Slots,
         Lost(t, s)
  PROVE  Good'
  <1>1. GoesOn(t) /\ Leaves(t, {s}) /\ {s} \in SUBSET Slots
    BY LostGoesOn
  <1>2. UNCHANGED <<jar, server>> /\ usage' \in [requests : Nat, events : Nat]
    BY UsageTypes DEF Lost
  <1>3. CASE req[t][s].pc = "sent"
    <2>1. history' = Unstored({req[t][r] : r \in {s}}) /\ usedBy' = Forgiven(t)
      <3>1. {req[t][r] : r \in {s}} = {req[t][s]}
        OBVIOUS
      <3>2. QED BY <1>3, <3>1 DEF Lost
    <2>2. QED BY <1>1, <1>2, <2>1, LeavingStep
  <1>4. CASE req[t][s].pc # "sent"
    <2>1. UNCHANGED <<usedBy, history>> /\ \A r \in {s} : req[t][r].pc # "sent"
      BY <1>4 DEF Lost
    <2>2. QED BY <1>1, <1>2, <2>1, TabStep
  <1>5. QED BY <1>3, <1>4

LEMMA RedirectStep ==
  ASSUME TypeOK, TabsOK, TokensOK, UsedOK, CsrfOK, NEW t \in Tabs, NEW s \in Slots,
         NEW enabled \in BOOLEAN, Redirect(t, s, enabled)
  PROVE  Good'
  <1>1. GoesOn(t) /\ UNCHANGED <<jar, server>> /\ usage' \in [requests : Nat, events : Nat]
    BY RedirectGoesOn, UsageTypes DEF Redirect
  <1>2. CASE enabled /\ tab[t].page # "login"
    <2>1. history' = Unstored({req[t][r] : r \in Slots}) /\ usedBy' = Forgiven(t)
      BY <1>2 DEF Redirect
    <2>2. Leaves(t, Slots) /\ Slots \in SUBSET Slots
      BY DEF Leaves
    <2>3. QED BY <1>1, <2>1, <2>2, LeavingStep
  <1>3. CASE ~(enabled /\ tab[t].page # "login")
    <2>1. UNCHANGED <<usedBy, history>> /\ \A r \in {s} : req[t][r].pc # "sent"
      BY <1>3 DEF Redirect
    <2>2. Leaves(t, {s}) /\ {s} \in SUBSET Slots
      BY <1>3, RedirectGoesOn
    <2>3. QED BY <1>1, <2>1, <2>2, TabStep
  <1>4. QED BY <1>2, <1>3

-----------------------------------------------------------------------------
(* A request is served. *)

LEMMA StatusFacts ==
  ASSUME NEW t, NEW kind \in Guarded \cup {"read", "me"}
  PROVE  /\ Status(t, kind) \in {"ok", "401", "403", "404"}
         /\ Status(t, kind) = "403" => kind \in Guarded /\ ~ValidCsrf(t)
         /\ Status(t, kind) = "ok" /\ kind = "refresh" => jar.refresh \in server.live
  <1>1. Me \in {"ok", "401", "404"}
    BY DEF Me
  <1>2. kind = "me" => kind \notin Guarded \cup AuthRoutes \cup {"refresh"}
    BY DEF Guarded, AuthRoutes
  <1>3. QED BY <1>1, <1>2 DEF Status, CsrfProtection, RequireCsrf, Guarded, AuthRoutes

\* The request leaves and its answer is made.
LEMMA SendAnswers ==
  ASSUME TypeOK, TabsOK, CsrfOK, NEW t \in Tabs, NEW s \in Slots, Send(t, s)
  PROVE  \E a \in Reply :
           /\ req' = [req EXCEPT ![t] = [req[t] EXCEPT ![s] = Sending(req[t][s], a)]]
           /\ a.status = Status(t, req[t][s].kind)
           /\ a.status # "ok" => a.refresh = None
           /\ a.refresh = IF a.status = "ok" /\ req[t][s].kind \in {"refresh", "login"}
                          THEN server.issued + 1
                          ELSE IF a.status = "ok" /\ req[t][s].kind = "logout" THEN 0 ELSE None
  <1> DEFINE kind == req[t][s].kind
             status == Status(t, kind)
             opens == status = "ok" /\ kind \in {"refresh", "login"}
             a == IF opens THEN Answer("ok", server.issued + 1)
                  ELSE IF status = "ok" /\ kind = "logout" THEN Answer("ok", 0)
                  ELSE RefusedAnswer(status)
  <1>1. req' = [req EXCEPT ![t] = [req[t] EXCEPT ![s] = Sending(req[t][s], a)]]
    BY DEF Send, Sending
  <1>2. status \in {"ok", "401", "403", "404"}
    BY TabTypes, ReqFields, StatusFacts
  <1>3. server.issued + 1 \in Nat
    BY DEF TypeOK
  <1> HIDE DEF status, kind
  <1>4. a \in Reply /\ a.status = status
        /\ a.refresh = IF opens THEN server.issued + 1
                       ELSE IF status = "ok" /\ kind = "logout" THEN 0 ELSE None
    BY <1>2, <1>3 DEF Answer, RefusedAnswer, Reply
  <1>5. QED BY <1>1, <1>4 DEF status, kind

\* The requests and their CSRF tokens when one leaves.
LEMMA SendTabs ==
  ASSUME TypeOK, TabsOK, CsrfOK, NEW t \in Tabs, NEW s \in Slots, Send(t, s)
  PROVE  /\ req' \in [Tabs -> [Slots -> Req]] /\ TabsOK'
         /\ history'.wronged = history.wronged => CsrfOK'
         /\ req'[t][s].pc = "sent"
         /\ \A u \in Tabs, r \in Slots : ~(u = t /\ r = s) => req'[u][r] = req[u][r]
  <1>1. /\ req \in [Tabs -> [Slots -> Req]] /\ req[t][s] \in Req /\ SlotOK(s, req[t][s])
        /\ req[t][s].pc = "ready" /\ UNCHANGED <<jar, tab>> /\ req[t] \in [Slots -> Req]
    BY TabTypes DEF Send, TabOK
  <1>2. PICK a \in Reply :
          /\ req' = [req EXCEPT ![t] = [req[t] EXCEPT ![s] = Sending(req[t][s], a)]]
          /\ a.status = Status(t, req[t][s].kind)
          /\ a.status # "ok" => a.refresh = None
    BY SendAnswers
  <1>3. PICK n \in Req : /\ n = Sending(req[t][s], a) /\ n.pc = "sent" /\ n.answer = a
                         /\ n.kind = req[t][s].kind /\ n.csrfRetry = req[t][s].csrfRetry
                         /\ n.swapped = req[t][s].swapped
    BY <1>1, SentReq DEF Same, Answers
  <1>4. /\ req' \in [Tabs -> [Slots -> Req]] /\ req'[t][s] = n
        /\ \A u \in Tabs, r \in Slots : ~(u = t /\ r = s) => req'[u][r] = req[u][r]
    BY <1>1, <1>2, <1>3
  <1>5. SlotOK(s, n)
    BY <1>1, <1>2, <1>3 DEF SlotOK
  <1>6. ASSUME NEW u \in Tabs PROVE TabOK(u)'
    <2>1. TabOK(u) /\ "me" \in Slots
      BY DEF TabsOK, Slots
    <2>2. \A r \in Slots : SlotOK(r, req'[u][r])
      BY <1>4, <1>5, <2>1 DEF TabOK
    <2>3. \A r \in Slots : req[u][r].pc = "idle" => req'[u][r].pc = "idle"
      BY <1>1, <1>4
    <2>4. PageOK(tab[u].page, req'[u])
      BY <2>1, <2>3 DEF TabOK, PageOK, IdleBut
    <2>5. QED BY <1>1, <2>2, <2>4 DEF TabOK
  <1>7. \A token : Right(token) <=> Right(token)'
    BY <1>1 DEF Right
  <1>8. ASSUME NEW u \in Tabs, NEW r \in Slots, Due(u, r)'
        PROVE  /\ tab[u].fetch # None => Right(tab[u].fetch)
               /\ \A q \in Slots : req'[u][q].pc = "fetch" => Right(req'[u][q].answer)
               /\ req'[u][r].csrfRetry =>
                    /\ tab[u].csrf \in {0, jar.client}
                    /\ req'[u][r].pc = "sent" => req'[u][r].answer.status # "403"
    <2>1. Due(u, r) /\ req'[u][r].csrfRetry = req[u][r].csrfRetry
      BY <1>1, <1>3, <1>4, <1>8 DEF Due
    <2>2. CsrfDue(u, r)
      BY DEF CsrfOK
    <2>3. \A q \in Slots : req'[u][q].pc = "fetch" => req'[u][q] = req[u][q]
      BY <1>3, <1>4
    <2>4. ASSUME u = t, r = s, req[t][s].csrfRetry, a.status = "403" PROVE FALSE
      <3>1. req[t][s].kind \in Guarded \cup {"read", "me"}
        BY <1>1, ReqFields
      <3>2. req[t][s].kind \in Guarded /\ ~ValidCsrf(t)
        BY <1>2, <2>4, <3>1, StatusFacts
      <3>3. tab[t].csrf # 0
        BY <3>2 DEF Send
      <3>4. tab[t].csrf \in {0, jar.client}
        BY <2>1, <2>2, <2>4 DEF CsrfDue
      <3>5. QED BY <3>2, <3>3, <3>4 DEF ValidCsrf
    <2>5. CASE u = t /\ r = s
      BY <1>3, <1>4, <2>1, <2>2, <2>3, <2>4, <2>5 DEF CsrfDue
    <2>6. CASE ~(u = t /\ r = s)
      BY <1>4, <2>1, <2>2, <2>3, <2>6 DEF CsrfDue
    <2>7. QED BY <2>5, <2>6
  <1>9. history'.wronged = history.wronged => CsrfOK'
    <2>1. \A u \in Tabs, r \in Slots : CsrfDue(u, r)'
      BY <1>1, <1>7, <1>8 DEF CsrfDue
    <2>2. QED BY <2>1 DEF CsrfOK, WritesPassCsrf
  <1>10. QED BY <1>3, <1>4, <1>6, <1>9 DEF TabsOK

\* A refresh token is issued, in the place of the browser's or beside it.
LEMMA IssueStep ==
  ASSUME TypeOK, TokensOK, UsedOK, NEW t \in Tabs, NEW s \in Slots,
         req[t][s].pc = "ready", req'[t][s].pc = "sent",
         req'[t][s].answer.refresh = server.issued + 1,
         \A u \in Tabs, r \in Slots : ~(u = t /\ r = s) => req'[u][r] = req[u][r],
         NEW old \in SUBSET {jar.refresh}, server' = Issued(server, old),
         NEW used \in Seq(Tabs \cup {None}), Len(used) = Len(usedBy),
         usedBy' = Append(used, None),
         \A n \in 1..server.issued : n # jar.refresh => used[n] = usedBy[n],
         UNCHANGED <<jar, history>>,
         \A u \in Tabs : jar.refresh # 0 /\ used[jar.refresh] = u =>
                           (u = t /\ s = "refresh") \/ usedBy[jar.refresh] = u
  PROVE  TokensOK' /\ UsedOK'
  <1>1. /\ server.issued \in Nat /\ server \in Server /\ server'.issued = server.issued + 1
        /\ server'.live = (server.live \ old) \cup {server.issued + 1}
        /\ Len(usedBy) = server.issued /\ server.live \subseteq 1..server.issued
        /\ jar.refresh \in 0..server.issued
    BY TypeParts, ServerFields, IssuedServer DEF StateOK, TokensOK, RowsOK
  <1>2. /\ Len(usedBy') = server.issued + 1 /\ usedBy'[server.issued + 1] = None
        /\ \A n \in 1..server.issued : usedBy'[n] = used[n]
    BY <1>1
  <1>3. None \notin Nat
    BY ClientAssumption DEF ClientAssumption
  <1>4. ASSUME NEW u \in Tabs, NEW r \in Slots, Carries(u, r)'
        PROVE  \/ u = t /\ r = s
               \/ /\ Carries(u, r) /\ req'[u][r] = req[u][r] /\ ~(u = t /\ r = s)
                  /\ req[u][r].answer.refresh \in 0..server.issued
                  /\ history.kept => req[u][r].answer.refresh \in server.live
                  /\ req[u][r].answer.refresh # 0 =>
                       /\ req[u][r].answer.refresh # jar.refresh
                       /\ usedBy[req[u][r].answer.refresh] = None
    BY <1>4 DEF Carries, TokensOK, CarrierOK
  <1>5. RowsOK'
    <2>1. server'.live \subseteq 1..server'.issued /\ jar.refresh \in 0..server'.issued
      BY <1>1
    <2>2. QED BY <1>1, <1>2, <2>1 DEF RowsOK
  <1>6. OneEach'
    <2>1. ASSUME NEW u \in Tabs, NEW r \in Slots, Carries(u, r)', ~(u = t /\ r = s)
          PROVE  Carries(u, r) /\ req'[u][r] = req[u][r]
                 /\ req'[u][r].answer.refresh # req'[t][s].answer.refresh
      BY <1>1, <1>4, <2>1
    <2>2. QED BY <2>1 DEF TokensOK, OneEach
  <1>7. SessionSurvives'
    BY <1>1 DEF SessionSurvives
  <1>8. ASSUME NEW u \in Tabs, NEW r \in Slots, Carries(u, r)'
        PROVE  LET n == req'[u][r].answer.refresh
               IN  /\ n \in 0..server'.issued
                   /\ history.kept => n \in server'.live
                   /\ n # 0 => n # jar.refresh /\ usedBy'[n] = None
    <2>1. CASE u = t /\ r = s
      BY <1>1, <1>2, <2>1
    <2>2. CASE ~(u = t /\ r = s)
      <3>1. PICK n \in 0..server.issued :
              /\ n = req'[u][r].answer.refresh
              /\ history.kept => n \in server.live
              /\ n # 0 => n # jar.refresh /\ usedBy[n] = None
        BY <1>4, <1>8, <2>2
      <3>2. n # 0 => usedBy'[n] = None
        BY <1>1, <1>2, <3>1
      <3>3. history.kept => n \in server'.live
        <4>1. 0 \notin server.live
          BY <1>1
        <4>2. QED BY <1>1, <3>1, <4>1
      <3>4. n \in 0..server'.issued
        BY <1>1
      <3>5. QED BY <3>1, <3>2, <3>3, <3>4
    <2>3. QED BY <2>1, <2>2
  <1>9. \A u \in Tabs, r \in Slots : CarrierOK(u, r)'
    BY <1>8 DEF CarrierOK
  <1>10. UsedOK'
    <2>1. ASSUME NEW u \in Tabs, jar.refresh # 0, usedBy'[jar.refresh] = u
          PROVE  Carries(u, "refresh")'
      <3>1. usedBy'[jar.refresh] = used[jar.refresh]
        BY <1>1, <1>2, <2>1
      <3>2. CASE u = t /\ s = "refresh"
        BY <1>1, <1>3, <3>2 DEF Carries
      <3>3. CASE usedBy[jar.refresh] = u
        <4>1. Carries(u, "refresh")
          BY <2>1, <3>3 DEF UsedOK
        <4>2. ~(u = t /\ s = "refresh") /\ "refresh" \in Slots
          BY <4>1 DEF Carries, Slots
        <4>3. QED BY <4>1, <4>2 DEF Carries
      <3>4. QED BY <2>1, <3>1, <3>2, <3>3
    <2>2. QED BY <2>1 DEF UsedOK, RefreshedOnce
  <1>11. QED BY <1>5, <1>6, <1>7, <1>9, <1>10 DEF TokensOK

LEMMA SendStep ==
  ASSUME TypeOK, TabsOK, TokensOK, UsedOK, CsrfOK, NEW t \in Tabs, NEW s \in Slots,
         Send(t, s)
  PROVE  Good'
  <1>1. /\ req' \in [Tabs -> [Slots -> Req]] /\ TabsOK' /\ req'[t][s].pc = "sent"
        /\ history'.wronged = history.wronged => CsrfOK'
        /\ \A u \in Tabs, r \in Slots : ~(u = t /\ r = s) => req'[u][r] = req[u][r]
    BY SendTabs
  <1>2. /\ req \in [Tabs -> [Slots -> Req]] /\ tab \in [Tabs -> Tab] /\ req[t][s] \in Req
        /\ req[t] \in [Slots -> Req] /\ StateOK /\ req[t][s].pc = "ready"
        /\ UNCHANGED <<jar, tab, usage>>
    BY TypeParts, TabTypes DEF Send
  <1>3. PICK a \in Reply :
          /\ req' = [req EXCEPT ![t] = [req[t] EXCEPT ![s] = Sending(req[t][s], a)]]
          /\ a.status = Status(t, req[t][s].kind)
          /\ a.refresh = IF a.status = "ok" /\ req[t][s].kind \in {"refresh", "login"}
                         THEN server.issued + 1
                         ELSE IF a.status = "ok" /\ req[t][s].kind = "logout" THEN 0 ELSE None
    BY SendAnswers
  <1>4. req'[t][s].answer = a
    <2>1. Sending(req[t][s], a).answer = a
      BY <1>2, SentReq DEF Answers
    <2>2. QED BY <1>2, <1>3, <2>1
  <1>5. /\ jar \in Jar /\ server \in Server /\ history \in History /\ usedBy \in Seq(Tabs \cup {None})
        /\ Len(usedBy) = server.issued /\ server.issued \in Nat /\ jar.refresh \in 0..server.issued
        /\ server.live \subseteq 1..server.issued
    BY <1>2, ServerFields DEF StateOK, TokensOK, RowsOK
  <1>6. ASSUME server' \in Server, usedBy' \in Seq(Tabs \cup {None}), history' \in History,
               history'.wronged = history.wronged, TokensOK', UsedOK'
        PROVE  Good'
    BY <1>1, <1>2, <1>6 DEF Good, RestOK, StateOK
  <1>7. ~Carries(t, s) /\ \A u \in Tabs, r \in Slots : Carries(u, r) => Carries(u, r)'
    BY <1>1, <1>2 DEF Carries
  <1>8. ASSUME a.refresh = None, UNCHANGED <<server, usedBy>>, history' = history
        PROVE  Good'
    <2>1. Fewer
      BY <1>1, <1>4, <1>8 DEF Fewer, Carries
    <2>2. TokensOK'
      BY <1>2, <1>7, <1>8, <2>1, TokensStay
    <2>3. UsedOK'
      BY <1>2, <1>7, <1>8, UsedStays DEF Slots
    <2>4. QED BY <1>5, <1>6, <1>8, <2>2, <2>3
  <1>9. CASE req[t][s].kind = "refresh"
    <2>1. s = "refresh" /\ ServeRefresh(t, a.status)
      <3>1. SlotOK(s, req[t][s])
        BY TabTypes DEF TabOK
      <3>2. s = "refresh"
        BY <1>2, <1>9, <3>1 DEF SlotOK, Slots
      <3>3. QED BY <1>3, <1>9, <3>2 DEF Send
    <2>2. CASE a.status = "ok"
      <3>1. jar.refresh \in server.live
        BY <1>3, <1>9, <2>2, StatusFacts DEF Guarded
      <3>2. jar.refresh \in 1..Len(usedBy)
        BY <1>5, <3>1
      <3>3. PICK used \in Seq(Tabs \cup {None}) :
              /\ used = [usedBy EXCEPT ![jar.refresh] = t] /\ Len(used) = Len(usedBy)
              /\ used[jar.refresh] = t
              /\ \A n \in 1..server.issued : n # jar.refresh => used[n] = usedBy[n]
        <4>1. [usedBy EXCEPT ![jar.refresh] = t] \in Seq(Tabs \cup {None})
          BY <1>5, <3>2
        <4>2. Len([usedBy EXCEPT ![jar.refresh] = t]) = Len(usedBy)
          BY <1>5, <3>2
        <4>3. DOMAIN usedBy = 1..server.issued /\ jar.refresh \in DOMAIN usedBy
          BY <1>5, <3>2
        <4>4. [usedBy EXCEPT ![jar.refresh] = t][jar.refresh] = t
          BY <4>3
        <4>5. \A n \in 1..server.issued :
                n # jar.refresh => [usedBy EXCEPT ![jar.refresh] = t][n] = usedBy[n]
          BY <4>3
        <4>6. QED BY <4>1, <4>2, <4>4, <4>5
      <3>4. server' = Issued(server, {jar.refresh}) /\ usedBy' = Append(used, None)
            /\ UNCHANGED <<jar, history>>
        BY <1>2, <2>1, <2>2, <3>3 DEF ServeRefresh, Issue, Issued
      <3>5. PICK old \in SUBSET {jar.refresh} :
              server' = Issued(server, old) /\ req'[t][s].answer.refresh = server.issued + 1
        BY <1>3, <1>4, <1>9, <2>2, <3>4
      <3>6. \A u \in Tabs : jar.refresh # 0 /\ used[jar.refresh] = u =>
                              (u = t /\ s = "refresh") \/ usedBy[jar.refresh] = u
        BY <2>1, <3>3
      <3>7. TokensOK' /\ UsedOK'
        <4>1. /\ req[t][s].pc = "ready" /\ req'[t][s].pc = "sent"
              /\ \A u \in Tabs, r \in Slots : ~(u = t /\ r = s) => req'[u][r] = req[u][r]
              /\ used \in Seq(Tabs \cup {None}) /\ Len(used) = Len(usedBy)
              /\ usedBy' = Append(used, None) /\ UNCHANGED <<jar, history>>
              /\ \A n \in 1..server.issued : n # jar.refresh => used[n] = usedBy[n]
          BY <1>1, <1>2, <3>3, <3>4
        <4>2. QED BY <3>5, <3>6, <4>1, IssueStep
      <3>8. server' \in Server
        BY <1>5, <3>4, IssuedServer
      <3>9. usedBy' \in Seq(Tabs \cup {None})
        BY <3>3, <3>4
      <3>10. QED BY <1>5, <1>6, <3>4, <3>7, <3>8, <3>9
    <2>3. CASE a.status # "ok"
      <3>1. a.refresh = None /\ UNCHANGED <<server, usedBy>>
        BY <1>3, <1>9, <2>1, <2>3 DEF ServeRefresh
      <3>2. ~(jar.refresh # 0 /\ usedBy[jar.refresh] = t)
        BY <1>7, <2>1 DEF UsedOK
      <3>3. history' = Wasted(history, FALSE)
        <4>1. history.wasted = FALSE
          BY <1>5, HistoryFields DEF UsedOK, RefreshedOnce
        <4>2. (history.wasted \/ (a.status = "401" /\ jar.refresh # 0 /\ usedBy[jar.refresh] = t))
              = FALSE
          BY <3>2, <4>1
        <4>3. history' = Wasted(history, history.wasted \/ (a.status = "401" /\ jar.refresh # 0
                                                             /\ usedBy[jar.refresh] = t))
          BY <2>1, <2>3 DEF ServeRefresh, Wasted
        <4>4. QED BY <4>2, <4>3
      <3>4. history' = history
        BY <1>5, <3>3 DEF Wasted, History, UsedOK, RefreshedOnce
      <3>5. QED BY <1>8, <3>1, <3>4
    <2>4. QED BY <2>2, <2>3
  <1>10. CASE req[t][s].kind = "login" /\ a.status = "ok"
    <2>1. server' = Issued(server, {}) /\ usedBy' = Append(usedBy, None) /\ UNCHANGED <<jar, history>>
      BY <1>2, <1>3, <1>10 DEF Send, ServeLogin, Issue, Issued
    <2>2. {} \in SUBSET {jar.refresh} /\ req'[t][s].answer.refresh = server.issued + 1
      BY <1>3, <1>4, <1>10
    <2>3. TokensOK' /\ UsedOK'
      BY <1>1, <1>2, <1>5, <2>1, <2>2, IssueStep
    <2>4. server' \in Server
      BY <1>5, <2>1, IssuedServer
    <2>5. usedBy' \in Seq(Tabs \cup {None})
      BY <1>5, <2>1
    <2>6. QED BY <1>5, <1>6, <2>1, <2>3, <2>4, <2>5
  <1>11. CASE req[t][s].kind = "logout" /\ a.status = "ok"
    <2>1. PICK live \in SUBSET Nat : live \subseteq server.live /\ server' = Living(server, live)
      <3>1. server' = Living(server, IF jar.access THEN {} ELSE server.live)
        BY <1>3, <1>11 DEF Send, ServeLogout, Living
      <3>2. (IF jar.access THEN {} ELSE server.live) \in SUBSET Nat
        BY <1>5
      <3>3. QED BY <3>1, <3>2
    <2>2. history' = Kept(history, FALSE) /\ UNCHANGED usedBy
      BY <1>3, <1>11 DEF Send, ServeLogout, Kept
    <2>3. /\ history' \in History /\ history'.kept = FALSE
          /\ history'.wasted = history.wasted /\ history'.wronged = history.wronged
      BY <1>5, <2>2, HistoryFields
    <2>4. server' \in Server /\ server'.live = live /\ server'.issued = server.issued
      BY <1>5, <2>1, OtherServer
    <2>5. a.refresh = 0 /\ jar' = jar
      BY <1>2, <1>3, <1>11
    <2>6. TokensOK'
      <3>1. RowsOK'
        BY <1>5, <2>1, <2>2, <2>4, <2>5 DEF RowsOK
      <3>2. ASSUME NEW u \in Tabs, NEW r \in Slots, Carries(u, r)'
            PROVE  \/ req'[u][r].answer.refresh = 0
                   \/ Carries(u, r) /\ req'[u][r] = req[u][r]
        BY <1>1, <1>4, <2>5, <3>2 DEF Carries
      <3>3. OneEach'
        <4>1. ASSUME NEW u \in Tabs, NEW v \in Tabs, NEW r \in Slots, NEW q \in Slots,
                     Carries(u, r)', Carries(v, q)',
                     req'[u][r].answer.refresh = req'[v][q].answer.refresh,
                     req'[u][r].answer.refresh # 0
              PROVE  u = v /\ r = q
          <5>1. /\ Carries(u, r) /\ req'[u][r] = req[u][r]
                /\ Carries(v, q) /\ req'[v][q] = req[v][q]
            BY <3>2, <4>1
          <5>2. OneEach
            BY DEF TokensOK
          <5>3. QED BY <4>1, <5>1, <5>2 DEF OneEach
        <4>2. \A u, v \in Tabs, r, q \in Slots :
                Carries(u, r)' /\ Carries(v, q)'
                  /\ req'[u][r].answer.refresh = req'[v][q].answer.refresh
                => req'[u][r].answer.refresh = 0 \/ (u = v /\ r = q)
          BY <4>1
        <4>3. QED BY <4>2, Zenon DEF OneEach
      <3>4. SessionSurvives'
        BY <2>3 DEF SessionSurvives
      <3>5. ASSUME NEW u \in Tabs, NEW r \in Slots, Carries(u, r)' PROVE CarrierOK(u, r)'
        <4>1. CASE req'[u][r].answer.refresh = 0
          <5>1. 0 \in 0..server.issued
            BY <1>5
          <5>2. QED BY <2>3, <2>4, <4>1, <5>1 DEF CarrierOK
        <4>2. CASE Carries(u, r) /\ req'[u][r] = req[u][r]
          <5>1. CarrierOK(u, r)
            BY DEF TokensOK
          <5>2. QED BY <2>2, <2>3, <2>4, <2>5, <4>2, <5>1 DEF CarrierOK
        <4>3. QED BY <3>2, <3>5, <4>1, <4>2
      <3>6. \A u \in Tabs, r \in Slots : CarrierOK(u, r)'
        BY <3>5 DEF CarrierOK
      <3>7. QED BY <3>1, <3>3, <3>4, <3>6 DEF TokensOK
    <2>7. UsedOK'
      BY <1>7, <2>2, <2>3, <2>5, UsedStays DEF Slots
    <2>8. QED BY <1>5, <1>6, <2>2, <2>3, <2>4, <2>6, <2>7
  <1>12. CASE /\ req[t][s].kind # "refresh"
              /\ ~(req[t][s].kind \in {"login", "logout"} /\ a.status = "ok")
    <2>1. a.refresh = None
      BY <1>3, <1>12
    <2>2. UNCHANGED <<server, usedBy, history>>
      BY <1>3, <1>12 DEF Send
    <2>3. QED BY <1>8, <2>1, <2>2
  <1>13. QED BY <1>9, <1>10, <1>11, <1>12

-----------------------------------------------------------------------------
(* The tokens against forgery. *)

LEMMA ServedToken ==
  ASSUME TypeOK
  PROVE  /\ TokenServed \in Token /\ Right(TokenServed)
         /\ ServeToken => /\ server' \in Server /\ server'.live = server.live
                          /\ server'.issued = server.issued
  <1>1. jar \in Jar /\ server \in Server /\ jar.client \in Nat /\ server.clients \in Nat
    BY TypeParts, JarFields, ServerFields DEF StateOK
  <1>2. TokenServed \in Token /\ Right(TokenServed)
    BY <1>1 DEF TokenServed, Token, Right
  <1>3. ASSUME ServeToken
        PROVE  /\ server' \in Server /\ server'.live = server.live
               /\ server'.issued = server.issued
    <2>1. PICK n \in Nat : n = IF jar.client = 0 THEN server.clients + 1 ELSE server.clients
      BY <1>1
    <2>2. server' = Clients(server, n)
      BY <1>3, <2>1 DEF ServeToken, Clients
    <2>3. QED BY <1>1, <2>2, OtherServer
  <1>4. QED BY <1>2, <1>3

\* Requests that change without a new answer.
Alike(rs) ==
  \A u \in Tabs, r \in Slots :
    /\ SlotOK(r, req[u][r]) => SlotOK(r, rs[u][r])
    /\ req[u][r].pc = "idle" => rs[u][r].pc = "idle"
    /\ rs[u][r].pc = "sent" /\ rs[u][r].answer.refresh # None =>
         Carries(u, r) /\ rs[u][r].answer = req[u][r].answer
    /\ Carries(u, r) => rs[u][r].pc = "sent" /\ rs[u][r].answer.refresh # None

LEMMA AlikeStep ==
  ASSUME TypeOK, TabsOK, TokensOK, UsedOK,
         req' \in [Tabs -> [Slots -> Req]], tab' \in [Tabs -> Tab], Alike(req'),
         \A u \in Tabs : tab'[u].page = tab[u].page,
         jar' \in Jar, jar'.refresh = jar.refresh,
         server' \in Server, server'.live = server.live, server'.issued = server.issued,
         UNCHANGED <<usage, usedBy, history>>, CsrfOK'
  PROVE  Good'
  <1>1. StateOK
    BY TypeParts
  <1>2. ASSUME NEW u \in Tabs PROVE TabOK(u)'
    <2>1. TabOK(u)
      BY DEF TabsOK
    <2>2. \A r \in Slots : SlotOK(r, req'[u][r])
      BY <2>1 DEF TabOK, Alike
    <2>3. \A r \in Slots : req[u][r].pc = "idle" => req'[u][r].pc = "idle"
      BY DEF Alike
    <2>4. PageOK(tab[u].page, req'[u])
      BY <2>1, <2>3 DEF TabOK, PageOK, IdleBut, Slots
    <2>5. QED BY <2>2, <2>4 DEF TabOK
  <1>3. Fewer /\ \A u \in Tabs, r \in Slots : Carries(u, r) => Carries(u, r)'
    BY DEF Alike, Fewer, Carries
  <1>4. TokensOK'
    BY <1>3, TokensStay
  <1>5. UsedOK'
    <2>1. "refresh" \in Slots
      BY DEF Slots
    <2>2. QED BY <1>3, <2>1, UsedStays
  <1>6. QED BY <1>1, <1>2, <1>4, <1>5 DEF Good, RestOK, StateOK, TabsOK

\* A request is refused for its token and another one is fetched.
LEMMA ForbiddenStep ==
  ASSUME TypeOK, TabsOK, TokensOK, UsedOK, CsrfOK, NEW t \in Tabs, NEW s \in Slots,
         Forbidden(t, s), ~req[t][s].csrfRetry
  PROVE  Good'
  <1>1. /\ req \in [Tabs -> [Slots -> Req]] /\ tab \in [Tabs -> Tab] /\ req[t] \in [Slots -> Req]
        /\ req[t][s] \in Req /\ tab[t] \in Tab /\ SlotOK(s, req[t][s]) /\ StateOK
        /\ req[t][s].pc = "sent" /\ req[t][s].answer.status = "403"
        /\ UNCHANGED <<jar, usage, usedBy, history>>
    BY TabTypes, TypeParts DEF TabOK, Forbidden, Sent
  <1>2. PICK token \in Token : token = TokenServed /\ Right(token)
    BY ServedToken
  <1>3. server' \in Server /\ server'.live = server.live /\ server'.issued = server.issued
    BY ServedToken DEF Forbidden
  <1>4. PICK n \in Req : /\ n = Fetching(req[t][s], token) /\ n.pc = "fetch"
                         /\ n.kind = req[t][s].kind /\ n.swapped = req[t][s].swapped
                         /\ n.answer = token
    BY <1>1, FetchingReq DEF Answers
  <1>5. PICK x \in Tab : /\ x = Untokened(tab[t]) /\ Less(tab[t], x) /\ x.page = tab[t].page
                         /\ x.csrf = 0
    BY <1>1, TabFields DEF Less
  <1>6. /\ req' = [req EXCEPT ![t] = [req[t] EXCEPT ![s] = n]]
        /\ tab' = [tab EXCEPT ![t] = x]
    BY <1>2, <1>4, <1>5 DEF Forbidden, Fetching, Untokened
  <1>7. /\ req' \in [Tabs -> [Slots -> Req]] /\ req'[t][s] = n
        /\ \A u \in Tabs, r \in Slots : ~(u = t /\ r = s) => req'[u][r] = req[u][r]
        /\ tab' \in [Tabs -> Tab] /\ tab'[t] = x /\ \A u \in Tabs \ {t} : tab'[u] = tab[u]
    BY <1>1, <1>6
  <1>8. Alike(req')
    <2>1. SlotOK(s, n)
      BY <1>1, <1>4 DEF SlotOK
    <2>2. ~Carries(t, s)
      BY <1>1 DEF Carries, SlotOK
    <2>3. QED BY <1>1, <1>4, <1>7, <2>1, <2>2 DEF Alike, Carries
  <1>9. CsrfOK'
    <2>1. \A any : Right(any) <=> Right(any)'
      BY <1>1 DEF Right
    <2>2. ASSUME NEW u \in Tabs, NEW r \in Slots, Due(u, r)'
          PROVE  /\ tab'[u].fetch # None => Right(tab'[u].fetch)
                 /\ \A q \in Slots : req'[u][q].pc = "fetch" => Right(req'[u][q].answer)
                 /\ req'[u][r].csrfRetry =>
                      /\ tab'[u].csrf \in {0, jar.client}
                      /\ req'[u][r].pc = "sent" => req'[u][r].answer.status # "403"
      <3>1. Due(u, r)
        BY <1>1, <1>4, <1>7, <2>2 DEF Due
      <3>2. CsrfDue(u, r)
        BY DEF CsrfOK
      <3>3. tab'[u].fetch # None => Right(tab'[u].fetch)
        BY <1>5, <1>7, <3>1, <3>2 DEF CsrfDue, Less
      <3>4. \A q \in Slots : req'[u][q].pc = "fetch" => Right(req'[u][q].answer)
        BY <1>2, <1>4, <1>7, <3>1, <3>2 DEF CsrfDue
      <3>5. CASE u # t
        BY <1>7, <3>1, <3>2, <3>3, <3>4, <3>5 DEF CsrfDue
      <3>6. CASE u = t
        BY <1>4, <1>5, <1>7, <3>1, <3>2, <3>3, <3>4, <3>6 DEF CsrfDue
      <3>7. QED BY <3>5, <3>6
    <2>3. \A u \in Tabs, r \in Slots : CsrfDue(u, r)'
      BY <1>1, <2>1, <2>2 DEF CsrfDue
    <2>4. QED BY <1>1, <2>3 DEF CsrfOK, WritesPassCsrf
  <1>10. \A u \in Tabs : tab'[u].page = tab[u].page
    BY <1>5, <1>7
  <1>11. jar' \in Jar /\ jar'.refresh = jar.refresh
    BY <1>1 DEF StateOK
  <1>12. QED BY <1>1, <1>3, <1>7, <1>8, <1>9, <1>10, <1>11, AlikeStep

\* A tab fetches the token its requests wait for.
LEMMA EnsureStep ==
  ASSUME TypeOK, TabsOK, TokensOK, UsedOK, CsrfOK, NEW t \in Tabs, EnsureCsrfToken(t)
  PROVE  Good'
  <1>1. /\ req \in [Tabs -> [Slots -> Req]] /\ tab \in [Tabs -> Tab] /\ tab[t] \in Tab /\ StateOK
        /\ UNCHANGED <<jar, req, usage, usedBy, history>>
    BY TabTypes, TypeParts DEF EnsureCsrfToken
  <1>2. PICK token \in Token : token = TokenServed /\ Right(token)
    BY ServedToken
  <1>3. server' \in Server /\ server'.live = server.live /\ server'.issued = server.issued
    BY ServedToken DEF EnsureCsrfToken
  <1>4. PICK x \in Tab : /\ x = Awaiting(tab[t], token) /\ x.page = tab[t].page
                         /\ x.csrf = tab[t].csrf /\ x.fetch = token
    BY <1>1, TokenTab
  <1>5. tab' = [tab EXCEPT ![t] = x]
    BY <1>2, <1>4 DEF EnsureCsrfToken, Awaiting
  <1>6. tab' \in [Tabs -> Tab] /\ tab'[t] = x /\ \A u \in Tabs \ {t} : tab'[u] = tab[u]
    BY <1>1, <1>5
  <1>7. Alike(req')
    BY <1>1 DEF Alike, Carries
  <1>8. CsrfOK'
    <2>1. \A any : Right(any) <=> Right(any)'
      BY <1>1 DEF Right
    <2>2. ASSUME NEW u \in Tabs, NEW r \in Slots PROVE CsrfDue(u, r)'
      <3>1. CsrfDue(u, r)
        BY DEF CsrfOK
      <3>2. tab'[u].csrf = tab[u].csrf /\ (tab'[u].fetch = tab[u].fetch \/ Right(tab'[u].fetch))
        BY <1>2, <1>4, <1>6
      <3>3. QED BY <1>1, <2>1, <3>1, <3>2 DEF CsrfDue, Due
    <2>3. QED BY <1>1, <2>2 DEF CsrfOK, WritesPassCsrf
  <1>9. \A u \in Tabs : tab'[u].page = tab[u].page
    BY <1>4, <1>6
  <1>10. jar' \in Jar /\ jar'.refresh = jar.refresh
    BY <1>1 DEF StateOK
  <1>11. QED BY <1>1, <1>3, <1>6, <1>7, <1>8, <1>9, <1>10, AlikeStep

\* A token arrives, for the requests of a tab or for one that is sent again.
LEMMA ArrivesStep ==
  ASSUME TypeOK, TabsOK, TokensOK, UsedOK, CsrfOK, NEW t \in Tabs, NEW token \in Token,
         NEW rs \in [Tabs -> [Slots -> Req]], NEW awaited \in {tab[t].fetch, None},
         TokenArrives(t, token, rs, awaited),
         \A r \in Slots : Due(t, r) => Right(token),
         \A u \in Tabs, r \in Slots :
           \/ rs[u][r] = req[u][r]
           \/ req[u][r].pc = "fetch" /\ Same(req[u][r], rs[u][r], "ready")
  PROVE  Good'
  <1>1. /\ req \in [Tabs -> [Slots -> Req]] /\ tab \in [Tabs -> Tab] /\ tab[t] \in Tab /\ StateOK
        /\ token.client \in Nat /\ token.sets \in BOOLEAN /\ jar \in Jar
        /\ server \in Server /\ UNCHANGED <<server, usage, usedBy, history>>
    BY TabTypes, TypeParts DEF TokenArrives, Token, StateOK
  <1>2. PICK x \in Tab : /\ x = Tokened(tab[t], token.client, awaited)
                         /\ x.page = tab[t].page /\ x.csrf = token.client /\ x.fetch = awaited
    <2>1. awaited \in Token \cup {None}
      BY <1>1, TabFields
    <2>2. tab[t] \in Tab /\ token.client \in Nat
      BY <1>1
    <2>3. PICK y, c, f : y = tab[t] /\ c = token.client /\ f = awaited
      OBVIOUS
    <2>4. y \in Tab /\ c \in Nat /\ f \in Token \cup {None}
      BY ONLY <2>1, <2>2, <2>3
    <2>5. /\ Tokened(y, c, f) \in Tab /\ Tokened(y, c, f).page = y.page
          /\ Tokened(y, c, f).csrf = c /\ Tokened(y, c, f).fetch = f
      BY ONLY <2>4, TokenTab
    <2>6. QED BY ONLY <2>3, <2>5
  <1>3. tab' = [tab EXCEPT ![t] = x]
    BY <1>2 DEF TokenArrives, Tokened
  <1>4. tab' \in [Tabs -> Tab] /\ tab'[t] = x /\ \A u \in Tabs \ {t} : tab'[u] = tab[u]
    BY <1>1, <1>3
  <1>5. Alike(rs)
    BY DEF Alike, Same, SlotOK, Carries
  <1>6. \A u \in Tabs : tab'[u].page = tab[u].page
    BY <1>2, <1>4
  <1>7. CASE token.sets
    <2>1. jar' = SetClient(jar, token.client)
      BY <1>7 DEF TokenArrives, SetClient
    <2>2. jar' \in Jar /\ jar'.refresh = jar.refresh
      BY <1>1, <2>1, JarFields
    <2>3. req' = [u \in Tabs |-> [r \in Slots |-> IF rs[u][r].pc = "idle" THEN rs[u][r]
                                                 ELSE Missed(rs[u][r])]]
      BY <1>7 DEF TokenArrives, ClientReplaced, Missed
    <2>4. ASSUME NEW u \in Tabs, NEW r \in Slots
          PROVE  /\ req'[u][r] \in Req /\ req'[u][r].pc = rs[u][r].pc
                 /\ req'[u][r].kind = rs[u][r].kind /\ req'[u][r].answer = rs[u][r].answer
                 /\ req'[u][r].pc = "idle" \/ req'[u][r].swapped = TRUE
      <3>1. rs[u][r] \in Req
        OBVIOUS
      <3>2. /\ Missed(rs[u][r]) \in Req /\ Missed(rs[u][r]).pc = rs[u][r].pc
            /\ Missed(rs[u][r]).kind = rs[u][r].kind /\ Missed(rs[u][r]).swapped = TRUE
            /\ Missed(rs[u][r]).answer = rs[u][r].answer
        BY <3>1, MissedReq
      <3>3. req'[u][r] = IF rs[u][r].pc = "idle" THEN rs[u][r] ELSE Missed(rs[u][r])
        BY <2>3
      <3>4. QED BY <3>1, <3>2, <3>3
    <2>5. req' \in [Tabs -> [Slots -> Req]]
      BY <2>3, <2>4
    <2>6. Alike(req')
      <3>1. ASSUME NEW u \in Tabs, NEW r \in Slots
            PROVE  /\ SlotOK(r, rs[u][r]) => SlotOK(r, req'[u][r])
                   /\ req'[u][r].pc = rs[u][r].pc /\ req'[u][r].answer = rs[u][r].answer
        <4>1. /\ req'[u][r].pc = rs[u][r].pc /\ req'[u][r].kind = rs[u][r].kind
              /\ req'[u][r].answer = rs[u][r].answer
          BY <2>4
        <4>2. QED BY <4>1 DEF SlotOK
      <3>2. QED BY <1>5, <3>1 DEF Alike
    <2>7. CsrfOK'
      <3>1. \A u \in Tabs, r \in Slots : ~Due(u, r)'
        BY <2>4 DEF Due
      <3>2. \A u \in Tabs, r \in Slots : CsrfDue(u, r)'
        BY <3>1 DEF CsrfDue
      <3>3. QED BY <1>1, <3>2 DEF CsrfOK, WritesPassCsrf
    <2>8. QED BY <1>1, <1>4, <1>6, <2>2, <2>5, <2>6, <2>7, AlikeStep
  <1>8. CASE ~token.sets
    <2>1. UNCHANGED jar /\ req' = rs
      BY <1>8 DEF TokenArrives
    <2>2. \A any : Right(any) <=> Right(any)'
      BY <2>1 DEF Right
    <2>3. ASSUME NEW u \in Tabs, NEW r \in Slots, Due(u, r)'
          PROVE  /\ tab'[u].fetch # None => Right(tab'[u].fetch)
                 /\ \A q \in Slots : req'[u][q].pc = "fetch" => Right(req'[u][q].answer)
                 /\ req'[u][r].csrfRetry =>
                      /\ tab'[u].csrf \in {0, jar.client}
                      /\ req'[u][r].pc = "sent" => req'[u][r].answer.status # "403"
      <3>1. /\ Due(u, r) /\ req'[u][r].csrfRetry = req[u][r].csrfRetry
            /\ req'[u][r].pc = "sent" => req'[u][r] = req[u][r]
        BY <2>1, <2>3 DEF Due, Same
      <3>2. CsrfDue(u, r)
        BY DEF CsrfOK
      <3>3. \A q \in Slots : req'[u][q].pc = "fetch" => req'[u][q] = req[u][q]
        BY <2>1 DEF Same
      <3>4. tab'[u].fetch \in {tab[u].fetch, None}
        BY <1>2, <1>4
      <3>5. tab'[u].csrf = tab[u].csrf \/ tab'[u].csrf = jar.client
        <4>1. CASE u # t
          BY <1>4, <4>1
        <4>2. CASE u = t
          <5>1. token.client = jar.client
            BY <1>8, <3>1, <4>2 DEF Right
          <5>2. QED BY <1>2, <1>4, <4>2, <5>1
        <4>3. QED BY <4>1, <4>2
      <3>6. QED BY <3>1, <3>2, <3>3, <3>4, <3>5 DEF CsrfDue
    <2>4. \A u \in Tabs, r \in Slots : CsrfDue(u, r)'
      BY <2>1, <2>2, <2>3 DEF CsrfDue
    <2>5. CsrfOK'
      BY <1>1, <2>4 DEF CsrfOK, WritesPassCsrf
    <2>6. jar' \in Jar /\ jar'.refresh = jar.refresh
      BY <1>1, <2>1
    <2>7. QED BY <1>1, <1>4, <1>5, <1>6, <2>1, <2>5, <2>6, AlikeStep
  <1>9. QED BY <1>1, <1>7, <1>8

LEMMA EnsuredStep ==
  ASSUME TypeOK, TabsOK, TokensOK, UsedOK, CsrfOK, NEW t \in Tabs, Ensured(t)
  PROVE  Good'
  <1>1. req \in [Tabs -> [Slots -> Req]] /\ tab[t].fetch \in Token
    BY TabTypes, TabFields DEF Ensured
  <1>2. \A r \in Slots : Due(t, r) => Right(tab[t].fetch)
    BY DEF Ensured, CsrfOK, CsrfDue
  <1>3. TokenArrives(t, tab[t].fetch, req, None) /\ None \in {tab[t].fetch, None}
    BY DEF Ensured
  <1>4. QED BY <1>1, <1>2, <1>3, ArrivesStep

LEMMA RefetchedStep ==
  ASSUME TypeOK, TabsOK, TokensOK, UsedOK, CsrfOK, NEW t \in Tabs, NEW s \in Slots,
         Refetched(t, s)
  PROVE  Good'
  <1>1. /\ req \in [Tabs -> [Slots -> Req]] /\ req[t] \in [Slots -> Req] /\ req[t][s] \in Req
        /\ req[t][s].pc = "fetch" /\ SlotOK(s, req[t][s])
    BY TabTypes DEF Refetched, TabOK
  <1>2. PICK token \in Token : token = req[t][s].answer
    BY <1>1 DEF SlotOK
  <1>3. \A r \in Slots : Due(t, r) => Right(token)
    BY <1>1, <1>2 DEF CsrfOK, CsrfDue
  <1>4. PICK n \in Req : n = Again(req[t][s]) /\ Same(req[t][s], n, "ready")
    BY <1>1, AgainReq DEF Same
  <1>5. PICK rs \in [Tabs -> [Slots -> Req]] :
          /\ rs = [req EXCEPT ![t] = [req[t] EXCEPT ![s] = n]] /\ rs[t][s] = n
          /\ \A u \in Tabs, r \in Slots : ~(u = t /\ r = s) => rs[u][r] = req[u][r]
    <2>1. [req EXCEPT ![t] = [req[t] EXCEPT ![s] = n]] \in [Tabs -> [Slots -> Req]]
      BY <1>1
    <2>2. QED BY <1>1, <2>1
  <1>6. TokenArrives(t, token, rs, tab[t].fetch)
    <2>1. rs = [req EXCEPT ![t][s] = [@ EXCEPT !.pc = "ready", !.answer = None]]
      BY <1>4, <1>5 DEF Again
    <2>2. QED BY <1>2, <2>1 DEF Refetched
  <1>7. \A u \in Tabs, r \in Slots :
           \/ rs[u][r] = req[u][r]
           \/ req[u][r].pc = "fetch" /\ Same(req[u][r], rs[u][r], "ready")
    BY <1>1, <1>4, <1>5
  <1>8. QED BY <1>3, <1>6, <1>7, ArrivesStep

-----------------------------------------------------------------------------
(* Time and other browsers. *)

LEMMA OutsideStep ==
  ASSUME TypeOK, TabsOK, TokensOK, UsedOK, CsrfOK, Expire \/ ModeChanges
  PROVE  Good'
  <1>1. /\ req \in [Tabs -> [Slots -> Req]] /\ tab \in [Tabs -> Tab] /\ StateOK
        /\ UNCHANGED <<tab, req, usedBy, history>>
    BY TypeParts DEF Expire, ModeChanges
  <1>2. usage' \in [requests : Nat, events : Nat]
    BY UsageTypes DEF Expire, ModeChanges
  <1>3. jar' \in Jar /\ jar'.refresh = jar.refresh /\ jar'.client = jar.client
    <2>1. CASE Expire
      <3>1. jar' = Expired(jar)
        BY <2>1 DEF Expire, Expired
      <3>2. QED BY <1>1, <3>1, JarFields DEF StateOK
    <2>2. CASE ModeChanges
      BY <1>1, <2>2 DEF ModeChanges, StateOK
    <2>3. QED BY <2>1, <2>2
  <1>4. server' \in Server /\ server'.live = server.live /\ server'.issued = server.issued
    <2>1. CASE Expire
      BY <1>1, <2>1 DEF Expire, StateOK
    <2>2. CASE ModeChanges
      <3>1. server' = Switched(server)
        BY <2>2 DEF ModeChanges, Switched
      <3>2. QED BY <1>1, <3>1, SwitchedServer DEF StateOK
    <2>3. QED BY <2>1, <2>2
  <1>5. Fewer /\ \A u \in Tabs, r \in Slots : Carries(u, r) => Carries(u, r)'
    BY <1>1 DEF Fewer, Carries
  <1>6. TokensOK'
    BY <1>1, <1>3, <1>4, <1>5, TokensStay
  <1>7. UsedOK'
    BY <1>1, <1>3, <1>5, UsedStays DEF Slots
  <1>8. TabsOK'
    BY <1>1 DEF TabsOK, TabOK
  <1>9. CsrfOK'
    <2>1. \A any : Right(any) <=> Right(any)'
      BY <1>3 DEF Right
    <2>2. QED BY <1>1, <1>3, <2>1 DEF CsrfOK, CsrfDue, Due, WritesPassCsrf
  <1>10. QED BY <1>1, <1>2, <1>3, <1>4, <1>6, <1>7, <1>8, <1>9 DEF Good, RestOK, StateOK

-----------------------------------------------------------------------------
(* The specification. *)

LEMMA Initially == Init => IInv
  <1>1. SUFFICES ASSUME Init PROVE IInv
    OBVIOUS
  <1>2. PICK client \in {0, 1}, modes \in {{TRUE}, BOOLEAN} :
          /\ jar = [access |-> FALSE, refresh |-> 1, client |-> client]
          /\ server = [enabled |-> TRUE, modes |-> modes, live |-> {1}, issued |-> 1,
                       clients |-> 1]
          /\ usage = [requests |-> 0,
                      events |-> IF client = 0 \/ FALSE \in modes THEN 1 ELSE 0]
    BY <1>1 DEF Init
  <1>3. /\ usedBy = <<None>> /\ history = [kept |-> TRUE, wasted |-> FALSE, wronged |-> FALSE]
        /\ usedBy \in Seq(Tabs \cup {None}) /\ Len(usedBy) = 1 /\ usedBy[1] = None
    BY <1>1 DEF Init
  <1>4. StateOK
    <2>1. jar \in Jar
      BY <1>2 DEF Jar
    <2>2. server \in Server
      <3>1. modes \in SUBSET BOOLEAN
        OBVIOUS
      <3>2. QED BY <1>2, <3>1 DEF Server
    <2>3. usage \in [requests : Nat, events : Nat]
      <3>1. (IF client = 0 \/ FALSE \in modes THEN 1 ELSE 0) \in Nat
        OBVIOUS
      <3>2. QED BY <1>2, <3>1
    <2>4. history \in History
      BY <1>3 DEF History
    <2>5. QED BY <1>3, <2>1, <2>2, <2>3, <2>4 DEF StateOK
  <1>5. /\ req \in [Tabs -> [Slots -> Req]]
        /\ \A t \in Tabs, s \in Slots : req[t][s] = Idle /\ req[t][s].pc = "idle"
    BY <1>1, IdleReq DEF Init
  <1>6. tab \in [Tabs -> Tab] /\ \A t \in Tabs : tab[t].fetch = None
    <2>1. tab = [t \in Tabs |-> [page |-> IF t \in Old THEN "app" ELSE "status",
                                 csrf |-> IF t \in Old THEN 1 ELSE 0, fetch |-> None]]
      BY <1>1 DEF Init
    <2>2. \A t \in Tabs : /\ (IF t \in Old THEN "app" ELSE "status") \in Pages
                          /\ (IF t \in Old THEN 1 ELSE 0) \in Nat
      BY DEF Pages
    <2>3. \A page \in Pages, csrf \in Nat : [page |-> page, csrf |-> csrf, fetch |-> None] \in Tab
      BY DEF Tab
    <2>4. QED BY <2>1, <2>2, <2>3
  <1>7. TabsOK
    <2>1. \A t \in Tabs, s \in Slots : SlotOK(s, req[t][s])
      BY <1>5 DEF SlotOK
    <2>2. ASSUME NEW t \in Tabs PROVE PageOK(tab[t].page, req[t])
      BY <1>5 DEF PageOK, IdleBut, Slots
    <2>3. QED BY <2>1, <2>2 DEF TabsOK, TabOK
  <1>8. \A t \in Tabs, s \in Slots : ~Carries(t, s) /\ ~Due(t, s)
    BY <1>5 DEF Carries, Due
  <1>9. TokensOK
    <2>1. RowsOK
      BY <1>2, <1>3 DEF RowsOK
    <2>2. SessionSurvives
      BY <1>2 DEF SessionSurvives
    <2>3. QED BY <1>8, <2>1, <2>2 DEF TokensOK, OneEach, CarrierOK
  <1>10. UsedOK
    <2>1. jar.refresh = 1 /\ \A t \in Tabs : usedBy[1] # t
      BY <1>2, <1>3, ClientAssumption DEF ClientAssumption
    <2>2. RefreshedOnce
      BY <1>3 DEF RefreshedOnce
    <2>3. QED BY <2>1, <2>2 DEF UsedOK
  <1>11. CsrfOK
    BY <1>3, <1>8 DEF CsrfOK, CsrfDue, WritesPassCsrf
  <1>12. QED BY <1>4, <1>5, <1>6, <1>7, <1>9, <1>10, <1>11, TypeParts DEF IInv

\* Every step keeps the invariant.
LEMMA Step == IInv /\ [Next]_vars => IInv'
  <1>1. SUFFICES ASSUME TypeOK, TabsOK, TokensOK, UsedOK, CsrfOK, [Next]_vars PROVE Good'
    <2>1. Good' => IInv'
      BY TypeParts DEF Good, RestOK, IInv, TypeOK, StateOK, Jar, Server, History, Req, Tab,
                       Answers, Reply
    <2>2. QED BY <2>1 DEF IInv
  <1>2. ASSUME NEW t \in Tabs, Progress(t) PROVE Good'
    <2>1. CASE LoadStatus(t)
      BY <1>1, <2>1, OwnStep
    <2>2. CASE EnsureCsrfToken(t)
      BY <1>1, <2>2, EnsureStep
    <2>3. CASE Ensured(t)
      BY <1>1, <2>3, EnsuredStep
    <2>4. ASSUME NEW s \in Slots, Send(t, s) PROVE Good'
      BY <1>1, <2>4, SendStep
    <2>5. ASSUME NEW s \in Slots, Succeeds(t, s) PROVE Good'
      BY <1>1, <2>5, SucceedsStep
    <2>6. ASSUME NEW s \in Slots, Unauthorized(t, s) \/ Fails(t, s) PROVE Good'
      BY <1>1, <2>6, RefusalStep
    <2>7. ASSUME NEW s \in Slots, Forbidden(t, s) PROVE Good'
      BY <1>1, <2>7, RefusalStep, ForbiddenStep
    <2>8. ASSUME NEW s \in Slots, Refetched(t, s) PROVE Good'
      BY <1>1, <2>8, RefetchedStep
    <2>9. ASSUME NEW s \in Slots, NEW enabled \in BOOLEAN, ModeKnown(t, s, enabled) PROVE Good'
      BY <1>1, <2>9, OwnStep
    <2>10. ASSUME NEW s \in Slots, NEW enabled \in BOOLEAN, Redirect(t, s, enabled) PROVE Good'
      BY <1>1, <2>10, RedirectStep
    <2>11. QED BY <1>2, <2>1, <2>2, <2>3, <2>4, <2>5, <2>6, <2>7, <2>8, <2>9, <2>10 DEF Progress
  <1>3. ASSUME NEW t \in Tabs,
               \/ \E enabled \in BOOLEAN : StatusFails(t, enabled)
               \/ RetryAuthStatus(t) \/ EnsureFails(t)
               \/ (\E kind \in {"read", "write"} : Ask(t, kind)) \/ Logout(t) \/ Login(t)
        PROVE  Good'
    BY <1>1, <1>3, OwnStep
  <1>4. ASSUME NEW t \in Tabs, NEW s \in Slots, Lost(t, s) PROVE Good'
    BY <1>1, <1>4, LostStep
  <1>5. CASE Expire \/ ModeChanges
    BY <1>1, <1>5, OutsideStep
  <1>6. CASE UNCHANGED vars
    <2>1. StateOK'
      BY <1>1, <1>6, TypeParts DEF StateOK, vars
    <2>2. RestOK'
      BY <1>1, <1>6, TypeParts DEF vars, RestOK, TabsOK, TabOK, TokensOK, RowsOK, OneEach,
           SessionSurvives, CarrierOK, Carries, UsedOK, RefreshedOnce, CsrfOK, WritesPassCsrf,
           CsrfDue, Due, Right
    <2>3. QED BY <2>1, <2>2 DEF Good
  <1>7. QED BY <1>1, <1>2, <1>3, <1>4, <1>5, <1>6 DEF Next

LEMMA Invariance == Spec => []IInv
  BY Initially, Step, PTL DEF Spec

\* The tabs, cookies, requests and tokens keep their types.
THEOREM TypeCorrect == Spec => []TypeOK
  <1>1. IInv => TypeOK
    BY DEF IInv
  <1>2. QED BY <1>1, Invariance, PTL

\* However many tabs of a browser refresh at once, and in whatever order the
\* answers of POST /auth/refresh come, the browser is left with a refresh token
\* that lives, unless somebody signs out or an answer is lost: the interceptor of
\* api/index.ts and the rotation of auth/coreRoutes.ts do not end the session.
THEOREM TabsKeepTheSession == Spec => []SessionSurvives
  <1>1. IInv => SessionSurvives
    BY DEF IInv, TokensOK
  <1>2. QED BY <1>1, Invariance, PTL

\* The requests of one tab that find the session expired share one refresh
\* (refreshAccessToken): the tab never turns in a token it already used.
THEOREM TokensAreUsedOnce == Spec => []RefreshedOnce
  <1>1. IInv => RefreshedOnce
    BY DEF IInv, UsedOK
  <1>2. QED BY <1>1, Invariance, PTL

\* The second try of a write carries a token that the server accepts
\* (ensureCsrfToken, fetchCsrfToken and csrfProtectionMiddleware), unless the
\* CSRF cookie was replaced meanwhile.
THEOREM WritesAreLetThrough == Spec => []WritesPassCsrf
  <1>1. IInv => WritesPassCsrf
    BY DEF IInv, CsrfOK
  <1>2. QED BY <1>1, Invariance, PTL
=============================================================================
