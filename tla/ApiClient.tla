----------------------------- MODULE ApiClient -----------------------------
(***************************************************************************)
(* The client under every page: the tabs of one browser share its cookies  *)
(* (a short-lived access token, a refresh token that each refresh replaces *)
(* and the cookie the CSRF tokens are bound to), while each tab has its    *)
(* own CSRF token, its own refresh under way and its own requests, which   *)
(* interceptors hold back, repeat and give up on.                          *)
(*                                                                         *)
(* A request is served with the cookies it leaves with; its answer, and    *)
(* the cookies it sets, come later or never. One account with a password;  *)
(* left out are single sign-on, share links, where nothing is refreshed,   *)
(* passwords that must be reset and servers without rotation.              *)
(***************************************************************************)
EXTENDS Naturals, Sequences

CONSTANTS
  Tabs,          \* the tabs of the browser
  Old,           \* those that show the application from the start
  Work,          \* what a tab can ask for at once
  None,          \* no answer, no value cached, no cookie set
  RequestBound,  \* requests the users make
  EventBound     \* what expires, is lost, or is switched by an administrator

ASSUME ClientAssumption ==
  /\ Old \subseteq Tabs
  /\ Work \cap {"me", "refresh"} = {}
  /\ None \notin Nat \cup Tabs
  /\ RequestBound \in Nat /\ EventBound \in Nat

VARIABLES
  jar,      \* the browser's cookies
  server,   \* whether authentication is and was on, and the tokens
  tab,      \* a tab's page, its CSRF token, and the fetch of one
  req,      \* a tab's requests
  usage,    \* how often each bounded thing happened
  usedBy,   \* history: the tab that turned each refresh token in
  history   \* history: what the properties speak of

vars == <<jar, server, tab, req, usage, usedBy, history>>

-----------------------------------------------------------------------------
(* A token is the number of the cookie it was made for, or of the row that *)
(* holds it; 0 is no token.                                                *)

Slots == Work \cup {"me", "refresh"}
Guarded == {"write", "refresh", "login", "logout"}  \* methods that need a CSRF token
AuthRoutes == {"refresh", "login", "logout"}

Answer(status, refresh) == [status |-> status, refresh |-> refresh]

\* pc: held until the CSRF token is there, sent, fetching a token for a second
\* try, asking for the mode, joining the tab's refresh, or on the way to login
\* swapped: history, the CSRF cookie was replaced meanwhile
Idle == [pc |-> "idle", kind |-> "read", retry |-> FALSE, csrfRetry |-> FALSE,
         authModeRetry |-> FALSE, answer |-> None, swapped |-> FALSE]

\* A request inherits the flag from those beside it, whose fetches may bring the
\* tab a token for the old cookie.
Swapped(t) == \/ \E s \in Slots : req[t][s].swapped
              \/ tab[t].fetch # None /\ tab[t].fetch.client # jar.client

Request(t, kind) == [Idle EXCEPT !.pc = "ready", !.kind = kind, !.swapped = Swapped(t)]

\* What GET /csrf-token answers: a token for the cookie, or for a new one.
Token == [client : Nat, sets : BOOLEAN]

\* What a tab shows: it is loading the mode or the account, refreshing or asking
\* for the account again; or the application, the login page, or an error.
Pages == {"status", "me", "refresh", "again", "app", "login", "error"}

\* The types.
TypeOK ==
  /\ jar \in [access : BOOLEAN, refresh : Nat, client : Nat]
  /\ server \in [enabled : BOOLEAN, modes : SUBSET BOOLEAN, live : SUBSET Nat, issued : Nat, clients : Nat]
  /\ tab \in [Tabs -> [page : Pages, csrf : Nat, fetch : Token \cup {None}]]
  /\ req \in [Tabs -> [Slots ->
       [pc : {"idle", "ready", "sent", "fetch", "mode", "joins", "redirect"},
        kind : Guarded \cup {"read", "me"}, retry : BOOLEAN, csrfRetry : BOOLEAN,
        authModeRetry : BOOLEAN, swapped : BOOLEAN,
        answer : Token \cup {None}
                   \cup [status : {"ok", "401", "403", "404"}, refresh : Nat \cup {None}]]]]
  /\ usage \in [requests : Nat, events : Nat]
  /\ usedBy \in Seq(Tabs \cup {None})
  /\ history \in [kept : BOOLEAN, wasted : BOOLEAN, wronged : BOOLEAN]

\* A browser that was left open, while more tabs are being opened: its access
\* token has expired after a quarter of an hour. Its CSRF cookie may have expired
\* after thirty days, or authentication may just have been turned on, which is
\* then the first event.
Init ==
  /\ \E client \in {0, 1}, modes \in {{TRUE}, BOOLEAN} :
       /\ client = 0 => modes = {TRUE}
       /\ jar = [access |-> FALSE, refresh |-> 1, client |-> client]
       /\ server = [enabled |-> TRUE, modes |-> modes, live |-> {1}, issued |-> 1, clients |-> 1]
       /\ usage = [requests |-> 0, events |-> IF client = 0 \/ FALSE \in modes THEN 1 ELSE 0]
  /\ tab = [t \in Tabs |-> [page |-> IF t \in Old THEN "app" ELSE "status",
                            csrf |-> IF t \in Old THEN 1 ELSE 0,
                            fetch |-> None]]
  /\ req = [t \in Tabs |-> [s \in Slots |-> Idle]]
  /\ usedBy = <<None>>
  /\ history = [kept |-> TRUE, wasted |-> FALSE, wronged |-> FALSE]

-----------------------------------------------------------------------------
(* The server. *)

\* validateCsrfToken: the token must be made for the cookie that comes with it.
ValidCsrf(t) == tab[t].csrf # 0 /\ tab[t].csrf = jar.client

\* csrfProtectionMiddleware comes before every route but those of the authentication,
CsrfProtection(t, kind) == kind \in Guarded \ AuthRoutes => ValidCsrf(t)

\* which check for themselves, and only while authentication is on.
RequireCsrf(t, kind) == kind \in AuthRoutes => ValidCsrf(t)

\* requireAuth, with authentication off for everybody.
Authorized == server.enabled => jar.access

\* GET /auth/status and GET /auth/me, without the interceptors.
AuthStatus == server.enabled

Me == CASE ~Authorized -> "401"
        [] Authorized /\ ~AuthStatus -> "404"
        [] OTHER -> "ok"

Status(t, kind) ==
  IF kind = "me" THEN Me
  ELSE IF ~CsrfProtection(t, kind) THEN "403"
  ELSE IF kind \in AuthRoutes /\ ~server.enabled THEN "404"
  ELSE IF ~RequireCsrf(t, kind) THEN "403"
  ELSE IF kind \notin AuthRoutes /\ ~Authorized THEN "401"
  ELSE IF kind = "refresh" /\ jar.refresh \notin server.live THEN "401"
  ELSE "ok"

\* A new refresh token takes the place of those in old.
Issue(old) ==
  server' = [server EXCEPT !.live = (@ \ old) \cup {server.issued + 1}, !.issued = @ + 1]

\* Mutant: a refresh that is refused takes the cookies away.
MutantRefusedAnswer(status) == Answer(status, IF status = "401" THEN 0 ELSE None)

\* An answer that sets no cookie.
RefusedAnswer(status) == Answer(status, None)

\* POST /auth/refresh: the token is turned in for another one.
ServeRefresh(t, status) ==
  IF status = "ok"
  THEN /\ Issue({jar.refresh})
       /\ usedBy' = Append([usedBy EXCEPT ![jar.refresh] = t], None)
       /\ UNCHANGED history
  ELSE /\ history' = [history EXCEPT !.wasted =
                       @ \/ (status = "401" /\ jar.refresh # 0 /\ usedBy[jar.refresh] = t)]
       /\ UNCHANGED <<server, usedBy>>

\* POST /auth/login.
ServeLogin ==
  /\ Issue({})
  /\ usedBy' = Append(usedBy, None)
  /\ UNCHANGED history

\* POST /auth/logout finds the account by the access token, if there is one.
ServeLogout ==
  /\ server' = [server EXCEPT !.live = IF jar.access THEN {} ELSE @]
  /\ history' = [history EXCEPT !.kept = FALSE]
  /\ UNCHANGED usedBy

\* The request leaves, through the request interceptor, and is served.
Send(t, s) ==
  LET kind   == req[t][s].kind
      status == Status(t, kind)
      opens  == status = "ok" /\ kind \in {"refresh", "login"}
  IN  /\ req[t][s].pc = "ready"
      /\ kind \in Guarded => tab[t].csrf # 0
      /\ CASE kind = "refresh" -> ServeRefresh(t, status)
           [] kind = "login" /\ status = "ok" -> ServeLogin
           [] kind = "logout" /\ status = "ok" -> ServeLogout
           [] OTHER -> UNCHANGED <<server, usedBy, history>>
      /\ req' = [req EXCEPT ![t][s] =
                   [@ EXCEPT !.pc = "sent",
                             !.answer = IF opens THEN Answer("ok", server.issued + 1)
                                        ELSE IF status = "ok" /\ kind = "logout"
                                        THEN Answer("ok", 0)
                                        ELSE RefusedAnswer(status)]]
      /\ UNCHANGED <<jar, tab, usage>>

\* GET /csrf-token
TokenServed == IF jar.client = 0 THEN [client |-> server.clients + 1, sets |-> TRUE]
               ELSE [client |-> jar.client, sets |-> FALSE]

ServeToken == server' = [server EXCEPT !.clients = IF jar.client = 0 THEN @ + 1 ELSE @]

-----------------------------------------------------------------------------
(* Answers. *)

Sent(t, s, status) ==
  /\ req[t][s].pc = "sent"
  /\ req[t][s].answer.status = status

\* The browser stores the cookies of an answer before the page sees it.
SetCookies(answer) ==
  jar' = IF answer.refresh = None THEN jar
         ELSE [jar EXCEPT !.access = answer.refresh # 0, !.refresh = answer.refresh]

\* Whoever joined the tab's refresh goes on: it is sent again.
Resumed(rs) == [s \in Slots |-> IF rs[s].pc = "joins" THEN [rs[s] EXCEPT !.pc = "ready"]
                                ELSE rs[s]]

\* The refresh failed: those who joined it ask the way to the login page.
TurnedAway(rs) == [s \in Slots |-> IF rs[s].pc = "joins" THEN [rs[s] EXCEPT !.pc = "redirect"]
                                   ELSE rs[s]]

\* A request gives up. loadUser refreshes after any failure of the first
\* request for the account, and shows the login page after the second.
GivesUp(t, s) ==
  LET kind == req[t][s].kind
      rs   == [req[t] EXCEPT ![s] = Idle]
  IN  CASE kind = "refresh" ->
             /\ req' = [req EXCEPT ![t] = TurnedAway(rs)]
             /\ tab' = [tab EXCEPT ![t].page = IF @ = "refresh" THEN "login" ELSE @]
        [] kind = "me" /\ tab[t].page = "me" ->
             /\ req' = [req EXCEPT ![t] = [rs EXCEPT !["refresh"] = Request(t, "refresh")]]
             /\ tab' = [tab EXCEPT ![t].page = "refresh"]
        [] kind = "me" /\ tab[t].page # "me" ->
             /\ req' = [req EXCEPT ![t] = rs]
             /\ tab' = [tab EXCEPT ![t].page = "login"]
        [] OTHER ->
             /\ req' = [req EXCEPT ![t] = rs]
             /\ UNCHANGED tab

Succeeds(t, s) ==
  LET kind == req[t][s].kind
      rs   == [req[t] EXCEPT ![s] = Idle]
  IN  /\ Sent(t, s, "ok")
      /\ SetCookies(req[t][s].answer)
      /\ CASE kind = "refresh" /\ tab[t].page = "refresh" ->
                /\ req' = [req EXCEPT ![t] = [Resumed(rs) EXCEPT !["me"] = Request(t, "me")]]
                /\ tab' = [tab EXCEPT ![t].page = "again"]
           [] kind = "refresh" /\ tab[t].page # "refresh" ->
                /\ req' = [req EXCEPT ![t] = Resumed(rs)]
                /\ UNCHANGED tab
           [] kind \in {"me", "login"} ->
                /\ req' = [req EXCEPT ![t] = rs]
                /\ tab' = [tab EXCEPT ![t].page = "app"]
           [] OTHER ->
                /\ req' = [req EXCEPT ![t] = rs]
                /\ UNCHANGED tab
      /\ UNCHANGED <<server, usage, usedBy, history>>

\* 401: the requests of the pages find out whether authentication is on; those
\* of the authentication itself give up.
Unauthorized(t, s) ==
  /\ Sent(t, s, "401")
  /\ SetCookies(req[t][s].answer)
  /\ IF req[t][s].kind \in {"read", "write"}
     THEN /\ req' = [req EXCEPT ![t][s] = [@ EXCEPT !.pc = "mode", !.answer = None]]
          /\ UNCHANGED tab
     ELSE GivesUp(t, s)
  /\ UNCHANGED <<server, usage, usedBy, history>>

\* A failure that the interceptor passes on.
Fails(t, s) ==
  /\ Sent(t, s, "404")
  /\ GivesUp(t, s)
  /\ UNCHANGED <<jar, server, usage, usedBy, history>>

\* Mutant: the token that was refused is sent again.
MutantForbidden(t, s) ==
  /\ Sent(t, s, "403")
  /\ IF ~req[t][s].csrfRetry
     THEN /\ req' = [req EXCEPT ![t][s] =
                       [@ EXCEPT !.csrfRetry = TRUE, !.pc = "ready", !.answer = None]]
          /\ UNCHANGED <<tab, server, history>>
     ELSE /\ GivesUp(t, s)
          /\ history' = [history EXCEPT !.wronged = @ \/ ~req[t][s].swapped]
          /\ UNCHANGED server
  /\ UNCHANGED <<jar, usage, usedBy>>

\* 403 for the CSRF token: it is dropped, and once another one is fetched, for
\* this request alone, it is sent again.
Forbidden(t, s) ==
  /\ Sent(t, s, "403")
  /\ IF ~req[t][s].csrfRetry
     THEN /\ ServeToken
          /\ req' = [req EXCEPT ![t][s] =
                       [@ EXCEPT !.csrfRetry = TRUE, !.pc = "fetch", !.answer = TokenServed]]
          /\ tab' = [tab EXCEPT ![t].csrf = 0]
          /\ UNCHANGED history
     ELSE /\ GivesUp(t, s)
          /\ history' = [history EXCEPT !.wronged = @ \/ ~req[t][s].swapped]
          /\ UNCHANGED server
  /\ UNCHANGED <<jar, usage, usedBy>>

-----------------------------------------------------------------------------
(* CSRF tokens. *)

\* The cookie of a token that arrives; a request under way may miss it.
ClientReplaced(rs) ==
  [t \in Tabs |-> [s \in Slots |-> IF rs[t][s].pc = "idle" THEN rs[t][s]
                                   ELSE [rs[t][s] EXCEPT !.swapped = TRUE]]]

TokenArrives(t, token, rs, awaited) ==
  /\ jar' = IF token.sets THEN [jar EXCEPT !.client = token.client] ELSE jar
  /\ req' = IF token.sets THEN ClientReplaced(rs) ELSE rs
  /\ tab' = [tab EXCEPT ![t] = [@ EXCEPT !.csrf = token.client, !.fetch = awaited]]
  /\ UNCHANGED <<server, usage, usedBy, history>>

HeldBack(t) == {s \in Slots : /\ req[t][s].pc = "ready"
                              /\ req[t][s].kind \in Guarded
                              /\ tab[t].csrf = 0}

\* ensureCsrfToken: the requests of a tab wait for one fetch.
EnsureCsrfToken(t) ==
  /\ HeldBack(t) # {}
  /\ tab[t].fetch = None
  /\ ServeToken
  /\ tab' = [tab EXCEPT ![t].fetch = TokenServed]
  /\ UNCHANGED <<jar, req, usage, usedBy, history>>

Ensured(t) ==
  /\ tab[t].fetch # None
  /\ TokenArrives(t, tab[t].fetch, req, None)

\* fetchCsrfToken in the response interceptor.
Refetched(t, s) ==
  /\ req[t][s].pc = "fetch"
  /\ TokenArrives(t, req[t][s].answer,
                  [req EXCEPT ![t][s] = [@ EXCEPT !.pc = "ready", !.answer = None]],
                  tab[t].fetch)

-----------------------------------------------------------------------------
(* 401, continued. *)

\* getAuthEnabledStatus: the server is asked, or what it said before is used: for
\* some seconds by the tab that asked, and by all when it cannot be reached.

\* Mutant: a request refreshes on its own.
MutantJoins(t, s) == [req[t] EXCEPT ![s] = Request(t, "refresh")]

\* refreshAccessToken: the refresh of the tab is joined, or started.
Joins(t, s) ==
  LET rs == [req[t] EXCEPT ![s] = [@ EXCEPT !.pc = "joins", !.retry = TRUE]]
  IN  IF rs["refresh"].pc = "idle" THEN [rs EXCEPT !["refresh"] = Request(t, "refresh")] ELSE rs

\* Mutant: the second try is not marked.
MutantModeOff(t, s) == [req[t] EXCEPT ![s].pc = "ready"]

\* Authentication is off: the request is sent once more, as it is.
ModeOff(t, s) ==
  [req[t] EXCEPT ![s] = IF @.authModeRetry THEN Idle
                        ELSE [@ EXCEPT !.pc = "ready", !.authModeRetry = TRUE]]

ModeKnown(t, s, enabled) ==
  /\ req[t][s].pc = "mode"
  /\ enabled \in server.modes
  /\ req' = [req EXCEPT ![t] =
               IF ~enabled THEN ModeOff(t, s)
               ELSE IF ~req[t][s].retry THEN Joins(t, s)
               ELSE [@ EXCEPT ![s].pc = "redirect"]]
  /\ UNCHANGED <<jar, server, tab, usage, usedBy, history>>

\* An answer whose cookies nobody stores: a token may have been turned in for it.
Unstored(rs) ==
  LET lost == \E r \in rs : r.pc = "sent" /\ r.answer.refresh # None
  IN  [history EXCEPT !.kept = @ /\ ~lost]

Forgiven(t) == [n \in DOMAIN usedBy |-> IF usedBy[n] = t THEN None ELSE usedBy[n]]

\* redirectToLogin: the page is left, with all that was under way in it, unless
\* authentication is off or this is the login page.
Redirect(t, s, enabled) ==
  /\ req[t][s].pc = "redirect"
  /\ enabled \in server.modes
  /\ IF enabled /\ tab[t].page # "login"
     THEN /\ req' = [req EXCEPT ![t] = [r \in Slots |-> Idle]]
          /\ tab' = [tab EXCEPT ![t] = [page |-> "status", csrf |-> 0, fetch |-> None]]
          /\ history' = Unstored({req[t][r] : r \in Slots})
          /\ usedBy' = Forgiven(t)
     ELSE /\ req' = [req EXCEPT ![t][s] = Idle]
          /\ UNCHANGED <<tab, history, usedBy>>
  /\ UNCHANGED <<jar, server, usage>>

-----------------------------------------------------------------------------
(* Pages. *)

Happens == usage.events < EventBound /\ usage' = [usage EXCEPT !.events = @ + 1]

\* loadUser: the mode first, then the account.
LoadStatus(t) ==
  /\ tab[t].page = "status"
  /\ IF AuthStatus
     THEN /\ tab' = [tab EXCEPT ![t].page = "me"]
          /\ req' = [req EXCEPT ![t]["me"] = Request(t, "me")]
     ELSE /\ tab' = [tab EXCEPT ![t].page = "app"]
          /\ UNCHANGED req
  /\ UNCHANGED <<jar, server, usage, usedBy, history>>

\* The mode that is cached counts only if authentication was off.
StatusFails(t, enabled) ==
  /\ tab[t].page = "status"
  /\ enabled \in server.modes
  /\ Happens
  /\ tab' = [tab EXCEPT ![t].page = IF enabled THEN "error" ELSE "app"]
  /\ UNCHANGED <<jar, server, req, usedBy, history>>

\* The user presses retry.
RetryAuthStatus(t) ==
  /\ tab[t].page = "error"
  /\ tab' = [tab EXCEPT ![t].page = "status"]
  /\ UNCHANGED <<jar, server, req, usage, usedBy, history>>

Free(t) == {s \in Work : req[t][s].pc = "idle"}

Begin(t, kind) ==
  /\ Free(t) # {}
  /\ usage.requests < RequestBound
  /\ usage' = [usage EXCEPT !.requests = @ + 1]
  /\ req' = [req EXCEPT ![t][CHOOSE s \in Free(t) : TRUE] = Request(t, kind)]

\* A page, or the user, asks for something.
Ask(t, kind) ==
  /\ kind \in {"read", "write"}
  /\ tab[t].page = "app"
  /\ Begin(t, kind)
  /\ UNCHANGED <<jar, server, tab, usedBy, history>>

\* logout: the login page is shown at once, whatever comes of the request.
Logout(t) ==
  /\ tab[t].page = "app"
  /\ Begin(t, "logout")
  /\ tab' = [tab EXCEPT ![t].page = "login"]
  /\ UNCHANGED <<jar, server, usedBy, history>>

Login(t) ==
  /\ tab[t].page = "login"
  /\ Begin(t, "login")
  /\ UNCHANGED <<jar, server, tab, usedBy, history>>

-----------------------------------------------------------------------------
(* Time, faults, and other browsers. *)

\* The access token and its cookie end again.
Expire ==
  /\ jar.access
  /\ Happens
  /\ jar' = [jar EXCEPT !.access = FALSE]
  /\ UNCHANGED <<server, tab, req, usedBy, history>>

\* A request, or its answer, is lost.
Lost(t, s) ==
  /\ req[t][s].pc \in {"ready", "sent", "fetch"}
  /\ req[t][s].pc = "ready" => s \notin HeldBack(t)
  /\ Happens
  /\ GivesUp(t, s)
  /\ IF req[t][s].pc = "sent"
     THEN /\ history' = Unstored({req[t][s]})
          /\ usedBy' = Forgiven(t)
     ELSE UNCHANGED <<history, usedBy>>
  /\ UNCHANGED <<jar, server>>

\* The fetch the requests of a tab wait for is lost, and each gives up.
EnsureFails(t) ==
  /\ tab[t].fetch # None
  /\ Happens
  /\ LET rs == [s \in Slots |-> IF s \in HeldBack(t) THEN Idle ELSE req[t][s]]
     IN  req' = [req EXCEPT ![t] = IF "refresh" \in HeldBack(t) THEN TurnedAway(rs) ELSE rs]
  /\ tab' = [tab EXCEPT ![t] =
               [@ EXCEPT !.fetch = None,
                         !.page = IF tab[t].page = "refresh" /\ "refresh" \in HeldBack(t)
                                  THEN "login" ELSE tab[t].page]]
  /\ UNCHANGED <<jar, server, usedBy, history>>

\* An administrator turns authentication on or off.
ModeChanges ==
  /\ Happens
  /\ server' = [server EXCEPT !.enabled = ~@, !.modes = BOOLEAN]
  /\ UNCHANGED <<jar, tab, req, usedBy, history>>

-----------------------------------------------------------------------------
\* What goes on by itself.
Progress(t) ==
  \/ LoadStatus(t)
  \/ EnsureCsrfToken(t)
  \/ Ensured(t)
  \/ \E s \in Slots :
       \/ Send(t, s)
       \/ Succeeds(t, s)
       \/ Unauthorized(t, s)
       \/ Fails(t, s)
       \/ Forbidden(t, s)
       \/ Refetched(t, s)
       \/ \E enabled \in BOOLEAN : ModeKnown(t, s, enabled)
       \/ \E enabled \in BOOLEAN : Redirect(t, s, enabled)

Next ==
  \/ \E t \in Tabs :
       \/ Progress(t)
       \/ \E enabled \in BOOLEAN : StatusFails(t, enabled)
       \/ RetryAuthStatus(t)
       \/ EnsureFails(t)
       \/ \E kind \in {"read", "write"} : Ask(t, kind)
       \/ Logout(t)
       \/ Login(t)
       \/ \E s \in Slots : Lost(t, s)
  \/ Expire
  \/ ModeChanges

Spec == Init /\ [][Next]_vars

\* Scripts run, and what was asked is answered or fails; as what can happen is
\* bounded, no tab need be preferred.
FairSpec == Spec /\ WF_vars(\E t \in Tabs : Progress(t))
-----------------------------------------------------------------------------
(* Properties. *)

\* Tabs that refresh at once do not lose the session: unless somebody signs out
\* or an answer is lost, the browser holds a live refresh token, or one is on
\* its way, whichever tab was refused and in whatever order answers come.
SessionSurvives ==
  history.kept =>
    \/ jar.refresh \in server.live
    \/ \E t \in Tabs, s \in Slots : /\ req[t][s].pc = "sent"
                                    /\ req[t][s].answer.refresh \in server.live

\* The requests of one tab that find the session expired turn its refresh token
\* in once: a tab is refused for a used token only if another tab used it, or
\* the answer was lost.
RefreshedOnce == ~history.wasted

\* A write is refused for its CSRF token only if the cookie it is bound to was
\* replaced while it was under way, however the fetches of the tabs cross.
WritesPassCsrf == ~history.wronged

\* No request is repeated for ever, whatever expires, is switched off or lost:
\* all that was asked comes to an end.
RequestsSettle == []<>(\A t \in Tabs, s \in Slots : req[t][s].pc = "idle")
=============================================================================
