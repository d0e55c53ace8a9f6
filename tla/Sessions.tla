------------------------------ MODULE Sessions ------------------------------
(***************************************************************************)
(* Accounts, refresh tokens and the cookies of browsers: login, rotation,  *)
(* logout, the ways a password or an address is changed, impersonation and *)
(* the administration of accounts.                                         *)
(*                                                                         *)
(* Auth is local with refresh token rotation on, the default. A handler is *)
(* split where it awaits between reading and writing; middleware and the   *)
(* first reads of a handler are one step. Token i is the i-th pair of an   *)
(* access and a refresh token that was signed. It is valid while the       *)
(* RefreshToken table has a row of it that is not revoked. Nothing in the  *)
(* code tells a token whose row is revoked from one that has no row, as    *)
(* when its creation failed after the cookies were put on the response:    *)
(* the lookup refuses both. A row that expires is refused like a revoked   *)
(* one, so expiry of rows is left out.                                     *)
(***************************************************************************)
EXTENDS Naturals, Sequences, FiniteSets

CONSTANTS
  Accounts,      \* user ids
  Browsers,      \* cookie jars; the tabs of a browser share one
  Handlers,      \* requests under way at once
  Patches,       \* what administrators ask to change of an account
  None,          \* nobody impersonates; a field a patch leaves out
  TokenBound,    \* pairs signed, but for rotations under way
  PasswordBound  \* passwords of an account at most, but for a reset that is due

Role == {"ADMIN", "USER"}

ASSUME ConstantsAssumption ==
  /\ None \notin Accounts
  /\ TokenBound \in Nat /\ PasswordBound \in Nat
  /\ Patches \subseteq [role : Role \cup {None}, active : BOOLEAN \cup {None},
                        mustReset : BOOLEAN \cup {None}]

VARIABLES
  account,  \* the User rows; password counts the passwords an account has had
  tokens,   \* the pairs signed so far, each with whether it has a valid row
  jar,      \* the cookies of each browser
  handler,  \* what each request has read, or the answer on its way back
  owed      \* history: accounts with a new password and nothing revoked since

vars == <<account, tokens, jar, handler, owed>>

-----------------------------------------------------------------------------
(* Rows, cookies and what handlers hold. *)

Account == [role : Role, active : BOOLEAN, mustReset : BOOLEAN, password : Nat]

\* What a new session is for. The field opened is history: the password the
\* account had when the handler read it.
Grant == [account : Accounts, by : Accounts \cup {None}, opened : Nat]

\* session: the first token of the chain of rotations; history
\* late: it was made after the password it was opened with was replaced
Token == [account : Accounts, by : Accounts \cup {None}, opened : Nat,
          session : Nat, valid : BOOLEAN, late : BOOLEAN]

\* Both cookies are set and cleared together. fresh: the access token, which
\* expires first, is still there.
NoPair == 0
Jar == [pair : Nat, fresh : BOOLEAN]

Idle == [pc |-> "idle"]
HandlerState ==
  {Idle}
    \cup [pc : {"issue"}, browser : Browsers, grant : Grant]
    \cup [pc : {"lookup", "commit"}, browser : Browsers, old : Nat]
    \cup [pc : {"rehash"}, browser : Browsers, account : Accounts,
          mustReset : BOOLEAN, next : {"keep", "issue"}]
    \cup [pc : {"revoke"}, browser : Browsers, account : Accounts,
          opened : Nat, next : {"keep", "issue", "clear"}]
    \cup [pc : {"count", "update"}, account : Accounts, patch : Patches]
    \cup [pc : {"answer"}, browser : Browsers, pair : Nat]

ActiveAdmins == {a \in Accounts : account[a].role = "ADMIN" /\ account[a].active}

Init ==
  /\ \E role \in [Accounts -> Role] :
       account = [a \in Accounts |->
         [role |-> role[a], active |-> TRUE, mustReset |-> FALSE, password |-> 0]]
  /\ ActiveAdmins # {}
  /\ tokens = <<>>
  /\ jar = [b \in Browsers |-> [pair |-> NoPair, fresh |-> FALSE]]
  /\ handler = [h \in Handlers |-> Idle]
  /\ owed = {}

Starts(h, state) ==
  /\ handler[h] = Idle
  /\ handler' = [handler EXCEPT ![h] = state]
  /\ UNCHANGED <<account, tokens, jar, owed>>

Becomes(h, state) == handler' = [handler EXCEPT ![h] = state]

Answers(h, pair) ==
  Becomes(h, [pc |-> "answer", browser |-> handler[h].browser, pair |-> pair])

-----------------------------------------------------------------------------
(* Authentication of a request: access tokens are not looked up anywhere.  *)

Session(b) == tokens[jar[b].pair]
User(b) == account[Session(b).account]

\* optionalAuth, and requireAuth for the paths open while a reset is due.
SignedIn(b) == jar[b].fresh /\ User(b).active

RequireAuth(b) == SignedIn(b) /\ ~User(b).mustReset

RequireAdmin(b) == RequireAuth(b) /\ User(b).role = "ADMIN"

Impersonated(b) == Session(b).by # None

-----------------------------------------------------------------------------
(* Sessions begin. *)

\* The bound: no login, rotation or impersonation begins when there is no room for
\* its pair beside those under way; a rotation that has begun may add one more.
HasRoom ==
  Len(tokens) + Cardinality({h \in Handlers : handler[h].pc = "issue"}) < TokenBound

\* To end an impersonation there is room for one more.
HasRoomFor(b) ==
  \/ HasRoom
  \/ Len(tokens) = TokenBound /\ jar[b].pair # NoPair /\ Impersonated(b)

GrantFor(a, by) == [account |-> a, by |-> by, opened |-> account[a].password]

\* The user gives the password the account has; with another one the handler
\* ends here.
Login(h, b, a) ==
  /\ HasRoom
  /\ account[a].active
  /\ Starts(h, [pc |-> "issue", browser |-> b, grant |-> GrantFor(a, None)])

\* The cookies are on the response before the row is created: when that fails
\* there is no row, and the browser still gets them, with an error or without.
Issue(h, stored) ==
  /\ handler[h].pc = "issue"
  /\ Len(tokens) < TokenBound \/ HasRoomFor(handler[h].browser)
  /\ LET g == handler[h].grant
     IN  tokens' = Append(tokens,
                     [account |-> g.account, by |-> g.by, opened |-> g.opened,
                      session |-> Len(tokens) + 1, valid |-> stored,
                      late |-> g.opened # account[g.account].password])
  /\ Answers(h, Len(tokens) + 1)
  /\ UNCHANGED <<account, jar, owed>>

-----------------------------------------------------------------------------
(* Rotation. The transaction is two steps, and other requests may come      *)
(* between them: more than a serializable database would allow.             *)

\* Mutant: a request without the cookie goes on.
MutantRefreshWithoutCookie(h, b) ==
  /\ HasRoom
  /\ Starts(h, [pc |-> "lookup", browser |-> b, old |-> jar[b].pair])

Refresh(h, b) ==
  /\ HasRoom
  /\ jar[b].pair # NoPair
  /\ User(b).active
  /\ Starts(h, [pc |-> "lookup", browser |-> b, old |-> jar[b].pair])

RefreshLookup(h) ==
  /\ handler[h].pc = "lookup"
  /\ tokens[handler[h].old].valid
  /\ Becomes(h, [handler[h] EXCEPT !.pc = "commit"])
  /\ UNCHANGED <<account, tokens, jar, owed>>

\* Mutant: the row is updated without the condition on revoked.
MutantBlindRotation(h) ==
  LET old == handler[h].old
  IN  /\ handler[h].pc = "commit"
      /\ tokens' = Append([tokens EXCEPT ![old].valid = FALSE],
                          [tokens[old] EXCEPT !.valid = TRUE])
      /\ Answers(h, Len(tokens) + 1)
      /\ UNCHANGED <<account, jar, owed>>

RefreshCommit(h) ==
  LET old == handler[h].old
  IN  /\ handler[h].pc = "commit"
      /\ tokens[old].valid
      /\ tokens' = Append([tokens EXCEPT ![old].valid = FALSE], tokens[old])
      /\ Answers(h, Len(tokens) + 1)
      /\ UNCHANGED <<account, jar, owed>>

\* 401 when there is no valid row; 500 or 503 when the database fails, and the
\* transaction is rolled back. The cookies stay as they are.
RefreshFails(h) ==
  /\ handler[h].pc \in {"lookup", "commit"}
  /\ Becomes(h, Idle)
  /\ UNCHANGED <<account, tokens, jar, owed>>

-----------------------------------------------------------------------------
(* Sessions end. *)

\* Without an access token the handler does not know whose rows to revoke.
Logout(h, b) ==
  /\ jar[b].pair # NoPair
  /\ Starts(h, IF SignedIn(b)
               THEN [pc |-> "revoke", browser |-> b, account |-> Session(b).account,
                     opened |-> User(b).password, next |-> "clear"]
               ELSE [pc |-> "answer", browser |-> b, pair |-> NoPair])

\* What a handler does once it has revoked, or failed to and gone on.
Continues(h) ==
  CASE handler[h].next = "issue" ->
         Becomes(h, [pc |-> "issue", browser |-> handler[h].browser,
                     grant |-> [account |-> handler[h].account, by |-> None,
                                opened |-> handler[h].opened]])
    [] handler[h].next = "clear" -> Answers(h, NoPair)
    [] handler[h].next = "keep"  -> Becomes(h, Idle)

\* Mutant: only the session of the request ends.
MutantRevokeOwn(h) ==
  /\ handler[h].pc = "revoke"
  /\ tokens' = [i \in 1..Len(tokens) |->
                  IF i = jar[handler[h].browser].pair
                  THEN [tokens[i] EXCEPT !.valid = FALSE] ELSE tokens[i]]
  /\ owed' = owed \ {handler[h].account}
  /\ Continues(h)
  /\ UNCHANGED <<account, jar>>

Revoke(h) ==
  /\ handler[h].pc = "revoke"
  /\ tokens' = [i \in 1..Len(tokens) |->
                  IF tokens[i].account = handler[h].account
                  THEN [tokens[i] EXCEPT !.valid = FALSE] ELSE tokens[i]]
  /\ owed' = owed \ {handler[h].account}
  /\ Continues(h)
  /\ UNCHANGED <<account, jar>>

\* The error is swallowed, or answered after the cookies were cleared.
RevokeFails(h) ==
  /\ handler[h].pc = "revoke"
  /\ Continues(h)
  /\ UNCHANGED <<account, tokens, jar, owed>>

-----------------------------------------------------------------------------
(* Passwords and addresses. *)

\* The bound: once an account has had as many, only a reset that is due replaces
\* a password.
MaySetPassword == \A a \in Accounts : account[a].password < PasswordBound

ChangePassword(h, b) ==
  /\ SignedIn(b) /\ ~Impersonated(b)
  /\ MaySetPassword
  /\ Starts(h, [pc |-> "rehash", browser |-> b, account |-> Session(b).account,
                mustReset |-> FALSE, next |-> "keep"])

MustResetPassword(h, b) ==
  /\ SignedIn(b) /\ ~Impersonated(b)
  /\ User(b).mustReset
  /\ Starts(h, [pc |-> "rehash", browser |-> b, account |-> Session(b).account,
                mustReset |-> FALSE, next |-> "issue"])

\* An administrator sets a temporary password for somebody else.
ResetPassword(h, b, a) ==
  /\ RequireAdmin(b) /\ ~Impersonated(b)
  /\ a # Session(b).account
  /\ MaySetPassword
  /\ Starts(h, [pc |-> "rehash", browser |-> b, account |-> a,
                mustReset |-> TRUE, next |-> "keep"])

\* POST /password-reset-request mails a link to whoever has an active account and
\* asks for it, at any time. That a link is used up after it, or replaced by the
\* next one, therefore hinders nobody, and its row is left out.
MayHaveLink(a) == account[a].active

\* The link is followed in any browser, signed in or not. The row of the link is
\* marked as used before sessions are revoked: a failure there ends the handler
\* like RevokeFails.
ResetByMail(h, b, a) ==
  /\ MayHaveLink(a)
  /\ MaySetPassword
  /\ Starts(h, [pc |-> "rehash", browser |-> b, account |-> a,
                mustReset |-> FALSE, next |-> "keep"])

\* A temporary password, which has to be reset, also reactivates.
WithNewPassword(u, mustReset) ==
  [role |-> u.role, active |-> u.active \/ mustReset,
   mustReset |-> mustReset, password |-> u.password + 1]

\* bcrypt.hash was awaited since the account was read.
Rehash(h) ==
  LET a == handler[h].account
  IN  /\ handler[h].pc = "rehash"
      /\ account' = [account EXCEPT ![a] = WithNewPassword(@, handler[h].mustReset)]
      /\ owed' = owed \cup {a}
      /\ Becomes(h, [pc |-> "revoke", browser |-> handler[h].browser, account |-> a,
                     opened |-> account[a].password + 1, next |-> handler[h].next])
      /\ UNCHANGED <<tokens, jar>>

\* The address itself is left out; all sessions end and a new one begins.
ChangeEmail(h, b) ==
  /\ RequireAuth(b) /\ ~Impersonated(b)
  /\ Starts(h, [pc |-> "revoke", browser |-> b, account |-> Session(b).account,
                opened |-> User(b).password, next |-> "issue"])

-----------------------------------------------------------------------------
(* Administration. *)

\* An administrator who is impersonated acts as that administrator.
ActingAdmin(b) == IF User(b).role = "ADMIN" THEN Session(b).account ELSE Session(b).by

Impersonate(h, b, a) ==
  /\ HasRoom
  /\ RequireAuth(b)
  /\ ActingAdmin(b) \in ActiveAdmins
  /\ a # ActingAdmin(b)
  /\ account[a].active
  /\ Starts(h, [pc |-> "issue", browser |-> b, grant |-> GrantFor(a, ActingAdmin(b))])

StopImpersonation(h, b) ==
  /\ HasRoomFor(b)
  /\ RequireAuth(b)
  /\ Session(b).by \in ActiveAdmins
  /\ Starts(h, [pc |-> "issue", browser |-> b, grant |-> GrantFor(Session(b).by, None)])

Given(new, old) == IF new = None THEN old ELSE new

Patched(u, patch) ==
  [role |-> Given(patch.role, u.role), active |-> Given(patch.active, u.active),
   mustReset |-> Given(patch.mustReset, u.mustReset), password |-> u.password]

RemovesAdmin(u, patch) ==
  /\ u.role = "ADMIN" /\ u.active
  /\ patch.role = "USER" \/ patch.active = FALSE

UpdateUser(h, b, a, patch) ==
  /\ RequireAdmin(b)
  /\ a = Session(b).account => patch.role # "USER" /\ patch.active # FALSE
  /\ Starts(h, [pc |-> IF RemovesAdmin(account[a], patch) THEN "count" ELSE "update",
                account |-> a, patch |-> patch])

CountActiveAdmins(h) ==
  /\ handler[h].pc = "count"
  /\ Becomes(h, IF Cardinality(ActiveAdmins) <= 1 THEN Idle
                ELSE [handler[h] EXCEPT !.pc = "update"])
  /\ UNCHANGED <<account, tokens, jar, owed>>

UpdateCommit(h) ==
  /\ handler[h].pc = "update"
  /\ account' = [account EXCEPT ![handler[h].account] = Patched(@, handler[h].patch)]
  /\ Becomes(h, Idle)
  /\ UNCHANGED <<tokens, jar, owed>>

-----------------------------------------------------------------------------
(* Browsers and the server. *)

Deliver(h) ==
  /\ handler[h].pc = "answer"
  /\ jar' = [jar EXCEPT ![handler[h].browser] =
               [pair |-> handler[h].pair, fresh |-> handler[h].pair # NoPair]]
  /\ Becomes(h, Idle)
  /\ UNCHANGED <<account, tokens, owed>>

Lose(h) ==
  /\ handler[h].pc = "answer"
  /\ Becomes(h, Idle)
  /\ UNCHANGED <<account, tokens, jar, owed>>

AccessExpires(b) ==
  /\ jar[b].fresh
  /\ jar' = [jar EXCEPT ![b].fresh = FALSE]
  /\ UNCHANGED <<account, tokens, handler, owed>>

Restart ==
  /\ \E h \in Handlers : handler[h] # Idle
  /\ handler' = [h \in Handlers |-> Idle]
  /\ UNCHANGED <<account, tokens, jar, owed>>

Begin(h, b) ==
  \/ Refresh(h, b)
  \/ Logout(h, b)
  \/ ChangePassword(h, b)
  \/ MustResetPassword(h, b)
  \/ ChangeEmail(h, b)
  \/ StopImpersonation(h, b)
  \/ \E a \in Accounts :
       \/ Login(h, b, a)
       \/ ResetPassword(h, b, a)
       \/ ResetByMail(h, b, a)
       \/ Impersonate(h, b, a)
       \/ \E patch \in Patches : UpdateUser(h, b, a, patch)

Step(h) ==
  \/ \E stored \in BOOLEAN : Issue(h, stored)
  \/ RefreshLookup(h)
  \/ RefreshCommit(h)
  \/ RefreshFails(h)
  \/ Rehash(h)
  \/ Revoke(h)
  \/ RevokeFails(h)
  \/ CountActiveAdmins(h)
  \/ UpdateCommit(h)
  \/ Deliver(h)
  \/ Lose(h)

Next ==
  \/ \E h \in Handlers, b \in Browsers : Begin(h, b)
  \/ \E h \in Handlers : Step(h)
  \/ \E b \in Browsers : AccessExpires(b)
  \/ Restart

Spec == Init /\ [][Next]_vars

-----------------------------------------------------------------------------
(* Properties. *)

\* Accounts, tokens, cookies and handlers have their types, and every pair that a
\* browser or a handler holds is one that was signed, with a row or without.
TypeOK ==
  /\ account \in [Accounts -> Account]
  /\ tokens \in Seq(Token)
  /\ jar \in [Browsers -> Jar]
  /\ handler \in [Handlers -> HandlerState]
  /\ owed \subseteq Accounts
  /\ \A b \in Browsers : /\ jar[b].pair <= Len(tokens)
                         /\ jar[b].fresh => jar[b].pair # NoPair
  /\ \A h \in Handlers :
       /\ handler[h].pc \in {"lookup", "commit"} => handler[h].old \in 1..Len(tokens)
       /\ handler[h].pc = "answer" => handler[h].pair <= Len(tokens)

\* However many tabs rotate one token at once, a session has one valid token:
\* coreRoutes.ts revokes the old row only if it is not revoked yet.
OneLiveTokenPerSession ==
  \A i, j \in 1..Len(tokens) :
    tokens[i].valid /\ tokens[j].valid /\ tokens[i].session = tokens[j].session => i = j

Alive(s) == \E i \in 1..Len(tokens) : tokens[i].session = s /\ tokens[i].valid

\* A session that was ended never comes back, also not by a rotation that had
\* found its token valid before.
SessionsStayDead ==
  [][\A s \in {tokens[i].session : i \in 1..Len(tokens)} : Alive(s)' => Alive(s)]_vars

\* Once the sessions of an account with a new password were revoked, no valid
\* token goes back to an older password, by whatever rotations, save for a
\* session whose handler read the old one and created its row afterwards.
OldPasswordsOpenNothing ==
  \A i \in 1..Len(tokens) :
    LET t == tokens[i]
    IN  t.valid /\ t.opened # account[t.account].password => t.late \/ t.account \in owed

\* What the code does not keep (TLC refutes it): adminRoutes.ts answers "There
\* must be at least one active admin", and counts them before it removes one.
SomeAdmin == ActiveAdmins # {}
=============================================================================
