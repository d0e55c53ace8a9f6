--------------------------- MODULE SessionsProofs ---------------------------
(***************************************************************************)
(* Proofs about Sessions for any accounts, browsers, requests, patches and *)
(* bounds, and, in the second half, about Comments for any tabs, users and *)
(* bounds. No definition of the one is used in the other.                  *)
(***************************************************************************)
EXTENDS Sessions, Comments, FiniteSetTheorems, TLAPS

\* A chain of rotations starts with the row it is named after, so a new row
\* that names itself belongs to no chain there is.
SessionsAreChains == \A i \in 1..Len(tokens) : tokens[i].session \in 1..i

IInv ==
  /\ TypeOK
  /\ SessionsAreChains
  /\ OneLiveTokenPerSession
  /\ OldPasswordsOpenNothing

-----------------------------------------------------------------------------
(* Types. *)

\* The rows one by one.
LEMMA RowTypes ==
  ASSUME tokens \in Seq(Token)
  PROVE  Len(tokens) \in Nat /\ \A i \in 1..Len(tokens) : tokens[i] \in Token
  OBVIOUS

\* The tables.
LEMMA Tables ==
  ASSUME TypeOK
  PROVE  /\ account \in [Accounts -> Account] /\ tokens \in Seq(Token)
         /\ owed \subseteq Accounts /\ Len(tokens) \in Nat /\ Len(tokens) >= Len(tokens)
  BY DEF TypeOK

\* Whoever signs in holds a pair that was made with a row.
LEMMA SessionType ==
  ASSUME TypeOK, NEW b \in Browsers, jar[b].pair # NoPair
  PROVE  /\ jar[b].pair \in 1..Len(tokens)
         /\ Session(b) \in Token /\ Session(b).account \in Accounts
         /\ Session(b).by \in Accounts \cup {None} /\ User(b) \in Account
  <1>1. jar[b] \in Jar /\ Len(tokens) \in Nat /\ jar[b].pair <= Len(tokens)
    BY RowTypes DEF TypeOK
  <1>2. jar[b].pair \in 1..Len(tokens)
    BY <1>1 DEF Jar, NoPair
  <1>3. Session(b) \in Token
    BY <1>2, RowTypes DEF TypeOK, Session
  <1>4. QED BY <1>2, <1>3 DEF Token, User, TypeOK

\* What a handler can hold, by the step it is at.
LEMMA HandlerTypes ==
  ASSUME TypeOK, NEW h \in Handlers
  PROVE  /\ handler[h].pc = "issue" =>
              handler[h].browser \in Browsers /\ handler[h].grant \in Grant
         /\ handler[h].pc \in {"lookup", "commit"} =>
              handler[h].browser \in Browsers /\ handler[h].old \in 1..Len(tokens)
         /\ handler[h].pc = "rehash" =>
              /\ handler[h].browser \in Browsers /\ handler[h].account \in Accounts
              /\ handler[h].mustReset \in BOOLEAN /\ handler[h].next \in {"keep", "issue"}
         /\ handler[h].pc = "revoke" =>
              /\ handler[h].browser \in Browsers /\ handler[h].account \in Accounts
              /\ handler[h].opened \in Nat /\ handler[h].next \in {"keep", "issue", "clear"}
         /\ handler[h].pc \in {"count", "update"} =>
              handler[h].account \in Accounts /\ handler[h].patch \in Patches
         /\ handler[h].pc = "answer" =>
              /\ handler[h].browser \in Browsers /\ handler[h].pair \in Nat
              /\ handler[h].pair <= Len(tokens)
  <1>1. handler[h] \in HandlerState
    BY DEF TypeOK
  <1>2. QED BY <1>1 DEF TypeOK, HandlerState, Idle

\* What a handler's state must satisfy beside its type.
PairsExist(state, rows) ==
  /\ state.pc \in {"lookup", "commit"} => state.old \in 1..rows
  /\ state.pc = "answer" => state.pair <= rows

\* Types are kept by a step that changes one handler and adds rows at most.
LEMMA HandlerChange ==
  ASSUME TypeOK, NEW h \in Handlers, NEW state \in HandlerState,
         handler' = [handler EXCEPT ![h] = state],
         account' \in [Accounts -> Account], tokens' \in Seq(Token),
         Len(tokens') >= Len(tokens), PairsExist(state, Len(tokens')),
         jar' = jar, owed' \subseteq Accounts
  PROVE  TypeOK'
  <1>1. Len(tokens) \in Nat /\ Len(tokens') \in Nat
    BY DEF TypeOK
  <1>2. handler' \in [Handlers -> HandlerState]
    BY DEF TypeOK
  <1>3. ASSUME NEW g \in Handlers PROVE PairsExist(handler'[g], Len(tokens'))
    <2>1. CASE g = h
      BY <2>1 DEF TypeOK
    <2>2. CASE g # h
      <3>1. handler'[g] = handler[g] /\ PairsExist(handler[g], Len(tokens))
        BY <2>2 DEF TypeOK, PairsExist
      <3>2. CASE handler[g].pc = "answer"
        BY <1>1, <3>1, <3>2, HandlerTypes DEF PairsExist
      <3>3. CASE handler[g].pc # "answer"
        BY <1>1, <3>1, <3>3 DEF PairsExist
      <3>4. QED BY <3>2, <3>3
    <2>3. QED BY <2>1, <2>2
  <1>4. ASSUME NEW b \in Browsers PROVE jar[b].pair <= Len(tokens')
    <2>1. jar[b].pair \in Nat /\ jar[b].pair <= Len(tokens)
      BY DEF TypeOK, Jar
    <2>2. QED BY <1>1, <2>1
  <1>5. QED BY <1>2, <1>3, <1>4 DEF TypeOK, PairsExist

\* A request that starts holds what its action says.
LEMMA StartType ==
  ASSUME TypeOK, NEW h \in Handlers, NEW state \in HandlerState,
         Starts(h, state), PairsExist(state, Len(tokens))
  PROVE  TypeOK'
  <1>1. tokens' = tokens /\ account' = account /\ owed' = owed /\ jar' = jar
        /\ handler' = [handler EXCEPT ![h] = state]
    BY DEF Starts
  <1>2. Len(tokens') >= Len(tokens)
    BY <1>1, RowTypes DEF TypeOK
  <1>3. QED BY <1>1, <1>2, HandlerChange DEF TypeOK

\* An answer is a state of a handler.
LEMMA AnswerType ==
  ASSUME NEW b \in Browsers, NEW p \in Nat
  PROVE  [pc |-> "answer", browser |-> b, pair |-> p] \in HandlerState
  BY DEF HandlerState

\* So is a session to be opened.
LEMMA IssueType ==
  ASSUME NEW b \in Browsers, NEW g \in Grant
  PROVE  [pc |-> "issue", browser |-> b, grant |-> g] \in HandlerState
  BY DEF HandlerState

\* A grant for an account that was read.
LEMMA GrantType ==
  ASSUME TypeOK, NEW a \in Accounts, NEW by \in Accounts \cup {None}
  PROVE  GrantFor(a, by) \in Grant
  BY DEF GrantFor, Grant, TypeOK, Account

-----------------------------------------------------------------------------
(* Type correctness, one lemma for each group of actions. *)

\* The initial state has the types.
LEMMA InitType == Init => TypeOK
  <1> SUFFICES ASSUME Init PROVE TypeOK
    OBVIOUS
  <1>1. account \in [Accounts -> Account]
    BY DEF Init, Account
  <1>2. Len(tokens) = 0 /\ tokens \in Seq(Token)
    BY DEF Init
  <1>3. jar \in [Browsers -> Jar] /\ \A b \in Browsers : jar[b].pair = 0 /\ ~jar[b].fresh
    BY DEF Init, Jar, NoPair
  <1>4. handler \in [Handlers -> HandlerState] /\ \A h \in Handlers : handler[h].pc = "idle"
    BY DEF Init, HandlerState, Idle
  <1>5. owed \subseteq Accounts
    BY DEF Init
  <1>6. \A b \in Browsers : jar[b].pair <= Len(tokens) /\ (jar[b].fresh => jar[b].pair # NoPair)
    BY <1>2, <1>3
  <1>7. QED BY <1>1, <1>2, <1>3, <1>4, <1>5, <1>6 DEF TypeOK

\* A request that begins.
LEMMA BeginType ==
  ASSUME TypeOK, NEW h \in Handlers, NEW b \in Browsers, Begin(h, b)
  PROVE  TypeOK'
  <1> USE DEF PairsExist
  <1>1. CASE Refresh(h, b)
    <2> DEFINE state == [pc |-> "lookup", browser |-> b, old |-> jar[b].pair]
    <2>1. Starts(h, state) /\ jar[b].pair \in 1..Len(tokens)
      BY <1>1, SessionType DEF Refresh
    <2>2. state \in HandlerState
      BY <2>1 DEF HandlerState
    <2>3. QED BY <2>1, <2>2, StartType
  <1>2. CASE Logout(h, b)
    <2>1. CASE SignedIn(b)
      <3> DEFINE state == [pc |-> "revoke", browser |-> b, account |-> Session(b).account,
                           opened |-> User(b).password, next |-> "clear"]
      <3>1. state \in HandlerState
        BY <1>2, SessionType DEF Logout, HandlerState, Account
      <3>2. QED BY <1>2, <2>1, <3>1, StartType DEF Logout
    <2>2. CASE ~SignedIn(b)
      <3> DEFINE state == [pc |-> "answer", browser |-> b, pair |-> NoPair]
      <3>1. state \in HandlerState /\ NoPair <= Len(tokens)
        BY AnswerType, RowTypes DEF NoPair, TypeOK
      <3>2. QED BY <1>2, <2>2, <3>1, StartType DEF Logout
    <2>3. QED BY <2>1, <2>2
  <1>3. ASSUME jar[b].fresh PROVE jar[b].pair # NoPair
    BY <1>3 DEF TypeOK
  <1>4. CASE ChangePassword(h, b) \/ MustResetPassword(h, b)
    <2>1. Session(b).account \in Accounts
      BY <1>3, <1>4, SessionType DEF ChangePassword, MustResetPassword, SignedIn
    <2>2. ASSUME NEW next \in {"keep", "issue"}
          PROVE  [pc |-> "rehash", browser |-> b, account |-> Session(b).account,
                  mustReset |-> FALSE, next |-> next] \in HandlerState
      BY <2>1 DEF HandlerState
    <2>3. QED BY <1>4, <2>2, StartType DEF ChangePassword, MustResetPassword
  <1>5. CASE ChangeEmail(h, b)
    <2> DEFINE state == [pc |-> "revoke", browser |-> b, account |-> Session(b).account,
                         opened |-> User(b).password, next |-> "issue"]
    <2>1. state \in HandlerState
      BY <1>3, <1>5, SessionType DEF ChangeEmail, RequireAuth, SignedIn, HandlerState, Account
    <2>2. QED BY <1>5, <2>1, StartType DEF ChangeEmail
  <1>6. CASE StopImpersonation(h, b)
    <2>1. Session(b).by \in Accounts
      BY <1>6 DEF StopImpersonation, ActiveAdmins
    <2>2. QED BY <1>6, <2>1, GrantType, IssueType, StartType DEF StopImpersonation
  <1>7. ASSUME NEW a \in Accounts, Login(h, b, a)
        PROVE  TypeOK'
    BY <1>7, GrantType, IssueType, StartType DEF Login
  <1>8. ASSUME NEW a \in Accounts, ResetPassword(h, b, a)
        PROVE  TypeOK'
    <2> DEFINE state == [pc |-> "rehash", browser |-> b, account |-> a,
                         mustReset |-> TRUE, next |-> "keep"]
    <2>1. state \in HandlerState
      BY DEF HandlerState
    <2>2. QED BY <1>8, <2>1, StartType DEF ResetPassword
  <1>9. ASSUME NEW a \in Accounts, Impersonate(h, b, a)
        PROVE  TypeOK'
    <2>1. ActingAdmin(b) \in Accounts
      BY <1>9 DEF Impersonate, ActiveAdmins
    <2>2. QED BY <1>9, <2>1, GrantType, IssueType, StartType DEF Impersonate
  <1>10. ASSUME NEW a \in Accounts, NEW patch \in Patches, UpdateUser(h, b, a, patch)
         PROVE  TypeOK'
    <2>1. ASSUME NEW pc \in {"count", "update"}
          PROVE  [pc |-> pc, account |-> a, patch |-> patch] \in HandlerState
      BY DEF HandlerState
    <2>2. QED BY <1>10, <2>1, StartType DEF UpdateUser
  <1>11. ASSUME NEW a \in Accounts, ResetByMail(h, b, a)
         PROVE  TypeOK'
    <2> DEFINE state == [pc |-> "rehash", browser |-> b, account |-> a,
                         mustReset |-> FALSE, next |-> "keep"]
    <2>1. state \in HandlerState
      BY DEF HandlerState
    <2>2. QED BY <1>11, <2>1, StartType DEF ResetByMail
  <1>12. QED
    BY <1>1, <1>2, <1>4, <1>5, <1>6, <1>7, <1>8, <1>9, <1>10, <1>11 DEF Begin

\* What a handler does after a revocation.
LEMMA ContinuesType ==
  ASSUME TypeOK, NEW h \in Handlers, handler[h].pc = "revoke", Continues(h)
  PROVE  \E state \in HandlerState :
           handler' = [handler EXCEPT ![h] = state] /\ PairsExist(state, Len(tokens))
  <1>1. /\ handler[h].browser \in Browsers /\ handler[h].account \in Accounts
        /\ handler[h].opened \in Nat /\ handler[h].next \in {"keep", "issue", "clear"}
    BY HandlerTypes
  <1>2. CASE handler[h].next = "issue"
    <2> DEFINE grant == [account |-> handler[h].account, by |-> None,
                         opened |-> handler[h].opened]
               state == [pc |-> "issue", browser |-> handler[h].browser, grant |-> grant]
    <2>1. state \in HandlerState
      BY <1>1, IssueType DEF Grant
    <2>2. handler' = [handler EXCEPT ![h] = state] /\ PairsExist(state, Len(tokens))
      BY <1>2 DEF Continues, Becomes, PairsExist
    <2>3. QED BY <2>1, <2>2
  <1>3. CASE handler[h].next = "clear"
    <2> DEFINE state == [pc |-> "answer", browser |-> handler[h].browser, pair |-> NoPair]
    <2>1. state \in HandlerState
      BY <1>1, AnswerType DEF NoPair
    <2>2. handler' = [handler EXCEPT ![h] = state] /\ PairsExist(state, Len(tokens))
      BY <1>3, RowTypes DEF Continues, Answers, Becomes, PairsExist, NoPair, TypeOK
    <2>3. QED BY <2>1, <2>2
  <1>4. CASE handler[h].next = "keep"
    <2>1. Idle \in HandlerState /\ PairsExist(Idle, Len(tokens))
      BY DEF HandlerState, Idle, PairsExist
    <2>2. handler' = [handler EXCEPT ![h] = Idle]
      BY <1>4 DEF Continues, Becomes
    <2>3. QED BY <2>1, <2>2
  <1>5. QED BY <1>1, <1>2, <1>3, <1>4

\* Rows of one account revoked: the table keeps its length and its other columns.
LEMMA RevokedRows ==
  ASSUME TypeOK, NEW h \in Handlers, Revoke(h)
  PROVE  /\ tokens' \in Seq(Token) /\ Len(tokens') = Len(tokens)
         /\ \A i \in 1..Len(tokens) :
              tokens'[i] = IF tokens[i].account = handler[h].account
                           THEN [tokens[i] EXCEPT !.valid = FALSE] ELSE tokens[i]
  <1>1. \A i \in 1..Len(tokens) :
          tokens[i] \in Token /\ [tokens[i] EXCEPT !.valid = FALSE] \in Token
    BY RowTypes DEF TypeOK, Token
  <1>2. Len(tokens) \in Nat
    BY RowTypes DEF TypeOK
  <1>3. QED BY <1>1, <1>2 DEF Revoke

\* The row that a session begins with.
LEMMA IssuedRow ==
  ASSUME TypeOK, NEW h \in Handlers, NEW stored \in BOOLEAN, Issue(h, stored)
  PROVE  LET g   == handler[h].grant
             row == [account |-> g.account, by |-> g.by, opened |-> g.opened,
                     session |-> Len(tokens) + 1, valid |-> stored,
                     late |-> g.opened # account[g.account].password]
         IN  row \in Token /\ tokens' = Append(tokens, row)
  BY HandlerTypes, RowTypes DEF Issue, Token, Grant, TypeOK

\* The row that replaces a rotated one.
LEMMA RotatedRow ==
  ASSUME TypeOK, NEW h \in Handlers, RefreshCommit(h)
  PROVE  LET old == handler[h].old
         IN  /\ old \in 1..Len(tokens) /\ tokens[old] \in Token /\ tokens[old].valid
             /\ tokens' \in Seq(Token) /\ Len(tokens') = Len(tokens) + 1
             /\ tokens'[Len(tokens) + 1] = tokens[old]
             /\ \A i \in 1..Len(tokens) :
                  tokens'[i] = IF i = old THEN [tokens[i] EXCEPT !.valid = FALSE] ELSE tokens[i]
  <1> DEFINE old == handler[h].old
             revoked == [tokens[old] EXCEPT !.valid = FALSE]
             rest == [tokens EXCEPT ![old].valid = FALSE]
  <1>1. /\ old \in 1..Len(tokens) /\ tokens[old].valid
        /\ tokens' = Append(rest, tokens[old])
    BY HandlerTypes DEF RefreshCommit
  <1>2. tokens[old] \in Token /\ revoked \in Token
    BY <1>1, RowTypes DEF TypeOK, Token
  <1>3. rest = [tokens EXCEPT ![old] = revoked]
    OBVIOUS
  <1>4. rest \in Seq(Token) /\ Len(rest) = Len(tokens)
    BY <1>1, <1>2, <1>3 DEF TypeOK
  <1>5. tokens' \in Seq(Token) /\ Len(tokens') = Len(tokens) + 1
    BY <1>1, <1>2, <1>4
  <1>6. \A i \in 1..Len(tokens) : rest[i] = IF i = old THEN revoked ELSE tokens[i]
    BY <1>1, <1>3, Tables
  <1>7. /\ tokens'[Len(tokens) + 1] = tokens[old]
        /\ \A i \in 1..Len(tokens) : tokens'[i] = rest[i]
    BY <1>1, <1>2, <1>4, Tables
  <1>8. QED BY <1>1, <1>2, <1>5, <1>6, <1>7

\* So does a new password.
LEMMA NewPasswordType ==
  ASSUME NEW u \in Account, NEW mustReset \in BOOLEAN
  PROVE  /\ WithNewPassword(u, mustReset) \in Account
         /\ WithNewPassword(u, mustReset).password = u.password + 1
  <1>1. (u.active \/ mustReset) \in BOOLEAN
    OBVIOUS
  <1>2. QED BY <1>1 DEF WithNewPassword, Account

\* A patch leaves an account an account.
LEMMA PatchedType ==
  ASSUME ConstantsAssumption, NEW u \in Account, NEW patch \in Patches
  PROVE  Patched(u, patch) \in Account /\ Patched(u, patch).password = u.password
  <1>1. /\ patch.role \in Role \cup {None} /\ patch.active \in BOOLEAN \cup {None}
        /\ patch.mustReset \in BOOLEAN \cup {None}
    BY DEF ConstantsAssumption
  <1>2. /\ Given(patch.role, u.role) \in Role /\ Given(patch.active, u.active) \in BOOLEAN
        /\ Given(patch.mustReset, u.mustReset) \in BOOLEAN
    BY <1>1 DEF Given, Account
  <1>3. QED BY <1>2 DEF Patched, Account

\* A step of a handler.
LEMMA StepType ==
  ASSUME ConstantsAssumption, TypeOK, NEW h \in Handlers, Step(h)
  PROVE  TypeOK'
  <1>1. Idle \in HandlerState /\ PairsExist(Idle, Len(tokens))
    BY DEF HandlerState, Idle, PairsExist
  <1>2. Len(tokens) \in Nat
    BY RowTypes DEF TypeOK
  <1>3. ASSUME NEW stored \in BOOLEAN, Issue(h, stored)
        PROVE  TypeOK'
    <2> DEFINE state == [pc |-> "answer", browser |-> handler[h].browser,
                         pair |-> Len(tokens) + 1]
    <2>1. tokens' \in Seq(Token) /\ Len(tokens') = Len(tokens) + 1
      <3> DEFINE g == handler[h].grant
                 row == [account |-> g.account, by |-> g.by, opened |-> g.opened,
                         session |-> Len(tokens) + 1, valid |-> stored,
                         late |-> g.opened # account[g.account].password]
      <3>1. row \in Token /\ tokens' = Append(tokens, row)
        BY <1>3, IssuedRow
      <3>2. QED
        BY <3>1, Tables
    <2>2. state \in HandlerState /\ PairsExist(state, Len(tokens'))
      BY <1>2, <1>3, <2>1, HandlerTypes, AnswerType DEF Issue, PairsExist
    <2>3. /\ handler' = [handler EXCEPT ![h] = state]
          /\ account' = account /\ jar' = jar /\ owed' = owed
      BY <1>3 DEF Issue, Answers, Becomes
    <2>4. Len(tokens') >= Len(tokens)
      BY <1>2, <2>1
    <2>5. QED BY <2>1, <2>2, <2>3, <2>4, HandlerChange, Tables
  <1>4. CASE RefreshLookup(h)
    <2> DEFINE state == [handler[h] EXCEPT !.pc = "commit"]
    <2>1. handler[h] \in [pc : {"lookup", "commit"}, browser : Browsers, old : Nat]
      BY <1>4 DEF TypeOK, HandlerState, Idle, RefreshLookup
    <2>2. state \in HandlerState /\ PairsExist(state, Len(tokens))
      BY <1>4, <2>1, HandlerTypes DEF HandlerState, RefreshLookup, PairsExist
    <2>3. QED BY <1>2, <1>4, <2>2, HandlerChange DEF RefreshLookup, Becomes, TypeOK
  <1>5. CASE RefreshCommit(h)
    <2> DEFINE state == [pc |-> "answer", browser |-> handler[h].browser,
                         pair |-> Len(tokens) + 1]
    <2>1. tokens' \in Seq(Token) /\ Len(tokens') = Len(tokens) + 1
      BY <1>5, RotatedRow
    <2>2. state \in HandlerState /\ PairsExist(state, Len(tokens'))
      BY <1>2, <1>5, <2>1, HandlerTypes, AnswerType DEF RefreshCommit, PairsExist
    <2>3. /\ handler' = [handler EXCEPT ![h] = state]
          /\ account' = account /\ jar' = jar /\ owed' = owed
      BY <1>5 DEF RefreshCommit, Answers, Becomes
    <2>4. Len(tokens') >= Len(tokens)
      BY <1>2, <2>1
    <2>5. QED BY <2>1, <2>2, <2>3, <2>4, HandlerChange, Tables
  <1>6. CASE RefreshFails(h) \/ Lose(h)
    BY <1>1, <1>2, <1>6, HandlerChange DEF RefreshFails, Lose, Becomes, TypeOK
  <1>7. CASE Rehash(h)
    <2> DEFINE a == handler[h].account
               state == [pc |-> "revoke", browser |-> handler[h].browser, account |-> a,
                         opened |-> account[a].password + 1, next |-> handler[h].next]
    <2>1. /\ a \in Accounts /\ account[a] \in Account /\ handler[h].browser \in Browsers
          /\ handler[h].mustReset \in BOOLEAN /\ handler[h].next \in {"keep", "issue"}
      BY <1>7, HandlerTypes DEF Rehash, TypeOK
    <2>2. state \in HandlerState /\ PairsExist(state, Len(tokens))
      BY <2>1 DEF HandlerState, PairsExist, Account
    <2>3. account' \in [Accounts -> Account] /\ owed' \subseteq Accounts
      BY <1>7, <2>1, NewPasswordType, Tables DEF Rehash
    <2>4. QED BY <1>2, <1>7, <2>2, <2>3, HandlerChange DEF Rehash, Becomes, TypeOK
  <1>8. CASE Revoke(h)
    <2>1. PICK state \in HandlerState :
            handler' = [handler EXCEPT ![h] = state] /\ PairsExist(state, Len(tokens))
      BY <1>8, ContinuesType DEF Revoke
    <2>2. tokens' \in Seq(Token) /\ Len(tokens') = Len(tokens)
      BY <1>8, RevokedRows
    <2>3. account' = account /\ jar' = jar /\ owed' = owed \ {handler[h].account}
      BY <1>8 DEF Revoke
    <2>4. QED BY <1>2, <2>1, <2>2, <2>3, HandlerChange, Tables
  <1>9. CASE RevokeFails(h)
    <2>1. PICK state \in HandlerState :
            handler' = [handler EXCEPT ![h] = state] /\ PairsExist(state, Len(tokens))
      BY <1>9, ContinuesType DEF RevokeFails
    <2>2. UNCHANGED <<account, tokens, jar, owed>>
      BY <1>9 DEF RevokeFails
    <2>3. QED BY <2>1, <2>2, HandlerChange, Tables
  <1>10. CASE CountActiveAdmins(h)
    <2> DEFINE next == [handler[h] EXCEPT !.pc = "update"]
    <2>1. handler[h] \in [pc : {"count", "update"}, account : Accounts, patch : Patches]
      BY <1>10 DEF TypeOK, HandlerState, Idle, CountActiveAdmins
    <2>2. next \in HandlerState /\ PairsExist(next, Len(tokens))
      BY <2>1 DEF HandlerState, PairsExist
    <2>3. PICK state \in {Idle, next} : handler' = [handler EXCEPT ![h] = state]
      BY <1>10 DEF CountActiveAdmins, Becomes
    <2>4. state \in HandlerState /\ PairsExist(state, Len(tokens))
      BY <1>1, <2>2
    <2>5. UNCHANGED <<account, tokens, jar, owed>>
      BY <1>10 DEF CountActiveAdmins
    <2>6. QED BY <2>3, <2>4, <2>5, HandlerChange, Tables
  <1>11. CASE UpdateCommit(h)
    <2>1. handler[h].account \in Accounts /\ handler[h].patch \in Patches
      BY <1>11, HandlerTypes DEF UpdateCommit
    <2>2. account' \in [Accounts -> Account]
      BY <1>11, <2>1, PatchedType DEF UpdateCommit, TypeOK
    <2>3. handler' = [handler EXCEPT ![h] = Idle] /\ UNCHANGED <<tokens, jar, owed>>
      BY <1>11 DEF UpdateCommit, Becomes
    <2>4. QED BY <1>1, <2>2, <2>3, HandlerChange, Tables
  <1>12. CASE Deliver(h)
    <2> DEFINE cookies == [pair |-> handler[h].pair, fresh |-> handler[h].pair # NoPair]
    <2>1. /\ handler[h].browser \in Browsers /\ handler[h].pair \in Nat
          /\ handler[h].pair <= Len(tokens)
      BY <1>12, HandlerTypes DEF Deliver
    <2>2. cookies \in Jar
      BY <2>1 DEF Jar
    <2>3. /\ jar' \in [Browsers -> Jar]
          /\ \A b \in Browsers : /\ jar'[b].pair <= Len(tokens)
                                 /\ jar'[b].fresh => jar'[b].pair # NoPair
      BY <1>12, <2>1, <2>2 DEF Deliver, TypeOK
    <2>4. /\ handler' \in [Handlers -> HandlerState]
          /\ \A g \in Handlers : handler'[g] = handler[g] \/ handler'[g] = Idle
      BY <1>1, <1>12 DEF Deliver, Becomes, TypeOK
    <2>5. QED BY <1>12, <2>3, <2>4 DEF Deliver, TypeOK, Idle
  <1>13. QED
    BY <1>3, <1>4, <1>5, <1>6, <1>7, <1>8, <1>9, <1>10, <1>11, <1>12 DEF Step

\* The types are kept by every step.
LEMMA NextType ==
  ASSUME ConstantsAssumption, TypeOK, [Next]_vars
  PROVE  TypeOK'
  <1>1. ASSUME NEW b \in Browsers, AccessExpires(b)
        PROVE  TypeOK'
    <2>1. jar' \in [Browsers -> Jar]
      BY <1>1 DEF AccessExpires, TypeOK, Jar
    <2>2. \A c \in Browsers : jar'[c].pair = jar[c].pair /\ (jar'[c].fresh => jar[c].fresh)
      BY <1>1 DEF AccessExpires, TypeOK, Jar
    <2>3. QED BY <1>1, <2>1, <2>2 DEF AccessExpires, TypeOK
  <1>2. CASE Restart
    BY <1>2 DEF Restart, TypeOK, HandlerState, Idle
  <1>3. CASE UNCHANGED vars
    BY <1>3 DEF vars, TypeOK
  <1>4. QED BY <1>1, <1>2, <1>3, BeginType, StepType DEF Next

-----------------------------------------------------------------------------
(* Rows. The actions that touch neither rows nor passwords go first.       *)

Passwords == [a \in Accounts |-> account[a].password]

\* What is said of rows depends on the table, the passwords and what is owed.
LEMMA RowsUntouched ==
  ASSUME SessionsAreChains, OneLiveTokenPerSession, OldPasswordsOpenNothing, TypeOK,
         tokens' = tokens, Passwords' = Passwords, owed' = owed
  PROVE  SessionsAreChains' /\ OneLiveTokenPerSession' /\ OldPasswordsOpenNothing'
  <1>1. SessionsAreChains' /\ OneLiveTokenPerSession'
    BY DEF SessionsAreChains, OneLiveTokenPerSession
  <1>2. ASSUME NEW a \in Accounts PROVE account'[a].password = account[a].password
    BY DEF Passwords
  <1>3. \A i \in 1..Len(tokens) : tokens[i].account \in Accounts
    BY RowTypes DEF TypeOK, Token
  <1>4. QED BY <1>1, <1>2, <1>3 DEF OldPasswordsOpenNothing

\* A new session has a row and a name of its own.
LEMMA IssueRows ==
  ASSUME IInv, NEW h \in Handlers, NEW stored \in BOOLEAN, Issue(h, stored)
  PROVE  SessionsAreChains' /\ OneLiveTokenPerSession' /\ OldPasswordsOpenNothing'
  <1> DEFINE g   == handler[h].grant
             n   == Len(tokens)
             row == [account |-> g.account, by |-> g.by, opened |-> g.opened,
                     session |-> n + 1, valid |-> stored,
                     late |-> g.opened # account[g.account].password]
  <1>1. /\ row \in Token /\ tokens' = Append(tokens, row)
        /\ account' = account /\ owed' = owed /\ n \in Nat
    BY IssuedRow, Tables DEF IInv, Issue
  <1>2. /\ Len(tokens') = n + 1 /\ tokens'[n + 1] = row
        /\ \A i \in 1..n : tokens'[i] = tokens[i]
    BY <1>1, Tables DEF IInv
  <1>3. \A i \in 1..Len(tokens') : i \in 1..n \/ i = n + 1
    BY <1>1, <1>2
  <1>4. \A i \in 1..n : tokens[i].session \in 1..i /\ tokens[i].session # n + 1
    BY <1>1 DEF IInv, SessionsAreChains
  <1>5. SessionsAreChains'
    BY <1>1, <1>2, <1>3, <1>4 DEF SessionsAreChains
  <1>6. OneLiveTokenPerSession'
    BY <1>1, <1>2, <1>3, <1>4 DEF IInv, OneLiveTokenPerSession
  <1>7. OldPasswordsOpenNothing'
    BY <1>1, <1>2, <1>3 DEF IInv, OldPasswordsOpenNothing
  <1>8. QED BY <1>5, <1>6, <1>7

\* A rotation passes the session on.
LEMMA RotationRows ==
  ASSUME IInv, NEW h \in Handlers, RefreshCommit(h)
  PROVE  SessionsAreChains' /\ OneLiveTokenPerSession' /\ OldPasswordsOpenNothing'
  <1> DEFINE old  == handler[h].old
             n    == Len(tokens)
  <1>1. /\ old \in 1..n /\ tokens[old] \in Token /\ tokens[old].valid
        /\ Len(tokens') = n + 1 /\ n \in Nat
        /\ account' = account /\ owed' = owed
    BY RotatedRow, Tables DEF IInv, RefreshCommit
  <1>2. \A i \in 1..n :
          tokens'[i] = IF i = old THEN [tokens[i] EXCEPT !.valid = FALSE] ELSE tokens[i]
    BY RotatedRow DEF IInv
  <1>3. tokens'[n + 1] = tokens[old]
    BY RotatedRow DEF IInv
  <1>4. ASSUME NEW i \in 1..n
        PROVE  /\ tokens'[i].session = tokens[i].session /\ tokens'[i].opened = tokens[i].opened
               /\ tokens'[i].account = tokens[i].account /\ tokens'[i].late = tokens[i].late
               /\ tokens'[i].valid => tokens[i].valid /\ i # old
    BY <1>1, <1>2, RowTypes DEF IInv, TypeOK, Token
  <1>5. \A i \in 1..Len(tokens') : i \in 1..n \/ i = n + 1
    BY <1>1
  <1>6. SessionsAreChains'
    <2>1. ASSUME NEW i \in 1..n PROVE tokens'[i].session \in 1..i
      BY <1>4 DEF IInv, SessionsAreChains
    <2>2. tokens'[n + 1].session \in 1..(n + 1)
      BY <1>1, <1>3 DEF IInv, SessionsAreChains
    <2>3. QED BY <1>5, <2>1, <2>2 DEF SessionsAreChains
  <1>7. OneLiveTokenPerSession'
    <2>1. SUFFICES ASSUME NEW i \in 1..Len(tokens'), NEW j \in 1..Len(tokens'),
                          tokens'[i].valid, tokens'[j].valid,
                          tokens'[i].session = tokens'[j].session
                   PROVE  i = j
      BY DEF OneLiveTokenPerSession
    <2>2. ASSUME NEW k \in 1..n, tokens'[k].valid
          PROVE  tokens[k].session # tokens[old].session
      BY <1>1, <1>4, <2>2 DEF IInv, OneLiveTokenPerSession
    <2>3. CASE i \in 1..n /\ j \in 1..n
      BY <1>4, <2>1, <2>3 DEF IInv, OneLiveTokenPerSession
    <2>4. CASE i \in 1..n /\ j = n + 1
      BY <1>3, <1>4, <2>1, <2>2, <2>4
    <2>5. CASE i = n + 1 /\ j \in 1..n
      BY <1>3, <1>4, <2>1, <2>2, <2>5
    <2>6. QED BY <1>5, <2>3, <2>4, <2>5
  <1>8. OldPasswordsOpenNothing'
    <2>1. ASSUME NEW i \in 1..Len(tokens')
          PROVE  \E k \in 1..n : /\ tokens'[i].account = tokens[k].account
                                 /\ tokens'[i].opened = tokens[k].opened
                                 /\ tokens'[i].late = tokens[k].late
                                 /\ tokens'[i].valid => tokens[k].valid
      BY <1>1, <1>3, <1>4, <1>5
    <2>2. QED BY <1>1, <2>1 DEF IInv, OldPasswordsOpenNothing
  <1>9. QED BY <1>6, <1>7, <1>8

\* A revocation leaves no valid row of the account.
LEMMA RevocationRows ==
  ASSUME IInv, NEW h \in Handlers, Revoke(h)
  PROVE  SessionsAreChains' /\ OneLiveTokenPerSession' /\ OldPasswordsOpenNothing'
  <1>1. ASSUME NEW i \in 1..Len(tokens)
        PROVE  /\ tokens'[i].session = tokens[i].session /\ tokens'[i].opened = tokens[i].opened
               /\ tokens'[i].account = tokens[i].account /\ tokens'[i].late = tokens[i].late
               /\ tokens'[i].valid => tokens[i].valid /\ tokens[i].account # handler[h].account
    BY RevokedRows, RowTypes DEF IInv, TypeOK, Token
  <1>2. /\ Len(tokens') = Len(tokens) /\ account' = account
        /\ owed' = owed \ {handler[h].account}
    BY RevokedRows DEF IInv, Revoke
  <1>3. QED
    BY <1>1, <1>2 DEF IInv, SessionsAreChains, OneLiveTokenPerSession, OldPasswordsOpenNothing

\* A new password leaves a revocation owed.
LEMMA RehashRows ==
  ASSUME IInv, NEW h \in Handlers, Rehash(h)
  PROVE  SessionsAreChains' /\ OneLiveTokenPerSession' /\ OldPasswordsOpenNothing'
  <1>1. tokens' = tokens /\ owed' = owed \cup {handler[h].account}
    BY DEF Rehash
  <1>2. ASSUME NEW a \in Accounts, a # handler[h].account
        PROVE  account'[a] = account[a]
    BY <1>2, Tables DEF IInv, Rehash
  <1>3. \A i \in 1..Len(tokens) : tokens[i].account \in Accounts
    BY RowTypes DEF IInv, TypeOK, Token
  <1>4. SessionsAreChains' /\ OneLiveTokenPerSession'
    BY <1>1 DEF IInv, SessionsAreChains, OneLiveTokenPerSession
  <1>5. OldPasswordsOpenNothing'
    BY <1>1, <1>2, <1>3 DEF IInv, OldPasswordsOpenNothing
  <1>6. QED BY <1>4, <1>5

\* A patch sets no password.
LEMMA UpdatePasswords ==
  ASSUME ConstantsAssumption, TypeOK, NEW h \in Handlers, UpdateCommit(h)
  PROVE  Passwords' = Passwords
  <1>1. handler[h].account \in Accounts /\ handler[h].patch \in Patches
    BY HandlerTypes DEF UpdateCommit
  <1>2. ASSUME NEW a \in Accounts PROVE account'[a].password = account[a].password
    BY <1>1, Tables, PatchedType DEF UpdateCommit
  <1>3. QED BY <1>2 DEF Passwords

-----------------------------------------------------------------------------
(* The theorems. *)

\* The invariant holds at first.
LEMMA InitInvariant == Init => IInv
  <1>1. Init => Len(tokens) = 0
    BY DEF Init
  <1>2. QED
    BY <1>1, InitType DEF IInv, SessionsAreChains, OneLiveTokenPerSession, OldPasswordsOpenNothing

\* Every step of the system keeps it.
LEMMA NextInvariant ==
  ASSUME ConstantsAssumption, IInv, [Next]_vars
  PROVE  IInv'
  <1>1. TypeOK'
    BY NextType DEF IInv
  <1>2. SUFFICES SessionsAreChains' /\ OneLiveTokenPerSession' /\ OldPasswordsOpenNothing'
    BY <1>1 DEF IInv
  <1>3. CASE tokens' = tokens /\ owed' = owed /\ Passwords' = Passwords
    BY <1>3, RowsUntouched DEF IInv
  <1>4. ASSUME NEW h \in Handlers, Step(h)
        PROVE  SessionsAreChains' /\ OneLiveTokenPerSession' /\ OldPasswordsOpenNothing'
    <2>1. CASE \E stored \in BOOLEAN : Issue(h, stored)
      BY <2>1, IssueRows
    <2>2. CASE RefreshCommit(h)
      BY <2>2, RotationRows
    <2>3. CASE Revoke(h)
      BY <2>3, RevocationRows
    <2>4. CASE Rehash(h)
      BY <2>4, RehashRows
    <2>5. CASE UpdateCommit(h)
      BY <1>3, <2>5, UpdatePasswords DEF IInv, UpdateCommit
    <2>6. CASE RefreshLookup(h) \/ RefreshFails(h) \/ RevokeFails(h) \/ CountActiveAdmins(h)
                 \/ Deliver(h) \/ Lose(h)
      BY <1>3, <2>6
      DEF RefreshLookup, RefreshFails, RevokeFails, CountActiveAdmins, Deliver, Lose, Passwords
    <2>7. QED BY <1>4, <2>1, <2>2, <2>3, <2>4, <2>5, <2>6 DEF Step
  <1>5. ASSUME NEW h \in Handlers, NEW b \in Browsers, Begin(h, b)
        PROVE  UNCHANGED <<account, tokens, jar, owed>>
    BY <1>5 DEF Begin, Refresh, Logout, ChangePassword, MustResetPassword, ChangeEmail,
                StopImpersonation, Login, ResetPassword, ResetByMail, Impersonate, UpdateUser, Starts
  <1>6. CASE \/ \E h \in Handlers, b \in Browsers : Begin(h, b)
             \/ \E b \in Browsers : AccessExpires(b)
             \/ Restart
             \/ UNCHANGED vars
    BY <1>3, <1>5, <1>6 DEF AccessExpires, Restart, vars, Passwords
  <1>7. QED BY <1>4, <1>6 DEF Next

\* All behaviours keep the invariant.
LEMMA Invariance == Spec => []IInv
  <1>1. IInv /\ [Next]_vars => IInv'
    BY NextInvariant, ConstantsAssumption
  <1>2. QED BY InitInvariant, <1>1, PTL DEF Spec

\* Rows, cookies and handlers have their types at all times.
THEOREM TypeCorrect == Spec => []TypeOK
  <1>1. IInv => TypeOK
    BY DEF IInv
  <1>2. QED BY Invariance, <1>1, PTL

\* However tabs race to rotate a token, one of them gets the session.
THEOREM TokensAreSingle == Spec => []OneLiveTokenPerSession
  <1>1. IInv => OneLiveTokenPerSession
    BY DEF IInv
  <1>2. QED BY Invariance, <1>1, PTL

\* After a password change nothing goes back to an older password but what was
\* opened late.
THEOREM OldPasswordsAreShutOut == Spec => []OldPasswordsOpenNothing
  <1>1. IInv => OldPasswordsOpenNothing
    BY DEF IInv
  <1>2. QED BY Invariance, <1>1, PTL

\* No step gives a session that has ended a valid token.
LEMMA DeadStayDead ==
  ASSUME IInv, [Next]_vars,
         NEW s \in {tokens[i].session : i \in 1..Len(tokens)}, Alive(s)'
  PROVE  Alive(s)
  <1>1. CASE tokens' = tokens
    BY <1>1 DEF Alive
  <1>2. PICK j \in 1..Len(tokens') : tokens'[j].session = s /\ tokens'[j].valid
    BY DEF Alive
  <1>3. Len(tokens) \in Nat
    BY Tables DEF IInv
  <1>4. s \in 1..Len(tokens)
    BY <1>3 DEF IInv, SessionsAreChains
  <1>5. ASSUME NEW h \in Handlers, NEW stored \in BOOLEAN, Issue(h, stored)
        PROVE  Alive(s)
    <2>1. PICK row \in Token : row.session = Len(tokens) + 1 /\ tokens' = Append(tokens, row)
      BY <1>5, IssuedRow DEF IInv
    <2>2. j \in 1..Len(tokens) /\ tokens'[j] = tokens[j]
      <3>1. tokens \in Seq(Token)
        BY Tables DEF IInv
      <3>2. /\ Len(tokens') = Len(tokens) + 1 /\ tokens'[Len(tokens) + 1] = row
            /\ \A i \in 1..Len(tokens) : tokens'[i] = tokens[i]
        BY ONLY <2>1, <3>1
      <3>3. j # Len(tokens) + 1
        BY <1>2, <1>3, <1>4, <2>1, <3>2
      <3>4. j \in 1..Len(tokens)
        BY <1>2, <1>3, <3>2, <3>3
      <3>5. QED BY <3>2, <3>4
    <2>3. QED BY <1>2, <2>2 DEF Alive
  <1>6. ASSUME NEW h \in Handlers, RefreshCommit(h)
        PROVE  Alive(s)
    <2> DEFINE old == handler[h].old
    <2>1. /\ old \in 1..Len(tokens) /\ tokens[old].valid
          /\ Len(tokens') = Len(tokens) + 1 /\ tokens'[Len(tokens) + 1] = tokens[old]
          /\ \A i \in 1..Len(tokens) :
               tokens'[i] = IF i = old THEN [tokens[i] EXCEPT !.valid = FALSE] ELSE tokens[i]
      BY <1>6, RotatedRow DEF IInv
    <2>2. CASE j = Len(tokens) + 1
      BY <1>2, <2>1, <2>2 DEF Alive
    <2>3. CASE j \in 1..Len(tokens)
      <3>1. tokens[j].session = s /\ tokens[j].valid
        BY <1>2, <2>1, <2>3, RowTypes DEF IInv, TypeOK, Token
      <3>2. QED BY <2>3, <3>1 DEF Alive
    <2>4. QED BY <1>2, <1>3, <2>1, <2>2, <2>3
  <1>7. ASSUME NEW h \in Handlers, Revoke(h)
        PROVE  Alive(s)
    <2>1. tokens[j].session = s /\ tokens[j].valid /\ j \in 1..Len(tokens)
      BY <1>2, <1>7, RevokedRows, RowTypes DEF IInv, TypeOK, Token
    <2>2. QED BY <2>1 DEF Alive
  <1>8. ASSUME NEW h \in Handlers, Step(h), tokens' # tokens
        PROVE  (\E stored \in BOOLEAN : Issue(h, stored)) \/ RefreshCommit(h) \/ Revoke(h)
    BY <1>8 DEF Step, RefreshLookup, RefreshFails, Rehash, RevokeFails, CountActiveAdmins,
                UpdateCommit, Deliver, Lose
  <1>9. ASSUME NEW h \in Handlers, NEW b \in Browsers, Begin(h, b)
        PROVE  tokens' = tokens
    BY <1>9 DEF Begin, Refresh, Logout, ChangePassword, MustResetPassword, ChangeEmail,
                StopImpersonation, Login, ResetPassword, ResetByMail, Impersonate, UpdateUser, Starts
  <1>10. QED
    BY <1>1, <1>5, <1>6, <1>7, <1>8, <1>9 DEF Next, AccessExpires, Restart, vars

\* A session that was ended never comes back.
THEOREM EndedSessionsStayEnded == Spec => SessionsStayDead
  <1>1. IInv /\ [Next]_vars =>
          [\A s \in {tokens[i].session : i \in 1..Len(tokens)} : Alive(s)' => Alive(s)]_vars
    BY DeadStayDead
  <1>2. QED BY Invariance, <1>1, PTL DEF Spec, SessionsStayDead

-----------------------------------------------------------------------------
(* Comments. The invariant: what the rows, the tabs and the requests have in *)
(* common.                                                                   *)

\* What a request knows of its comment: it names one, but for a comment that is yet to
\* be made; what it will merge its answer into is what was shown; and the parent of a
\* reply was there when it was checked, so that it is one that was made, and is not a
\* reply if it is still there.
RequestOK(r) ==
  r.pc \notin {"unsent", "done"} =>
    /\ r.op # "create" \/ r.pc = "emit" \/ (r.pc = "answer" /\ r.ok) => r.id \in Ids
    /\ r.ok /\ r.op \in FromClosure => r.entry \in Listed
    /\ r.pc = "write" /\ r.op = "reply" =>
         r.id <= made /\ (comment[r.id] # Nothing => comment[r.id].parent = 0)

CInv ==
  /\ CommentsTypeOK /\ ThreadsAreWhole
  /\ \A k \in Clicks : RequestOK(request[k])

-----------------------------------------------------------------------------
(* Types. *)

LEMMA RequestKinds ==
  ASSUME NEW r \in Request \cup AtRest
  PROVE  /\ r.pc \in {"check", "write", "emit", "answer"} <=> r \in Request
         /\ r \in Request <=> r \notin AtRest
  BY DEF Request, AtRest, Unsent, Done

LEMMA ShownType ==
  ASSUME NEW row \in Row, NEW u \in Users PROVE Shown(row, u) \in Listed
  <1>1. row.reacted \subseteq Users
    BY DEF Row
  <1>2. IsFiniteSet(row.reacted)
    BY <1>1, CommentsAssumption, FS_Subset
  <1>3. Cardinality(row.reacted) \in Nat
    BY <1>2, FS_CardinalityType
  <1>4. QED BY <1>3 DEF Shown, Listed, Row

LEMMA ListForType ==
  ASSUME comment \in [Ids -> Row \cup {Nothing}], NEW u \in Users
  PROVE  ListFor(u) \in Lists
  <1>1. \A c \in Ids : comment[c] # Nothing => Shown(comment[c], u) \in Listed
    BY ShownType
  <1>2. \A c \in Ids : Stored(u)[c] \in Listed \cup {Nothing}
    BY <1>1 DEF Stored, TopLevel
  <1>3. QED BY <1>2 DEF ListFor, Lists

LEMMA OneLessType ==
  ASSUME NEW entry \in Listed PROVE OneLess(entry) \in Listed
  <1>1. entry.count \in Nat
    BY DEF Listed
  <1>2. CASE entry.count <= 1
    BY <1>2 DEF OneLess, Listed
  <1>3. CASE ~(entry.count <= 1)
    <2>1. OneLess(entry) = [entry EXCEPT !.count = entry.count - 1]
      BY <1>3 DEF OneLess
    <2>2. entry.count - 1 \in Nat
      BY <1>1, <1>3
    <2>3. QED BY <2>1, <2>2 DEF Listed
  <1>4. QED BY <1>2, <1>3

LEMMA FreshType == \A u \in Users : Fresh(u) \in Listed
  BY DEF Fresh, Listed

LEMMA ChangedType ==
  ASSUME NEW entry \in Listed, NEW e \in Event
  PROVE  Changed(entry, e) \in Listed \cup {Nothing}
  <1>1. e.op \in Ops \ {"reply"} /\ e.value \in BOOLEAN /\ entry.count \in Nat
    BY DEF Event, Listed
  <1>2. CASE e.op = "delete"
    BY <1>2 DEF Changed
  <1>3. CASE e.op = "edit"
    BY <1>1, <1>3 DEF Changed, Listed
  <1>4. CASE e.op = "move"
    BY <1>1, <1>4 DEF Changed, Listed
  <1>5. CASE e.op = "resolve"
    BY <1>1, <1>5 DEF Changed, Listed
  <1>6. CASE e.op = "react"
    <2>1. Changed(entry, e) = [entry EXCEPT !.count = entry.count + 1]
      BY <1>6 DEF Changed
    <2>2. QED BY <1>1, <2>1 DEF Listed
  <1>7. CASE e.op = "unreact"
    BY <1>7, OneLessType DEF Changed
  <1>8. CASE e.op = "create"
    BY <1>8 DEF Changed
  <1>9. QED BY <1>1, <1>2, <1>3, <1>4, <1>5, <1>6, <1>7, <1>8 DEF Ops

LEMMA ToldType ==
  ASSUME NEW entry \in Listed \cup {Nothing}, NEW e \in Event
  PROVE  Told(entry, e) \in Listed \cup {Nothing}
  <1>1. e.user \in Users
    BY DEF Event
  <1>2. QED BY <1>1, FreshType, ChangedType DEF Told

LEMMA AnsweredType ==
  ASSUME NEW k \in Clicks, NEW entry \in Listed \cup {Nothing}, request[k] \in Request,
         tab[request[k].tab].user \in Users,
         request[k].op \in FromClosure => request[k].entry \in Listed
  PROVE  Answered(k, entry) \in Listed \cup {Nothing}
  <1>1. PICK r : r = request[k]
    OBVIOUS
  <1>2. r.op \in Ops /\ r.value \in BOOLEAN
        /\ (r.op \in FromClosure => r.entry \in Listed /\ r.entry.count \in Nat)
    BY <1>1 DEF Request, Listed
  <1>3. CASE r.op = "create"
    BY <1>1, <1>3, FreshType DEF Answered
  <1>4. CASE r.op # "create" /\ entry = Nothing
    BY <1>1, <1>4 DEF Answered
  <1>5. ASSUME r.op # "create", entry \in Listed, entry # Nothing
        PROVE  Answered(k, entry) \in Listed \cup {Nothing}
    <2>1. CASE r.op = "edit"
      BY <1>1, <1>2, <1>5, <2>1 DEF Answered, Listed, FromClosure
    <2>2. CASE r.op \in {"move", "reply"}
      BY <1>1, <1>5, <2>2 DEF Answered
    <2>3. CASE r.op = "resolve"
      BY <1>1, <1>2, <1>5, <2>3 DEF Answered, Listed, FromClosure
    <2>4. CASE r.op = "react"
      <3>1. Answered(k, entry) = [r.entry EXCEPT !.count = r.entry.count + 1, !.mine = TRUE]
        BY <1>1, <1>5, <2>4 DEF Answered
      <3>2. r.entry \in Listed /\ r.entry.count + 1 \in Nat
        BY <1>2, <2>4 DEF FromClosure
      <3>3. QED BY <3>1, <3>2 DEF Listed
    <2>5. CASE r.op = "unreact"
      <3>1. OneLess(r.entry) \in Listed
        BY <1>2, <2>5, OneLessType DEF FromClosure
      <3>2. QED BY <1>1, <1>5, <2>5, <3>1 DEF Answered, Listed
    <2>6. CASE r.op = "delete"
      BY <1>1, <1>5, <2>6 DEF Answered
    <2>7. QED BY <1>2, <1>5, <2>1, <2>2, <2>3, <2>4, <2>5, <2>6 DEF Ops
  <1>6. QED BY <1>3, <1>4, <1>5

LEMMA MissType ==
  ASSUME CommentsTypeOK, NEW ts, NEW c, ts # {} => c \in Ids
  PROVE  Miss(ts, c) \in [Tabs -> SUBSET Ids]
  BY DEF Miss, CommentsTypeOK

LEMMA TouchType ==
  ASSUME CommentsTypeOK, NEW ts, NEW cs, ts # {} => cs \subseteq Ids
  PROVE  Touch(ts, cs) \in [Loads -> Fetch \cup {Nothing}]
  <1>0. DOMAIN fetch = Loads
    BY DEF CommentsTypeOK
  <1> SUFFICES ASSUME NEW f \in Loads PROVE Touch(ts, cs)[f] \in Fetch \cup {Nothing}
    BY <1>0 DEF Touch
  <1>1. fetch[f] \in Fetch \cup {Nothing}
    BY DEF CommentsTypeOK
  <1>2. CASE f \in UnderWay(ts)
    <2>1. Touch(ts, cs)[f] = [fetch[f] EXCEPT !.seen = fetch[f].seen \cup cs]
      BY <1>0, <1>2 DEF Touch
    <2>2. fetch[f] \in Fetch /\ cs \subseteq Ids
      BY <1>1, <1>2 DEF UnderWay
    <2>3. QED BY <2>1, <2>2 DEF Fetch
  <1>3. CASE f \notin UnderWay(ts)
    BY <1>0, <1>1, <1>3 DEF Touch
  <1>4. QED BY <1>2, <1>3

-----------------------------------------------------------------------------
(* What keeps requests in order. *)

\* A comment that is there was there, with the same parent, or is the one just made.
CommentsStay ==
  /\ made' \in Ids /\ made <= made'
  /\ \A c \in Ids : c <= made /\ comment'[c] # Nothing =>
       comment[c] # Nothing /\ comment'[c].parent = comment[c].parent

LEMMA RequestStays ==
  ASSUME made \in Ids, CommentsStay, NEW r \in Request \cup AtRest, RequestOK(r)
  PROVE  RequestOK(r)'
  <1>1. CASE r.pc = "write" /\ r.op = "reply"
    <2>1. r.id \in Ids /\ r.id <= made /\ (comment[r.id] # Nothing => comment[r.id].parent = 0)
      BY <1>1 DEF RequestOK
    <2>2. r.id <= made' /\ (comment'[r.id] # Nothing => comment'[r.id].parent = 0)
      BY <2>1, CommentsAssumption DEF CommentsStay, Ids
    <2>3. QED BY <1>1, <2>2 DEF RequestOK
  <1>2. CASE ~(r.pc = "write" /\ r.op = "reply")
    BY <1>2 DEF RequestOK
  <1>3. QED BY <1>1, <1>2

\* A step that leaves the rows as they are.
LEMMA RowsAside ==
  ASSUME CInv, UNCHANGED <<comment, made>>,
         tab' \in [Tabs -> Tab], fetch' \in [Loads -> Fetch \cup {Nothing}],
         queue' \in [Tabs -> Seq(Event)], missed' \in [Tabs -> SUBSET Ids],
         drops' \in 0..DropBound,
         request' \in [Clicks -> Request \cup AtRest],
         \A k \in Clicks : request'[k] = request[k] \/ RequestOK(request[k])'
  PROVE  CInv'
  <1>1. CommentsTypeOK'
    BY DEF CInv, CommentsTypeOK
  <1>2. ThreadsAreWhole'
    BY DEF CInv, ThreadsAreWhole
  <1>3. ASSUME NEW k \in Clicks, request'[k] = request[k] PROVE RequestOK(request[k])'
    <2>1. PICK r : r = request[k]
      OBVIOUS
    <2>2. /\ r \in Request \cup AtRest /\ RequestOK(r) /\ made \in Ids
          /\ CommentsStay
      BY <2>1, CommentsAssumption DEF CInv, CommentsTypeOK, CommentsStay, Ids
    <2>3. RequestOK(r)'
      BY <2>2, RequestStays
    <2>4. QED BY <1>3, <2>1, <2>3 DEF RequestOK
  <1>4. QED BY <1>1, <1>2, <1>3 DEF CInv

\* Requests that go on as q, everybody else's as they were.
LEMMA RequestTurns ==
  ASSUME CInv, NEW k \in Clicks, NEW q \in Request \cup AtRest, RequestOK(q)',
         request' = [request EXCEPT ![k] = q]
  PROVE  /\ request' \in [Clicks -> Request \cup AtRest]
         /\ \A o \in Clicks : request'[o] = request[o] \/ RequestOK(request[o])'
  <1>1. request \in [Clicks -> Request \cup AtRest]
    BY DEF CInv, CommentsTypeOK
  <1>2. \A o \in Clicks : request'[o] = IF o = k THEN q ELSE request[o]
    BY <1>1
  <1>3. RequestOK(request[k])'
    BY <1>2 DEF RequestOK
  <1>4. QED BY <1>1, <1>2, <1>3

\* A new request.
LEMMA SendKeeps ==
  ASSUME CInv, NEW t \in Tabs, NEW op \in Ops, NEW c \in 0..CommentBound,
         NEW entry \in Listed \cup {Nothing}, NEW value \in BOOLEAN,
         op # "create" => c \in Ids, op \in FromClosure => entry \in Listed,
         Send(NewRequest(t, op, c, entry, value)), tab' \in [Tabs -> Tab]
  PROVE  CInv'
  <1>1. PICK r : r = NewRequest(t, op, c, entry, value)
    OBVIOUS
  <1>2. UNCHANGED <<comment, made, fetch, queue, missed, drops>>
    BY DEF Send
  <1>3. PICK k \in Clicks : request' = [request EXCEPT ![k] = r]
    BY <1>1 DEF Send
  <1>4. r \in Request /\ r.pc = "check" /\ r.op = op /\ r.id = c /\ r.entry = entry
    BY <1>1 DEF NewRequest, Request
  <1>5. RequestOK(r)'
    BY <1>4 DEF RequestOK
  <1>6. /\ request' \in [Clicks -> Request \cup AtRest]
        /\ \A o \in Clicks : request'[o] = request[o] \/ RequestOK(request[o])'
    BY <1>3, <1>4, <1>5, RequestTurns
  <1>7. QED BY <1>2, <1>6, RowsAside DEF CInv, CommentsTypeOK

LEMMA DoneIsOK == Done \in Request \cup AtRest /\ RequestOK(Done)'
  BY DEF RequestOK, AtRest, Done

LEMMA TabFacts ==
  ASSUME CInv, NEW t \in Tabs
  PROVE  tab[t] \in Tab /\ tab[t].user \in Users /\ tab[t].list \in Lists
  BY DEF CInv, CommentsTypeOK, Tab

LEMMA RequestFacts ==
  ASSUME CInv, NEW k \in Clicks
  PROVE  /\ request[k] \in Request \cup AtRest /\ RequestOK(request[k])
         /\ Busy(k) => request[k] \in Request /\ request[k].tab \in Tabs
  <1>1. request[k] \in Request \cup AtRest /\ RequestOK(request[k])
    BY DEF CInv, CommentsTypeOK
  <1>2. Busy(k) => request[k] \in Request
    BY <1>1, RequestKinds DEF Busy
  <1>3. QED BY <1>1, <1>2 DEF Request

-----------------------------------------------------------------------------
(* The click. *)

LEMMA CreateCommentKeeps ==
  ASSUME CInv, NEW t \in Tabs, CreateComment(t) PROVE CInv'
  <1>1. 0 \in 0..CommentBound /\ "create" \in Ops /\ "create" \notin FromClosure
    BY CommentsAssumption DEF Ops, FromClosure
  <1>2. tab' \in [Tabs -> Tab] /\ Send(NewRequest(t, "create", 0, Nothing, FALSE))
    BY DEF CreateComment, CInv, CommentsTypeOK
  <1>3. QED BY <1>1, <1>2, SendKeeps

LEMMA ActKeeps ==
  ASSUME CInv, NEW t \in Tabs, NEW c \in Ids, NEW op \in Ops \ {"create"}, Act(t, c, op)
  PROVE  CInv'
  <1>1. PICK e : e = tab[t].list[c]
    OBVIOUS
  <1>2. e \in Listed /\ e # Nothing
    BY <1>1, TabFacts DEF Act, Lists
  <1>3. PICK entry : entry = IF op \in FromClosure THEN e ELSE Nothing
    OBVIOUS
  <1>4. PICK value \in Inputs(e, op) : Send(NewRequest(t, op, c, entry, value))
    BY <1>1, <1>3 DEF Act
  <1>5. value \in BOOLEAN
    BY <1>4 DEF Inputs
  <1>7. tab' \in [Tabs -> Tab]
    <2>1. CASE op = "move"
      <3>1. PICK x, l : /\ x = [e EXCEPT !.anchor = ~e.anchor]
                        /\ l = [tab[t].list EXCEPT ![c] = x]
        OBVIOUS
      <3>2. x \in Listed
        BY <1>2, <3>1 DEF Listed
      <3>3. l \in Lists
        BY <3>1, <3>2, TabFacts DEF Lists
      <3>4. tab' = [tab EXCEPT ![t] = [tab[t] EXCEPT !.list = l]]
        BY <1>1, <2>1, <3>1 DEF Act, Dragged
      <3>5. [tab[t] EXCEPT !.list = l] \in Tab
        BY <3>3, TabFacts DEF Tab
      <3>6. QED BY <3>4, <3>5 DEF CInv, CommentsTypeOK
    <2>2. CASE op # "move"
      BY <2>2 DEF Act, CInv, CommentsTypeOK
    <2>3. QED BY <2>1, <2>2
  <1>8. c \in 0..CommentBound
    BY DEF Ids
  <1>9. entry \in Listed \cup {Nothing} /\ (op \in FromClosure => entry \in Listed)
    BY <1>2, <1>3
  <1>10. QED BY <1>4, <1>5, <1>7, <1>8, <1>9, SendKeeps

LEMMA DeleteReplyKeeps ==
  ASSUME CInv, NEW t \in Tabs, NEW c \in Ids, DeleteReply(t, c) PROVE CInv'
  <1>1. c \in 0..CommentBound /\ "delete" \in Ops /\ "delete" \notin FromClosure
    BY DEF Ids, Ops, FromClosure
  <1>2. tab' \in [Tabs -> Tab] /\ Send(NewRequest(t, "delete", c, Nothing, FALSE))
    BY DEF DeleteReply, CInv, CommentsTypeOK
  <1>3. QED BY <1>1, <1>2, SendKeeps

LEMMA LoadRepliesKeeps ==
  ASSUME CInv, NEW t \in Tabs, NEW c \in Ids, LoadReplies(t, c) PROVE CInv'
  <1>1. PICK th : th = [of |-> c, own |-> OwnReplies(c, tab[t].user)]
    OBVIOUS
  <1>2. th \in [of : Ids, own : SUBSET Ids]
    BY <1>1 DEF OwnReplies
  <1>3. tab' = [tab EXCEPT ![t] = [tab[t] EXCEPT !.thread = th]]
    BY <1>1 DEF LoadReplies
  <1>4. [tab[t] EXCEPT !.thread = th] \in Tab
    BY <1>2, TabFacts DEF Tab
  <1>5. tab' \in [Tabs -> Tab]
    BY <1>3, <1>4 DEF CInv, CommentsTypeOK
  <1>6. UNCHANGED <<comment, made, request, fetch, queue, missed, drops>>
    BY DEF LoadReplies
  <1>7. QED BY <1>5, <1>6, RowsAside DEF CInv, CommentsTypeOK

-----------------------------------------------------------------------------
(* The handlers. *)

\* Nothing but requests changes.
LEMMA OnlyRequest ==
  ASSUME CInv, NEW k \in Clicks, NEW q \in Request \cup AtRest, RequestOK(q)',
         request' = [request EXCEPT ![k] = q],
         UNCHANGED <<comment, made, tab, fetch, queue, missed, drops>>
  PROVE  CInv'
  <1>1. /\ request' \in [Clicks -> Request \cup AtRest]
        /\ \A o \in Clicks : request'[o] = request[o] \/ RequestOK(request[o])'
    BY RequestTurns
  <1>2. QED BY <1>1, RowsAside DEF CInv, CommentsTypeOK

LEMMA RefuseKeeps ==
  ASSUME CInv, NEW k \in Clicks, Busy(k), Refuse(k) PROVE CInv'
  <1>1. PICK r, q : /\ r = request[k]
                    /\ q = [r EXCEPT !.pc = "answer", !.ok = FALSE, !.entry = Nothing]
    OBVIOUS
  <1>2. r \in Request /\ RequestOK(r) /\ r.pc \notin {"unsent", "done"}
    BY <1>1, RequestFacts DEF Request
  <1>3. q \in Request /\ q.pc = "answer" /\ q.ok = FALSE /\ q.op = r.op /\ q.id = r.id
    BY <1>1, <1>2 DEF Request
  <1>4. RequestOK(q)'
    BY <1>2, <1>3 DEF RequestOK
  <1>5. request' = [request EXCEPT ![k] = q]
        /\ UNCHANGED <<comment, made, tab, fetch, queue, missed, drops>>
    BY <1>1 DEF Refuse
  <1>6. QED BY <1>3, <1>4, <1>5, OnlyRequest

LEMMA CheckKeeps ==
  ASSUME CInv, NEW k \in Clicks, Check(k) PROVE CInv'
  <1>1. PICK r, v, q :
          /\ r = request[k]
          /\ v = IF r.op = "resolve" THEN ~comment[r.id].resolved ELSE r.value
          /\ q = [r EXCEPT !.pc = "write", !.value = v]
    OBVIOUS
  <1>2. r \in Request /\ RequestOK(r) /\ r.pc = "check" /\ Allowed(k)
    BY <1>1, RequestFacts, RequestKinds DEF Check
  <1>3. r.op \notin {"create", "unreact"} =>
          /\ r.id \in Ids /\ comment[r.id] # Nothing /\ comment[r.id] \in Row /\ r.id <= made
          /\ r.op = "reply" => comment[r.id].parent = 0
    BY <1>1, <1>2 DEF Allowed, RequestOK, CInv, CommentsTypeOK
  <1>4. v \in BOOLEAN
    BY <1>1, <1>2, <1>3 DEF Row, Request
  <1>5. /\ q \in Request /\ q.pc = "write" /\ q.op = r.op /\ q.id = r.id /\ q.ok = r.ok
        /\ q.entry = r.entry
    BY <1>1, <1>2, <1>4 DEF Request
  <1>6. request' = [request EXCEPT ![k] = q]
        /\ UNCHANGED <<comment, made, tab, fetch, queue, missed, drops>>
    BY <1>1 DEF Check
  <1>7. RequestOK(q)'
    BY <1>2, <1>3, <1>5, <1>6 DEF RequestOK
  <1>8. QED BY <1>5, <1>6, <1>7, OnlyRequest

\* A row is inserted with a parent that is there, or none.
LEMMA InsertKeeps ==
  ASSUME CInv, NEW k \in Clicks, Insert(k) PROVE CInv'
  <1>1. PICK r, q : r = request[k] /\ q = [r EXCEPT !.pc = "emit", !.id = made + 1]
    OBVIOUS
  <1>2. /\ r \in Request /\ RequestOK(r) /\ r.pc = "write" /\ r.op \in {"create", "reply"}
        /\ r.op = "reply" => comment[r.id] # Nothing
    BY <1>1, RequestFacts, RequestKinds DEF Insert
  <1>3. PICK n : n = NewRow(k)
    OBVIOUS
  <1>4. /\ made \in Ids /\ made + 1 \in Ids /\ made' = made + 1
        /\ comment' = [comment EXCEPT ![made + 1] = n]
        /\ request' = [request EXCEPT ![k] = q]
        /\ UNCHANGED <<tab, fetch, queue, missed, drops>>
    BY <1>1, <1>3, CommentsAssumption DEF Insert, CInv, CommentsTypeOK, Ids
  <1>5. /\ r.op = "reply" => r.id \in Ids /\ r.id <= made /\ comment[r.id] # Nothing
                             /\ comment[r.id].parent = 0
        /\ n \in Row /\ n # Nothing
        /\ n.parent = IF r.op = "reply" THEN r.id ELSE 0
    <2>1. r.op = "reply" => r.id \in Ids /\ r.id <= made /\ comment[r.id] # Nothing
                            /\ comment[r.id].parent = 0
      BY <1>2 DEF RequestOK
    <2>2. n.parent = IF r.op = "reply" THEN r.id ELSE 0
      BY <1>1, <1>3 DEF NewRow
    <2>3. r.id \in 0..CommentBound /\ 0 \in 0..CommentBound
      BY <1>2, CommentsAssumption DEF Request
    <2>4. n \in Row
      BY <1>1, <1>2, <1>3, <2>3, TabFacts DEF NewRow, Row, Request
    <2>5. n # Nothing
      BY <2>4, NothingAssumption
    <2>6. QED BY <2>1, <2>2, <2>4, <2>5
  <1>6. q \in Request /\ q.pc = "emit" /\ q.op = r.op /\ q.id = made + 1 /\ q.ok = r.ok
        /\ q.entry = r.entry
    <2>1. made + 1 \in 0..CommentBound
      BY <1>4, CommentsAssumption DEF Ids
    <2>2. QED BY <1>1, <1>2, <2>1 DEF Request
  <1>7. RequestOK(q)'
    BY <1>2, <1>4, <1>6 DEF RequestOK
  <1>8. CommentsStay /\ made \in Nat
    BY <1>4 DEF CommentsStay, CInv, CommentsTypeOK, Ids
  <1>9. CommentsTypeOK'
    <2>1. comment' \in [Ids -> Row \cup {Nothing}]
      BY <1>4, <1>5 DEF CInv, CommentsTypeOK
    <2>2. \A c \in Ids : comment'[c] # Nothing => c <= made'
      BY <1>4, <1>8 DEF CInv, CommentsTypeOK, Ids
    <2>3. request' \in [Clicks -> Request \cup AtRest]
      BY <1>4, <1>6 DEF CInv, CommentsTypeOK
    <2>4. QED BY <1>4, <2>1, <2>2, <2>3 DEF CInv, CommentsTypeOK
  <1>10. ThreadsAreWhole'
    <2> SUFFICES ASSUME NEW c \in Ids, comment'[c] # Nothing, comment'[c].parent # 0
                 PROVE  /\ comment'[comment'[c].parent] # Nothing
                        /\ comment'[comment'[c].parent].parent = 0
      BY DEF ThreadsAreWhole
    <2>1. comment[made + 1] = Nothing
      BY <1>4, <1>8 DEF CInv, CommentsTypeOK
    <2>2. CASE c = made + 1
      <3>1. comment'[c] = n /\ r.op = "reply" /\ comment'[c].parent = r.id
        BY <1>4, <1>5, <2>2 DEF CInv, CommentsTypeOK
      <3>2. r.id # made + 1
        BY <1>5, <2>1, <3>1
      <3>3. comment'[r.id] = comment[r.id]
        BY <1>4, <1>5, <3>1, <3>2 DEF CInv, CommentsTypeOK
      <3>4. QED BY <1>5, <3>1, <3>3
    <2>3. CASE c # made + 1
      <3>1. comment'[c] = comment[c]
        BY <1>4, <2>3 DEF CInv, CommentsTypeOK
      <3>2. PICK p : p = comment[c].parent
        OBVIOUS
      <3>3. comment[p] # Nothing /\ comment[p].parent = 0 /\ p # 0
        BY <3>1, <3>2 DEF CInv, ThreadsAreWhole
      <3>4. comment[c] \in Row
        BY <3>1 DEF CInv, CommentsTypeOK
      <3>5. p \in 0..CommentBound
        BY <3>2, <3>4 DEF Row
      <3>6. p \in Ids
        BY <3>3, <3>5, CommentsAssumption DEF Ids
      <3>7. p # made + 1
        BY <2>1, <3>3
      <3>8. comment'[p] = comment[p]
        BY <1>4, <3>6, <3>7 DEF CInv, CommentsTypeOK
      <3>9. QED BY <3>1, <3>2, <3>3, <3>8
    <2>4. QED BY <2>2, <2>3
  <1>11. ASSUME NEW o \in Clicks PROVE RequestOK(request[o])'
    <2>1. CASE o = k
      <3>1. request'[o] = q
        BY <1>4, <2>1 DEF CInv, CommentsTypeOK
      <3>2. QED BY <1>7, <3>1 DEF RequestOK
    <2>2. CASE o # k
      <3>1. request'[o] = request[o]
        BY <1>4, <2>2 DEF CInv, CommentsTypeOK
      <3>2. PICK p : p = request[o]
        OBVIOUS
      <3>3. p \in Request \cup AtRest /\ RequestOK(p)
        BY <3>2, RequestFacts
      <3>4. RequestOK(p)'
        BY <1>4, <1>8, <3>3, RequestStays
      <3>5. QED BY <3>1, <3>2, <3>4 DEF RequestOK
    <2>3. QED BY <2>1, <2>2
  <1>12. QED BY <1>9, <1>10, <1>11 DEF CInv

\* A written row keeps its parent.
LEMMA WrittenFacts ==
  ASSUME NEW k \in Clicks, NEW c \in Ids, request[k] \in Request, comment[c] \in Row,
         tab[request[k].tab].user \in Users,
         request[k].op \in {"edit", "move", "resolve", "react", "unreact"}
  PROVE  Written(k, c) \in Row /\ Written(k, c).parent = comment[c].parent
  <1>1. PICK r, row : r = request[k] /\ row = comment[c]
    OBVIOUS
  <1>2. r.value \in BOOLEAN /\ row \in Row
    BY <1>1 DEF Request
  <1>3. CASE r.op = "edit"
    BY <1>1, <1>2, <1>3 DEF Written, Edited, Row
  <1>4. CASE r.op = "move"
    BY <1>1, <1>2, <1>4 DEF Written, Moved, Row
  <1>5. CASE r.op = "resolve"
    BY <1>1, <1>2, <1>5 DEF Written, Resolved, Row
  <1>6. CASE r.op = "react"
    BY <1>1, <1>2, <1>6 DEF Written, Reacted, Row
  <1>7. CASE r.op = "unreact"
    BY <1>1, <1>2, <1>7 DEF Written, Unreacted, Row
  <1>8. QED BY <1>1, <1>3, <1>4, <1>5, <1>6, <1>7

\* Deleting a comment leaves no reply without its comment.
LEMMA DeletedFacts ==
  ASSUME CInv, NEW c \in Ids, comment' = Deleted(c)
  PROVE  /\ comment' \in [Ids -> Row \cup {Nothing}] /\ ThreadsAreWhole'
         /\ \A d \in Ids : comment'[d] # Nothing => comment'[d] = comment[d]
  <1>1. \A d \in Ids : comment'[d] = IF d \in WithThread(c) THEN Nothing ELSE comment[d]
    BY DEF Deleted
  <1>2. comment' \in [Ids -> Row \cup {Nothing}]
    BY DEF Deleted, CInv, CommentsTypeOK
  <1>3. ThreadsAreWhole'
    <2> SUFFICES ASSUME NEW d \in Ids, comment'[d] # Nothing, comment'[d].parent # 0
                 PROVE  /\ comment'[comment'[d].parent] # Nothing
                        /\ comment'[comment'[d].parent].parent = 0
      BY DEF ThreadsAreWhole
    <2>1. /\ comment'[d] = comment[d] /\ d \notin WithThread(c) /\ comment[d] # Nothing
          /\ comment[d] \in Row
      BY <1>1 DEF CInv, CommentsTypeOK
    <2>2. PICK p : p = comment[d].parent
      OBVIOUS
    <2>3. comment[p] # Nothing /\ comment[p].parent = 0 /\ p # 0 /\ p \in 0..CommentBound
      BY <2>1, <2>2 DEF CInv, ThreadsAreWhole, Row
    <2>4. p \in Ids /\ c # 0
      BY <2>3, CommentsAssumption DEF Ids
    <2>5. p # c
      BY <2>1, <2>2 DEF WithThread
    <2>6. p \notin WithThread(c)
      BY <2>3, <2>4, <2>5 DEF WithThread
    <2>7. comment'[p] = comment[p]
      BY <1>1, <2>4, <2>6
    <2>8. QED BY <2>1, <2>2, <2>3, <2>7
  <1>4. QED BY <1>1, <1>2, <1>3

\* Rows that are there keep their parents.
LEMMA UpdatedFacts ==
  ASSUME CInv, NEW c \in Ids, NEW n \in Row, comment[c] # Nothing,
         n.parent = comment[c].parent, comment' = [comment EXCEPT ![c] = n]
  PROVE  /\ comment' \in [Ids -> Row \cup {Nothing}] /\ ThreadsAreWhole'
         /\ \A d \in Ids : comment'[d] # Nothing =>
              comment[d] # Nothing /\ comment'[d].parent = comment[d].parent
  <1>1. comment \in [Ids -> Row \cup {Nothing}] /\ n # Nothing
    BY NothingAssumption DEF CInv, CommentsTypeOK
  <1>2. \A d \in Ids : /\ comment'[d] # Nothing <=> comment[d] # Nothing
                       /\ comment[d] # Nothing => comment'[d].parent = comment[d].parent
    BY <1>1
  <1>3. ThreadsAreWhole'
    <2> SUFFICES ASSUME NEW d \in Ids, comment'[d] # Nothing, comment'[d].parent # 0
                 PROVE  /\ comment'[comment'[d].parent] # Nothing
                        /\ comment'[comment'[d].parent].parent = 0
      BY DEF ThreadsAreWhole
    <2>1. comment[d] # Nothing /\ comment'[d].parent = comment[d].parent
      BY <1>2
    <2>2. PICK p : p = comment[d].parent
      OBVIOUS
    <2>3. comment[d] \in Row
      BY <1>1, <2>1
    <2>4. comment[p] # Nothing /\ comment[p].parent = 0 /\ p # 0 /\ p \in 0..CommentBound
      BY <2>1, <2>2, <2>3 DEF CInv, ThreadsAreWhole, Row
    <2>5. p \in Ids
      BY <2>4, CommentsAssumption DEF Ids
    <2>6. QED BY <1>2, <2>1, <2>2, <2>4, <2>5
  <1>4. QED BY <1>1, <1>2, <1>3

LEMMA WriteKeeps ==
  ASSUME CInv, NEW k \in Clicks, Write(k) PROVE CInv'
  <1>1. PICK r, c, q : /\ r = request[k] /\ c = r.id
                       /\ q = [r EXCEPT !.pc = "emit", !.older = Telling(c)]
    OBVIOUS
  <1>2. /\ r \in Request /\ RequestOK(r) /\ r.pc = "write" /\ r.op \notin {"create", "reply"}
        /\ comment[c] = Nothing => r.op = "unreact"
    BY <1>1, RequestFacts, RequestKinds DEF Write
  <1>3. c \in Ids
    BY <1>1, <1>2 DEF RequestOK
  <1>4. /\ comment' = IF comment[c] = Nothing THEN comment
                      ELSE IF r.op = "delete" THEN Deleted(c)
                      ELSE [comment EXCEPT ![c] = Written(k, c)]
        /\ request' = [request EXCEPT ![k] = q]
        /\ missed' = Miss(Misled(k, c), c) /\ fetch' = Touch(Misled(k, c), {c})
        /\ UNCHANGED <<made, tab, queue, drops>>
    BY <1>1 DEF Write
  <1>5. /\ comment' \in [Ids -> Row \cup {Nothing}] /\ ThreadsAreWhole'
        /\ \A d \in Ids : comment'[d] # Nothing =>
             comment[d] # Nothing /\ comment'[d].parent = comment[d].parent
    <2>1. CASE comment[c] = Nothing
      BY <1>4, <2>1 DEF CInv, CommentsTypeOK, ThreadsAreWhole
    <2>2. CASE comment[c] # Nothing /\ r.op = "delete"
      <3>1. comment' = Deleted(c)
        BY <1>4, <2>2
      <3>2. /\ comment' \in [Ids -> Row \cup {Nothing}] /\ ThreadsAreWhole'
            /\ \A d \in Ids : comment'[d] # Nothing => comment'[d] = comment[d]
        BY <1>3, <3>1, DeletedFacts
      <3>3. QED BY <3>2
    <2>3. CASE comment[c] # Nothing /\ r.op # "delete"
      <3>1. comment[c] \in Row
        BY <1>3, <2>3 DEF CInv, CommentsTypeOK
      <3>2. r.op \in {"edit", "move", "resolve", "react", "unreact"}
        BY <1>2, <2>3 DEF Request, Ops
      <3>3. Written(k, c) \in Row /\ Written(k, c).parent = comment[c].parent
        BY <1>1, <1>2, <1>3, <3>1, <3>2, WrittenFacts, TabFacts DEF Request
      <3>4. comment' = [comment EXCEPT ![c] = Written(k, c)]
        BY <1>4, <2>3
      <3>5. PICK n : n = Written(k, c)
        OBVIOUS
      <3>6. QED BY <1>3, <2>3, <3>3, <3>4, <3>5, UpdatedFacts
    <2>4. QED BY <2>1, <2>2, <2>3
  <1>6. CommentsStay
    BY <1>4, <1>5, CommentsAssumption DEF CommentsStay, CInv, CommentsTypeOK, Ids
  <1>7. /\ q \in Request /\ q.pc = "emit" /\ q.op = r.op /\ q.id = c /\ q.ok = r.ok
        /\ q.entry = r.entry
    BY <1>1, <1>2 DEF Request, Telling
  <1>8. RequestOK(q)'
    BY <1>2, <1>3, <1>7 DEF RequestOK
  <1>9. CommentsTypeOK'
    <2>1. missed' \in [Tabs -> SUBSET Ids] /\ fetch' \in [Loads -> Fetch \cup {Nothing}]
      BY <1>3, <1>4, MissType, TouchType DEF CInv
    <2>2. request' \in [Clicks -> Request \cup AtRest]
      BY <1>4, <1>7 DEF CInv, CommentsTypeOK
    <2>3. \A d \in Ids : comment'[d] # Nothing => d <= made'
      BY <1>4, <1>5 DEF CInv, CommentsTypeOK
    <2>4. QED BY <1>4, <1>5, <2>1, <2>2, <2>3 DEF CInv, CommentsTypeOK
  <1>10. ASSUME NEW o \in Clicks PROVE RequestOK(request[o])'
    <2>1. CASE o = k
      <3>1. request'[o] = q
        BY <1>4, <2>1 DEF CInv, CommentsTypeOK
      <3>2. QED BY <1>8, <3>1 DEF RequestOK
    <2>2. CASE o # k
      <3>1. request'[o] = request[o] /\ made \in Ids
        BY <1>4, <2>2 DEF CInv, CommentsTypeOK
      <3>2. PICK p : p = request[o]
        OBVIOUS
      <3>3. p \in Request \cup AtRest /\ RequestOK(p)
        BY <3>2, RequestFacts
      <3>4. RequestOK(p)'
        BY <1>6, <3>1, <3>3, RequestStays
      <3>5. QED BY <3>1, <3>2, <3>4 DEF RequestOK
    <2>3. QED BY <2>1, <2>2
  <1>11. QED BY <1>5, <1>9, <1>10 DEF CInv

LEMMA EmitKeeps ==
  ASSUME CInv, NEW k \in Clicks, Emit(k) PROVE CInv'
  <1>1. PICK r, e, q :
          /\ r = request[k] /\ q = [r EXCEPT !.pc = "answer", !.older = {}]
          /\ e = [op |-> r.op, id |-> r.id, value |-> r.value, of |-> k, by |-> r.tab,
                  user |-> tab[r.tab].user, late |-> r.late]
    OBVIOUS
  <1>2. r \in Request /\ RequestOK(r) /\ r.pc = "emit" /\ r.id \in Ids
    BY <1>1, RequestFacts, RequestKinds DEF Emit, RequestOK
  <1>3. PICK lost, overtaken :
          /\ lost = {o \in Tabs : ~InRoom(o)} /\ overtaken = r.older \cap Telling(r.id)
    OBVIOUS
  <1>4. /\ queue' = IF IsReply(k) THEN queue
                    ELSE [o \in Tabs |-> IF InRoom(o) THEN Append(queue[o], e) ELSE queue[o]]
        /\ missed' = Miss(lost, r.id) /\ fetch' = Touch(lost, {r.id})
        /\ request' = [o \in Clicks |-> IF o = k THEN q
                                      ELSE IF o \in overtaken THEN [request[o] EXCEPT !.late = TRUE]
                                      ELSE request[o]]
        /\ UNCHANGED <<comment, made, tab, drops>>
    BY <1>1, <1>3 DEF Emit
  <1>5. queue' \in [Tabs -> Seq(Event)]
    <2>1. CASE IsReply(k)
      BY <1>4, <2>1 DEF CInv, CommentsTypeOK
    <2>2. CASE ~IsReply(k)
      <3>1. e \in Event
        BY <1>1, <1>2, <2>2, TabFacts DEF Event, Request, IsReply
      <3>2. \A o \in Tabs : queue[o] \in Seq(Event) /\ Append(queue[o], e) \in Seq(Event)
        BY <3>1 DEF CInv, CommentsTypeOK
      <3>3. QED BY <1>4, <2>2, <3>2
    <2>3. QED BY <2>1, <2>2
  <1>6. missed' \in [Tabs -> SUBSET Ids] /\ fetch' \in [Loads -> Fetch \cup {Nothing}]
    BY <1>2, <1>4, MissType, TouchType DEF CInv
  <1>7. ASSUME NEW o \in Clicks
        PROVE  /\ request'[o] \in Request \cup AtRest
               /\ request'[o] = request[o] \/ RequestOK(request[o])'
    <2>1. CASE o = k
      <3>1. request'[o] = q
        BY <1>4, <2>1
      <3>2. /\ q \in Request /\ q.pc = "answer" /\ q.op = r.op /\ q.id = r.id
            /\ q.ok = r.ok /\ q.entry = r.entry
        BY <1>1, <1>2 DEF Request
      <3>3. QED BY <1>2, <3>1, <3>2 DEF RequestOK
    <2>2. CASE o # k /\ o \in overtaken
      <3>1. PICK p, x : p = request[o] /\ x = [p EXCEPT !.late = TRUE]
        OBVIOUS
      <3>2. p \in Request /\ RequestOK(p) /\ p.pc = "emit"
        BY <1>3, <2>2, <3>1, RequestFacts, RequestKinds DEF Telling
      <3>3. /\ x \in Request /\ x.pc = "emit" /\ x.op = p.op /\ x.id = p.id
            /\ x.ok = p.ok /\ x.entry = p.entry
        BY <3>1, <3>2 DEF Request
      <3>4. request'[o] = x
        BY <1>4, <2>2, <3>1
      <3>5. QED BY <3>2, <3>3, <3>4 DEF RequestOK
    <2>3. CASE o # k /\ o \notin overtaken
      BY <1>4, <2>3, RequestFacts
    <2>4. QED BY <2>1, <2>2, <2>3
  <1>8. request' \in [Clicks -> Request \cup AtRest]
    <2>1. \A o \in Clicks : request'[o] \in Request \cup AtRest
      BY <1>7
    <2>2. DOMAIN request' = Clicks /\ request' = [o \in Clicks |-> request'[o]]
      BY <1>4
    <2>3. QED BY <2>1, <2>2
  <1>9. QED BY <1>4, <1>5, <1>6, <1>7, <1>8, RowsAside DEF CInv, CommentsTypeOK

-----------------------------------------------------------------------------
(* The answer, and the events. *)

LEMMA AnswerKeeps ==
  ASSUME CInv, NEW k \in Clicks, Answer(k) PROVE CInv'
  <1>1. PICK r, c, t : r = request[k] /\ c = r.id /\ t = r.tab
    OBVIOUS
  <1>2. /\ r \in Request /\ RequestOK(r) /\ r.pc = "answer" /\ r.ok /\ c \in Ids
        /\ t \in Tabs
    BY <1>1, RequestFacts, RequestKinds DEF Answer, RequestOK, Request
  <1>3. PICK x, own, l, th :
          /\ x = IF IsReply(k) THEN tab[t].list[c] ELSE Answered(k, tab[t].list[c])
          /\ own = IF r.op = "delete" THEN tab[t].thread.own \ {c} ELSE tab[t].thread.own
          /\ l = [tab[t].list EXCEPT ![c] = x]
          /\ th = [tab[t].thread EXCEPT !.own = own]
    OBVIOUS
  <1>4. tab[t] \in Tab /\ tab[t].list[c] \in Listed \cup {Nothing} /\ tab[t].user \in Users
    BY <1>2, TabFacts DEF Lists
  <1>5. x \in Listed \cup {Nothing}
    <2>1. r.op \in FromClosure => r.entry \in Listed
      BY <1>2 DEF RequestOK
    <2>2. Answered(k, tab[t].list[c]) \in Listed \cup {Nothing}
      BY <1>1, <1>2, <1>4, <2>1, AnsweredType
    <2>3. QED BY <1>3, <1>4, <2>2
  <1>6. l \in Lists /\ th \in [of : Ids, own : SUBSET Ids]
    BY <1>3, <1>4, <1>5 DEF Lists, Tab
  <1>7. tab' = [tab EXCEPT ![t] = [tab[t] EXCEPT !.list = l, !.thread = th]]
    BY <1>1, <1>2, <1>3, <1>4 DEF Answer, CInv, CommentsTypeOK, Tab
  <1>8. [tab[t] EXCEPT !.list = l, !.thread = th] \in Tab
    BY <1>4, <1>6 DEF Tab
  <1>9. tab' \in [Tabs -> Tab]
    BY <1>7, <1>8 DEF CInv, CommentsTypeOK
  <1>10. PICK ts : ts = IF r.op \in FromClosure /\ Pending(t, {k}, c) # {} THEN {t} ELSE {}
    OBVIOUS
  <1>11. /\ missed' = Miss(ts, c) /\ fetch' = Touch({t}, {c})
         /\ request' = [request EXCEPT ![k] = Done]
         /\ UNCHANGED <<comment, made, queue, drops>>
    BY <1>1, <1>10 DEF Answer
  <1>12. missed' \in [Tabs -> SUBSET Ids] /\ fetch' \in [Loads -> Fetch \cup {Nothing}]
    BY <1>2, <1>11, MissType, TouchType DEF CInv
  <1>13. /\ request' \in [Clicks -> Request \cup AtRest]
         /\ \A o \in Clicks : request'[o] = request[o] \/ RequestOK(request[o])'
    BY <1>11, DoneIsOK, RequestTurns
  <1>14. QED BY <1>9, <1>11, <1>12, <1>13, RowsAside DEF CInv, CommentsTypeOK

LEMMA AnswerFailsKeeps ==
  ASSUME CInv, NEW k \in Clicks, AnswerFails(k) PROVE CInv'
  <1>1. PICK r, c, t, wrong :
          /\ r = request[k] /\ c = r.id /\ t = r.tab
          /\ wrong = IF r.ok \/ r.op = "move" THEN {t} ELSE {}
    OBVIOUS
  <1>2. r \in Request /\ RequestOK(r) /\ r.pc = "answer" /\ t \in Tabs
    BY <1>1, RequestFacts, RequestKinds DEF AnswerFails, Request
  <1>3. wrong # {} => c \in Ids
    BY <1>1, <1>2 DEF RequestOK
  <1>4. PICK touched, f :
          touched = Touch(wrong, {c}) /\ f = IF r.op = "move" THEN Asked(t) ELSE touched[k]
    OBVIOUS
  <1>5. /\ missed' = Miss(wrong, c) /\ fetch' = [touched EXCEPT ![k] = f]
        /\ request' = [request EXCEPT ![k] = Done]
        /\ UNCHANGED <<comment, made, tab, queue, drops>>
    BY <1>1, <1>4 DEF AnswerFails
  <1>6. touched \in [Loads -> Fetch \cup {Nothing}] /\ missed' \in [Tabs -> SUBSET Ids]
    BY <1>3, <1>4, <1>5, MissType, TouchType DEF CInv
  <1>7. k \in Loads
    BY DEF Loads
  <1>8. Asked(t) \in Fetch
    BY <1>2 DEF Asked, Fetch
  <1>9. f \in Fetch \cup {Nothing}
    BY <1>4, <1>6, <1>7, <1>8
  <1>10. fetch' \in [Loads -> Fetch \cup {Nothing}]
    BY <1>5, <1>6, <1>9
  <1>11. /\ request' \in [Clicks -> Request \cup AtRest]
         /\ \A o \in Clicks : request'[o] = request[o] \/ RequestOK(request[o])'
    BY <1>5, DoneIsOK, RequestTurns
  <1>12. QED BY <1>5, <1>6, <1>10, <1>11, RowsAside DEF CInv, CommentsTypeOK

LEMMA ReceiveKeeps ==
  ASSUME CInv, NEW t \in Tabs, Receive(t) PROVE CInv'
  <1>1. PICK e : e = Head(queue[t])
    OBVIOUS
  <1>2. queue[t] \in Seq(Event) /\ queue[t] # << >>
    BY DEF Receive, CInv, CommentsTypeOK
  <1>3. e \in Event /\ Tail(queue[t]) \in Seq(Event)
    BY <1>1, <1>2
  <1>4. e.id \in Ids
    BY <1>3 DEF Event
  <1>5. PICK x, l : x = Told(tab[t].list[e.id], e) /\ l = [tab[t].list EXCEPT ![e.id] = x]
    OBVIOUS
  <1>6. /\ queue' = [queue EXCEPT ![t] = Tail(queue[t])]
        /\ tab' = IF Skipped(t, e) THEN tab ELSE [tab EXCEPT ![t] = [tab[t] EXCEPT !.list = l]]
        /\ missed' = missed \/ missed' = Miss({t}, e.id)
        /\ fetch' = Touch({t}, {e.id})
        /\ UNCHANGED <<comment, made, request, drops>>
    BY <1>1, <1>5 DEF Receive
  <1>7. tab[t] \in Tab /\ tab[t].list \in Lists /\ tab[t].list[e.id] \in Listed \cup {Nothing}
    BY <1>4, TabFacts DEF Lists
  <1>8. x \in Listed \cup {Nothing}
    BY <1>3, <1>5, <1>7, ToldType
  <1>9. l \in Lists
    BY <1>5, <1>7, <1>8 DEF Lists
  <1>10. [tab[t] EXCEPT !.list = l] \in Tab
    BY <1>7, <1>9 DEF Tab
  <1>11. tab' \in [Tabs -> Tab] /\ queue' \in [Tabs -> Seq(Event)]
    BY <1>3, <1>6, <1>10 DEF CInv, CommentsTypeOK
  <1>12. missed' \in [Tabs -> SUBSET Ids] /\ fetch' \in [Loads -> Fetch \cup {Nothing}]
    <2>1. CommentsTypeOK /\ missed \in [Tabs -> SUBSET Ids]
      BY DEF CInv, CommentsTypeOK
    <2>2. Miss({t}, e.id) \in [Tabs -> SUBSET Ids]
      BY <1>4, <2>1, MissType
    <2>3. {e.id} \subseteq Ids
      BY <1>4
    <2>4. Touch({t}, {e.id}) \in [Loads -> Fetch \cup {Nothing}]
      BY <2>1, <2>3, TouchType
    <2>5. QED BY <1>6, <2>1, <2>2, <2>4
  <1>13. QED BY <1>6, <1>11, <1>12, RowsAside DEF CInv, CommentsTypeOK

LEMMA JoinKeeps ==
  ASSUME CInv, NEW t \in Tabs, Join(t) PROVE CInv'
  <1>1. [tab[t] EXCEPT !.joined = TRUE] \in Tab
    BY TabFacts DEF Tab
  <1>2. tab' \in [Tabs -> Tab]
    BY <1>1 DEF Join, CInv, CommentsTypeOK
  <1>3. UNCHANGED <<comment, made, request, fetch, queue, missed, drops>>
    BY DEF Join
  <1>4. QED BY <1>2, <1>3, RowsAside DEF CInv, CommentsTypeOK

LEMMA DisconnectKeeps ==
  ASSUME CInv, NEW t \in Tabs, Disconnect(t) PROVE CInv'
  <1>1. PICK lost : lost = {queue[t][i].id : i \in 1..Len(queue[t])}
    OBVIOUS
  <1>2. \A i \in 1..Len(queue[t]) : queue[t][i] \in Event
    BY DEF CInv, CommentsTypeOK
  <1>3. lost \subseteq Ids
    BY <1>1, <1>2 DEF Event
  <1>4. /\ tab' = [tab EXCEPT ![t].joined = FALSE] /\ queue' = [queue EXCEPT ![t] = << >>]
        /\ missed' = [missed EXCEPT ![t] = missed[t] \cup lost]
        /\ fetch' = Touch({t}, lost)
        /\ drops' = drops + 1 /\ drops < DropBound
        /\ UNCHANGED <<comment, made, request>>
    BY <1>1 DEF Disconnect
  <1>5. [tab[t] EXCEPT !.joined = FALSE] \in Tab
    BY TabFacts DEF Tab
  <1>6. tab' \in [Tabs -> Tab] /\ queue' \in [Tabs -> Seq(Event)]
    BY <1>4, <1>5 DEF CInv, CommentsTypeOK
  <1>7. missed' \in [Tabs -> SUBSET Ids]
    BY <1>3, <1>4 DEF CInv, CommentsTypeOK
  <1>8. fetch' \in [Loads -> Fetch \cup {Nothing}]
    BY <1>3, <1>4, TouchType DEF CInv
  <1>9. drops' \in 0..DropBound
    BY <1>4, CommentsAssumption DEF CInv, CommentsTypeOK
  <1>10. QED BY <1>4, <1>6, <1>7, <1>8, <1>9, RowsAside DEF CInv, CommentsTypeOK

-----------------------------------------------------------------------------
(* The list. *)

LEMMA ListKeeps ==
  ASSUME CInv, NEW f \in Loads,
         GetComments(f) \/ SetComments(f) \/ GetCommentsFails(f)
  PROVE  CInv'
  <1>1. UNCHANGED <<comment, made, request, queue, drops>>
    BY DEF GetComments, SetComments, GetCommentsFails
  <1>2. PICK g, t : g = fetch[f] /\ t = g.tab
    OBVIOUS
  <1>3. g # Nothing => g \in Fetch /\ t \in Tabs
    BY <1>2 DEF CInv, CommentsTypeOK, Fetch
  <1>4. CASE GetComments(f)
    <2>1. PICK l, seen : l = ListFor(tab[t].user) /\ seen = CountedTwice(t) \cup (TopLevel \ Newest)
      OBVIOUS
    <2>2. t \in Tabs /\ g \in Fetch
      BY <1>2, <1>3, <1>4 DEF GetComments
    <2>3. CountedTwice(t) \subseteq Ids
      <3>1. \A i \in 1..Len(queue[t]) : queue[t][i].id \in Ids
        <4>1. \A i \in 1..Len(queue[t]) : queue[t][i] \in Event
          BY <2>2 DEF CInv, CommentsTypeOK
        <4>2. QED BY <4>1 DEF Event
      <3>2. \A o \in Clicks : request[o].pc = "emit" => request[o].id \in Ids
        BY RequestFacts DEF RequestOK
      <3>3. QED BY <3>1, <3>2 DEF CountedTwice
    <2>4. l \in Lists
      BY <2>1, <2>2, ListForType, TabFacts DEF CInv, CommentsTypeOK
    <2>5. seen \subseteq Ids
      BY <2>1, <2>3 DEF TopLevel
    <2>6. fetch' = [fetch EXCEPT ![f] = [g EXCEPT !.list = l, !.seen = seen]]
          /\ tab' = tab /\ missed' = missed
      BY <1>2, <1>4, <2>1, <2>2 DEF GetComments, Fetch, CInv, CommentsTypeOK
    <2>7. [g EXCEPT !.list = l, !.seen = seen] \in Fetch
      BY <2>2, <2>4, <2>5 DEF Fetch
    <2>8. fetch' \in [Loads -> Fetch \cup {Nothing}]
      BY <2>6, <2>7 DEF CInv, CommentsTypeOK
    <2>9. QED BY <1>1, <2>6, <2>8, RowsAside DEF CInv, CommentsTypeOK
  <1>5. CASE SetComments(f)
    <2>1. g \in Fetch /\ t \in Tabs /\ g.list # Nothing
      BY <1>2, <1>3, <1>5 DEF SetComments
    <2>2. PICK l, m : l = g.list /\ m = g.seen \cup {c \in Ids : Pending(t, {}, c) # {}}
      OBVIOUS
    <2>3. l \in Lists /\ m \subseteq Ids
      BY <2>1, <2>2 DEF Fetch
    <2>4. /\ tab' = [tab EXCEPT ![t] = [tab[t] EXCEPT !.list = l]]
          /\ missed' = [missed EXCEPT ![t] = m] /\ fetch' = [fetch EXCEPT ![f] = Nothing]
      BY <1>2, <1>5, <2>2 DEF SetComments
    <2>5. [tab[t] EXCEPT !.list = l] \in Tab
      BY <2>1, <2>3, TabFacts DEF Tab
    <2>6. /\ tab' \in [Tabs -> Tab] /\ fetch' \in [Loads -> Fetch \cup {Nothing}]
          /\ missed' \in [Tabs -> SUBSET Ids]
      BY <2>1, <2>3, <2>4, <2>5 DEF CInv, CommentsTypeOK
    <2>7. QED BY <1>1, <2>6, RowsAside DEF CInv, CommentsTypeOK
  <1>6. CASE GetCommentsFails(f)
    <2>1. /\ tab' = tab /\ missed' = missed
          /\ fetch' \in [Loads -> Fetch \cup {Nothing}]
      BY <1>6 DEF GetCommentsFails, CInv, CommentsTypeOK
    <2>2. QED BY <1>1, <2>1, RowsAside DEF CInv, CommentsTypeOK
  <1>7. QED BY <1>4, <1>5, <1>6

-----------------------------------------------------------------------------
LEMMA CommentsInvariant == CommentsSpec => []CInv
  <1>1. CommentsInit => CInv
    <2> SUFFICES ASSUME CommentsInit PROVE CInv
      OBVIOUS
    <2>1. PICK a \in Users \ {Owner}, x \in SUBSET {Owner} :
            comment = [c \in Ids |->
              IF c = 1 THEN [parent |-> 0, author |-> a, body |-> FALSE, anchor |-> FALSE,
                             resolved |-> FALSE, reacted |-> x]
              ELSE Nothing]
      BY DEF CommentsInit
    <2>2. PICK n : n = [parent |-> 0, author |-> a, body |-> FALSE, anchor |-> FALSE,
                        resolved |-> FALSE, reacted |-> x]
      OBVIOUS
    <2>3. n \in Row /\ n.parent = 0
      BY <2>2, CommentsAssumption DEF Row
    <2>4. 1 \in Ids /\ made = 1
      BY CommentsAssumption DEF CommentsInit, Ids
    <2>5. \A c \in Ids : comment[c] = IF c = 1 THEN n ELSE Nothing
      BY <2>1, <2>2
    <2>6. comment \in [Ids -> Row \cup {Nothing}]
      BY <2>1, <2>2, <2>3
    <2>7. PICK u \in [Tabs -> Users], opened \in Tabs :
            /\ tab = [t \in Tabs |->
                 [user |-> u[t], joined |-> TRUE,
                  thread |-> [of |-> 1, own |-> {}],
                  list |-> [c \in Ids |-> IF t = opened THEN Nothing ELSE ListFor(u[t])[c]]]]
            /\ missed = [t \in Tabs |-> IF t = opened THEN Ids ELSE {}]
            /\ fetch = [f \in Loads |-> IF f = Nothing THEN Asked(opened) ELSE Nothing]
      BY DEF CommentsInit
    <2>8. ASSUME NEW t \in Tabs PROVE tab[t] \in Tab
      <3>1. ListFor(u[t]) \in Lists
        BY <2>6, ListForType
      <3>2. PICK l : l = [c \in Ids |-> IF t = opened THEN Nothing ELSE ListFor(u[t])[c]]
        OBVIOUS
      <3>3. l \in Lists
        BY <3>1, <3>2 DEF Lists
      <3>4. tab[t] = [user |-> u[t], joined |-> TRUE,
                      thread |-> [of |-> 1, own |-> {}], list |-> l]
        BY <2>7, <3>2
      <3>5. QED BY <2>4, <3>2, <3>3, <3>4 DEF Tab
    <2>9. tab \in [Tabs -> Tab]
      <3>1. DOMAIN tab = Tabs /\ tab = [t \in Tabs |-> tab[t]]
        BY <2>7
      <3>2. QED BY <2>8, <3>1
    <2>10. missed \in [Tabs -> SUBSET Ids]
      BY <2>7
    <2>11. queue \in [Tabs -> Seq(Event)]
      BY DEF CommentsInit
    <2>12. \A c \in Ids : comment[c] # Nothing => c <= made
      BY <2>4, <2>5
    <2>13. CommentsTypeOK
      <3>1. /\ request \in [Clicks -> Request \cup AtRest]
            /\ fetch \in [Loads -> Fetch \cup {Nothing}]
        BY <2>7 DEF CommentsInit, Asked, Fetch, AtRest
      <3>2. drops \in 0..DropBound
        BY CommentsAssumption DEF CommentsInit
      <3>3. QED
        BY <2>4, <2>6, <2>9, <2>10, <2>11, <2>12, <3>1, <3>2 DEF CommentsTypeOK
    <2>14. ThreadsAreWhole
      BY <2>3, <2>5 DEF ThreadsAreWhole
    <2>15. \A k \in Clicks : RequestOK(request[k])
      BY DEF CommentsInit, RequestOK, Unsent
    <2>16. QED BY <2>13, <2>14, <2>15 DEF CInv
  <1>2. CInv /\ [CommentsNext]_commentsVars => CInv'
    <2> SUFFICES ASSUME CInv, [CommentsNext]_commentsVars PROVE CInv'
      OBVIOUS
    <2>1. ASSUME NEW t \in Tabs, NEW c \in Ids,
                 \/ LoadReplies(t, c) \/ DeleteReply(t, c)
                 \/ \E op \in Ops \ {"create"} : Act(t, c, op)
          PROVE  CInv'
      BY <2>1, LoadRepliesKeeps, DeleteReplyKeeps, ActKeeps
    <2>2. ASSUME NEW k \in Clicks, CheckFails(k) \/ WriteFails(k) PROVE CInv'
      <3>1. request[k].pc \in {"check", "write"} /\ Refuse(k)
        BY <2>2 DEF CheckFails, WriteFails
      <3>2. Busy(k)
        BY <3>1, RequestFacts, RequestKinds DEF Busy
      <3>3. QED BY <3>1, <3>2, RefuseKeeps
    <2>3. ASSUME NEW k \in Clicks,
                 \/ Check(k) \/ Insert(k) \/ Write(k) \/ Emit(k) \/ Answer(k) \/ AnswerFails(k)
          PROVE  CInv'
      BY <2>3, CheckKeeps, InsertKeeps, WriteKeeps, EmitKeeps, AnswerKeeps, AnswerFailsKeeps
    <2>4. ASSUME NEW t \in Tabs, CreateComment(t) \/ Receive(t) \/ Join(t) \/ Disconnect(t)
          PROVE  CInv'
      BY <2>4, CreateCommentKeeps, ReceiveKeeps, JoinKeeps, DisconnectKeeps
    <2>5. CASE UNCHANGED commentsVars
      BY <2>5 DEF commentsVars, CInv, CommentsTypeOK, ThreadsAreWhole, RequestOK
    <2>6. QED BY <2>1, <2>2, <2>3, <2>4, <2>5, ListKeeps DEF CommentsNext
  <1>3. QED BY <1>1, <1>2, PTL DEF CommentsSpec

\* The comments, the tabs' lists, the requests and the events under way keep their types.
THEOREM CommentsTypeCorrect == CommentsSpec => []CommentsTypeOK
  <1>1. CInv => CommentsTypeOK
    BY DEF CInv
  <1>2. QED BY <1>1, CommentsInvariant, PTL

\* However the deletion of a comment falls between the check of a reply's parent and its
\* insertion, every reply belongs to a comment that is there and is not a reply itself.
THEOREM RepliesHaveComments == CommentsSpec => []ThreadsAreWhole
  <1>1. CInv => ThreadsAreWhole
    BY DEF CInv
  <1>2. QED BY <1>1, CommentsInvariant, PTL
=============================================================================
