-------------------------- MODULE OidcSignInProofs --------------------------
(***************************************************************************)
(* Proofs about OidcSignIn for any persons, addresses, accounts, browsers, *)
(* callbacks, settings and bounds.                                         *)
(***************************************************************************)
EXTENDS OidcSignIn, TLAPS

\* What a flow leads to stays with the browser that started it: the cookie, the
\* callback that has read the cookie, and the answer that opens a session.
OwnedByStarter(state) ==
  /\ state.pc = "exchange" => starter[state.cookie] = state.browser
  /\ state.pc = "resolve" => starter[state.code.flow] = state.browser
  /\ state.pc = "answer" /\ state.session # None =>
       starter[state.session.flow] = state.browser

FlowsAreOwned ==
  /\ \A b \in Browsers : cookie[b] # 0 => starter[cookie[b]] = b
  /\ \A h \in Handlers : OwnedByStarter(handler[h])

\* The account of a session exists, and has grounds for what the token claims.
Backed(s) ==
  account[s.account] \in User /\ (s.member => account[s.account].grounds)

SessionsAreBacked ==
  /\ \A b \in Browsers : session[b] # None => Backed(session[b])
  /\ \A h \in Handlers :
       handler[h].pc = "answer" /\ handler[h].session # None => Backed(handler[h].session)

\* Only accounts are linked.
LinksHaveRows == \A a \in Accounts : linked[a] # None => account[a] \in User

IInv ==
  /\ TypeOK /\ LinksHaveRows
  /\ FlowsAreOwned /\ AnswersItsOwnBrowser
  /\ SessionsAreBacked /\ AdminsHaveGrounds

-----------------------------------------------------------------------------
(* Types. *)

\* What a callback can hold, by the step it is at.
LEMMA HandlerTypes ==
  ASSUME TypeOK, NEW h \in Handlers
  PROVE  /\ handler[h].pc = "exchange" =>
              /\ handler[h].browser \in Browsers /\ handler[h].cookie \in Flows
              /\ handler[h].code \in Code
         /\ handler[h].pc = "resolve" =>
              /\ handler[h].browser \in Browsers /\ handler[h].code \in Code
              /\ handler[h].claims \in Claims
         /\ handler[h].pc = "answer" =>
              handler[h].browser \in Browsers /\ handler[h].session \in Answer
  <1>1. handler[h] \in HandlerState
    BY DEF TypeOK
  <1>2. QED BY <1>1 DEF HandlerState, Idle

\* The three states a callback goes through.
LEMMA StateTypes ==
  ASSUME NEW b \in Browsers, NEW c \in Code
  PROVE  /\ \A f \in Flows :
              [pc |-> "exchange", browser |-> b, cookie |-> f, code |-> c] \in HandlerState
         /\ \A claims \in Claims :
              [pc |-> "resolve", browser |-> b, code |-> c, claims |-> claims] \in HandlerState
         /\ \A s \in Answer : [pc |-> "answer", browser |-> b, session |-> s] \in HandlerState
         /\ Idle \in HandlerState
  BY DEF HandlerState

\* One field of a row changes, or the role together with its grounds.
LEMMA RowChanges ==
  ASSUME NEW u \in User
  PROVE  /\ \A address \in Addresses : [u EXCEPT !.address = address] \in User
         /\ \A truth \in BOOLEAN : /\ [u EXCEPT !.admin = truth] \in User
                                  /\ [u EXCEPT !.grounds = truth] \in User
         /\ [u EXCEPT !.active = ~@] \in User
         /\ [u EXCEPT !.admin = ~@, !.grounds = TRUE] \in User
  BY DEF User

\* The others stay.
LEMMA RowsKeep ==
  ASSUME NEW u \in User, NEW truth
  PROVE  /\ [u EXCEPT !.admin = truth].address = u.address
         /\ [u EXCEPT !.grounds = truth].address = u.address
         /\ [u EXCEPT !.active = truth].address = u.address
         /\ [u EXCEPT !.admin = truth, !.grounds = TRUE].address = u.address
  BY DEF User

\* One claim of the directory changes.
LEMMA ClaimChanges ==
  ASSUME NEW c \in Claims
  PROVE  /\ \A address \in Addresses : [c EXCEPT !.address = address] \in Claims
         /\ [c EXCEPT !.verified = ~@] \in Claims
         /\ [c EXCEPT !.member = ~@] \in Claims
  BY DEF Claims

\* An account that is opened has a session.
LEMMA SessionType ==
  ASSUME TypeOK, NEW h \in Handlers, handler[h].pc = "resolve", NEW a \in Accounts
  PROVE  [account |-> a, member |-> handler[h].claims.member, flow |-> handler[h].code.flow]
           \in Session
  BY HandlerTypes DEF Session, Claims, Code

\* Types are kept by a step that changes one callback and no table.
LEMMA HandlerChange ==
  ASSUME TypeOK, NEW h \in Handlers, NEW state \in HandlerState, Becomes(h, state),
         UNCHANGED <<system, directory, account, linked, starter, cookie, session, changes>>,
         client' \in BOOLEAN, codes' \subseteq Code
  PROVE  TypeOK'
  BY DEF TypeOK, Becomes, Existing, system

\* Types are kept by the transaction of a callback, provided that the tables have
\* their types and indexes after it.
LEMMA AccountChange ==
  ASSUME TypeOK, NEW h \in Handlers, NEW state \in HandlerState, Becomes(h, state),
         UNCHANGED <<system, directory, client, starter, cookie, codes, session, changes>>,
         account' \in [Accounts -> User \cup {None}],
         linked' \in [Accounts -> Persons \cup {None}],
         \A a, b \in Existing' : account'[a].address = account'[b].address => a = b,
         \A a, b \in Accounts : linked'[a] = linked'[b] /\ linked'[a] # None => a = b
  PROVE  TypeOK'
  BY DEF TypeOK, Becomes, Existing, system

\* A row that keeps its address, or has one that is free, keeps the index.
LEMMA AddressesStayUnique ==
  ASSUME NoneAssumption, TypeOK, NEW c \in Accounts, NEW u \in User,
         account' = [account EXCEPT ![c] = u],
         \/ c \in Existing /\ u.address = account[c].address
         \/ WithAddress(u.address) = {}
  PROVE  /\ account' \in [Accounts -> User \cup {None}]
         /\ \A a, b \in Existing' : account'[a].address = account'[b].address => a = b
  <1>1. account' \in [Accounts -> User \cup {None}]
    BY DEF TypeOK
  <1>2. \A a \in Existing' : a = c \/ a \in Existing
    BY <1>1 DEF TypeOK, Existing
  <1>3. \A a \in Existing : a # c => account'[a] = account[a] /\ account'[a].address # u.address
    BY <1>1 DEF TypeOK, Existing, WithAddress
  <1>4. account'[c] = u
    BY <1>1 DEF TypeOK
  <1>5. QED BY <1>1, <1>2, <1>3, <1>4 DEF TypeOK

\* An invitation makes a row, of an administrator only with grounds.
LEMMA InvitedRow ==
  ASSUME NEW a \in Accounts, NEW address \in Addresses, CreateUser(a, address)
  PROVE  \E u \in User : /\ account' = [account EXCEPT ![a] = u]
                         /\ u.address = address
                         /\ u.admin = u.grounds
  <1>1. PICK admin \in BOOLEAN, active \in BOOLEAN, local \in BOOLEAN :
          account' = [account EXCEPT ![a] =
                        [address |-> address, admin |-> admin, active |-> active,
                         local |-> local, grounds |-> admin]]
    BY DEF CreateUser
  <1> DEFINE u == [address |-> address, admin |-> admin, active |-> active,
                   local |-> local, grounds |-> admin]
  <1>2. u \in User /\ u.address = address /\ u.admin = u.grounds
    BY DEF User
  <1>3. QED BY <1>1, <1>2

\* The initial state has the types.
LEMMA InitType == ConstantsAssumption /\ Init => TypeOK
  <1> SUFFICES ASSUME ConstantsAssumption, Init PROVE TypeOK
    OBVIOUS
  <1>1. others \in BOOLEAN /\ jit \in BOOLEAN
    BY DEF Init, ConstantsAssumption
  <1>2. account \in [Accounts -> User \cup {None}] /\ directory \in [Persons -> Claims]
    BY DEF Init
  <1>3. handler \in [Handlers -> HandlerState]
    BY DEF Init, HandlerState
  <1>4. cookie \in [Browsers -> 0..FlowBound] /\ changes \in 0..ChangeBound
    BY DEF Init, ConstantsAssumption
  <1>5. QED BY <1>1, <1>2, <1>3, <1>4 DEF Init, TypeOK

\* Browsers, the provider and the server's restart.
LEMMA FlowType ==
  ASSUME ConstantsAssumption, TypeOK,
         \/ \E b \in Browsers : (\E f \in Flows : Start(b, f)) \/ StartFails(b)
         \/ Restart
         \/ \E p \in Persons : DirectoryChanges(p) \/ \E f \in Flows : SignsIn(p, f)
  PROVE  TypeOK'
  <1>1. ASSUME NEW b \in Browsers, NEW f \in Flows, Start(b, f) PROVE TypeOK'
    <2>1. cookie' \in [Browsers -> 0..FlowBound] /\ starter' \in [Flows -> Browsers \cup {None}]
      BY <1>1 DEF Start, TypeOK, Flows, ConstantsAssumption
    <2>2. QED BY <1>1, <2>1 DEF Start, Discovered, TypeOK, Existing, system
  <1>2. ASSUME NEW b \in Browsers, StartFails(b) PROVE TypeOK'
    <2>1. cookie' \in [Browsers -> 0..FlowBound]
      BY <1>2 DEF StartFails, TypeOK, ConstantsAssumption
    <2>2. QED BY <1>2, <2>1 DEF StartFails, TypeOK, Existing, system
  <1>3. CASE Restart
    <2>1. handler' \in [Handlers -> HandlerState]
      BY <1>3, StateTypes DEF Restart, HandlerState
    <2>2. QED BY <1>3, <2>1 DEF Restart, TypeOK, Existing, system
  <1>4. ASSUME NEW p \in Persons, DirectoryChanges(p) PROVE TypeOK'
    <2>1. directory' \in [Persons -> Claims]
      <3>1. directory[p] \in Claims
        BY DEF TypeOK
      <3>2. PICK c \in Claims : directory' = [directory EXCEPT ![p] = c]
        BY <1>4, <3>1, ClaimChanges DEF DirectoryChanges
      <3>3. QED BY <3>2 DEF TypeOK
    <2>2. changes' \in 0..ChangeBound
      BY <1>4 DEF DirectoryChanges, Changing, TypeOK, ConstantsAssumption
    <2>3. QED BY <1>4, <2>1, <2>2 DEF DirectoryChanges, TypeOK, Existing, system
  <1>5. ASSUME NEW p \in Persons, NEW f \in Flows, SignsIn(p, f) PROVE TypeOK'
    BY <1>5 DEF SignsIn, TypeOK, Existing, system, Code
  <1>6. QED BY <1>1, <1>2, <1>3, <1>4, <1>5

\* The callback up to its transaction, and its answer.
LEMMA CallbackType ==
  ASSUME ConstantsAssumption, TypeOK, NEW h \in Handlers,
         \/ \E b \in Browsers, c \in Code : Callback(h, b, c)
         \/ Exchange(h) \/ ExchangeFails(h) \/ AlgorithmDiffers(h) \/ Arrives(h)
  PROVE  TypeOK'
  <1>1. ASSUME NEW b \in Browsers, NEW c \in Code, Callback(h, b, c) PROVE TypeOK'
    <2>1. cookie[b] # 0 => cookie[b] \in Flows
      BY DEF TypeOK, Flows, ConstantsAssumption
    <2>2. PICK state \in HandlerState : Becomes(h, state)
      BY <1>1, <2>1, StateTypes DEF Callback, Answer
    <2>3. QED BY <1>1, <2>2, HandlerChange DEF Callback, TypeOK
  <1>2. CASE Exchange(h)
    <2>1. PICK state \in HandlerState : Becomes(h, state)
      BY <1>2, HandlerTypes, StateTypes DEF Exchange, Answers, Answer, TypeOK, Code
    <2>2. client' \in BOOLEAN /\ codes' \subseteq Code
      BY <1>2 DEF Exchange, Discovered, TypeOK
    <2>3. QED BY <1>2, <2>1, <2>2, HandlerChange DEF Exchange
  <1>3. CASE ExchangeFails(h)
    <2>1. PICK state \in HandlerState : Becomes(h, state)
      BY <1>3, HandlerTypes, StateTypes DEF ExchangeFails, Answers, Answer
    <2>2. QED BY <1>3, <2>1, HandlerChange DEF ExchangeFails, TypeOK
  <1>4. CASE Arrives(h)
    <2> DEFINE b == handler[h].browser
    <2>1. b \in Browsers /\ handler[h].session \in Answer
      BY <1>4, HandlerTypes DEF Arrives
    <2>2. cookie' \in [Browsers -> 0..FlowBound]
      BY <1>4, <2>1 DEF Arrives, TypeOK, ConstantsAssumption
    <2>3. session' \in [Browsers -> Session \cup {None}]
      BY <1>4, <2>1 DEF Arrives, TypeOK, Answer
    <2>4. handler' \in [Handlers -> HandlerState]
      BY <1>4 DEF Arrives, Becomes, TypeOK, HandlerState
    <2>5. QED BY <1>4, <2>2, <2>3, <2>4 DEF Arrives, TypeOK, Existing, system
  <1>5. CASE AlgorithmDiffers(h)
    <2>1. PICK state \in HandlerState : Becomes(h, state)
      BY <1>5, HandlerTypes, StateTypes DEF AlgorithmDiffers, Answers, Answer
    <2>2. client' \in BOOLEAN /\ codes' \subseteq Code
      BY <1>5 DEF AlgorithmDiffers, Discovered, TypeOK
    <2>3. QED BY <1>5, <2>1, <2>2, HandlerChange DEF AlgorithmDiffers
  <1>6. QED BY <1>1, <1>2, <1>3, <1>4, <1>5

\* What linking leaves is a row, with the address of the claims.
LEMMA LinkedRow ==
  ASSUME TypeOK, NEW h \in Handlers, handler[h].pc = "resolve", NEW a \in Accounts,
         NEW admin \in BOOLEAN, NEW local \in BOOLEAN, NEW grounds \in BOOLEAN,
         Link(a, h, admin, local, grounds)
  PROVE  \E u \in User : /\ account' = [account EXCEPT ![a] = u]
                         /\ u.address = handler[h].claims.address
                         /\ u.admin = RoleOnLinking(admin, handler[h].claims.member)
                         /\ u.grounds = (grounds \/ handler[h].claims.member)
  <1> DEFINE claims == handler[h].claims
             u == [address |-> claims.address, active |-> TRUE, local |-> local,
                   admin |-> RoleOnLinking(admin, claims.member),
                   grounds |-> grounds \/ claims.member]
  <1>1. claims.address \in Addresses /\ claims.member \in BOOLEAN
    BY HandlerTypes DEF Claims
  <1>2. RoleOnLinking(admin, claims.member) \in BOOLEAN
    BY <1>1 DEF RoleOnLinking
  <1>3. u \in User
    BY <1>1, <1>2 DEF User
  <1>4. QED BY <1>3 DEF Link

\* A subject is linked to one account at most after linking, if none had it before.
LEMMA SubjectsStayUnique ==
  ASSUME TypeOK, NEW c \in Accounts, NEW p \in Persons, LinkedTo(p) = {},
         linked' = [linked EXCEPT ![c] = p]
  PROVE  /\ linked' \in [Accounts -> Persons \cup {None}]
         /\ \A a, b \in Accounts : linked'[a] = linked'[b] /\ linked'[a] # None => a = b
  BY DEF TypeOK, LinkedTo

\* A callback that resolves its account by linking.
LEMMA LinkType ==
  ASSUME TypeOK, NEW h \in Handlers, handler[h].pc = "resolve", NEW a \in Accounts,
         NEW admin \in BOOLEAN, NEW local \in BOOLEAN, NEW grounds \in BOOLEAN,
         Link(a, h, admin, local, grounds),
         LinkedTo(handler[h].code.person) = {},
         a \in WithAddress(handler[h].claims.address)
           \/ WithAddress(handler[h].claims.address) = {},
         UNCHANGED <<system, directory, client, starter, cookie, codes, session, changes>>
  PROVE  TypeOK'
  <1>1. PICK u \in User : /\ account' = [account EXCEPT ![a] = u]
                          /\ u.address = handler[h].claims.address
    BY LinkedRow
  <1>2. handler[h].browser \in Browsers /\ handler[h].code.person \in Persons
    BY HandlerTypes DEF Code
  <1>3. PICK state \in HandlerState : Becomes(h, state)
    BY <1>2, SessionType, StateTypes, HandlerTypes DEF Link, Opens, Answers, Answer
  <1>4. /\ linked' \in [Accounts -> Persons \cup {None}]
        /\ \A b, c \in Accounts : linked'[b] = linked'[c] /\ linked'[b] # None => b = c
    BY <1>2, SubjectsStayUnique DEF Link
  <1>5. /\ account' \in [Accounts -> User \cup {None}]
        /\ \A b, c \in Existing' : account'[b].address = account'[c].address => b = c
    <2>1. account' \in [Accounts -> User \cup {None}] /\ account'[a] = u
      BY <1>1 DEF TypeOK
    <2>2. ASSUME NEW b \in Existing', b # a
          PROVE  b \in Existing /\ account'[b] = account[b] /\ account'[b].address # u.address
      BY <1>1, <2>2 DEF Existing, TypeOK, WithAddress
    <2>3. QED BY <2>1, <2>2 DEF TypeOK, Existing
  <1>6. QED BY <1>3, <1>4, <1>5, AccountChange

\* A refusal is an answer without a session.
LEMMA RefusalType ==
  ASSUME TypeOK, NEW h \in Handlers, handler[h].pc = "resolve", Answers(h, None),
         UNCHANGED <<system, directory, account, linked, client, starter, cookie, codes,
                     session, changes>>
  PROVE  TypeOK'
  <1>1. PICK state \in HandlerState : Becomes(h, state)
    BY HandlerTypes, StateTypes DEF Answers, Answer
  <1>2. QED BY <1>1, HandlerChange DEF TypeOK

\* The transaction of a callback.
LEMMA ResolveType ==
  ASSUME ConstantsAssumption, NoneAssumption, TypeOK, LinksHaveRows,
         NEW h \in Handlers, NEW a \in Accounts,
         ResolveLinked(h, a) \/ ResolveByAddress(h, a) \/ ResolveNew(h, a)
  PROVE  TypeOK'
  <1> DEFINE claims == handler[h].claims
  <1>1. handler[h].pc = "resolve"
    BY DEF ResolveLinked, ResolveByAddress, ResolveNew, ToResolve
  <1>2. handler[h].browser \in Browsers /\ handler[h].code \in Code /\ claims \in Claims
    BY <1>1, HandlerTypes
  <1>3. CASE Answers(h, None) /\ UNCHANGED <<account, linked>>
    BY <1>1, <1>3, RefusalType DEF ResolveLinked, ResolveByAddress, ResolveNew
  <1>4. CASE ResolveLinked(h, a) /\ account[a].active /\ a \in Existing
    <2>1. account[a] \in User /\ claims.member \in BOOLEAN
      BY <1>2, <1>4 DEF TypeOK, Existing, Claims
    <2> DEFINE u == [account[a] EXCEPT !.grounds = @ \/ claims.member]
    <2>2. u \in User /\ u.address = account[a].address
      BY <2>1 DEF User
    <2>3. account' = [account EXCEPT ![a] = u]
      BY <1>4 DEF ResolveLinked
    <2>4. /\ account' \in [Accounts -> User \cup {None}]
          /\ \A b, c \in Existing' : account'[b].address = account'[c].address => b = c
      BY <1>4, <2>2, <2>3, AddressesStayUnique
    <2>5. PICK state \in HandlerState : Becomes(h, state)
      BY <1>1, <1>2, <1>4, SessionType, StateTypes
      DEF ResolveLinked, Opens, Answers, Answer
    <2>6. QED BY <1>4, <2>4, <2>5, AccountChange DEF ResolveLinked, TypeOK
  <1>5. CASE ResolveByAddress(h, a) /\ account[a].active
    <2>1. account[a] \in User
      BY <1>5 DEF ResolveByAddress, WithAddress, Existing, TypeOK
    <2>2. QED BY <1>1, <1>5, <2>1, LinkType DEF ResolveByAddress, User
  <1>6. CASE ResolveNew(h, a) /\ jit
    BY <1>1, <1>6, LinkType DEF ResolveNew, ConstantsAssumption
  <1>7. ResolveLinked(h, a) => a \in Existing
    <2>1. ASSUME ResolveLinked(h, a) PROVE linked[a] # None
      BY <1>2, <2>1 DEF ResolveLinked, LinkedTo, Code, ConstantsAssumption
    <2>2. QED BY <2>1 DEF LinksHaveRows, NoneAssumption, Existing
  <1>8. QED
    BY <1>3, <1>4, <1>5, <1>6, <1>7 DEF ResolveLinked, ResolveByAddress, ResolveNew

\* The requests of sessions and the changes of accounts: one row changes.
LEMMA RequestType ==
  ASSUME ConstantsAssumption, NoneAssumption, TypeOK, SessionsAreBacked,
         \/ \E b \in Browsers : Request(b)
         \/ \E a \in Accounts : \/ AccountChanges(a)
                                \/ \E address \in Addresses :
                                     AddressChanges(a, address) \/ CreateUser(a, address)
         \/ ProvisioningChanges
  PROVE  TypeOK'
  <1>1. ASSUME NEW a \in Accounts, NEW u \in User, account' = [account EXCEPT ![a] = u],
               \/ a \in Existing /\ u.address = account[a].address
               \/ WithAddress(u.address) = {},
               UNCHANGED <<system, directory, linked, client, starter, cookie, codes, session,
                           handler>>,
               changes' \in 0..ChangeBound
        PROVE  TypeOK'
    <2>1. /\ account' \in [Accounts -> User \cup {None}]
          /\ \A b, c \in Existing' : account'[b].address = account'[c].address => b = c
      BY <1>1, AddressesStayUnique
    <2>2. QED BY <1>1, <2>1 DEF TypeOK, system
  <1>2. Changing => changes' \in 0..ChangeBound
    BY DEF Changing, TypeOK, ConstantsAssumption
  <1>3. \A a \in Existing : a \in Accounts /\ account[a] \in User
    BY DEF TypeOK, Existing
  <1>4. ASSUME NEW b \in Browsers, Request(b) PROVE TypeOK'
    <2> DEFINE a == session[b].account
               u == [account[a] EXCEPT !.admin = session[b].member]
    <2>1. session[b] \in Session /\ account[a] \in User
      BY <1>4 DEF Request, TypeOK, SessionsAreBacked, Backed
    <2>2. a \in Accounts /\ a \in Existing /\ session[b].member \in BOOLEAN
      BY <2>1 DEF Session, Existing, NoneAssumption
    <2>3. u \in User /\ u.address = account[a].address
      BY <2>1, <2>2, RowChanges, RowsKeep
    <2>4. account' = [account EXCEPT ![a] = u]
      BY <1>4 DEF Request
    <2>5. changes' \in 0..ChangeBound
      BY <1>4 DEF Request, TypeOK
    <2>6. QED BY <1>1, <1>4, <2>2, <2>3, <2>4, <2>5 DEF Request
  <1>5. ASSUME NEW a \in Accounts, AccountChanges(a) PROVE TypeOK'
    <2>1. a \in Existing /\ account[a] \in User
      BY <1>3, <1>5 DEF AccountChanges
    <2>2. CASE account' = [account EXCEPT ![a].active = ~@]
      <3> DEFINE u == [account[a] EXCEPT !.active = ~@]
      <3>1. u \in User /\ u.address = account[a].address
        BY <2>1, RowChanges, RowsKeep
      <3>2. account' = [account EXCEPT ![a] = u]
        BY <2>2
      <3>3. QED BY <1>1, <1>2, <1>5, <2>1, <3>1, <3>2 DEF AccountChanges
    <2>3. CASE account' = [account EXCEPT ![a] = [account[a] EXCEPT !.admin = ~@, !.grounds = TRUE]]
      <3> DEFINE u == [account[a] EXCEPT !.admin = ~@, !.grounds = TRUE]
      <3>1. u \in User /\ u.address = account[a].address
        BY <2>1, RowChanges, RowsKeep
      <3>2. account' = [account EXCEPT ![a] = u]
        BY <2>3
      <3>3. QED BY <1>1, <1>2, <1>5, <2>1, <3>1, <3>2 DEF AccountChanges
    <2>4. QED BY <1>5, <2>2, <2>3 DEF AccountChanges
  <1>6. ASSUME NEW a \in Accounts, NEW address \in Addresses, AddressChanges(a, address)
        PROVE  TypeOK'
    <2> DEFINE u == [account[a] EXCEPT !.address = address]
    <2>1. a \in Existing /\ account[a] \in User
      BY <1>3, <1>6 DEF AddressChanges
    <2>2. u \in User /\ u.address = address
      BY <2>1 DEF User
    <2>3. account' = [account EXCEPT ![a] = u]
      BY <1>6 DEF AddressChanges
    <2>4. QED BY <1>1, <1>2, <1>6, <2>1, <2>2, <2>3 DEF AddressChanges
  <1>7. ASSUME NEW a \in Accounts, NEW address \in Addresses, CreateUser(a, address)
        PROVE  TypeOK'
    <2>1. PICK u \in User : account' = [account EXCEPT ![a] = u] /\ u.address = address
      BY <1>7, InvitedRow
    <2>2. QED BY <1>1, <1>2, <1>7, <2>1 DEF CreateUser
  <1>8. CASE ProvisioningChanges
    BY <1>2, <1>8 DEF ProvisioningChanges, TypeOK, Existing
  <1>9. QED BY <1>4, <1>5, <1>6, <1>7, <1>8

\* Every step keeps the types.
LEMMA NextType ==
  ASSUME ConstantsAssumption, NoneAssumption, TypeOK, LinksHaveRows, SessionsAreBacked,
         [Next]_vars
  PROVE  TypeOK'
  <1>1. CASE UNCHANGED vars
    BY <1>1 DEF vars, TypeOK, Existing, system
  <1>2. CASE Next
    BY <1>2, FlowType, CallbackType, ResolveType, RequestType DEF Next
  <1>3. QED BY <1>1, <1>2

-----------------------------------------------------------------------------
(* A flow belongs to the browser that started it. *)

\* What belonged to a browser before a step belongs to it after, if no flow changes
\* hands in it.
LEMMA OwnersStay ==
  ASSUME ConstantsAssumption, IInv,
         \A f \in Flows : starter[f] # None => starter'[f] = starter[f]
  PROVE  /\ \A b \in Browsers : cookie[b] # 0 => starter'[cookie[b]] = b
         /\ \A h \in Handlers : (starter[handler[h].code.flow] = handler[h].browser
                                   /\ handler[h].pc = "resolve") =>
                                starter'[handler[h].code.flow] = handler[h].browser
         /\ \A b \in Browsers : session[b] # None => starter'[session[b].flow] = b
         /\ \A h \in Handlers : handler'[h] = handler[h] => OwnedByStarter(handler[h])'
  <1>1. None \notin Browsers
    BY DEF ConstantsAssumption
  <1>2. ASSUME NEW b \in Browsers, cookie[b] # 0 PROVE starter'[cookie[b]] = b
    <2>1. cookie[b] \in Flows
      BY <1>2 DEF IInv, TypeOK, Flows, ConstantsAssumption
    <2>2. QED BY <1>1, <1>2, <2>1 DEF IInv, FlowsAreOwned
  <1>3. ASSUME NEW b \in Browsers, session[b] # None PROVE starter'[session[b].flow] = b
    <2>1. session[b].flow \in Flows
      BY <1>3 DEF IInv, TypeOK, Session
    <2>2. QED BY <1>1, <1>3, <2>1 DEF IInv, AnswersItsOwnBrowser
  <1>4. ASSUME NEW h \in Handlers, handler[h].pc = "resolve"
        PROVE  starter'[handler[h].code.flow] = handler[h].browser
    <2>1. handler[h].code.flow \in Flows /\ handler[h].browser \in Browsers
      BY <1>4, HandlerTypes DEF IInv, Code
    <2>2. QED BY <1>1, <1>4, <2>1 DEF IInv, FlowsAreOwned, OwnedByStarter
  <1>5. ASSUME NEW h \in Handlers, handler'[h] = handler[h]
        PROVE  OwnedByStarter(handler[h])'
    <2>1. handler[h].pc = "exchange" => /\ handler[h].cookie \in Flows
                                        /\ handler[h].browser \in Browsers
      BY HandlerTypes DEF IInv
    <2>2. handler[h].pc = "answer" /\ handler[h].session # None =>
            handler[h].session.flow \in Flows /\ handler[h].browser \in Browsers
      BY HandlerTypes DEF IInv, Answer, Session
    <2>3. OwnedByStarter(handler[h])
      BY DEF IInv, FlowsAreOwned
    <2>4. QED BY <1>1, <1>4, <1>5, <2>1, <2>2, <2>3 DEF OwnedByStarter
  <1>6. QED BY <1>2, <1>3, <1>4, <1>5

\* Every step keeps flows, callbacks and sessions with the browser of the flow.
LEMMA NextOwned ==
  ASSUME ConstantsAssumption, IInv, [Next]_vars
  PROVE  FlowsAreOwned' /\ AnswersItsOwnBrowser'
  <1>1. CASE \E b \in Browsers, f \in Flows : Start(b, f)
    <2>1. PICK b \in Browsers, f \in Flows : Start(b, f)
      BY <1>1
    <2>2. \A g \in Flows : starter[g] # None => starter'[g] = starter[g]
      BY <2>1 DEF Start, IInv, TypeOK
    <2>3. starter'[f] = b
      BY <2>1 DEF Start, IInv, TypeOK
    <2>4. \A c \in Browsers : cookie'[c] # 0 => starter'[cookie'[c]] = c
      BY <2>1, <2>2, <2>3, OwnersStay DEF Start, IInv, TypeOK
    <2>5. QED
      BY <2>1, <2>2, <2>4, OwnersStay DEF Start, FlowsAreOwned, AnswersItsOwnBrowser
  <1>2. CASE starter' = starter
    <2>1. /\ \A b \in Browsers : cookie[b] # 0 => starter'[cookie[b]] = b
          /\ \A b \in Browsers : session[b] # None => starter'[session[b].flow] = b
          /\ \A h \in Handlers : handler'[h] = handler[h] => OwnedByStarter(handler[h])'
      BY <1>2, OwnersStay
    <2>2. CASE UNCHANGED <<handler, session>> /\ cookie' = cookie
      BY <2>1, <2>2 DEF FlowsAreOwned, AnswersItsOwnBrowser
    <2>3. ASSUME NEW b \in Browsers, StartFails(b)
          PROVE  FlowsAreOwned' /\ AnswersItsOwnBrowser'
      <3>1. \A c \in Browsers : cookie'[c] # 0 => cookie'[c] = cookie[c]
        BY <2>3 DEF StartFails, IInv, TypeOK
      <3>2. QED
        BY <2>1, <2>3, <3>1 DEF StartFails, FlowsAreOwned, AnswersItsOwnBrowser
    <2>4. CASE Restart
      <3>1. \A h \in Handlers : handler'[h] = Idle
        BY <2>4 DEF Restart
      <3>2. \A h \in Handlers : OwnedByStarter(handler[h])'
        BY <3>1 DEF OwnedByStarter, Idle
      <3>3. QED BY <2>1, <2>4, <3>2 DEF Restart, FlowsAreOwned, AnswersItsOwnBrowser
    <2>5. ASSUME NEW h \in Handlers, NEW state, Becomes(h, state), OwnedByStarter(state)',
                 UNCHANGED <<cookie, session>>
          PROVE  FlowsAreOwned' /\ AnswersItsOwnBrowser'
      <3>1. \A g \in Handlers : g # h => handler'[g] = handler[g]
        BY <2>5 DEF Becomes, IInv, TypeOK
      <3>2. handler'[h] = state
        BY <2>5 DEF Becomes, IInv, TypeOK
      <3>3. \A g \in Handlers : OwnedByStarter(handler[g])'
        BY <2>1, <2>5, <3>1, <3>2 DEF OwnedByStarter
      <3>4. QED BY <2>1, <2>5, <3>3 DEF FlowsAreOwned, AnswersItsOwnBrowser
    <2>6. ASSUME NEW h \in Handlers, NEW b \in Browsers, NEW c \in Code, Callback(h, b, c)
          PROVE  FlowsAreOwned' /\ AnswersItsOwnBrowser'
      BY <2>1, <2>5, <2>6 DEF Callback, OwnedByStarter
    <2>7. ASSUME NEW h \in Handlers, Exchange(h)
          PROVE  FlowsAreOwned' /\ AnswersItsOwnBrowser'
      <3>1. starter'[handler[h].cookie] = handler[h].browser
        BY <1>2, <2>7 DEF Exchange, IInv, FlowsAreOwned, OwnedByStarter
      <3>2. QED BY <2>5, <2>7, <3>1 DEF Exchange, Accepted, Answers, OwnedByStarter
    <2>8. ASSUME NEW h \in Handlers, ExchangeFails(h) \/ AlgorithmDiffers(h)
          PROVE  FlowsAreOwned' /\ AnswersItsOwnBrowser'
      BY <2>5, <2>8 DEF ExchangeFails, AlgorithmDiffers, Answers, OwnedByStarter
    <2>9. ASSUME NEW h \in Handlers, NEW a \in Accounts,
                 ResolveLinked(h, a) \/ ResolveByAddress(h, a) \/ ResolveNew(h, a)
          PROVE  FlowsAreOwned' /\ AnswersItsOwnBrowser'
      <3>1. starter'[handler[h].code.flow] = handler[h].browser
        BY <1>2, <2>9 DEF ResolveLinked, ResolveByAddress, ResolveNew, ToResolve, IInv,
                          FlowsAreOwned, OwnedByStarter
      <3>2. Opens(h, a) \/ Answers(h, None)
        BY <2>9 DEF ResolveLinked, ResolveByAddress, ResolveNew, Link
      <3>3. UNCHANGED <<cookie, session>>
        BY <2>9 DEF ResolveLinked, ResolveByAddress, ResolveNew
      <3>4. QED BY <2>5, <3>1, <3>2, <3>3 DEF Opens, Answers, OwnedByStarter
    <2>10. ASSUME NEW h \in Handlers, Arrives(h)
           PROVE  FlowsAreOwned' /\ AnswersItsOwnBrowser'
      <3> DEFINE b == handler[h].browser
      <3>1. \A c \in Browsers : cookie'[c] # 0 => cookie'[c] = cookie[c]
        BY <2>10 DEF Arrives, IInv, TypeOK
      <3>2. \A g \in Handlers : handler'[g] = Idle \/ handler'[g] = handler[g]
        BY <2>10 DEF Arrives, Becomes, IInv, TypeOK
      <3>3. \A g \in Handlers : OwnedByStarter(handler[g])'
        BY <2>1, <3>2 DEF OwnedByStarter, Idle
      <3>4. handler[h].session # None => starter[handler[h].session.flow] = b
        BY <2>10 DEF Arrives, IInv, FlowsAreOwned, OwnedByStarter
      <3>5. \A c \in Browsers : session'[c] # None => starter'[session'[c].flow] = c
        BY <1>2, <2>1, <2>10, <3>4 DEF Arrives, IInv, TypeOK
      <3>6. QED BY <1>2, <2>1, <3>1, <3>3, <3>5 DEF FlowsAreOwned, AnswersItsOwnBrowser
    <2>11. CASE UNCHANGED vars
      BY <2>2, <2>11 DEF vars
    <2>12. CASE \/ \E b \in Browsers : Request(b)
                \/ \E p \in Persons : DirectoryChanges(p) \/ \E f \in Flows : SignsIn(p, f)
                \/ \E a \in Accounts : \/ AccountChanges(a)
                                       \/ \E address \in Addresses :
                                            AddressChanges(a, address) \/ CreateUser(a, address)
                \/ ProvisioningChanges
      BY <2>2, <2>12 DEF Request, DirectoryChanges, SignsIn, AccountChanges, AddressChanges,
                         CreateUser, ProvisioningChanges
    <2>13. CASE \E b \in Browsers, f \in Flows : Start(b, f)
      BY <1>1, <2>13
    <2>14. QED
      BY <2>3, <2>4, <2>6, <2>7, <2>8, <2>9, <2>10, <2>11, <2>12, <2>13 DEF Next
  <1>3. (\E b \in Browsers, f \in Flows : Start(b, f)) \/ starter' = starter
    BY DEF Next, vars, StartFails, Request, Restart, DirectoryChanges, SignsIn, Callback,
           Exchange, ExchangeFails, AlgorithmDiffers, Arrives, ResolveLinked,
           ResolveByAddress, ResolveNew, AccountChanges, AddressChanges, CreateUser,
           ProvisioningChanges
  <1>4. QED BY <1>1, <1>2, <1>3

-----------------------------------------------------------------------------
(* A role has its grounds. *)

\* A row that is replaced by one with no fewer grounds backs what it backed.
LEMMA GroundsStay ==
  ASSUME TypeOK, AdminsHaveGrounds, NEW c \in Accounts, NEW u \in User,
         account' = [account EXCEPT ![c] = u],
         account[c] \in User /\ account[c].grounds => u.grounds,
         GroupsGovern /\ u.admin => u.grounds
  PROVE  /\ \A s \in Session : Backed(s) => Backed(s)'
         /\ \A a \in Accounts : account[a] \in User => account'[a] \in User
         /\ AdminsHaveGrounds'
  <1>1. account'[c] = u /\ \A a \in Accounts : a # c => account'[a] = account[a]
    BY DEF TypeOK
  <1>2. ASSUME NEW s \in Session, Backed(s) PROVE Backed(s)'
    BY <1>1, <1>2 DEF Backed, Session
  <1>3. \A a \in Accounts : account[a] \in User => account'[a] \in User
    BY <1>1
  <1>4. AdminsHaveGrounds'
    BY <1>1 DEF AdminsHaveGrounds, Existing
  <1>5. QED BY <1>2, <1>3, <1>4

\* The rows of accounts stay and back the sessions there are, whatever a callback
\* does next, if the session that it is to open is backed.
LEMMA CallbackRights ==
  ASSUME IInv, NEW h \in Handlers, NEW state, Becomes(h, state), session' = session,
         state.pc = "answer" /\ state.session # None =>
           state.session \in Session /\ Backed(state.session)',
         \A s \in Session : Backed(s) => Backed(s)'
  PROVE  SessionsAreBacked'
  <1>1. handler'[h] = state /\ \A g \in Handlers : g # h => handler'[g] = handler[g]
    BY DEF Becomes, IInv, TypeOK
  <1>2. ASSUME NEW b \in Browsers, session'[b] # None PROVE Backed(session[b])'
    BY <1>2 DEF IInv, TypeOK, SessionsAreBacked, Backed
  <1>3. ASSUME NEW g \in Handlers, handler'[g].pc = "answer", handler'[g].session # None
        PROVE  Backed(handler[g].session)'
    <2>1. CASE g = h
      BY <1>1, <1>3, <2>1 DEF Backed
    <2>2. CASE g # h
      <3>1. handler[g].session \in Session /\ Backed(handler[g].session)
        BY <1>1, <1>3, <2>2, HandlerTypes DEF IInv, SessionsAreBacked, Answer
      <3>2. QED BY <1>1, <2>2, <3>1 DEF Backed
    <2>3. QED BY <2>1, <2>2
  <1>4. QED BY <1>2, <1>3 DEF SessionsAreBacked

\* The transaction of a callback gives no account a role without grounds.
LEMMA ResolveRights ==
  ASSUME ConstantsAssumption, NoneAssumption, IInv, NEW h \in Handlers, NEW a \in Accounts,
         ResolveLinked(h, a) \/ ResolveByAddress(h, a) \/ ResolveNew(h, a)
  PROVE  LinksHaveRows' /\ SessionsAreBacked' /\ AdminsHaveGrounds'
  <1> DEFINE claims == handler[h].claims
  <1>1. handler[h].pc = "resolve" /\ session' = session
    BY DEF ResolveLinked, ResolveByAddress, ResolveNew, ToResolve
  <1>2. claims \in Claims /\ claims.member \in BOOLEAN
    BY <1>1, HandlerTypes DEF IInv, Claims
  <1>3. ASSUME Answers(h, None), UNCHANGED <<account, linked>>
        PROVE  LinksHaveRows' /\ SessionsAreBacked' /\ AdminsHaveGrounds'
    <2>1. SessionsAreBacked'
      BY <1>1, <1>3, CallbackRights DEF Answers, Backed
    <2>2. QED
      BY <1>3, <2>1 DEF IInv, LinksHaveRows, AdminsHaveGrounds, Existing
  <1>4. ASSUME NEW u \in User, account' = [account EXCEPT ![a] = u],
               account[a] \in User /\ account[a].grounds => u.grounds,
               GroupsGovern /\ u.admin => u.grounds,
               claims.member => u.grounds,
               \A c \in Accounts : c # a => linked'[c] = linked[c],
               Opens(h, a)
        PROVE  LinksHaveRows' /\ SessionsAreBacked' /\ AdminsHaveGrounds'
    <2>1. /\ \A t \in Session : Backed(t) => Backed(t)'
          /\ \A c \in Accounts : account[c] \in User => account'[c] \in User
          /\ AdminsHaveGrounds'
      BY <1>4, GroundsStay DEF IInv
    <2>2. account'[a] = u
      BY <1>4 DEF IInv, TypeOK
    <2>3. PICK s \in Session : /\ s.account = a /\ s.member = claims.member
                               /\ Answers(h, s)
      BY <1>1, <1>4, SessionType DEF IInv, Opens
    <2>4. SessionsAreBacked'
      <3>1. Backed(s)'
        BY <1>2, <1>4, <2>2, <2>3 DEF Backed
      <3>2. QED BY <1>1, <2>1, <2>3, <3>1, CallbackRights DEF Answers
    <2>5. LinksHaveRows'
      BY <1>4, <2>1, <2>2 DEF IInv, LinksHaveRows
    <2>6. QED BY <2>1, <2>4, <2>5
  <1>5. CASE ResolveLinked(h, a) /\ account[a].active
    <2>1. account[a] \in User /\ a \in Existing
      <3>1. linked[a] # None
        BY <1>1, <1>5, HandlerTypes
        DEF ResolveLinked, LinkedTo, Code, ConstantsAssumption, IInv
      <3>2. QED BY <3>1 DEF IInv, LinksHaveRows, NoneAssumption, Existing
    <2> DEFINE u == [account[a] EXCEPT !.grounds = @ \/ claims.member]
    <2>2. account[a].grounds \in BOOLEAN /\ (account[a].grounds \/ claims.member) \in BOOLEAN
      BY <1>2, <2>1 DEF User
    <2>3. u \in User
      BY <2>1, <2>2, RowChanges
    <2>4. u.grounds = (account[a].grounds \/ claims.member) /\ u.admin = account[a].admin
      BY <2>1 DEF User
    <2>5. GroupsGovern /\ u.admin => u.grounds
      BY <2>1, <2>4 DEF IInv, AdminsHaveGrounds
    <2>6. account' = [account EXCEPT ![a] = u] /\ linked' = linked /\ Opens(h, a)
      BY <1>5 DEF ResolveLinked
    <2>7. QED BY <1>4, <2>3, <2>4, <2>5, <2>6
  <1>6. ASSUME NEW admin \in BOOLEAN, NEW local \in BOOLEAN, NEW grounds \in BOOLEAN,
               Link(a, h, admin, local, grounds),
               account[a] \in User => grounds = account[a].grounds
        PROVE  LinksHaveRows' /\ SessionsAreBacked' /\ AdminsHaveGrounds'
    <2>1. PICK u \in User : /\ account' = [account EXCEPT ![a] = u]
                            /\ u.admin = RoleOnLinking(admin, claims.member)
                            /\ u.grounds = (grounds \/ claims.member)
      BY <1>1, <1>6, LinkedRow DEF IInv
    <2>2. GroupsGovern /\ u.admin => u.grounds
      BY <2>1 DEF RoleOnLinking
    <2>3. \A c \in Accounts : c # a => linked'[c] = linked[c]
      BY <1>6 DEF Link, IInv, TypeOK
    <2>4. Opens(h, a)
      BY <1>6 DEF Link
    <2>5. QED BY <1>4, <1>6, <2>1, <2>2, <2>3, <2>4
  <1>7. CASE ResolveByAddress(h, a) /\ account[a].active
    <2>1. account[a] \in User
      BY <1>7 DEF ResolveByAddress, WithAddress, Existing, IInv, TypeOK
    <2>2. QED BY <1>6, <1>7, <2>1 DEF ResolveByAddress, User
  <1>8. CASE ResolveNew(h, a) /\ jit
    <2>1. account[a] \notin User
      BY <1>8 DEF ResolveNew, Existing, NoneAssumption
    <2>2. QED BY <1>6, <1>8, <2>1 DEF ResolveNew, ConstantsAssumption
  <1>9. QED
    BY <1>3, <1>5, <1>7, <1>8 DEF ResolveLinked, ResolveByAddress, ResolveNew

\* Requests, administrators and users give no account a role without grounds.
LEMMA RequestRights ==
  ASSUME ConstantsAssumption, NoneAssumption, IInv,
         \/ \E b \in Browsers : Request(b)
         \/ \E a \in Accounts : \/ AccountChanges(a)
                                \/ \E address \in Addresses :
                                     AddressChanges(a, address) \/ CreateUser(a, address)
  PROVE  LinksHaveRows' /\ SessionsAreBacked' /\ AdminsHaveGrounds'
  <1>1. ASSUME NEW a \in Accounts, NEW u \in User, account' = [account EXCEPT ![a] = u],
               account[a] \in User /\ account[a].grounds => u.grounds, GroupsGovern /\ u.admin => u.grounds,
               UNCHANGED <<linked, session, handler>>
        PROVE  LinksHaveRows' /\ SessionsAreBacked' /\ AdminsHaveGrounds'
    <2>1. /\ \A s \in Session : Backed(s) => Backed(s)'
          /\ \A c \in Accounts : account[c] \in User => account'[c] \in User
          /\ AdminsHaveGrounds'
      BY <1>1, GroundsStay DEF IInv
    <2>2. ASSUME NEW b \in Browsers, session'[b] # None PROVE Backed(session[b])'
      BY <1>1, <2>1, <2>2 DEF IInv, TypeOK, SessionsAreBacked, Backed
    <2>3. ASSUME NEW h \in Handlers, handler'[h].pc = "answer", handler'[h].session # None
          PROVE  Backed(handler[h].session)'
      <3>1. handler[h].session \in Session /\ Backed(handler[h].session)
        BY <1>1, <2>3, HandlerTypes DEF IInv, SessionsAreBacked, Answer
      <3>2. QED BY <1>1, <2>1, <3>1 DEF Backed
    <2>4. LinksHaveRows'
      BY <1>1, <2>1 DEF IInv, LinksHaveRows
    <2>5. QED BY <2>1, <2>2, <2>3, <2>4 DEF SessionsAreBacked
  <1>2. ASSUME NEW a \in Existing
        PROVE  a \in Accounts /\ account[a] \in User
               /\ (GroupsGovern /\ account[a].admin => account[a].grounds)
    BY DEF IInv, TypeOK, Existing, AdminsHaveGrounds
  <1>3. CASE \E b \in Browsers : Request(b)
    <2>1. PICK b \in Browsers : Request(b)
      BY <1>3
    <2> DEFINE a == session[b].account
               u == [account[a] EXCEPT !.admin = session[b].member]
    <2>2. session[b] \in Session /\ Backed(session[b])
      BY <2>1 DEF Request, IInv, TypeOK, SessionsAreBacked
    <2>3. a \in Accounts /\ account[a] \in User /\ session[b].member \in BOOLEAN
      BY <2>2 DEF Session, Backed
    <2>4. u \in User
      BY <2>3, RowChanges
    <2>5. u.grounds = account[a].grounds /\ u.admin = session[b].member
      BY <2>3 DEF User
    <2>6. account' = [account EXCEPT ![a] = u] /\ UNCHANGED <<linked, session, handler>>
      BY <2>1 DEF Request
    <2>7. QED BY <1>1, <2>2, <2>3, <2>4, <2>5, <2>6 DEF Backed
  <1>4. ASSUME NEW a \in Accounts, AccountChanges(a)
        PROVE  LinksHaveRows' /\ SessionsAreBacked' /\ AdminsHaveGrounds'
    <2>1. account[a] \in User /\ (GroupsGovern /\ account[a].admin => account[a].grounds)
      BY <1>2, <1>4 DEF AccountChanges
    <2>2. UNCHANGED <<linked, session, handler>>
      BY <1>4 DEF AccountChanges
    <2>3. CASE account' = [account EXCEPT ![a].active = ~@]
      <3> DEFINE u == [account[a] EXCEPT !.active = ~@]
      <3>1. u \in User
        BY <2>1, RowChanges
      <3>2. u.grounds = account[a].grounds /\ u.admin = account[a].admin
        BY <2>1 DEF User
      <3>3. account' = [account EXCEPT ![a] = u]
        BY <2>3
      <3>4. QED BY <1>1, <2>1, <2>2, <3>1, <3>2, <3>3
    <2>4. CASE account' = [account EXCEPT ![a] = [account[a] EXCEPT !.admin = ~@, !.grounds = TRUE]]
      <3> DEFINE u == [account[a] EXCEPT !.admin = ~@, !.grounds = TRUE]
      <3>1. u \in User
        BY <2>1, RowChanges
      <3>2. u.grounds
        BY <2>1 DEF User
      <3>3. account' = [account EXCEPT ![a] = u]
        BY <2>4
      <3>4. QED BY <1>1, <2>2, <3>1, <3>2, <3>3
    <2>5. QED BY <1>4, <2>3, <2>4 DEF AccountChanges
  <1>5. ASSUME NEW a \in Accounts, NEW address \in Addresses, AddressChanges(a, address)
        PROVE  LinksHaveRows' /\ SessionsAreBacked' /\ AdminsHaveGrounds'
    <2> DEFINE u == [account[a] EXCEPT !.address = address]
    <2>1. account[a] \in User /\ (GroupsGovern /\ account[a].admin => account[a].grounds)
      BY <1>2, <1>5 DEF AddressChanges
    <2>2. u \in User
      BY <2>1, RowChanges
    <2>3. u.grounds = account[a].grounds /\ u.admin = account[a].admin
      BY <2>1 DEF User
    <2>4. account' = [account EXCEPT ![a] = u] /\ UNCHANGED <<linked, session, handler>>
      BY <1>5 DEF AddressChanges
    <2>5. QED BY <1>1, <2>1, <2>2, <2>3, <2>4
  <1>6. ASSUME NEW a \in Accounts, NEW address \in Addresses, CreateUser(a, address)
        PROVE  LinksHaveRows' /\ SessionsAreBacked' /\ AdminsHaveGrounds'
    <2>1. PICK u \in User : account' = [account EXCEPT ![a] = u] /\ u.admin = u.grounds
      BY <1>6, InvitedRow
    <2>2. account[a] \notin User
      BY <1>6 DEF CreateUser, Existing, NoneAssumption
    <2>3. UNCHANGED <<linked, session, handler>>
      BY <1>6 DEF CreateUser
    <2>4. QED BY <1>1, <2>1, <2>2, <2>3
  <1>7. QED BY <1>3, <1>4, <1>5, <1>6

\* Every step keeps the grounds of roles and of what sessions claim.
LEMMA NextRights ==
  ASSUME ConstantsAssumption, NoneAssumption, IInv, [Next]_vars
  PROVE  LinksHaveRows' /\ SessionsAreBacked' /\ AdminsHaveGrounds'
  <1>1. CASE account' = account /\ linked' = linked
    <2>1. LinksHaveRows' /\ AdminsHaveGrounds' /\ \A s \in Session : Backed(s) => Backed(s)'
      BY <1>1 DEF IInv, LinksHaveRows, AdminsHaveGrounds, Existing, Backed
    <2>2. ASSUME NEW h \in Handlers, NEW state, Becomes(h, state), session' = session,
                 state.pc = "answer" => state.session = None
          PROVE  LinksHaveRows' /\ SessionsAreBacked' /\ AdminsHaveGrounds'
      BY <2>1, <2>2, CallbackRights
    <2>3. ASSUME NEW h \in Handlers, \/ \E b \in Browsers, c \in Code : Callback(h, b, c)
                                     \/ Exchange(h) \/ ExchangeFails(h) \/ AlgorithmDiffers(h)
          PROVE  LinksHaveRows' /\ SessionsAreBacked' /\ AdminsHaveGrounds'
      BY <2>2, <2>3 DEF Callback, Exchange, ExchangeFails, AlgorithmDiffers, Answers
    <2>4. ASSUME NEW h \in Handlers, Arrives(h)
          PROVE  LinksHaveRows' /\ SessionsAreBacked' /\ AdminsHaveGrounds'
      <3> DEFINE b == handler[h].browser
      <3>1. handler[h].session # None => handler[h].session \in Session
                                           /\ Backed(handler[h].session)
        BY <2>4, HandlerTypes DEF Arrives, IInv, SessionsAreBacked, Answer
      <3>2. \A c \in Browsers : session'[c] # None =>
              session'[c] = session[c] \/ session'[c] = handler[h].session
        BY <2>4 DEF Arrives, IInv, TypeOK
      <3>3. ASSUME NEW c \in Browsers, session'[c] # None PROVE Backed(session[c])'
        BY <1>1, <3>1, <3>2, <3>3 DEF Backed, IInv, SessionsAreBacked
      <3>4. \A g \in Handlers : handler'[g] = Idle \/ handler'[g] = handler[g]
        BY <2>4 DEF Arrives, Becomes, IInv, TypeOK
      <3>5. ASSUME NEW g \in Handlers, handler'[g].pc = "answer", handler'[g].session # None
            PROVE  Backed(handler[g].session)'
        BY <1>1, <3>4, <3>5 DEF Idle, Backed, IInv, SessionsAreBacked
      <3>6. QED BY <2>1, <3>3, <3>5 DEF SessionsAreBacked
    <2>5. CASE Restart
      <3>1. \A h \in Handlers : handler'[h].pc = "idle"
        BY <2>5 DEF Restart, Idle
      <3>2. QED BY <1>1, <2>1, <2>5, <3>1 DEF Restart, IInv, SessionsAreBacked, Backed
    <2>6. CASE UNCHANGED <<session, handler>>
      BY <1>1, <2>1, <2>6 DEF IInv, SessionsAreBacked, Backed
    <2>7. ASSUME NEW b \in Browsers, StartFails(b) \/ \E f \in Flows : Start(b, f)
          PROVE  UNCHANGED <<session, handler>>
      BY <2>7 DEF StartFails, Start
    <2>8. ASSUME NEW p \in Persons, DirectoryChanges(p) \/ \E f \in Flows : SignsIn(p, f)
          PROVE  UNCHANGED <<session, handler>>
      BY <2>8 DEF DirectoryChanges, SignsIn
    <2>9. QED
      BY <2>3, <2>4, <2>5, <2>6, <2>7, <2>8, ResolveRights, RequestRights
      DEF Next, vars, ProvisioningChanges
  <1>2. CASE \E h \in Handlers, a \in Accounts :
               ResolveLinked(h, a) \/ ResolveByAddress(h, a) \/ ResolveNew(h, a)
    BY <1>2, ResolveRights
  <1>3. CASE \/ \E b \in Browsers : Request(b)
             \/ \E a \in Accounts : \/ AccountChanges(a)
                                    \/ \E address \in Addresses :
                                         AddressChanges(a, address) \/ CreateUser(a, address)
    BY <1>3, RequestRights
  <1>4. QED
    BY <1>1, <1>2, <1>3
    DEF Next, vars, Start, StartFails, Restart, DirectoryChanges, SignsIn, Callback,
        Exchange, ExchangeFails, AlgorithmDiffers, Arrives, ProvisioningChanges

-----------------------------------------------------------------------------
(* The theorems. *)

\* The invariant holds at first.
LEMMA InitInvariant == ConstantsAssumption /\ Init => IInv
  <1> SUFFICES ASSUME ConstantsAssumption, Init PROVE IInv
    OBVIOUS
  <1>1. TypeOK
    BY InitType
  <1>2. LinksHaveRows /\ FlowsAreOwned /\ AnswersItsOwnBrowser /\ SessionsAreBacked
    BY DEF Init, LinksHaveRows, FlowsAreOwned, OwnedByStarter, AnswersItsOwnBrowser,
           SessionsAreBacked, Idle
  <1>3. \A a \in Existing : ~account[a].admin
    BY DEF Init, Existing
  <1>4. QED BY <1>1, <1>2, <1>3 DEF IInv, AdminsHaveGrounds

\* All behaviours keep the invariant.
LEMMA Invariance == Spec => []IInv
  <1>1. IInv /\ [Next]_vars => IInv'
    BY NextType, NextOwned, NextRights, ConstantsAssumption, NoneAssumption DEF IInv
  <1>2. Init => IInv
    BY InitInvariant, ConstantsAssumption
  <1>3. QED BY <1>1, <1>2, PTL DEF Spec

\* Accounts, cookies, sessions and callbacks have their types at all times, and the
\* transaction of the callback keeps addresses and subjects unique.
THEOREM TypeCorrect == Spec => []TypeOK
  <1>1. IInv => TypeOK
    BY DEF IInv
  <1>2. QED BY Invariance, <1>1, PTL

\* Whatever the provider sends to whichever browser, only the one that started the
\* flow is signed in by it.
THEOREM FlowsSignInTheirStarter == Spec => []AnswersItsOwnBrowser
  <1>1. IInv => AnswersItsOwnBrowser
    BY DEF IInv
  <1>2. QED BY Invariance, <1>1, PTL

\* With groups configured, every administrator was made one, or was seen in the group.
THEOREM RolesHaveGrounds == Spec => []AdminsHaveGrounds
  <1>1. IInv => AdminsHaveGrounds
    BY DEF IInv
  <1>2. QED BY Invariance, <1>1, PTL
=============================================================================
