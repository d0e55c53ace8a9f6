----------------------------- MODULE OidcSignIn -----------------------------
(***************************************************************************)
(* Signing in through an identity provider. A browser starts a flow, whose *)
(* state, nonce and verifier it keeps in one signed cookie; the person     *)
(* signs in with the provider, who sends a browser back with a code; the   *)
(* callback exchanges the code, finds, links or creates an account in one  *)
(* transaction, and opens a session that carries the groups of that moment *)
(* for as long as it is refreshed. Every request of the session sets the   *)
(* account's role from them.                                               *)
(*                                                                         *)
(* The provider is external: its directory changes whenever it likes, and  *)
(* what it sends back may be opened in another browser, late, or twice.    *)
(***************************************************************************)
EXTENDS Naturals, FiniteSets

CONSTANTS
  Persons,       \* the subjects of the provider's directory
  Addresses,     \* mail addresses, of persons and of accounts
  Accounts,      \* the identifiers of the User rows
  Browsers,
  Handlers,      \* callbacks under way at once
  None,
  GroupsGovern,  \* OIDC_ADMIN_GROUPS is set
  MustVerify,    \* OIDC_REQUIRE_EMAIL_VERIFIED
  Provisioning,  \* OIDC_JIT_PROVISIONING
  FirstUserAdmin,\* OIDC_FIRST_USER_ADMIN
  FlowBound,     \* flows started
  ChangeBound    \* changes of the directory and of the accounts

ASSUME ConstantsAssumption ==
  /\ {GroupsGovern, MustVerify, Provisioning, FirstUserAdmin} \subseteq BOOLEAN
  /\ None \notin Persons \cup Accounts \cup Browsers
  /\ FlowBound \in Nat \ {0} /\ ChangeBound \in Nat

VARIABLES
  others,     \* whether there are other active users, an administrator among them
  jit,        \* oidcJitProvisioningEnabled, as it takes effect
  directory,  \* what the provider would say of a person now
  account,    \* the User rows
  linked,     \* the AuthIdentity rows of the provider: account to subject
  client,     \* whether oidcClientPromise holds a client
  starter,    \* the browser that started a flow
  cookie,     \* the flow cookie of a browser, 0 without one
  codes,      \* the codes the provider would still exchange
  session,    \* the session cookies of a browser
  handler,    \* callbacks under way
  changes

system == <<others, jit>>
vars == <<system, directory, account, linked, client, starter, cookie, codes, session,
          handler, changes>>

-----------------------------------------------------------------------------
\* member: one of the groups is one of OIDC_ADMIN_GROUPS.
Claims == [address : Addresses, verified : BOOLEAN, member : BOOLEAN]

\* grounds: some grounds for the role ADMIN were seen: an administrator gave it, or
\* somebody in the group signed in. local: the account has a password.
User ==
  [address : Addresses, admin : BOOLEAN, active : BOOLEAN, local : BOOLEAN, grounds : BOOLEAN]

ASSUME NoneAssumption == None \notin User

Flows == 1..FlowBound

Code == [flow : Flows, person : Persons]

\* member: the groups in the token of the session contain one of the configured ones.
Session == [account : Accounts, member : BOOLEAN, flow : Flows]

Answer == Session \cup {None}

\* cookie is the flow the callback has read from the request.
Idle == [pc |-> "idle"]
HandlerState ==
  {Idle}
    \cup [pc : {"exchange"}, browser : Browsers, cookie : Flows, code : Code]
    \cup [pc : {"resolve"}, browser : Browsers, code : Code, claims : Claims]
    \cup [pc : {"answer"}, browser : Browsers, session : Answer]

Existing == {a \in Accounts : account[a] # None}

WithAddress(address) == {a \in Existing : account[a].address = address}

LinkedTo(p) == {a \in Accounts : linked[a] = p}

Becomes(h, state) == handler' = [handler EXCEPT ![h] = state]

\* redirectToLoginWithError, or the redirect into the application: both clear the
\* flow cookie.
Answers(h, s) == Becomes(h, [pc |-> "answer", browser |-> handler[h].browser, session |-> s])

-----------------------------------------------------------------------------
(* GET /oidc/start                                                          *)

\* getOidcClient: all wait for one attempt, and only a client that was built is kept.
Discovered == client' = TRUE

Start(b, f) ==
  /\ starter[f] = None /\ \A g \in Flows : g < f => starter[g] # None
  /\ Discovered
  /\ starter' = [starter EXCEPT ![f] = b]
  /\ cookie' = [cookie EXCEPT ![b] = f]
  /\ UNCHANGED <<system, directory, account, linked, codes, session, handler, changes>>

\* The failure clears the cookie of a flow that was under way.
StartFails(b) ==
  /\ ~client
  /\ cookie' = [cookie EXCEPT ![b] = 0]
  /\ UNCHANGED <<system, directory, account, linked, client, starter, codes, session,
                 handler, changes>>

Restart ==
  /\ client
  /\ client' = FALSE
  /\ handler' = [h \in Handlers |-> Idle]
  /\ UNCHANGED <<system, directory, account, linked, starter, cookie, codes, session, changes>>

\* The provider.
SignsIn(p, f) ==
  /\ starter[f] # None
  /\ codes' = codes \cup {[flow |-> f, person |-> p]}
  /\ UNCHANGED <<system, directory, account, linked, client, starter, cookie, session,
                 handler, changes>>

Changing == changes < ChangeBound /\ changes' = changes + 1

DirectoryChanges(p) ==
  /\ Changing
  /\ \/ \E address \in Addresses : directory' = [directory EXCEPT ![p].address = address]
     \/ directory' = [directory EXCEPT ![p].verified = ~@]
     \/ directory' = [directory EXCEPT ![p].member = ~@]
  /\ UNCHANGED <<system, account, linked, client, starter, cookie, codes, session, handler>>

-----------------------------------------------------------------------------
(* GET /oidc/callback                                                       *)

Callback(h, b, c) ==
  /\ handler[h] = Idle /\ starter[c.flow] # None
  /\ Becomes(h, IF cookie[b] = 0
                THEN [pc |-> "answer", browser |-> b, session |-> None]
                ELSE [pc |-> "exchange", browser |-> b, cookie |-> cookie[b], code |-> c])
  /\ UNCHANGED <<system, directory, account, linked, client, starter, cookie, codes,
                 session, changes>>

\* A mutant: what comes back is not compared with the cookie.
MutantAccepted(flow, c) == c \in codes

\* state, nonce and verifier belong to the flow; the provider exchanges a code once.
Accepted(flow, c) == c.flow = flow /\ c \in codes

Refused(claims) == MustVerify /\ ~claims.verified

Exchange(h) ==
  /\ handler[h].pc = "exchange"
  /\ LET c == handler[h].code
         claims == directory[c.person]
     IN /\ codes' = codes \ {c}
        /\ IF Accepted(handler[h].cookie, c) /\ ~Refused(claims)
           THEN Becomes(h, [pc |-> "resolve", browser |-> handler[h].browser,
                            code |-> c, claims |-> claims])
           ELSE Answers(h, None)
  /\ Discovered
  /\ UNCHANGED <<system, directory, account, linked, starter, cookie, session, changes>>

\* No client, no answer of the provider, or an error of it.
ExchangeFails(h) ==
  /\ handler[h].pc = "exchange"
  /\ Answers(h, None)
  /\ UNCHANGED <<system, directory, account, linked, client, starter, cookie, codes,
                 session, changes>>

\* The provider signs its token with another algorithm than the one that was picked from
\* what it advertises: the code is spent, and the provider refuses the second attempt,
\* which sends the same code.
AlgorithmDiffers(h) ==
  /\ handler[h].pc = "exchange" /\ Accepted(handler[h].cookie, handler[h].code)
  /\ codes' = codes \ {handler[h].code}
  /\ Answers(h, None)
  /\ Discovered
  /\ UNCHANGED <<system, directory, account, linked, starter, cookie, session, changes>>

\* The session of handler h, a callback that is to open account a.
Opens(h, a) ==
  Answers(h, [account |-> a, member |-> handler[h].claims.member, flow |-> handler[h].code.flow])

ToResolve(h) == handler[h].pc = "resolve"

\* The linked account, whatever its address is now; its role is left to the requests.
ResolveLinked(h, a) ==
  /\ ToResolve(h) /\ a \in LinkedTo(handler[h].code.person)
  /\ IF account[a].active
     THEN /\ Opens(h, a)
          /\ account' = [account EXCEPT ![a].grounds = @ \/ handler[h].claims.member]
     ELSE Answers(h, None) /\ UNCHANGED account
  /\ UNCHANGED <<system, directory, linked, client, starter, cookie, codes, session, changes>>

\* A mutant: groups promote, and do not demote.
MutantRoleOnLinking(admin, member) == IF GroupsGovern THEN admin \/ member ELSE admin

\* The role that linking leaves an account with.
RoleOnLinking(admin, member) == IF GroupsGovern THEN member ELSE admin

Link(a, h, admin, local, grounds) ==
  LET claims == handler[h].claims
  IN /\ account' = [account EXCEPT ![a] =
                      [address |-> claims.address, active |-> TRUE,
                       local |-> local,
                       admin |-> RoleOnLinking(admin, claims.member),
                       grounds |-> grounds \/ claims.member]]
     /\ linked' = [linked EXCEPT ![a] = handler[h].code.person]
     /\ Opens(h, a)

\* The account of the same address; a subject it was linked to is replaced.
ResolveByAddress(h, a) ==
  /\ ToResolve(h) /\ LinkedTo(handler[h].code.person) = {}
  /\ a \in WithAddress(handler[h].claims.address)
  /\ IF account[a].active
     THEN Link(a, h, account[a].admin, account[a].local, account[a].grounds)
     ELSE Answers(h, None) /\ UNCHANGED <<account, linked>>
  /\ UNCHANGED <<system, directory, client, starter, cookie, codes, session, changes>>

\* The first active user may become an administrator, and with groups configured
\* is one only as a member.
ResolveNew(h, a) ==
  /\ ToResolve(h) /\ LinkedTo(handler[h].code.person) = {}
  /\ WithAddress(handler[h].claims.address) = {}
  /\ a \notin Existing
  /\ IF jit
     THEN Link(a, h, FirstUserAdmin /\ ~others /\ \A b \in Existing : ~account[b].active,
               FALSE, FALSE)
     ELSE Answers(h, None) /\ UNCHANGED <<account, linked>>
  /\ UNCHANGED <<system, directory, client, starter, cookie, codes, session, changes>>

\* The browser applies the answer: whatever flow cookie it has now is gone. The session
\* is in the answer even when its refresh token could not be stored. An answer that is
\* lost is one that Restart takes away.
Arrives(h) ==
  /\ handler[h].pc = "answer"
  /\ LET b == handler[h].browser
     IN /\ cookie' = [cookie EXCEPT ![b] = 0]
        /\ session' = [session EXCEPT ![b] = IF handler[h].session = None THEN @
                                             ELSE handler[h].session]
  /\ Becomes(h, Idle)
  /\ UNCHANGED <<system, directory, account, linked, client, starter, codes, changes>>

-----------------------------------------------------------------------------
(* The requests of a session, and what administrators and users change.     *)

\* requireAuth and reconcileRoleFromOidcGroups
Request(b) ==
  /\ session[b] # None /\ GroupsGovern
  /\ LET a == session[b].account
     IN /\ account[a].active
        /\ account[a].admin # session[b].member
        /\ account' = [account EXCEPT ![a].admin = session[b].member]
  /\ UNCHANGED <<system, directory, linked, client, starter, cookie, codes, session,
                 handler, changes>>

\* PATCH /users/:id
AccountChanges(a) ==
  /\ Changing /\ others /\ a \in Existing
  /\ \/ account' = [account EXCEPT ![a].active = ~@]
     \/ account' = [account EXCEPT ![a] = [account[a] EXCEPT !.admin = ~@, !.grounds = TRUE]]
  /\ UNCHANGED <<system, directory, linked, client, starter, cookie, codes, session, handler>>

\* POST /users: an administrator invites somebody, with a password or without one. No
\* subject is linked to the account yet, and the address is all that ties it to a person.
CreateUser(a, address) ==
  /\ Changing /\ others /\ a \notin Existing /\ WithAddress(address) = {}
  /\ \E admin, active, local \in BOOLEAN :
       account' = [account EXCEPT ![a] =
                     [address |-> address, admin |-> admin, active |-> active,
                      local |-> local, grounds |-> admin]]
  /\ UNCHANGED <<system, directory, linked, client, starter, cookie, codes, session, handler>>

\* POST /oidc/jit-provisioning, by one of the other users.
ProvisioningChanges ==
  /\ Changing /\ others
  /\ jit' = ~jit
  /\ UNCHANGED <<others, directory, account, linked, client, starter, cookie, codes, session,
                 handler>>

\* PUT /email, for the accounts that have a password.
AddressChanges(a, address) ==
  /\ Changing /\ a \in Existing /\ account[a].local /\ WithAddress(address) = {}
  /\ account' = [account EXCEPT ![a].address = address]
  /\ UNCHANGED <<system, directory, linked, client, starter, cookie, codes, session, handler>>

-----------------------------------------------------------------------------
Init ==
  /\ others \in BOOLEAN /\ jit = Provisioning
  /\ directory \in [Persons -> {c \in Claims : c.verified /\ ~c.member}]
  /\ \A p, q \in Persons : directory[p].address = directory[q].address => p = q
  /\ account \in [Accounts -> {None} \cup
                    {u \in User : u.active /\ u.local /\ ~u.admin /\ ~u.grounds}]
  /\ \A a, b \in Existing : account[a].address = account[b].address => a = b
  /\ linked = [a \in Accounts |-> None]
  /\ client = FALSE
  /\ starter = [f \in Flows |-> None]
  /\ cookie = [b \in Browsers |-> 0]
  /\ codes = {}
  /\ session = [b \in Browsers |-> None]
  /\ handler = [h \in Handlers |-> Idle]
  /\ changes = 0

Next ==
  \/ \E b \in Browsers : \/ \E f \in Flows : Start(b, f)
                         \/ StartFails(b) \/ Request(b)
  \/ Restart
  \/ \E p \in Persons : DirectoryChanges(p) \/ \E f \in Flows : SignsIn(p, f)
  \/ \E h \in Handlers :
       \/ \E b \in Browsers, c \in Code : Callback(h, b, c)
       \/ Exchange(h) \/ ExchangeFails(h) \/ AlgorithmDiffers(h) \/ Arrives(h)
       \/ \E a \in Accounts : ResolveLinked(h, a) \/ ResolveByAddress(h, a) \/ ResolveNew(h, a)
  \/ \E a \in Accounts : \/ AccountChanges(a)
                         \/ \E address \in Addresses :
                              AddressChanges(a, address) \/ CreateUser(a, address)
  \/ ProvisioningChanges

Spec == Init /\ [][Next]_vars

-----------------------------------------------------------------------------
\* The variables have their types; addresses and subjects are unique, as the indexes
\* of User and AuthIdentity have it.
TypeOK ==
  /\ others \in BOOLEAN /\ jit \in BOOLEAN
  /\ directory \in [Persons -> Claims]
  /\ account \in [Accounts -> User \cup {None}]
  /\ linked \in [Accounts -> Persons \cup {None}]
  /\ client \in BOOLEAN
  /\ starter \in [Flows -> Browsers \cup {None}]
  /\ cookie \in [Browsers -> 0..FlowBound]
  /\ codes \subseteq Code
  /\ session \in [Browsers -> Session \cup {None}]
  /\ handler \in [Handlers -> HandlerState]
  /\ changes \in 0..ChangeBound
  /\ \A a, b \in Existing : account[a].address = account[b].address => a = b
  /\ \A a, b \in Accounts : linked[a] = linked[b] /\ linked[a] # None => a = b

\* A browser is only ever signed in by a flow that it has started itself: what the
\* provider sends back for one browser opens nothing in another, whichever flows are
\* under way in both.
AnswersItsOwnBrowser ==
  \A b \in Browsers : session[b] # None => starter[session[b].flow] = b

\* With groups configured, nobody becomes an administrator by being the first, by an
\* account that was linked anew or by another account's session, unless an administrator
\* made the account one or a member of the group once signed in to it. These grounds stay:
\* a session of that time may make a demoted account administrator again.
AdminsHaveGrounds ==
  GroupsGovern => \A a \in Existing : account[a].admin => account[a].grounds
=============================================================================
