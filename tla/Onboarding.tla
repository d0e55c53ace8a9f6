----------------------------- MODULE Onboarding -----------------------------
(***************************************************************************)
(* How a new or migrated server gets its first administrator: the choice   *)
(* between running with and without sign-in, the setup code in the log,    *)
(* registration, the first sign-in with OIDC, and the two values that the  *)
(* server keeps for some seconds: whether sign-in is on, and whether the   *)
(* choice is still to be made.                                             *)
(*                                                                         *)
(* What a handler reads before it decides is one step, and so is each of   *)
(* its writes that another request can come before. Time passes in ticks;  *)
(* a kept value is used for TTL ticks.                                     *)
(***************************************************************************)
EXTENDS Naturals, FiniteSets

CONSTANTS
  People,        \* those who register or sign in with OIDC, each with an address
  Handlers,      \* requests under way at once
  Modes,         \* the values of AUTH_MODE that the server is started with
  FirstUserAdmin,\* OIDC_FIRST_USER_ADMIN
  TTL,           \* for how long a value is kept
  MaxAttempts,   \* BOOTSTRAP_SETUP_CODE_MAX_ATTEMPTS
  RestartBound   \* how often the server is restarted

ASSUME ConstantsAssumption ==
  /\ IsFiniteSet(Handlers) /\ Handlers # {}
  /\ Modes \subseteq {"local", "hybrid"}
  /\ FirstUserAdmin \in BOOLEAN
  /\ TTL \in Nat \ {0} /\ MaxAttempts \in Nat \ {0} /\ RestartBound \in Nat

VARIABLES
  mode,       \* config.authMode
  system,     \* the SystemConfig row
  bootstrap,  \* the User row bootstrap-admin
  user,       \* the active User rows of the others
  code,       \* the columns of SystemConfig about the setup code
  kept,       \* authEnabledCache and onboardingGateCache
  since,      \* ticks since what they keep has changed
  handler,    \* requests under way
  restarts

vars == <<mode, system, bootstrap, user, code, kept, since, handler, restarts>>

-----------------------------------------------------------------------------
System == [auth : BOOLEAN, completed : BOOLEAN]

\* expired: the time it is good for is over; wrong: bootstrapSetupCodeFailedAttempts.
Code == [live : BOOLEAN, expired : BOOLEAN, wrong : Nat]

NoCode == [live |-> FALSE, expired |-> FALSE, wrong |-> 0]

Kinds == {"auth", "gate"}

\* A value of age TTL is not used.
Kept == [value : BOOLEAN, age : 0..TTL]
Nothing == [value |-> FALSE, age |-> TTL]

Entry(value, age) == IF age < TTL THEN [value |-> value, age |-> age] ELSE Nothing

\* right: the code that was given is the present one; announced: the answer says
\* that a new code is in the log.
Idle == [pc |-> "idle"]
HandlerState ==
  {Idle}
    \cup [pc : {"verify"}, person : People, right : BOOLEAN]
    \cup [pc : {"redeem", "activate", "create"}, person : People]
    \cup [pc : {"wrong", "issue"}]
    \cup [pc : {"reissue"}, announced : BOOLEAN]
    \cup [pc : {"switch"}, auth : BOOLEAN, issue : BOOLEAN]
    \cup [pc : {"load"}, kind : Kinds, age : 0..TTL]
    \cup [pc : {"store"}, kind : Kinds, value : BOOLEAN, age : 0..TTL]

SomeActive == bootstrap = "claimed" \/ \E p \in People : user[p] # "none"

SomeAdminUser == bootstrap = "claimed" \/ \E p \in People : user[p] = "ADMIN"

NeedsChoice == ~system.auth /\ ~system.completed /\ ~SomeActive

\* shouldRequireBootstrapSetupCode looks at the row, whatever the mode.
CodeRequired == system.auth /\ bootstrap = "waiting" /\ ~SomeActive

Truth(kind) == IF kind = "auth" THEN system.auth ELSE NeedsChoice

\* getAuthEnabled
AuthEnabled ==
  IF mode # "local" THEN TRUE
  ELSE IF kept["auth"].age < TTL THEN kept["auth"].value
  ELSE system.auth

Becomes(h, state) == handler' = [handler EXCEPT ![h] = state]

Starts(h, state) == handler[h] = Idle /\ Becomes(h, state)

-----------------------------------------------------------------------------
(* POST /register. The code that was given may have been replaced when it   *)
(* is compared. Once there is an administrator registration may be open.    *)

Register(h, p, right) ==
  /\ AuthEnabled
  /\ right => code.live
  /\ IF bootstrap = "waiting" /\ ~SomeActive
     THEN Starts(h, [pc |-> "verify", person |-> p, right |-> right])
     ELSE /\ SomeAdminUser /\ user[p] = "none"
          /\ Starts(h, [pc |-> "create", person |-> p])
  /\ UNCHANGED <<mode, system, bootstrap, user, code, kept, restarts>>

Unusable == ~code.live \/ code.expired \/ code.wrong >= MaxAttempts

\* What follows when a code was not accepted: a new one, or a wrong attempt more.
\* An expired or locked code is replaced; a mere wrong one stays.
RefusedCode ==
  IF Unusable THEN [pc |-> "reissue", announced |-> TRUE] ELSE [pc |-> "wrong"]

Redeeming(h) == [pc |-> "redeem", person |-> handler[h].person]

\* A mutant: the attempts are not counted against the limit.
MutantVerify(h) ==
  /\ handler[h].pc = "verify"
  /\ Becomes(h, IF code.live /\ ~code.expired /\ handler[h].right THEN Redeeming(h)
                ELSE IF code.live /\ ~code.expired THEN [pc |-> "wrong"] ELSE RefusedCode)
  /\ UNCHANGED <<mode, system, bootstrap, user, code, kept, restarts>>

Verify(h) ==
  /\ handler[h].pc = "verify"
  /\ Becomes(h, IF ~Unusable /\ handler[h].right THEN Redeeming(h) ELSE RefusedCode)
  /\ UNCHANGED <<mode, system, bootstrap, user, code, kept, restarts>>

Wrong(h) ==
  /\ handler[h].pc = "wrong"
  /\ code' = [code EXCEPT !.wrong = @ + 1]
  /\ Becomes(h, Idle)
  /\ UNCHANGED <<mode, system, bootstrap, user, kept, restarts>>

Redeem(h) ==
  /\ handler[h].pc = "redeem"
  /\ code' = NoCode
  /\ Becomes(h, [pc |-> "activate", person |-> handler[h].person])
  /\ UNCHANGED <<mode, system, bootstrap, user, kept, restarts>>

\* The address may have been taken since.
Activate(h) ==
  /\ handler[h].pc = "activate"
  /\ bootstrap' = IF user[handler[h].person] = "none" THEN "claimed" ELSE bootstrap
  /\ Becomes(h, Idle)
  /\ UNCHANGED <<mode, system, user, code, kept, restarts>>

Create(h) ==
  /\ handler[h].pc = "create"
  /\ user' = [user EXCEPT ![handler[h].person] = IF @ = "none" THEN "USER" ELSE @]
  /\ Becomes(h, Idle)
  /\ UNCHANGED <<mode, system, bootstrap, code, kept, restarts>>

-----------------------------------------------------------------------------
(* issueBootstrapSetupCodeIfRequired. Requests with an older code are wrong *)
(* from now on.                                                             *)

\* A mutant: a code that is locked is not replaced.
MutantReissue(h) ==
  /\ handler[h].pc = "reissue"
  /\ Becomes(h, IF CodeRequired /\ (~code.live \/ code.expired) THEN [pc |-> "issue"] ELSE Idle)
  /\ UNCHANGED <<mode, system, bootstrap, user, code, kept, restarts>>

Reissue(h) ==
  /\ handler[h].pc = "reissue"
  /\ Becomes(h, IF CodeRequired THEN [pc |-> "issue"] ELSE Idle)
  /\ UNCHANGED <<mode, system, bootstrap, user, code, kept, restarts>>

Issue(h) ==
  /\ handler[h].pc = "issue"
  /\ code' = [NoCode EXCEPT !.live = TRUE]
  /\ handler' = [i \in Handlers |->
       IF i = h THEN Idle
       ELSE IF handler[i].pc = "verify" THEN [handler[i] EXCEPT !.right = FALSE]
       ELSE handler[i]]
  /\ UNCHANGED <<mode, system, bootstrap, user, kept, restarts>>

Expire ==
  /\ code.live /\ ~code.expired
  /\ code' = [code EXCEPT !.expired = TRUE]
  /\ UNCHANGED <<mode, system, bootstrap, user, kept, handler, restarts>>

-----------------------------------------------------------------------------
(* POST /onboarding-choice and POST /auth-enabled. The row of the bootstrap *)
(* user, which both would create, is there since the migration.             *)

Choose(h, auth) ==
  /\ mode = "local" /\ NeedsChoice
  /\ Starts(h, [pc |-> "switch", auth |-> auth, issue |-> auth])
  /\ UNCHANGED <<mode, system, bootstrap, user, code, kept, restarts>>

\* Without sign-in everybody acts as the bootstrap user, an administrator.
Toggle(h, auth) ==
  /\ mode = "local"
  /\ AuthEnabled => SomeAdminUser
  /\ Starts(h, [pc |-> "switch", auth |-> auth, issue |-> ~system.auth /\ auth])
  /\ UNCHANGED <<mode, system, bootstrap, user, code, kept, restarts>>

\* upsertAuthModeState, clearAuthEnabledCache
Switch(h) ==
  /\ handler[h].pc = "switch"
  /\ system' = [system EXCEPT !.auth = handler[h].auth, !.completed = TRUE]
  /\ kept' = [kept EXCEPT !["auth"] = Nothing]
  /\ Becomes(h, IF handler[h].issue THEN [pc |-> "reissue", announced |-> FALSE] ELSE Idle)
  /\ UNCHANGED <<mode, bootstrap, user, code, restarts>>

-----------------------------------------------------------------------------
(* GET /oidc/callback: one transaction finds, or creates and links, a user. *)

OidcCallback(p) ==
  /\ mode = "hybrid" /\ user[p] = "none"
  /\ user' = [user EXCEPT ![p] =
               IF ~SomeActive /\ FirstUserAdmin THEN "ADMIN" ELSE "USER"]
  /\ UNCHANGED <<mode, system, bootstrap, code, kept, handler, restarts>>

-----------------------------------------------------------------------------
(* getAuthEnabled in the middleware, and isAuthOnboardingRequired. The time *)
(* that goes with a value is taken before it is read.                       *)

\* A request that finds no value it may use.
Miss(h, kind) ==
  /\ mode = "local" /\ kept[kind].age = TTL
  /\ Starts(h, [pc |-> "load", kind |-> kind, age |-> 0])
  /\ UNCHANGED <<mode, system, bootstrap, user, code, kept, restarts>>

Load(h) ==
  /\ handler[h].pc = "load"
  /\ Becomes(h, [pc |-> "store", kind |-> handler[h].kind, age |-> handler[h].age,
                 value |-> Truth(handler[h].kind)])
  /\ UNCHANGED <<mode, system, bootstrap, user, code, kept, restarts>>

\* A mutant: the time is taken when the value is there.
MutantStore(h) ==
  LET s == handler[h]
  IN  /\ s.pc = "store"
      /\ kept' = [kept EXCEPT ![s.kind] = Entry(s.value, 0)]
      /\ Becomes(h, Idle)
      /\ UNCHANGED <<mode, system, bootstrap, user, code, restarts>>

Store(h) ==
  LET s == handler[h]
  IN  /\ s.pc = "store"
      /\ kept' = [kept EXCEPT ![s.kind] = Entry(s.value, s.age)]
      /\ Becomes(h, Idle)
      /\ UNCHANGED <<mode, system, bootstrap, user, code, restarts>>

-----------------------------------------------------------------------------
Older(age) == IF age < TTL THEN age + 1 ELSE age

Tick ==
  /\ kept' = [k \in Kinds |-> Entry(kept[k].value, Older(kept[k].age))]
  /\ handler' = [h \in Handlers |->
       IF handler[h].pc \in {"load", "store"}
       THEN [handler[h] EXCEPT !.age = Older(@)] ELSE handler[h]]
  /\ UNCHANGED <<mode, system, bootstrap, user, code, restarts>>

\* The server may come back in another mode; it issues a code when it starts.
Restart(h) ==
  /\ restarts < RestartBound /\ restarts' = restarts + 1
  /\ mode' \in Modes
  /\ kept' = [k \in Kinds |-> Nothing]
  /\ handler' = [i \in Handlers |-> IF i = h THEN [pc |-> "reissue", announced |-> FALSE] ELSE Idle]
  /\ UNCHANGED <<system, bootstrap, user, code>>

Init ==
  /\ mode \in Modes
  /\ \E auth \in {mode # "local"} :
       system = [auth |-> auth, completed |-> FALSE]
  /\ bootstrap = "waiting"
  /\ user = [p \in People |-> "none"]
  /\ code = NoCode
  /\ kept = [k \in Kinds |-> Nothing]
  /\ since = [k \in Kinds |-> TTL]
  /\ handler = [h \in Handlers |-> Idle]
  /\ restarts = 0

Request(h) ==
  \/ \E p \in People, right \in BOOLEAN : Register(h, p, right)
  \/ \E auth \in BOOLEAN : Choose(h, auth) \/ Toggle(h, auth)
  \/ \E kind \in Kinds : Miss(h, kind)

Handle(h) ==
  \/ Verify(h) \/ Wrong(h) \/ Redeem(h) \/ Activate(h) \/ Create(h)
  \/ Reissue(h) \/ Issue(h) \/ Switch(h) \/ Load(h) \/ Store(h)

Act ==
  \/ \E h \in Handlers : Request(h) \/ Handle(h) \/ Restart(h)
  \/ \E p \in People : OidcCallback(p)
  \/ Expire

\* History: what is kept has changed, or is a tick older. Only in local mode is
\* anything kept.
Observe(ticks) ==
  since' = [k \in Kinds |-> IF mode' # "local" THEN TTL
                            ELSE IF Truth(k)' # Truth(k) THEN 0
                            ELSE IF ticks THEN Older(since[k]) ELSE since[k]]

Next == (Act /\ Observe(FALSE)) \/ (Tick /\ Observe(TRUE))

Spec == Init /\ [][Next]_vars

\* Time passes, and requests are answered. Somebody with the code from the log registers again and
\* again, and sooner or later before the code has expired or was locked: it is good
\* for minutes, and a registration takes less than a second.
Fairness ==
  /\ WF_vars(Tick /\ Observe(TRUE))
  /\ \A h \in Handlers : WF_vars(Handle(h) /\ Observe(FALSE))
  /\ SF_vars(/\ \E h \in Handlers, p \in People : Register(h, p, FALSE)
             /\ Observe(FALSE))
  /\ SF_vars(/\ ~Unusable /\ \E h \in Handlers, p \in People : Register(h, p, TRUE)
             /\ Observe(FALSE))
  /\ SF_vars(/\ ~Unusable /\ \E h \in Handlers : Verify(h) /\ handler[h].right
             /\ Observe(FALSE))

FairSpec == Spec /\ Fairness

-----------------------------------------------------------------------------
TypeOK ==
  /\ mode \in Modes
  /\ system \in System
  /\ bootstrap \in {"waiting", "claimed"}
  /\ user \in [People -> {"none", "USER", "ADMIN"}]
  /\ code \in Code
  /\ kept \in [Kinds -> Kept]
  /\ since \in [Kinds -> 0..TTL]
  /\ handler \in [Handlers -> HandlerState]
  /\ restarts \in 0..RestartBound

Guessing == {h \in Handlers : handler[h].pc = "wrong"}

\* The limit of attempts is looked at before a wrong one is counted, and requests
\* come in between: a code takes more wrong guesses than MaxAttempts, but fewer than
\* there are requests under way at once on top of it, those not yet counted included,
\* also when a code is replaced meanwhile.
GuessesAreBounded ==
  code.wrong + Cardinality(Guessing) < MaxAttempts + Cardinality(Handlers)

\* A value that is kept and no longer true became wrong within its own lifetime, even
\* when it was stored after clearAuthEnabledCache, or after the choice, by a request
\* that had read it before: nobody acts as the bootstrap user, or is sent to the
\* choice, for longer than TTL after sign-in was turned on or the choice was made.
KeptIsRecent ==
  \A k \in Kinds :
    mode = "local" /\ kept[k].age < TTL /\ kept[k].value # Truth(k) => since[k] <= kept[k].age

\* Codes expire, are locked by wrong guesses, are used up by requests that fail or are
\* lost in a restart, and are replaced while they are being typed; still, who goes on
\* registering becomes the first administrator, unless sign-in is turned off again.
FirstAdminArrives == CodeRequired ~> SomeActive \/ ~system.auth

\* The answer to a registration without a code that can be used says "A new setup
\* code has been issued in backend logs" (coreRoutes.ts): while the server still waits
\* for its first administrator, one is issued. The code does not keep this (TLC
\* refutes it, no run checks it): a server that first ran without sign-in and is
\* restarted in hybrid mode has sign-in on, but not in the row that CodeRequired reads.
AnnouncedCodeComes ==
  \A h \in Handlers :
    /\ handler[h].pc = "reissue" /\ handler[h].announced
    /\ AuthEnabled /\ bootstrap = "waiting" /\ ~SomeActive
    => CodeRequired
=============================================================================
