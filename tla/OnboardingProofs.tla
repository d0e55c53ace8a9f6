-------------------------- MODULE OnboardingProofs --------------------------
(***************************************************************************)
(* Proofs about Onboarding for any people, requests, modes, limits and     *)
(* bounds.                                                                 *)
(***************************************************************************)
EXTENDS Onboarding, FiniteSetTheorems, TLAPS

\* What a request has read and is to store is as recent as what is kept.
ReadIsRecent ==
  \A h \in Handlers :
    handler[h].pc = "store" /\ mode = "local" /\ handler[h].age < TTL
      /\ handler[h].value # Truth(handler[h].kind)
    => since[handler[h].kind] <= handler[h].age

IInv == TypeOK /\ GuessesAreBounded /\ KeptIsRecent /\ ReadIsRecent

-----------------------------------------------------------------------------
(* Types. *)

\* What a request can hold, by the step it is at.
LEMMA HandlerTypes ==
  ASSUME TypeOK, NEW h \in Handlers
  PROVE  /\ handler[h].pc = "verify" => handler[h].person \in People
         /\ handler[h].pc \in {"redeem", "activate", "create"} => handler[h].person \in People
         /\ handler[h].pc = "switch" => handler[h].auth \in BOOLEAN
         /\ handler[h].pc = "load" => handler[h].kind \in Kinds /\ handler[h].age \in 0..TTL
         /\ handler[h].pc = "store" =>
              /\ handler[h].kind \in Kinds /\ handler[h].age \in 0..TTL
              /\ handler[h].value \in BOOLEAN
  <1>1. handler[h] \in HandlerState
    BY DEF TypeOK
  <1>2. QED BY <1>1 DEF HandlerState, Idle

\* The states a request goes through.
LEMMA StateTypes ==
  /\ Idle \in HandlerState
  /\ \A p \in People, right \in BOOLEAN :
       [pc |-> "verify", person |-> p, right |-> right] \in HandlerState
  /\ \A p \in People : /\ [pc |-> "redeem", person |-> p] \in HandlerState
                       /\ [pc |-> "activate", person |-> p] \in HandlerState
                       /\ [pc |-> "create", person |-> p] \in HandlerState
  /\ [pc |-> "wrong"] \in HandlerState /\ [pc |-> "issue"] \in HandlerState
  /\ \A b \in BOOLEAN : [pc |-> "reissue", announced |-> b] \in HandlerState
  /\ \A a, b \in BOOLEAN : [pc |-> "switch", auth |-> a, issue |-> b] \in HandlerState
  /\ \A k \in Kinds, n \in 0..TTL :
       /\ [pc |-> "load", kind |-> k, age |-> n] \in HandlerState
       /\ \A b \in BOOLEAN :
            [pc |-> "store", kind |-> k, age |-> n, value |-> b] \in HandlerState
  BY DEF HandlerState

\* Changing a field of a state of a request.
LEMMA StateChanges ==
  ASSUME NEW s \in HandlerState
  PROVE  /\ s.pc = "verify" => [s EXCEPT !.right = FALSE] \in HandlerState
         /\ s.pc \in {"load", "store"} =>
              \A n \in 0..TTL : [s EXCEPT !.age = n] \in HandlerState
  BY DEF HandlerState, Idle

\* The columns of the setup code.
LEMMA CodeChanges ==
  /\ NoCode \in Code /\ [NoCode EXCEPT !.live = TRUE] \in Code
  /\ \A c \in Code : /\ c.wrong \in Nat
                     /\ [c EXCEPT !.wrong = @ + 1] \in Code
                     /\ [c EXCEPT !.expired = TRUE] \in Code
  <1>1. NoCode \in Code /\ [NoCode EXCEPT !.live = TRUE] \in Code
    BY DEF Code, NoCode
  <1>2. ASSUME NEW c \in Code PROVE c.wrong \in Nat /\ [c EXCEPT !.expired = TRUE] \in Code
    BY DEF Code
  <1>3. ASSUME NEW c \in Code, NEW n \in Nat PROVE [c EXCEPT !.wrong = n] \in Code
    BY DEF Code
  <1>4. ASSUME NEW c \in Code PROVE c.wrong + 1 \in Nat
    <2>1. c.wrong \in Nat
      BY <1>2, <1>4
    <2>2. QED BY <2>1
  <1>5. QED BY <1>1, <1>2, <1>3, <1>4

\* What a kept value is, and how it gets older.
LEMMA Ages ==
  ASSUME ConstantsAssumption, NEW n \in 0..TTL
  PROVE  /\ Older(n) \in 0..TTL /\ Older(n) <= n + 1 /\ (Older(n) < TTL => Older(n) = n + 1)
         /\ \A m \in 0..TTL : m <= n => Older(m) <= Older(n)
         /\ Nothing \in Kept
         /\ \A v \in BOOLEAN : Entry(v, n) \in Kept
         /\ \A v : Entry(v, n).age < TTL => Entry(v, n).age = n /\ Entry(v, n).value = v
  <1>1. Older(n) \in 0..TTL /\ Older(n) <= n + 1 /\ (Older(n) < TTL => Older(n) = n + 1)
    BY DEF Older, ConstantsAssumption
  <1>2. \A m \in 0..TTL : m <= n => Older(m) <= Older(n)
    BY DEF Older, ConstantsAssumption
  <1>3. Nothing \in Kept
    BY DEF Nothing, Kept, ConstantsAssumption
  <1>4. \A v \in BOOLEAN : Entry(v, n) \in Kept
    BY <1>3 DEF Entry, Kept
  <1>5. \A v : Entry(v, n).age < TTL => Entry(v, n).age = n /\ Entry(v, n).value = v
    <2>1. CASE n < TTL
      BY <2>1 DEF Entry
    <2>2. CASE ~(n < TTL)
      <3>1. \A v : Entry(v, n).age = TTL
        BY <2>2 DEF Entry, Nothing
      <3>2. QED BY <3>1 DEF ConstantsAssumption
    <2>3. QED BY <2>1, <2>2
  <1>6. QED BY <1>1, <1>2, <1>3, <1>4, <1>5

\* The initial state has the types.
LEMMA InitType == ConstantsAssumption /\ Init => TypeOK
  <1> SUFFICES ASSUME ConstantsAssumption, Init PROVE TypeOK
    OBVIOUS
  <1>1. system \in System
    BY DEF Init, System
  <1>2. kept \in [Kinds -> Kept] /\ handler \in [Handlers -> HandlerState]
    BY Ages, StateTypes DEF Init, ConstantsAssumption
  <1>3. since \in [Kinds -> 0..TTL] /\ restarts \in 0..RestartBound
    BY DEF Init, ConstantsAssumption
  <1>4. QED BY <1>1, <1>2, <1>3, CodeChanges DEF Init, TypeOK

\* A request that begins.
LEMMA RequestType ==
  ASSUME ConstantsAssumption, TypeOK, NEW h \in Handlers, Request(h)
  PROVE  /\ handler' \in [Handlers -> HandlerState]
         /\ UNCHANGED <<mode, system, bootstrap, user, code, kept, restarts>>
  <1>1. PICK state \in HandlerState : Starts(h, state)
    <2>1. CASE \E p \in People, right \in BOOLEAN : Register(h, p, right)
      BY <2>1, StateTypes DEF Register
    <2>2. CASE \E auth \in BOOLEAN : Choose(h, auth)
      BY <2>2, StateTypes DEF Choose
    <2>3. CASE \E auth \in BOOLEAN : Toggle(h, auth)
      <3>1. PICK auth \in BOOLEAN : Toggle(h, auth)
        BY <2>3
      <3>2. (~system.auth /\ auth) \in BOOLEAN
        OBVIOUS
      <3>3. QED BY <3>1, <3>2, StateTypes DEF Toggle
    <2>4. CASE \E kind \in Kinds : Miss(h, kind)
      BY <2>4, StateTypes DEF Miss, ConstantsAssumption
    <2>5. QED BY <2>1, <2>2, <2>3, <2>4 DEF Request
  <1>2. UNCHANGED <<mode, system, bootstrap, user, code, kept, restarts>>
    BY DEF Request, Register, Choose, Toggle, Miss
  <1>3. QED BY <1>1, <1>2 DEF Starts, Becomes, TypeOK

\* What is read has a type.
LEMMA TruthType ==
  ASSUME TypeOK, NEW kind \in Kinds
  PROVE  Truth(kind) \in BOOLEAN
  BY DEF TypeOK, System, Truth, NeedsChoice

\* A step of a request.
LEMMA HandleType ==
  ASSUME ConstantsAssumption, TypeOK, NEW h \in Handlers, Handle(h)
  PROVE  /\ handler' \in [Handlers -> HandlerState]
         /\ system' \in System /\ code' \in Code /\ kept' \in [Kinds -> Kept]
         /\ bootstrap' \in {"waiting", "claimed"}
         /\ user' \in [People -> {"none", "USER", "ADMIN"}]
         /\ mode' = mode /\ restarts' = restarts
  <1>1. CASE Verify(h) \/ Wrong(h) \/ Redeem(h) \/ Activate(h) \/ Create(h) \/ Reissue(h)
    <2>1. PICK state \in HandlerState : Becomes(h, state)
      <3>1. RefusedCode \in HandlerState
        BY StateTypes DEF RefusedCode
      <3>2. QED
        BY <1>1, <3>1, HandlerTypes, StateTypes
        DEF Verify, Wrong, Redeem, Activate, Create, Reissue, Redeeming
    <2>2. code' \in Code
      BY <1>1, CodeChanges
      DEF Verify, Wrong, Redeem, Activate, Create, Reissue, TypeOK
    <2>3. user' \in [People -> {"none", "USER", "ADMIN"}]
      BY <1>1, HandlerTypes DEF Verify, Wrong, Redeem, Activate, Create, Reissue, TypeOK
    <2>4. bootstrap' \in {"waiting", "claimed"}
      BY <1>1 DEF Verify, Wrong, Redeem, Activate, Create, Reissue, TypeOK
    <2>5. QED
      BY <1>1, <2>1, <2>2, <2>3, <2>4
      DEF Verify, Wrong, Redeem, Activate, Create, Reissue, Becomes, TypeOK
  <1>2. CASE Issue(h)
    <2>1. handler' \in [Handlers -> HandlerState]
      BY <1>2, StateTypes, StateChanges DEF Issue, TypeOK
    <2>2. QED BY <1>2, <2>1, CodeChanges DEF Issue, TypeOK
  <1>3. CASE Switch(h)
    <2>1. handler[h].auth \in BOOLEAN
      BY <1>3, HandlerTypes DEF Switch
    <2>2. system' \in System
      BY <1>3, <2>1 DEF Switch, TypeOK, System
    <2>3. kept' \in [Kinds -> Kept]
      BY <1>3, Ages DEF Switch, TypeOK, ConstantsAssumption
    <2>4. PICK state \in HandlerState : Becomes(h, state)
      BY <1>3, StateTypes DEF Switch
    <2>5. handler' \in [Handlers -> HandlerState]
      BY <2>4 DEF TypeOK, Becomes
    <2>6. UNCHANGED <<mode, bootstrap, user, code, restarts>>
      BY <1>3 DEF Switch
    <2>7. QED BY <2>2, <2>3, <2>5, <2>6 DEF TypeOK
  <1>4. CASE Load(h)
    <2>1. PICK state \in HandlerState : Becomes(h, state)
      BY <1>4, HandlerTypes, TruthType, StateTypes DEF Load
    <2>2. QED BY <1>4, <2>1 DEF Load, TypeOK, Becomes
  <1>5. CASE Store(h)
    <2>1. kept' \in [Kinds -> Kept]
      BY <1>5, HandlerTypes, Ages DEF Store, TypeOK
    <2>2. QED BY <1>5, <2>1, StateTypes DEF Store, TypeOK, Becomes
  <1>6. QED BY <1>1, <1>2, <1>3, <1>4, <1>5 DEF Handle

\* Every step keeps the types.
LEMMA NextType ==
  ASSUME ConstantsAssumption, TypeOK, [Next]_vars
  PROVE  TypeOK'
  <1>1. CASE UNCHANGED vars
    BY <1>1 DEF vars, TypeOK
  <1>2. ASSUME NEW ticks, Observe(ticks)
        PROVE  since' \in [Kinds -> 0..TTL]
    <2>1. ASSUME NEW k \in Kinds
          PROVE  Older(since[k]) \in 0..TTL /\ since[k] \in 0..TTL /\ 0 \in 0..TTL /\ TTL \in 0..TTL
      BY Ages DEF TypeOK, ConstantsAssumption
    <2>2. QED BY <1>2, <2>1 DEF Observe
  <1>3. CASE Act /\ Observe(FALSE)
    <2>1. since' \in [Kinds -> 0..TTL]
      BY <1>2, <1>3
    <2>2. ASSUME NEW h \in Handlers, Restart(h)
          PROVE  TypeOK'
      <3>1. handler' \in [Handlers -> HandlerState]
        BY <2>2, StateTypes DEF Restart
      <3>2. kept' \in [Kinds -> Kept]
        BY <2>2, Ages DEF Restart, ConstantsAssumption
      <3>3. restarts' \in 0..RestartBound
        BY <2>2 DEF Restart, TypeOK, ConstantsAssumption
      <3>4. QED BY <2>1, <2>2, <3>1, <3>2, <3>3 DEF Restart, TypeOK
    <2>3. ASSUME NEW p \in People, OidcCallback(p)
          PROVE  TypeOK'
      BY <2>1, <2>3 DEF OidcCallback, TypeOK
    <2>4. CASE Expire
      BY <2>1, <2>4, CodeChanges DEF Expire, TypeOK
    <2>5. QED
      BY <1>3, <2>1, <2>2, <2>3, <2>4, RequestType, HandleType DEF Act, TypeOK
  <1>4. CASE Tick /\ Observe(TRUE)
    <2>1. kept' \in [Kinds -> Kept]
      <3>1. ASSUME NEW k \in Kinds
            PROVE  Entry(kept[k].value, Older(kept[k].age)) \in Kept
        <4>1. kept[k].age \in 0..TTL /\ kept[k].value \in BOOLEAN
          BY DEF TypeOK, Kept
        <4>2. QED BY <4>1, Ages
      <3>2. QED BY <1>4, <3>1 DEF Tick
    <2>2. handler' \in [Handlers -> HandlerState]
      <3>1. ASSUME NEW h \in Handlers, handler[h].pc \in {"load", "store"}
            PROVE  [handler[h] EXCEPT !.age = Older(@)] \in HandlerState
        <4>1. handler[h].age \in 0..TTL
          BY <3>1, HandlerTypes
        <4>2. QED BY <3>1, <4>1, Ages, StateChanges DEF TypeOK
      <3>2. QED BY <1>4, <3>1 DEF Tick, TypeOK
    <2>3. since' \in [Kinds -> 0..TTL]
      BY <1>2, <1>4
    <2>4. QED BY <1>4, <2>1, <2>2, <2>3 DEF Tick, TypeOK
  <1>5. QED BY <1>1, <1>3, <1>4 DEF Next

-----------------------------------------------------------------------------
(* Guesses. *)

\* Requests are finitely many, those about to count a wrong guess too.
LEMMA GuessingIsFinite ==
  ASSUME ConstantsAssumption, NEW S \in SUBSET Handlers
  PROVE  /\ IsFiniteSet(S) /\ Cardinality(S) \in Nat
         /\ Cardinality(Handlers) \in Nat /\ Cardinality(S) <= Cardinality(Handlers)
         /\ \A T \in SUBSET S : Cardinality(T) <= Cardinality(S) /\ Cardinality(T) \in Nat
  <1>1. IsFiniteSet(Handlers) /\ IsFiniteSet(S)
    BY FS_Subset DEF ConstantsAssumption
  <1>2. QED BY <1>1, FS_Subset, FS_CardinalityType

\* Who is about to count a wrong guess gives up its place in doing so.
LEMMA OneGuessFewer ==
  ASSUME ConstantsAssumption, NEW S \in SUBSET Handlers, NEW h \in S
  PROVE  Cardinality(S \ {h}) = Cardinality(S) - 1
  BY GuessingIsFinite, FS_RemoveElement

\* Every step keeps the bound on guesses.
LEMMA NextGuesses ==
  ASSUME ConstantsAssumption, IInv, [Next]_vars
  PROVE  GuessesAreBounded'
  <1>1. /\ Guessing \in SUBSET Handlers /\ Guessing' \in SUBSET Handlers
        /\ Cardinality(Guessing) \in Nat /\ Cardinality(Guessing') \in Nat
        /\ Cardinality(Guessing') <= Cardinality(Handlers) /\ Cardinality(Handlers) \in Nat
        /\ MaxAttempts \in Nat \ {0} /\ code.wrong \in Nat
    BY GuessingIsFinite, CodeChanges DEF Guessing, IInv, TypeOK, ConstantsAssumption
  <1>2. CASE Guessing' \subseteq Guessing /\ code'.wrong = code.wrong
    <2>1. Cardinality(Guessing') <= Cardinality(Guessing)
      BY <1>1, <1>2, GuessingIsFinite
    <2>2. QED BY <1>1, <1>2, <2>1 DEF IInv, GuessesAreBounded
  <1>3. CASE code'.wrong = 0
    BY <1>1, <1>3 DEF GuessesAreBounded
  <1>4. CASE \E h \in Handlers : Verify(h) /\ ~Unusable
    <2>1. code.wrong < MaxAttempts /\ code'.wrong = code.wrong
      BY <1>1, <1>4 DEF Verify, Unusable
    <2>2. QED BY <1>1, <2>1 DEF GuessesAreBounded
  <1>5. CASE \E h \in Handlers : Wrong(h)
    <2>1. PICK h \in Handlers : Wrong(h)
      BY <1>5
    <2>2. h \in Guessing /\ Guessing' = Guessing \ {h}
      BY <2>1 DEF Wrong, Becomes, Idle, Guessing, IInv, TypeOK
    <2>3. code'.wrong = code.wrong + 1
      BY <2>1 DEF Wrong, IInv, TypeOK, Code
    <2>4. Cardinality(Guessing') = Cardinality(Guessing) - 1
      BY <1>1, <2>2, OneGuessFewer
    <2>5. QED BY <1>1, <2>3, <2>4 DEF IInv, GuessesAreBounded
  <1>6. ASSUME NEW h \in Handlers, NEW state, Becomes(h, state), state.pc # "wrong", code' = code
        PROVE  Guessing' \subseteq Guessing /\ code'.wrong = code.wrong
    BY <1>6 DEF Becomes, Guessing, IInv, TypeOK
  <1>7. ASSUME NEW h \in Handlers, Request(h)
        PROVE  Guessing' \subseteq Guessing /\ code'.wrong = code.wrong
    <2>1. PICK state : Becomes(h, state) /\ state.pc # "wrong" /\ code' = code
      BY <1>7 DEF Request, Register, Choose, Toggle, Miss, Starts
    <2>2. QED BY <1>6, <2>1
  <1>8. ASSUME NEW h \in Handlers, Handle(h)
        PROVE  GuessesAreBounded'
    <2>1. CASE Verify(h) /\ Unusable
      <3>1. PICK state : Becomes(h, state) /\ state.pc # "wrong" /\ code' = code
        BY <2>1 DEF Verify, RefusedCode
      <3>2. QED BY <1>2, <1>6, <3>1
    <2>2. CASE Activate(h) \/ Create(h) \/ Reissue(h) \/ Switch(h) \/ Load(h) \/ Store(h)
      <3>1. PICK state : Becomes(h, state) /\ state.pc # "wrong" /\ code' = code
        BY <2>2 DEF Activate, Create, Reissue, Switch, Load, Store, Idle
      <3>2. QED BY <1>2, <1>6, <3>1
    <2>3. CASE Redeem(h) \/ Issue(h)
      BY <1>3, <2>3 DEF Redeem, Issue, NoCode
    <2>4. QED BY <1>4, <1>5, <1>8, <2>1, <2>2, <2>3 DEF Handle
  <1>9. CASE \/ \E h \in Handlers : Restart(h)
             \/ \E p \in People : OidcCallback(p)
             \/ Expire \/ Tick \/ UNCHANGED vars
    <2>1. code'.wrong = code.wrong
      BY <1>9 DEF Restart, OidcCallback, Expire, Tick, vars, IInv, TypeOK, Code
    <2>2. ASSUME NEW h \in Handlers PROVE handler'[h].pc = "wrong" => handler[h].pc = "wrong"
      <3>1. CASE \E g \in Handlers : Restart(g)
        BY <3>1 DEF Restart, Idle
      <3>2. CASE Tick
        <4>1. handler[h].pc \in {"load", "store"} => handler'[h].pc = handler[h].pc
          BY <3>2 DEF Tick, IInv, TypeOK, HandlerState, Idle
        <4>2. QED BY <3>2, <4>1 DEF Tick
      <3>3. CASE handler' = handler
        BY <3>3
      <3>4. QED BY <1>9, <3>1, <3>2, <3>3 DEF OidcCallback, Expire, vars
    <2>3. QED BY <1>2, <2>1, <2>2 DEF Guessing
  <1>10. QED BY <1>2, <1>7, <1>8, <1>9 DEF Next, Act

-----------------------------------------------------------------------------
(* What is kept is recent. *)

\* An entry that claims what is not the case, and how old that may be.
Recent(kind, value, age) ==
  mode = "local" /\ age < TTL /\ value # Truth(kind) => since[kind] <= age

\* A value that was recent stays so: if it is wrong by this step, no time has passed
\* since.
LEMMA RecentStays ==
  ASSUME ConstantsAssumption, TypeOK, Observe(FALSE), mode' = mode, since' \in [Kinds -> 0..TTL],
         NEW k \in Kinds, NEW v, NEW n \in 0..TTL, Recent(k, v, n)
  PROVE  Recent(k, v, n)'
  <1>1. SUFFICES ASSUME mode' = "local", n < TTL, v # Truth(k)' PROVE since'[k] <= n
    BY DEF Recent
  <1>2. CASE Truth(k)' # Truth(k)
    BY <1>1, <1>2 DEF Observe
  <1>3. CASE Truth(k)' = Truth(k)
    BY <1>1, <1>3 DEF Observe, Recent
  <1>4. QED BY <1>2, <1>3

\* A tick makes it older, together with the time it has been wrong.
LEMMA RecentAges ==
  ASSUME ConstantsAssumption, TypeOK, Tick, Observe(TRUE),
         NEW k \in Kinds, NEW v, NEW n \in 0..TTL, Recent(k, v, n)
  PROVE  Recent(k, v, Older(n))'
  <1>1. Older(n) \in 0..TTL /\ (Older(n) < TTL => Older(n) = n + 1) /\ Older(n)' = Older(n)
    BY Ages DEF Older
  <1>2. Truth(k)' = Truth(k) /\ mode' = mode
    BY DEF Tick, Truth, NeedsChoice, SomeActive
  <1>3. SUFFICES ASSUME mode = "local", Older(n) < TTL, v # Truth(k) PROVE since'[k] <= Older(n)
    BY <1>1, <1>2 DEF Recent
  <1>4. n < TTL /\ since[k] \in 0..TTL /\ since[k] <= n
    BY <1>1, <1>3 DEF Recent, TypeOK, ConstantsAssumption
  <1>5. since'[k] = Older(since[k])
    BY <1>2, <1>3 DEF Observe
  <1>6. QED BY <1>1, <1>4, <1>5, Ages DEF ConstantsAssumption

\* The invariant in these terms.
LEMMA RecentInvariant ==
  /\ KeptIsRecent <=> \A k \in Kinds : Recent(k, kept[k].value, kept[k].age)
  /\ ReadIsRecent <=> \A h \in Handlers : handler[h].pc = "store" =>
                        Recent(handler[h].kind, handler[h].value, handler[h].age)
  BY DEF KeptIsRecent, ReadIsRecent, Recent

\* The values that are kept and read after a step, if they were recent before it,
\* are recent after it.
LEMMA ActIsRecent ==
  ASSUME ConstantsAssumption, TypeOK, TypeOK', Observe(FALSE), mode' = mode,
         \A k \in Kinds : kept'[k].age < TTL => Recent(k, kept'[k].value, kept'[k].age),
         \A h \in Handlers : handler'[h].pc = "store" =>
           Recent(handler'[h].kind, handler'[h].value, handler'[h].age)
  PROVE  KeptIsRecent' /\ ReadIsRecent'
  <1>1. since' \in [Kinds -> 0..TTL]
    BY DEF TypeOK
  <1>2. KeptIsRecent'
    <2>1. SUFFICES ASSUME NEW k \in Kinds, mode' = "local", kept'[k].age < TTL,
                          kept'[k].value # Truth(k)'
                   PROVE  since'[k] <= kept'[k].age
      BY DEF KeptIsRecent
    <2>2. PICK v \in BOOLEAN, n \in 0..TTL : v = kept'[k].value /\ n = kept'[k].age
      <3>1. kept'[k].value \in BOOLEAN /\ kept'[k].age \in 0..TTL
        BY DEF TypeOK, Kept
      <3>2. QED BY <3>1
    <2>3. Recent(k, v, n)
      BY <2>1, <2>2
    <2>4. QED BY <1>1, <2>1, <2>2, <2>3, RecentStays DEF Recent
  <1>3. ReadIsRecent'
    <2>1. SUFFICES ASSUME NEW h \in Handlers, handler'[h].pc = "store", mode' = "local",
                          handler'[h].age < TTL,
                          handler'[h].value # Truth(handler[h].kind)'
                   PROVE  since'[handler'[h].kind] <= handler'[h].age
      BY DEF ReadIsRecent
    <2>2. PICK k \in Kinds, v \in BOOLEAN, n \in 0..TTL :
            k = handler'[h].kind /\ v = handler'[h].value /\ n = handler'[h].age
      <3>1. handler'[h] \in HandlerState
        BY DEF TypeOK
      <3>2. handler'[h].kind \in Kinds /\ handler'[h].age \in 0..TTL
            /\ handler'[h].value \in BOOLEAN
        BY <2>1, <3>1 DEF HandlerState, Idle
      <3>3. QED BY <3>2
    <2>3. Recent(k, v, n)
      BY <2>1, <2>2
    <2>4. v # Truth(k)'
      BY <2>1, <2>2 DEF Truth
    <2>5. QED BY <1>1, <2>1, <2>2, <2>3, <2>4, RecentStays DEF Recent
  <1>4. QED BY <1>2, <1>3

\* Every step keeps what is kept, and what is to be, recent.
LEMMA NextRecent ==
  ASSUME ConstantsAssumption, IInv, [Next]_vars
  PROVE  KeptIsRecent' /\ ReadIsRecent'
  <1>1. TypeOK /\ TypeOK'
    BY NextType DEF IInv
  <1>2. /\ \A k \in Kinds : /\ kept[k].age \in 0..TTL
                            /\ Recent(k, kept[k].value, kept[k].age)
        /\ \A h \in Handlers : handler[h].pc = "store" =>
             /\ handler[h].kind \in Kinds /\ handler[h].age \in 0..TTL
             /\ Recent(handler[h].kind, handler[h].value, handler[h].age)
    BY <1>1, HandlerTypes, RecentInvariant DEF IInv, TypeOK, Kept
  <1>3. CASE UNCHANGED vars
    BY <1>3 DEF vars, IInv, KeptIsRecent, ReadIsRecent, Truth, NeedsChoice, SomeActive
  <1>4. CASE Act /\ Observe(FALSE)
    <2>1. ASSUME mode' = mode, kept' = kept,
                 NEW h \in Handlers, NEW state, Becomes(h, state), state.pc # "store"
          PROVE  KeptIsRecent' /\ ReadIsRecent'
      <3>1. \A g \in Handlers : handler'[g] = state \/ handler'[g] = handler[g]
        BY <1>1, <2>1 DEF Becomes, TypeOK
      <3>2. QED BY <1>1, <1>2, <1>4, <2>1, <3>1, ActIsRecent
    <2>2. ASSUME NEW h \in Handlers, Request(h)
          PROVE  KeptIsRecent' /\ ReadIsRecent'
      <3>1. PICK state : Becomes(h, state) /\ state.pc # "store"
        <4>1. CASE \E p \in People, right \in BOOLEAN : Register(h, p, right)
          BY <4>1 DEF Register, Starts
        <4>2. CASE \E auth \in BOOLEAN : Choose(h, auth)
          BY <4>2 DEF Choose, Starts
        <4>3. CASE \E auth \in BOOLEAN : Toggle(h, auth)
          BY <4>3 DEF Toggle, Starts
        <4>4. CASE \E kind \in Kinds : Miss(h, kind)
          BY <4>4 DEF Miss, Starts
        <4>5. QED BY <2>2, <4>1, <4>2, <4>3, <4>4 DEF Request
      <3>2. QED BY <1>1, <2>1, <2>2, <3>1, RequestType
    <2>3. ASSUME NEW h \in Handlers,
                 Verify(h) \/ Wrong(h) \/ Redeem(h) \/ Activate(h) \/ Create(h) \/ Reissue(h)
          PROVE  KeptIsRecent' /\ ReadIsRecent'
      <3>1. PICK state : Becomes(h, state) /\ state.pc # "store"
        BY <2>3 DEF Verify, Wrong, Redeem, Activate, Create, Reissue, Redeeming, RefusedCode, Idle
      <3>2. mode' = mode /\ kept' = kept
        BY <2>3 DEF Verify, Wrong, Redeem, Activate, Create, Reissue
      <3>3. QED BY <2>1, <3>1, <3>2
    <2>4. ASSUME NEW h \in Handlers, Issue(h)
          PROVE  KeptIsRecent' /\ ReadIsRecent'
      <3>1. ASSUME NEW g \in Handlers
            PROVE  handler'[g] = handler[g] \/ handler'[g].pc # "store"
        <4>1. handler[g].pc = "verify" => [handler[g] EXCEPT !.right = FALSE].pc = "verify"
          BY <1>1 DEF TypeOK, HandlerState, Idle
        <4>2. QED BY <2>4, <4>1 DEF Issue, Idle
      <3>2. mode' = mode /\ kept' = kept
        BY <2>4 DEF Issue
      <3>3. QED BY <1>1, <1>2, <1>4, <3>1, <3>2, ActIsRecent
    <2>5. ASSUME NEW h \in Handlers, Switch(h)
          PROVE  KeptIsRecent' /\ ReadIsRecent'
      <3>1. \A g \in Handlers : handler'[g] = handler[g] \/ handler'[g].pc # "store"
        BY <1>1, <2>5 DEF Switch, Becomes, TypeOK, Idle
      <3>2. \A k \in Kinds : kept'[k] = kept[k] \/ kept'[k] = Nothing
        BY <1>1, <2>5 DEF Switch, TypeOK
      <3>3. \A k \in Kinds : kept'[k].age < TTL => Recent(k, kept'[k].value, kept'[k].age)
        BY <1>2, <3>2 DEF Nothing, ConstantsAssumption
      <3>4. mode' = mode
        BY <2>5 DEF Switch
      <3>5. QED BY <1>1, <1>2, <1>4, <3>1, <3>3, <3>4, ActIsRecent
    <2>6. ASSUME NEW h \in Handlers, Load(h)
          PROVE  KeptIsRecent' /\ ReadIsRecent'
      <3>1. \A g \in Handlers : g # h => handler'[g] = handler[g]
        BY <1>1, <2>6 DEF Load, Becomes, TypeOK
      <3>2. handler'[h].value = Truth(handler[h].kind) /\ handler'[h].kind = handler[h].kind
        BY <1>1, <2>6 DEF Load, Becomes, TypeOK
      <3>3. Recent(handler'[h].kind, handler'[h].value, handler'[h].age)
        BY <3>2 DEF Recent
      <3>4. mode' = mode /\ kept' = kept
        BY <2>6 DEF Load
      <3>5. QED BY <1>1, <1>2, <1>4, <3>1, <3>3, <3>4, ActIsRecent
    <2>7. ASSUME NEW h \in Handlers, Store(h)
          PROVE  KeptIsRecent' /\ ReadIsRecent'
      <3> DEFINE s == handler[h]
      <3>1. s.kind \in Kinds /\ s.age \in 0..TTL /\ Recent(s.kind, s.value, s.age)
        BY <1>2, <2>7 DEF Store
      <3>2. \A k \in Kinds : IF k = s.kind THEN kept'[k] = Entry(s.value, s.age)
                                           ELSE kept'[k] = kept[k]
        BY <1>1, <2>7, <3>1 DEF Store, TypeOK
      <3>3. \A k \in Kinds : kept'[k].age < TTL => Recent(k, kept'[k].value, kept'[k].age)
        BY <1>2, <3>1, <3>2, Ages
      <3>4. \A g \in Handlers : handler'[g] = handler[g] \/ handler'[g].pc # "store"
        BY <1>1, <2>7 DEF Store, Becomes, TypeOK, Idle
      <3>5. mode' = mode
        BY <2>7 DEF Store
      <3>6. QED BY <1>1, <1>2, <1>4, <3>3, <3>4, <3>5, ActIsRecent
    <2>8. ASSUME NEW h \in Handlers, Restart(h)
          PROVE  KeptIsRecent' /\ ReadIsRecent'
      BY <2>8 DEF Restart, KeptIsRecent, ReadIsRecent, Nothing, Idle, ConstantsAssumption
    <2>9. CASE Expire \/ \E p \in People : OidcCallback(p)
      <3>1. UNCHANGED <<mode, kept, handler>>
        BY <2>9 DEF Expire, OidcCallback
      <3>2. QED BY <1>1, <1>2, <1>4, <3>1, ActIsRecent
    <2>10. QED
      BY <1>4, <2>2, <2>3, <2>4, <2>5, <2>6, <2>7, <2>8, <2>9 DEF Act, Handle
  <1>5. CASE Tick /\ Observe(TRUE)
    <2>1. mode' = mode /\ \A k \in Kinds : Truth(k)' = Truth(k)
      BY <1>5 DEF Tick, Truth, NeedsChoice, SomeActive
    <2>2. ASSUME NEW k \in Kinds, mode' = "local", kept'[k].age < TTL,
                 kept'[k].value # Truth(k)'
          PROVE  since'[k] <= kept'[k].age
      <3>1. PICK v \in BOOLEAN, n \in 0..TTL :
              v = kept[k].value /\ n = kept[k].age /\ Recent(k, v, n)
        <4>1. kept[k].value \in BOOLEAN /\ kept[k].age \in 0..TTL
              /\ Recent(k, kept[k].value, kept[k].age)
          BY <1>1, <1>2 DEF TypeOK, Kept
        <4>2. QED BY <4>1
      <3>2. kept'[k] = Entry(v, Older(n)) /\ Older(n) \in 0..TTL
        BY <1>5, <3>1, Ages DEF Tick
      <3>3. kept'[k].value = v /\ kept'[k].age = Older(n)
        BY <2>2, <3>2, Ages
      <3>4. Recent(k, v, Older(n))'
        BY <1>1, <1>5, <3>1, RecentAges
      <3>5. QED BY <2>2, <3>3, <3>4 DEF Recent, Older
    <2>3. ASSUME NEW h \in Handlers, handler'[h].pc = "store", mode' = "local",
                 handler'[h].age < TTL, handler'[h].value # Truth(handler[h].kind)'
          PROVE  since'[handler'[h].kind] <= handler'[h].age
      <3>1. /\ handler[h].pc = "store" /\ handler'[h].kind = handler[h].kind
            /\ handler'[h].value = handler[h].value /\ handler'[h].age = Older(handler[h].age)
        <4>1. handler[h] \in HandlerState
          BY <1>1 DEF TypeOK
        <4>2. handler[h].pc \in {"load", "store"} =>
                handler'[h] = [handler[h] EXCEPT !.age = Older(@)]
          BY <1>5 DEF Tick
        <4>3. handler[h].pc \notin {"load", "store"} => handler'[h] = handler[h]
          BY <1>5 DEF Tick
        <4>4. QED BY <2>3, <4>1, <4>2, <4>3 DEF HandlerState, Idle
      <3>2. PICK k \in Kinds, v \in BOOLEAN, n \in 0..TTL :
              /\ k = handler[h].kind /\ v = handler[h].value /\ n = handler[h].age
              /\ Recent(k, v, n)
        <4>1. /\ handler[h].kind \in Kinds /\ handler[h].age \in 0..TTL
              /\ handler[h].value \in BOOLEAN
              /\ Recent(handler[h].kind, handler[h].value, handler[h].age)
          BY <1>1, <1>2, <3>1, HandlerTypes
        <4>2. QED BY <4>1
      <3>3. Recent(k, v, Older(n))'
        BY <1>1, <1>5, <3>2, RecentAges
      <3>4. v # Truth(k)'
        BY <2>3, <3>1, <3>2 DEF Truth
      <3>5. QED BY <2>3, <3>1, <3>2, <3>3, <3>4 DEF Recent, Older
    <2>4. QED BY <2>2, <2>3 DEF KeptIsRecent, ReadIsRecent
  <1>6. QED BY <1>3, <1>4, <1>5 DEF Next

-----------------------------------------------------------------------------
(* The theorems. *)

\* The invariant holds at first.
LEMMA InitInvariant == ConstantsAssumption /\ Init => IInv
  <1> SUFFICES ASSUME ConstantsAssumption, Init PROVE IInv
    OBVIOUS
  <1>1. TypeOK
    BY InitType
  <1>2. GuessesAreBounded
    <2>1. Guessing = {} /\ code.wrong = 0
      BY DEF Init, Guessing, Idle, NoCode
    <2>2. Cardinality(Handlers) \in Nat /\ Cardinality({}) = 0 /\ MaxAttempts \in Nat \ {0}
      BY FS_CardinalityType, FS_EmptySet DEF ConstantsAssumption
    <2>3. QED BY <2>1, <2>2 DEF GuessesAreBounded
  <1>3. KeptIsRecent /\ ReadIsRecent
    BY DEF Init, KeptIsRecent, ReadIsRecent, Nothing, Idle, ConstantsAssumption
  <1>4. QED BY <1>1, <1>2, <1>3 DEF IInv

\* All behaviours keep the invariant.
LEMMA Invariance == Spec => []IInv
  <1>1. IInv /\ [Next]_vars => IInv'
    BY NextType, NextGuesses, NextRecent, ConstantsAssumption DEF IInv
  <1>2. Init => IInv
    BY InitInvariant, ConstantsAssumption
  <1>3. QED BY <1>1, <1>2, PTL DEF Spec

\* Rows, kept values and requests have their types at all times.
THEOREM TypeCorrect == Spec => []TypeOK
  <1>1. IInv => TypeOK
    BY DEF IInv
  <1>2. QED BY Invariance, <1>1, PTL

\* However many requests guess at once, and whenever the code is replaced, the limit
\* on wrong guesses is passed by less than one for each request under way.
THEOREM GuessingIsLimited == Spec => []GuessesAreBounded
  <1>1. IInv => GuessesAreBounded
    BY DEF IInv
  <1>2. QED BY Invariance, <1>1, PTL

\* No value that is kept misleads for longer than it is kept, whichever request
\* stores it, and however late.
THEOREM StaleForItsTime == Spec => []KeptIsRecent
  <1>1. IInv => KeptIsRecent
    BY DEF IInv
  <1>2. QED BY Invariance, <1>1, PTL
=============================================================================
