----------------------- MODULE AgpsStateMachine_proofs -----------------------
(***************************************************************************)
(* Proofs about AgpsStateMachine, for any number of handles, commands and  *)
(* reports under way: its state agrees with its subscribers and with what  *)
(* the modem was told, it never waits for nothing, and it implements       *)
(* AtlService.  Of the emergency machine of MCAgps: a call, or one on its  *)
(* way, has a subscriber or a release behind it.                           *)
(***************************************************************************)
EXTENDS MCAgps, SequenceTheorems, FiniteSetTheorems, WellFoundedInduction, TLAPS

Commands == {"request", "release"}
Events == {"GRANTED", "RELEASED", "DENIED"}

-----------------------------------------------------------------------------
(* Facts about what is under way. *)

LEMMA HasAfterAppend ==
  ASSUME NEW T, NEW s \in Seq(T), NEW e \in T, NEW S
  PROVE  /\ Append(s, e) \in Seq(T)
         /\ Has(s, S) => Has(Append(s, e), S)
         /\ e \in S => Has(Append(s, e), S)
<1>1. /\ Append(s, e) \in Seq(T) /\ Len(Append(s, e)) = Len(s) + 1
      /\ \A i \in 1..Len(s) : Append(s, e)[i] = s[i]
      /\ Append(s, e)[Len(s) + 1] = e
  BY AppendProperties
<1>2. Len(s) \in Nat /\ DOMAIN s = 1..Len(s)
      /\ DOMAIN Append(s, e) = 1..(Len(s) + 1)
  BY <1>1
<1> QED BY <1>1, <1>2 DEF Has

LEMMA HasAfterTail ==
  ASSUME NEW T, NEW s \in Seq(T), s # <<>>, NEW S
  PROVE  /\ Tail(s) \in Seq(T) /\ Head(s) \in T
         /\ (Has(s, S) /\ Head(s) \notin S) => Has(Tail(s), S)
<1>1. /\ Tail(s) \in Seq(T) /\ Head(s) \in T /\ Head(s) = s[1]
      /\ Len(Tail(s)) = Len(s) - 1 /\ Len(s) \in Nat \ {0}
      /\ \A i \in 1..Len(Tail(s)) : Tail(s)[i] = s[i+1]
  BY HeadTailProperties, EmptySeq
<1>2. ASSUME NEW i \in DOMAIN s, s[i] \in S, Head(s) \notin S
      PROVE  Has(Tail(s), S)
  <2>1. i \in 1..Len(s) /\ i # 1
    BY <1>1, <1>2
  <2>2. i - 1 \in DOMAIN Tail(s) /\ Tail(s)[i-1] = s[i]
    BY <1>1, <2>1
  <2> QED BY <1>2, <2>2 DEF Has
<1> QED BY <1>1, <1>2 DEF Has

(* What requestOrReleaseDataConn leaves under way. *)
LEMMA AskFacts ==
  ASSUME toFramework \in Seq(Commands), overlapped \in BOOLEAN,
         NEW c \in Commands, Ask(c)
  PROVE  /\ toFramework' \in Seq(Commands) /\ overlapped' \in BOOLEAN
         /\ Has(toFramework', {c})
BY HasAfterAppend DEF Ask

-----------------------------------------------------------------------------
(* What the helpers do to the list of subscribers. *)

Subs == {"none", "plain", "waiter", "inactive"}

LEMMA HelperTypes ==
  ASSUME subs \in [Handles -> Subs], told \in [Handles -> {"idle", "opening", "open", "closing"}],
         NEW h \in Handles, NEW wait \in BOOLEAN, NEW S
  PROVE  /\ Added(h, wait) \in [Handles -> Subs]
         /\ Removed(h) \in [Handles -> Subs]
         /\ Without(S) \in [Handles -> Subs]
         /\ ToldIdle(S) \in [Handles -> {"idle", "opening", "open", "closing"}]
BY DEF Added, Removed, Without, ToldIdle, Subs

Agreement == StateMatchesSubscribers /\ ToldAgrees

IInv == TypeOK /\ Agreement /\ WaitsForSomething

Step == IInv' /\ [Service!Next]_told

-----------------------------------------------------------------------------
(* The modem. *)

LEMMA SubscribeStep ==
  ASSUME IInv, NEW h \in Handles, NEW wait \in BOOLEAN, requestATL(h, wait)
  PROVE  Step
<1>1. /\ subs' = Added(h, wait)
      /\ told' = [told EXCEPT ![h] = IF state = "ACQUIRED" THEN "open" ELSE "opening"]
      /\ UNCHANGED <<fromFramework, conn, drops>> /\ told[h] = "idle"
  BY DEF requestATL, Subscribe, framework
<1>2. \/ state = "RELEASED" /\ state' = "PENDING" /\ Ask("request")
      \/ state # "RELEASED" /\ state' = state /\ AskNothing
  BY DEF requestATL, Subscribe
<1>3. TypeOK /\ state \in States /\ subs \in [Handles -> Subs]
  BY DEF IInv, TypeOK, Subs
<1>4. /\ toFramework' \in Seq(Commands) /\ overlapped' \in BOOLEAN
      /\ state' = "PENDING" => Has(toFramework', {"request"})
                               \/ (state = state' /\ AskNothing)
  BY <1>2, <1>3, AskFacts DEF TypeOK, Commands, AskNothing
<1>5. TypeOK'
  BY <1>1, <1>2, <1>3, <1>4, HelperTypes DEF TypeOK, States, Subs, Commands
<1>6. subs[h] = "none" /\ subs'[h] \in {"plain", "waiter"}
      /\ \A g \in Handles : g # h => subs'[g] = subs[g] /\ told'[g] = told[g]
  BY <1>1, <1>3 DEF IInv, Agreement, ToldAgrees, TypeOK, Added, Subs
<1>7. StateMatchesSubscribers'
  BY <1>2, <1>3, <1>6 DEF IInv, Agreement, StateMatchesSubscribers, Empty, SomeActive, States
<1>8. ToldAgrees'
  BY <1>1, <1>2, <1>3, <1>6
     DEF IInv, Agreement, ToldAgrees, StateMatchesSubscribers, Empty, TypeOK, States
<1>9. WaitsForSomething'
  BY <1>1, <1>2, <1>4 DEF IInv, WaitsForSomething, AskNothing
<1>10. Service!Request(h)
  <2>1. (state = "ACQUIRED") <=> Service!In("open") # {}
    BY <1>3 DEF IInv, Agreement, StateMatchesSubscribers, ToldAgrees, SomeActive, Service!In
  <2> QED BY <1>1, <2>1 DEF Service!Request
<1> QED BY <1>5, <1>7, <1>8, <1>9, <1>10 DEF Step, IInv, Agreement, Service!Next

LEMMA UnsubscribeStep ==
  ASSUME IInv, NEW h \in Handles, releaseATL(h)
  PROVE  Step
<1>1. /\ UNCHANGED <<fromFramework, conn, drops>> /\ subs[h] # "none"
      /\ state # "RELEASED"
  BY DEF releaseATL, Unsubscribe, framework, IInv, Agreement, StateMatchesSubscribers, Empty
<1>2. /\ subs' = Removed(h)
      /\ told' = [told EXCEPT ![h] = IF subs'[h] = "inactive" THEN "closing" ELSE "idle"]
  BY <1>1 DEF releaseATL, Unsubscribe
<1>3. \/ /\ state \in {"PENDING", "ACQUIRED"} /\ ~SomeActive(subs')
         /\ state' = IF Empty(subs') THEN "RELEASED" ELSE "RELEASING"
         /\ Ask("release")
      \/ /\ state \in {"PENDING", "ACQUIRED"} /\ SomeActive(subs')
         /\ state' = state /\ AskNothing
      \/ /\ state = "RELEASING"
         /\ state' = IF Empty(subs') THEN "RELEASED" ELSE state
         /\ AskNothing
  BY <1>1 DEF releaseATL, Unsubscribe
<1>4. TypeOK /\ state \in States /\ subs \in [Handles -> Subs]
  BY DEF IInv, TypeOK, Subs
<1>5. /\ toFramework' \in Seq(Commands) /\ overlapped' \in BOOLEAN
      /\ Ask("release") => Has(toFramework', {"release"})
  BY <1>3, <1>4, AskFacts DEF TypeOK, Commands, AskNothing
<1>6. TypeOK'
  BY <1>1, <1>2, <1>3, <1>4, <1>5, HelperTypes DEF TypeOK, States, Subs, Commands
<1>7. /\ subs'[h] = IF subs[h] = "plain" THEN "none" ELSE "inactive"
      /\ \A g \in Handles : g # h => subs'[g] = subs[g] /\ told'[g] = told[g]
      /\ told'[h] = IF subs[h] = "plain" THEN "idle" ELSE "closing"
  BY <1>2, <1>4 DEF Removed, TypeOK
<1>8. \E g \in Handles : ~Empty(subs') => subs'[g] # "none"
  BY DEF Empty
<1>9. StateMatchesSubscribers'
  <2>1. CASE state \in {"PENDING", "ACQUIRED"} /\ ~SomeActive(subs')
    BY <1>3, <1>6, <2>1 DEF StateMatchesSubscribers, Empty, SomeActive, TypeOK
  <2>2. CASE state \in {"PENDING", "ACQUIRED"} /\ SomeActive(subs')
    BY <1>3, <1>6, <2>2 DEF StateMatchesSubscribers, Empty, SomeActive, TypeOK
  <2>3. CASE state = "RELEASING"
    BY <1>3, <1>4, <1>7, <2>3
       DEF StateMatchesSubscribers, Empty, SomeActive, TypeOK, IInv, Agreement, Subs
  <2> QED BY <1>3, <2>1, <2>2, <2>3
<1>10. ToldAgrees'
  <2>1. ASSUME NEW g \in Handles, SomeActive(subs') \/ subs'[g] \in {"none", "inactive"}
        PROVE  told'[g] = IF subs'[g] = "none" THEN "idle"
                          ELSE IF subs'[g] = "inactive" THEN "closing"
                          ELSE IF state = "ACQUIRED" THEN "open" ELSE "opening"
    BY <1>4, <1>7 DEF IInv, Agreement, ToldAgrees
  <2>2. \A g \in Handles : subs'[g] \in {"none", "inactive"} \/ SomeActive(subs')
    BY <1>6 DEF SomeActive, TypeOK
  <2>3. SomeActive(subs') => (state' = "ACQUIRED" <=> state = "ACQUIRED")
    BY <1>3 DEF SomeActive, Empty
  <2> QED BY <2>1, <2>2, <2>3 DEF ToldAgrees, SomeActive
<1>11. WaitsForSomething'
  BY <1>1, <1>3, <1>5 DEF IInv, WaitsForSomething, AskNothing
<1>12. Service!Release(h) \/ UNCHANGED told
  <2>1. CASE subs[h] = "inactive"
    <3>1. told[h] = "closing" /\ told \in [Handles -> {"idle", "opening", "open", "closing"}]
      BY <1>4, <2>1 DEF IInv, Agreement, ToldAgrees, TypeOK
    <3> QED BY <1>2, <1>7, <2>1, <3>1
  <2>2. CASE subs[h] \in {"plain", "waiter"}
    <3>1. told[h] \in {"opening", "open"}
      BY <2>2 DEF IInv, Agreement, ToldAgrees
    <3>2. PICK s \in {"idle", "closing"} : told' = [told EXCEPT ![h] = s]
      BY <1>2
    <3> QED BY <3>1, <3>2 DEF Service!Release
  <2> QED BY <1>1, <1>4, <2>1, <2>2 DEF Subs
<1> QED BY <1>6, <1>9, <1>10, <1>11, <1>12 DEF Step, IInv, Agreement, Service!Next

-----------------------------------------------------------------------------
(* The reports of the framework. *)

LEMMA ReportFacts ==
  ASSUME TypeOK, NEW e, Report(e)
  PROVE  /\ fromFramework' \in Seq(Events)
         /\ \A S : (Has(fromFramework, S) /\ e \notin S) => Has(fromFramework', S)
<1>1. fromFramework \in Seq(Events) /\ fromFramework # <<>>
      /\ Head(fromFramework) = e /\ fromFramework' = Tail(fromFramework)
  BY DEF TypeOK, Events, Report
<1> QED BY <1>1, HasAfterTail

LEMMA GrantedStep ==
  ASSUME IInv, Granted
  PROVE  Step
<1>1. /\ Report("GRANTED") /\ UNCHANGED <<subs, conn, drops, toFramework, overlapped>>
      /\ \/ /\ state = "PENDING" /\ state' = "ACQUIRED"
            /\ told' = [h \in Handles |-> IF IsActive(h) THEN "open" ELSE told[h]]
         \/ state # "PENDING" /\ UNCHANGED <<state, told>>
  BY DEF Granted, AskNothing, framework
<1>2. /\ fromFramework' \in Seq(Events)
      /\ Has(fromFramework, {"RELEASED", "DENIED"}) => Has(fromFramework', {"RELEASED", "DENIED"})
  BY <1>1, ReportFacts DEF IInv
<1>3. TypeOK'
  BY <1>1, <1>2 DEF IInv, TypeOK, States, Events
<1>4. Agreement'
  BY <1>1 DEF IInv, TypeOK, Agreement, StateMatchesSubscribers, ToldAgrees, IsActive,
              SomeActive, Empty
<1>5. WaitsForSomething'
  BY <1>1, <1>2 DEF IInv, WaitsForSomething
<1>6. Service!Granted \/ UNCHANGED told
  BY <1>1 DEF IInv, TypeOK, Agreement, ToldAgrees, IsActive, Service!Granted, Service!In
<1> QED BY <1>3, <1>4, <1>5, <1>6 DEF Step, IInv, Service!Next

(* The end of RELEASING. *)
LEMMA CloseCompletedStep ==
  ASSUME IInv, NEW e, Report(e), CloseCompleted, UNCHANGED framework
  PROVE  Step
<1>1. /\ state = "RELEASING" /\ UNCHANGED <<conn, drops>>
      /\ subs' = Without({"inactive"}) /\ told' = ToldIdle({"inactive"})
      /\ \/ SomeActive(subs) /\ state' = "PENDING" /\ Ask("request")
         \/ ~SomeActive(subs) /\ state' = "RELEASED" /\ AskNothing
  BY DEF CloseCompleted, framework
<1>2. /\ toFramework' \in Seq(Commands) /\ overlapped' \in BOOLEAN
      /\ state' = "PENDING" => Has(toFramework', {"request"})
  BY <1>1, AskFacts DEF IInv, TypeOK, Commands, AskNothing
<1>3. TypeOK'
  <2>1. fromFramework' \in Seq(Events)
    BY ReportFacts DEF IInv
  <2>2. subs' \in [Handles -> Subs] /\ told' \in [Handles -> {"idle", "opening", "open", "closing"}]
    BY <1>1 DEF IInv, TypeOK, Without, ToldIdle, Subs
  <2> QED BY <1>1, <1>2, <2>1, <2>2 DEF IInv, TypeOK, States, Events, Commands, Subs
<1>4. \A h \in Handles : /\ subs'[h] = IF subs[h] = "inactive" THEN "none" ELSE subs[h]
                         /\ told'[h] = IF subs[h] = "inactive" THEN "idle" ELSE told[h]
  BY <1>1 DEF Without, ToldIdle
<1>5. StateMatchesSubscribers'
  BY <1>1, <1>3, <1>4 DEF IInv, TypeOK, StateMatchesSubscribers, SomeActive, Empty
<1>6. ToldAgrees'
  BY <1>1, <1>3, <1>4 DEF IInv, TypeOK, Agreement, ToldAgrees, SomeActive
<1>7. WaitsForSomething'
  BY <1>1, <1>2 DEF WaitsForSomething
<1>8. Service!Closed
  <2>1. told' = [h \in Handles |-> IF told[h] = "closing" THEN "idle" ELSE told[h]]
    BY <1>1 DEF ToldIdle, IInv, Agreement, ToldAgrees
  <2> QED BY <1>1, <2>1 DEF IInv, Agreement, ToldAgrees, Service!Closed, Service!In
<1> QED BY <1>3, <1>5, <1>6, <1>7, <1>8 DEF Step, IInv, Agreement, Service!Next

LEMMA DropAllStep ==
  ASSUME IInv, NEW e, Report(e), DropAll, UNCHANGED framework
  PROVE  Step
<1>1. /\ state' = "RELEASED" /\ UNCHANGED <<conn, drops, toFramework, overlapped>>
      /\ subs' = [h \in Handles |-> "none"] /\ told' = [h \in Handles |-> "idle"]
  BY DEF DropAll, framework, AskNothing, Without, ToldIdle, IInv, TypeOK, Agreement, ToldAgrees
<1>2. TypeOK'
  <2>1. fromFramework' \in Seq(Events)
    BY ReportFacts DEF IInv
  <2> QED BY <1>1, <2>1 DEF IInv, TypeOK, States, Events
<1>3. Agreement'
  BY <1>1 DEF Agreement, StateMatchesSubscribers, ToldAgrees, Empty
<1>4. WaitsForSomething'
  BY <1>1 DEF WaitsForSomething
<1>5. Service!Lost
  BY <1>1 DEF Service!Lost
<1> QED BY <1>2, <1>3, <1>4, <1>5 DEF Step, IInv, Service!Next

(* A report that changes nothing: RELEASED in RELEASED or PENDING, DENIED in *)
(* RELEASED or ACQUIRED.                                                     *)
LEMMA NothingStep ==
  ASSUME IInv, NEW e, Report(e), UNCHANGED <<state, subs, told>>, AskNothing,
         UNCHANGED framework, state # "RELEASING", e = "DENIED" => state # "PENDING",
         e # "GRANTED"
  PROVE  Step
<1>1. UNCHANGED <<state, subs, told, toFramework, overlapped, conn, drops>>
  BY DEF AskNothing, framework
<1>2. /\ fromFramework' \in Seq(Events)
      /\ e # "DENIED" /\ Has(fromFramework, {"GRANTED", "DENIED"})
           => Has(fromFramework', {"GRANTED", "DENIED"})
  BY ReportFacts DEF IInv
<1>3. TypeOK'
  BY <1>1, <1>2 DEF IInv, TypeOK, Events
<1>4. Agreement'
  BY <1>1 DEF IInv, Agreement, StateMatchesSubscribers, ToldAgrees, Empty, SomeActive
<1>5. WaitsForSomething'
  BY <1>1, <1>2 DEF IInv, WaitsForSomething
<1> QED BY <1>1, <1>3, <1>4, <1>5 DEF Step, IInv

-----------------------------------------------------------------------------
(* The framework. *)

LEMMA FrameworkStep ==
  ASSUME IInv, Framework \/ FrameworkDrop
  PROVE  Step
<1>1. UNCHANGED <<state, subs, told, overlapped>>
  BY DEF Framework, FrameworkRequest, FrameworkRelease, FrameworkDrop
<1>2. toFramework \in Seq(Commands) /\ fromFramework \in Seq(Events)
  BY DEF IInv, TypeOK, Commands, Events
<1>3. Agreement'
  BY <1>1 DEF IInv, Agreement, StateMatchesSubscribers, ToldAgrees, Empty, SomeActive
<1>4. CASE Framework
  <2>1. PICK c \in Commands, e \in Events :
          /\ toFramework # <<>> /\ Head(toFramework) = c
          /\ toFramework' = Tail(toFramework)
          /\ fromFramework' = Append(fromFramework, e)
          /\ conn' \in BOOLEAN /\ drops' = drops
          /\ c = "request" => e \in {"GRANTED", "DENIED"}
          /\ c = "release" => e \in {"RELEASED", "DENIED"}
    BY <1>4 DEF Framework, FrameworkRequest, FrameworkRelease, Commands, Events
  <2>2. /\ toFramework' \in Seq(Commands) /\ fromFramework' \in Seq(Events)
        /\ \A S : Has(fromFramework, S) \/ e \in S => Has(fromFramework', S)
        /\ \A S : Has(toFramework, S) /\ c \notin S => Has(toFramework', S)
    BY <1>2, <2>1, HasAfterAppend, HasAfterTail
  <2>3. TypeOK'
    BY <1>1, <2>1, <2>2 DEF IInv, TypeOK, Commands, Events
  <2>4. WaitsForSomething'
    BY <1>1, <2>1, <2>2 DEF IInv, WaitsForSomething, Commands
  <2> QED BY <1>1, <1>3, <2>3, <2>4 DEF Step, IInv
<1>5. CASE FrameworkDrop
  <2>1. /\ fromFramework' \in Seq(Events) /\ toFramework' = toFramework
        /\ \A S : Has(fromFramework, S) => Has(fromFramework', S)
    BY <1>2, <1>5, HasAfterAppend DEF FrameworkDrop, Events
  <2>2. TypeOK'
    <3>1. drops' \in 0..MaxDrop /\ conn' \in BOOLEAN
      <4>1. drops' = drops + 1 /\ drops < MaxDrop /\ conn' = FALSE
        BY <1>5 DEF FrameworkDrop
      <4>2. drops \in 0..MaxDrop /\ MaxDrop \in Nat
        BY AgpsAssumption DEF AgpsAssumption, IInv, TypeOK
      <4>3. drops' \in 0..MaxDrop
        BY <4>1, <4>2
      <4>4. conn' \in BOOLEAN
        BY <4>1
      <4> QED BY <4>3, <4>4
    <3> QED BY <1>1, <2>1, <3>1 DEF IInv, TypeOK, Events
  <2>3. WaitsForSomething'
    BY <1>1, <2>1 DEF IInv, WaitsForSomething
  <2> QED BY <1>1, <1>3, <2>2, <2>3 DEF Step, IInv
<1> QED BY <1>4, <1>5

-----------------------------------------------------------------------------
(* Every step. *)

LEMMA InitStep == Init => IInv /\ Service!Init
<1> SUFFICES ASSUME Init PROVE IInv /\ Service!Init
  OBVIOUS
<1>1. TypeOK
  <2>1. toFramework \in Seq({"request", "release"})
        /\ fromFramework \in Seq({"GRANTED", "RELEASED", "DENIED"})
    BY DEF Init
  <2>2. drops \in 0..MaxDrop
    BY AgpsAssumption DEF AgpsAssumption, Init
  <2> QED BY <2>1, <2>2 DEF Init, TypeOK, States
<1>2. Agreement /\ WaitsForSomething
  BY DEF Init, Agreement, StateMatchesSubscribers, ToldAgrees, WaitsForSomething, Empty
<1> QED BY <1>1, <1>2 DEF IInv, Init, Service!Init

LEMMA NextStep == IInv /\ [Next]_vars => Step
<1> SUFFICES ASSUME IInv, [Next]_vars PROVE Step
  OBVIOUS
<1>1. CASE Modem
  BY <1>1, SubscribeStep, UnsubscribeStep DEF Modem
<1>2. CASE Granted
  BY <1>2, GrantedStep
<1>3. CASE Released
  <2>1. Report("RELEASED") /\ UNCHANGED framework
    BY <1>3 DEF Released
  <2>2. \/ CloseCompleted \/ DropAll
        \/ state \in {"RELEASED", "PENDING"} /\ UNCHANGED <<state, subs, told>> /\ AskNothing
    BY <1>3 DEF Released
  <2> QED BY <2>1, <2>2, CloseCompletedStep, DropAllStep, NothingStep
<1>4. CASE Denied
  <2>1. Report("DENIED") /\ UNCHANGED framework
    BY <1>4 DEF Denied
  <2>2. \/ CloseCompleted \/ DropAll
        \/ state \in {"RELEASED", "ACQUIRED"} /\ UNCHANGED <<state, subs, told>> /\ AskNothing
    BY <1>4 DEF Denied
  <2> QED BY <2>1, <2>2, CloseCompletedStep, DropAllStep, NothingStep
<1>5. CASE Framework \/ FrameworkDrop
  BY <1>5, FrameworkStep
<1>6. CASE UNCHANGED vars
  BY <1>6 DEF vars, Step, IInv, TypeOK, Agreement, StateMatchesSubscribers, ToldAgrees,
              WaitsForSomething, Empty, SomeActive, Has
<1> QED BY <1>1, <1>2, <1>3, <1>4, <1>5, <1>6 DEF Next, Reports

-----------------------------------------------------------------------------
(* The inductive invariant: the type, the agreement of the state with the     *)
(* subscribers and with what the modem was told, and that something is under  *)
(* way whose report ends PENDING and RELEASING.                               *)
LEMMA Invariant == Spec => []IInv
<1>1. IInv /\ [Next]_vars => IInv'
  BY NextStep DEF Step
<1> QED BY InitStep, <1>1, PTL DEF Spec

(* Every variable keeps its type, whatever the modem asks and the framework  *)
(* reports.                                                                  *)
THEOREM TypeCorrect == Spec => []TypeOK
BY Invariant, PTL DEF IInv

(* The state machine is RELEASED exactly without subscribers, asks for or    *)
(* holds the connection only for an active one, and gives it up only while   *)
(* somebody waits for that (processAgpsEvent*, Agps.cpp:72-290).             *)
THEOREM StateAlwaysMatches == Spec => []StateMatchesSubscribers
<1>1. IInv => StateMatchesSubscribers
  BY DEF IInv, Agreement
<1> QED BY Invariant, <1>1, PTL

(* What the modem was told of each handle (atlOpenStatus, atlCloseStatus) is *)
(* what the list and the state say.                                          *)
THEOREM ToldAlwaysAgrees == Spec => []ToldAgrees
<1>1. IInv => ToldAgrees
  BY DEF IInv, Agreement
<1> QED BY Invariant, <1>1, PTL

(* In PENDING and in RELEASING there is a command or a report under way whose *)
(* arrival ends the state.                                                    *)
THEOREM NeverWaitsForNothing == Spec => []WaitsForSomething
<1>1. IInv => WaitsForSomething
  BY DEF IInv
<1> QED BY Invariant, <1>1, PTL

(* What the modem sees of the state machine is the abstract service: each    *)
(* event handler is one step of AtlService, or none.                         *)
THEOREM ServiceImplemented == Spec => ImplementsService
<1>1. IInv /\ [Next]_vars => [Service!Next]_told
  BY NextStep DEF Step
<1> QED BY InitStep, Invariant, <1>1, PTL DEF Spec, ImplementsService, Service!Spec

-----------------------------------------------------------------------------
(* The order of the exchanges with the framework.  As long as no request      *)
(* overtook an earlier exchange, every exchange is at one of these points.    *)

Requested ==
  \/ toFramework = <<"request">> /\ fromFramework = <<>> /\ ~conn
  \/ toFramework = <<>> /\ fromFramework = <<"GRANTED">> /\ conn
  \/ toFramework = <<>> /\ fromFramework = <<"GRANTED", "RELEASED">> /\ ~conn
  \/ toFramework = <<>> /\ fromFramework = <<"DENIED">> /\ ~conn

Held ==
  /\ toFramework = <<>>
  /\ \/ fromFramework = <<>> /\ conn
     \/ fromFramework = <<"RELEASED">> /\ ~conn

GivenUp ==
  IF toFramework = <<>> THEN ~conn ELSE toFramework[Len(toFramework)] = "release"

InOrder ==
  ~overlapped => \/ state = "PENDING" /\ Requested
                 \/ state = "ACQUIRED" /\ Held
                 \/ state \in {"RELEASED", "RELEASING"} /\ GivenUp

LEMMA ShortSequences ==
  ASSUME NEW x, NEW y
  PROVE  /\ Head(<<x>>) = x /\ Tail(<<x>>) = <<>> /\ Append(<<>>, x) = <<x>>
         /\ Head(<<x, y>>) = x /\ Tail(<<x, y>>) = <<y>> /\ Append(<<x>>, y) = <<x, y>>
<1>1. Head(<<x>>) = x /\ Head(<<x, y>>) = x
  OBVIOUS
<1>2. Tail(<<x>>) = <<>>
  OBVIOUS
<1>3. Tail(<<x, y>>) = <<y>>
  OBVIOUS
<1>4. Append(<<>>, x) = <<x>>
  OBVIOUS
<1>5. Append(<<x>>, y) = <<x, y>>
  <2> DEFINE T == {x, y}
  <2>1. <<x>> \in Seq(T) /\ <<x, y>> \in Seq(T)
    OBVIOUS
  <2>2. /\ Append(<<x>>, y) \in Seq(T) /\ Len(Append(<<x>>, y)) = 2
        /\ Append(<<x>>, y)[1] = x /\ Append(<<x>>, y)[2] = y
    BY <2>1, AppendProperties
  <2>3. /\ Len(<<x, y>>) = 2 /\ <<x, y>>[1] = x /\ <<x, y>>[2] = y
    OBVIOUS
  <2>4. \A i \in 1..2 : Append(<<x>>, y)[i] = <<x, y>>[i]
    <3> SUFFICES ASSUME NEW i \in 1..2 PROVE Append(<<x>>, y)[i] = <<x, y>>[i]
      OBVIOUS
    <3>1. i = 1 \/ i = 2
      OBVIOUS
    <3> QED BY <2>2, <2>3, <3>1
  <2>5. 1..Len(Append(<<x>>, y)) = 1..2
    BY <2>2
  <2> QED BY <2>1, <2>2, <2>3, <2>4, <2>5, SeqEqual
<1> QED BY <1>1, <1>2, <1>3, <1>4, <1>5

(* A command that is asked for comes last (requestOrReleaseDataConn).         *)
LEMMA AskedLast ==
  ASSUME TypeOK, NEW c \in Commands, Ask(c)
  PROVE  /\ toFramework' # <<>> /\ toFramework'[Len(toFramework')] = c
         /\ ~overlapped' => ~overlapped
         /\ ~overlapped' /\ c = "request" =>
              toFramework' = <<"request">> /\ toFramework = <<>> /\ fromFramework' = <<>>
<1>1. toFramework \in Seq(Commands) /\ toFramework' = Append(toFramework, c)
  BY DEF TypeOK, Commands, Ask
<1>2. /\ Len(toFramework') = Len(toFramework) + 1 /\ Len(toFramework) \in Nat
      /\ toFramework'[Len(toFramework) + 1] = c
  BY <1>1, AppendProperties
<1>3. toFramework' # <<>> /\ toFramework'[Len(toFramework')] = c
  BY <1>2
<1>4. overlapped \in BOOLEAN /\ (~overlapped' => ~overlapped)
  BY DEF Ask, TypeOK
<1>5. ~overlapped' /\ c = "request" => toFramework = <<>> /\ fromFramework' = <<>>
  BY DEF Ask
<1>6. Append(<<>>, c) = <<c>>
  BY ShortSequences
<1> QED BY <1>1, <1>3, <1>4, <1>5, <1>6

(* The modem's requests and releases.                                         *)
LEMMA ModemInOrder ==
  ASSUME IInv, InOrder, Modem
  PROVE  InOrder'
<1>1. TypeOK /\ state \in States /\ UNCHANGED <<fromFramework, conn>>
  BY DEF IInv, TypeOK, Modem, requestATL, releaseATL, framework
<1>2. \/ UNCHANGED <<state, toFramework, overlapped>>
      \/ state = "RELEASED" /\ state' = "PENDING" /\ Ask("request")
      \/ state' \in {"RELEASED", "RELEASING"} /\ Ask("release")
      \/ /\ state = "RELEASING" /\ state' \in {"RELEASED", "RELEASING"}
         /\ UNCHANGED <<toFramework, overlapped>>
  BY DEF Modem, requestATL, releaseATL, Subscribe, Unsubscribe, AskNothing
<1>3. CASE UNCHANGED <<state, toFramework, overlapped>>
  BY <1>1, <1>3 DEF InOrder, Requested, Held, GivenUp
<1>4. CASE state = "RELEASED" /\ state' = "PENDING" /\ Ask("request")
  BY <1>1, <1>4, AskedLast DEF InOrder, Requested, GivenUp, Commands
<1>5. CASE state' \in {"RELEASED", "RELEASING"} /\ Ask("release")
  BY <1>1, <1>5, AskedLast DEF InOrder, GivenUp, Commands
<1>6. CASE /\ state = "RELEASING" /\ state' \in {"RELEASED", "RELEASING"}
           /\ UNCHANGED <<toFramework, overlapped>>
  BY <1>1, <1>6 DEF InOrder, GivenUp
<1> QED BY <1>2, <1>3, <1>4, <1>5, <1>6

(* A report: in order, it is the answer to what was asked last.               *)
LEMMA ReportInOrder ==
  ASSUME IInv, InOrder, Reports
  PROVE  InOrder'
<1>1. TypeOK /\ state \in States /\ UNCHANGED conn
  BY DEF IInv, TypeOK, Reports, Granted, Released, Denied, framework
<1>2. PICK e \in Events : Report(e) /\ (\/ e = "GRANTED" /\ Granted
                                        \/ e = "RELEASED" /\ Released
                                        \/ e = "DENIED" /\ Denied)
  BY DEF Reports, Granted, Released, Denied, Events
<1>3. ~overlapped /\ state = "PENDING" =>
        \/ e = "GRANTED" /\ toFramework = <<>> /\ conn /\ fromFramework' = <<>>
        \/ e = "GRANTED" /\ toFramework = <<>> /\ ~conn /\ fromFramework' = <<"RELEASED">>
        \/ e = "DENIED" /\ toFramework = <<>> /\ ~conn
  <2>1. Head(fromFramework) = e /\ fromFramework' = Tail(fromFramework)
    BY <1>2 DEF Report
  <2>2. /\ Head(<<"GRANTED">>) = "GRANTED" /\ Tail(<<"GRANTED">>) = <<>>
        /\ Head(<<"DENIED">>) = "DENIED" /\ Head(<<"GRANTED", "RELEASED">>) = "GRANTED"
        /\ Tail(<<"GRANTED", "RELEASED">>) = <<"RELEASED">>
    BY ShortSequences
  <2>3. fromFramework # <<>>
    BY <1>2 DEF Report
  <2>4. ~overlapped /\ state = "PENDING" => Requested
    BY DEF InOrder
  <2> QED BY <2>1, <2>2, <2>3, <2>4 DEF Requested
<1>4. ~overlapped /\ state = "ACQUIRED" => e = "RELEASED" /\ toFramework = <<>> /\ ~conn
  BY <1>2 DEF InOrder, Held, Report
<1>5. CASE CloseCompleted
  <2>1. ~overlapped => GivenUp
    BY <1>5 DEF InOrder, CloseCompleted
  <2>2. CASE state' = "RELEASED" /\ AskNothing
    BY <1>1, <2>1, <2>2 DEF InOrder, GivenUp, AskNothing
  <2>3. CASE state' = "PENDING" /\ Ask("request")
    BY <1>1, <2>1, <2>3, AskedLast DEF InOrder, Requested, GivenUp, Commands
  <2> QED BY <1>5, <2>2, <2>3 DEF CloseCompleted
<1>6. CASE state = "PENDING" /\ state' = "ACQUIRED" /\ e = "GRANTED" /\ AskNothing
  BY <1>1, <1>3, <1>6 DEF InOrder, Held, AskNothing
<1>7. CASE state \in {"PENDING", "ACQUIRED"} /\ e # "GRANTED" /\ DropAll
  BY <1>1, <1>3, <1>4, <1>7 DEF InOrder, GivenUp, DropAll, AskNothing
<1>8. CASE state' = state /\ AskNothing /\ (state = "PENDING" => e = "RELEASED")
                         /\ (state = "ACQUIRED" => e # "RELEASED")
  BY <1>1, <1>3, <1>4, <1>8 DEF InOrder, GivenUp, AskNothing, States
<1> QED
  BY <1>1, <1>2, <1>5, <1>6, <1>7, <1>8 DEF Granted, Released, Denied, AskNothing, States

(* The framework answers in order, and may lose the connection.               *)
LEMMA FrameworkInOrder ==
  ASSUME IInv, InOrder, Framework \/ FrameworkDrop
  PROVE  InOrder'
<1>1. TypeOK /\ UNCHANGED <<state, overlapped>> /\ state \in States
  BY DEF IInv, TypeOK, Framework, FrameworkRequest, FrameworkRelease, FrameworkDrop
<1>2. toFramework \in Seq(Commands) /\ fromFramework \in Seq(Events)
  BY <1>1 DEF TypeOK, Commands, Events
<1>3. CASE ~overlapped /\ state = "PENDING" /\ Requested
  <2>1. /\ Head(<<"request">>) = "request" /\ Tail(<<"request">>) = <<>>
        /\ Append(<<>>, "GRANTED") = <<"GRANTED">> /\ Append(<<>>, "DENIED") = <<"DENIED">>
    BY ShortSequences
  <2>4. Append(<<"GRANTED">>, "RELEASED") = <<"GRANTED", "RELEASED">>
    BY ShortSequences
  <2>2. CASE toFramework = <<"request">> /\ fromFramework = <<>> /\ ~conn
    <3>1. PICK ok \in BOOLEAN : FrameworkRequest(ok)
      BY <2>1, <2>2 DEF Framework, FrameworkRelease, FrameworkDrop
    <3> QED BY <1>1, <1>3, <2>1, <2>2, <3>1 DEF FrameworkRequest, InOrder, Requested
  <2>3. CASE toFramework = <<>>
    <3>1. FrameworkDrop
      BY <2>3 DEF Framework, FrameworkRequest, FrameworkRelease
    <3>2. fromFramework = <<"GRANTED">> /\ conn
      BY <1>3, <3>1 DEF FrameworkDrop, Requested
    <3> QED BY <1>1, <1>3, <2>3, <2>4, <3>1, <3>2 DEF FrameworkDrop, InOrder, Requested
  <2> QED BY <1>3, <2>2, <2>3 DEF Requested
<1>4. CASE ~overlapped /\ state = "ACQUIRED" /\ Held
  BY <1>1, <1>2, <1>4
  DEF Framework, FrameworkRequest, FrameworkRelease, FrameworkDrop, Held, InOrder
<1>5. CASE ~overlapped /\ state \in {"RELEASED", "RELEASING"} /\ GivenUp
  <2>1. CASE FrameworkDrop
    BY <1>1, <1>5, <2>1 DEF FrameworkDrop, GivenUp, InOrder
  <2>2. CASE Framework
    <3>1. /\ toFramework # <<>> /\ toFramework' = Tail(toFramework)
          /\ Head(toFramework) = "release" => ~conn'
      BY <2>2 DEF Framework, FrameworkRequest, FrameworkRelease
    <3>2. /\ Len(toFramework) \in Nat \ {0} /\ Len(toFramework') = Len(toFramework) - 1
          /\ Head(toFramework) = toFramework[1] /\ toFramework' \in Seq(Commands)
          /\ \A i \in 1..Len(toFramework') : toFramework'[i] = toFramework[i+1]
      BY <1>2, <3>1, HeadTailProperties, EmptySeq
    <3>3. toFramework' = <<>> => Len(toFramework) = 1
      BY <3>2
    <3>4. toFramework' # <<>> =>
            Len(toFramework') > 0 /\ toFramework'[Len(toFramework')] = toFramework[Len(toFramework)]
      BY <3>2, EmptySeq
    <3> QED BY <1>1, <1>5, <3>1, <3>2, <3>3, <3>4 DEF GivenUp, InOrder
  <2> QED BY <2>1, <2>2
<1>6. CASE overlapped
  BY <1>1, <1>6 DEF InOrder
<1> QED BY <1>3, <1>4, <1>5, <1>6 DEF InOrder

LEMMA OrderInductive ==
  /\ Init => InOrder
  /\ IInv /\ InOrder /\ [Next]_vars => InOrder'
<1>1. Init => InOrder
  BY DEF Init, InOrder, GivenUp
<1>2. ASSUME IInv, InOrder, [Next]_vars PROVE InOrder'
  <2>1. CASE UNCHANGED vars
    BY <1>2, <2>1 DEF vars, InOrder, Requested, Held, GivenUp
  <2> QED BY <1>2, <2>1, ModemInOrder, ReportInOrder, FrameworkInOrder DEF Next
<1> QED BY <1>1, <1>2

LEMMA OrderAgrees == InOrder => ConnectionAgrees
BY DEF InOrder, Requested, Held, GivenUp, ConnectionAgrees

-----------------------------------------------------------------------------
(* The emergency data call: what is in the queue and in the list.             *)

Messages ==
  {<<k, h>> : k \in {"es", "supl", "release"}, h \in EsHandles}
    \union {<<"opened">>, <<"closed">>}

EsTypeOK ==
  /\ dsState \in States /\ list \in Seq(EsHandles) /\ queue \in Seq(Messages)
  /\ call \in {"none", "starting", "up", "stopping"}

Closes(q) == {i \in DOMAIN q : q[i] = <<"closed">>}

(* A data call is reported closed once, after it has gone; in RELEASED there  *)
(* is neither a call nor such a report.                                       *)
ClosedOnce ==
  /\ \A i, j \in Closes(queue) : i = j
  /\ call # "none" \/ dsState = "RELEASED" => Closes(queue) = {}
  /\ dsState = "RELEASED" => call = "none"

EsIInv == EsTypeOK /\ CallOwned /\ ClosedOnce

LEMMA ClosesAppended ==
  ASSUME NEW q \in Seq(Messages), NEW m \in Messages
  PROVE  /\ Append(q, m) \in Seq(Messages)
         /\ m # <<"closed">> => Closes(Append(q, m)) = Closes(q)
         /\ Closes(q) = {} => \A i, j \in Closes(Append(q, m)) : i = j
<1>1. /\ Append(q, m) \in Seq(Messages) /\ Len(Append(q, m)) = Len(q) + 1
      /\ \A i \in 1..Len(q) : Append(q, m)[i] = q[i]
      /\ Append(q, m)[Len(q) + 1] = m
  BY AppendProperties
<1>2. /\ Len(q) \in Nat /\ DOMAIN q = 1..Len(q)
      /\ DOMAIN Append(q, m) = 1..(Len(q) + 1)
  BY <1>1
<1>3. m # <<"closed">> => Closes(Append(q, m)) = Closes(q)
  <2>1. \A i \in 1..Len(q) : i \in Closes(Append(q, m)) <=> i \in Closes(q)
    BY <1>1, <1>2 DEF Closes
  <2>2. m # <<"closed">> => Len(q) + 1 \notin Closes(Append(q, m))
    BY <1>1 DEF Closes
  <2>3. Closes(Append(q, m)) \subseteq 1..(Len(q) + 1) /\ Closes(q) \subseteq 1..Len(q)
    BY <1>2 DEF Closes
  <2>4. \A i \in 1..(Len(q) + 1) : i \in 1..Len(q) \/ i = Len(q) + 1
    BY <1>2
  <2> QED BY <2>1, <2>2, <2>3, <2>4
<1>4. Closes(q) = {} => \A i \in Closes(Append(q, m)) : i = Len(q) + 1
  BY <1>1, <1>2 DEF Closes
<1> QED BY <1>1, <1>3, <1>4

LEMMA ClosesTaken ==
  ASSUME NEW q \in Seq(Messages), q # <<>>, \A i, j \in Closes(q) : i = j
  PROVE  /\ Tail(q) \in Seq(Messages) /\ Head(q) \in Messages
         /\ \A i, j \in Closes(Tail(q)) : i = j
         /\ Head(q) = <<"closed">> \/ Closes(q) = {} => Closes(Tail(q)) = {}
<1>1. /\ Tail(q) \in Seq(Messages) /\ Head(q) \in Messages /\ Head(q) = q[1]
      /\ Len(Tail(q)) = Len(q) - 1 /\ Len(q) \in Nat \ {0}
      /\ \A i \in 1..Len(Tail(q)) : Tail(q)[i] = q[i+1]
  BY HeadTailProperties, EmptySeq
<1>2. DOMAIN q = 1..Len(q) /\ DOMAIN Tail(q) = 1..(Len(q) - 1)
  BY <1>1
<1>3. \A i \in Closes(Tail(q)) : i \in Int /\ i # 0 /\ i + 1 \in Closes(q)
  BY <1>1, <1>2 DEF Closes
<1>4. Head(q) = <<"closed">> => 1 \in Closes(q)
  BY <1>1, <1>2 DEF Closes
<1> QED BY <1>1, <1>3, <1>4

(* What falls back to the regular state machine is no report.                 *)
LEMMA ClosesFallback ==
  ASSUME NEW q \in Seq(Messages), NEW l \in Seq(EsHandles)
  PROVE  q \o Fallbacks(l) \in Seq(Messages) /\ Closes(q \o Fallbacks(l)) = Closes(q)
<1> DEFINE f == Fallbacks(l)
<1>1. Len(l) \in Nat /\ DOMAIN l = 1..Len(l) /\ \A i \in 1..Len(l) : l[i] \in EsHandles
  OBVIOUS
<1>2. /\ f \in Seq(Messages) /\ Len(f) = Len(l)
      /\ \A i \in 1..Len(l) : f[i] # <<"closed">>
  <2>1. f = [i \in 1..Len(l) |-> <<"supl", l[i]>>]
    BY <1>1 DEF Fallbacks
  <2>2. \A i \in 1..Len(l) : <<"supl", l[i]>> \in Messages /\ <<"supl", l[i]>> # <<"closed">>
    BY <1>1 DEF Messages
  <2> QED BY <1>1, <2>1, <2>2
<1> HIDE DEF f
<1>3. /\ q \o f \in Seq(Messages) /\ Len(q \o f) = Len(q) + Len(f)
      /\ \A i \in 1..(Len(q) + Len(f)) : (q \o f)[i] =
           IF i <= Len(q) THEN q[i] ELSE f[i - Len(q)]
  BY <1>2, ConcatProperties
<1>4. Len(q) \in Nat /\ DOMAIN q = 1..Len(q) /\ DOMAIN (q \o f) = 1..(Len(q) + Len(f))
  BY <1>3
<1>5. \A i \in 1..(Len(q) + Len(f)) : (q \o f)[i] = <<"closed">> => i \in Closes(q)
  <2> SUFFICES ASSUME NEW i \in 1..(Len(q) + Len(f)), (q \o f)[i] = <<"closed">>
               PROVE  i \in Closes(q)
    OBVIOUS
  <2>1. CASE i <= Len(q)
    BY <1>3, <1>4, <2>1 DEF Closes
  <2>2. CASE ~(i <= Len(q))
    <3>1. i - Len(q) \in 1..Len(l)
      BY <1>1, <1>2, <1>4, <2>2
    <3> QED BY <1>2, <1>3, <2>2, <3>1
  <2> QED BY <2>1, <2>2
<1>6. \A i \in Closes(q) : i \in 1..(Len(q) + Len(f)) /\ (q \o f)[i] = <<"closed">>
  BY <1>1, <1>2, <1>3, <1>4 DEF Closes
<1>7. Closes(q \o f) = Closes(q)
  BY <1>4, <1>5, <1>6 DEF Closes
<1> QED BY <1>3, <1>7 DEF f

LEMMA LeastOf ==
  ASSUME NEW A, A \subseteq Nat, A # {}
  PROVE  \E i \in A : \A j \in A : i <= j
<1>1. PICK a \in A : TRUE
  OBVIOUS
<1> DEFINE R == StrictSubsetOrdering(0..a)
           T == {0..i : i \in {k \in A : k <= a}}
<1>2. IsFiniteSet(0..a)
  BY FS_Interval
<1>3. IsWellFoundedOn(R, FiniteSubsetsOf(0..a))
  BY <1>2, FS_StrictSubsetOrderingWellFounded
<1>4. T \subseteq SUBSET (0..a) /\ 0..a \in T
  OBVIOUS
<1>5. T \subseteq FiniteSubsetsOf(0..a)
  BY <1>2, <1>4, FS_Subset DEF FiniteSubsetsOf
<1>6. PICK x \in T : \A y \in T : ~ (<<y, x>> \in R)
  <2> HIDE DEF R, T
  <2> QED BY <1>3, <1>4, <1>5, WFMin
<1>7. PICK i \in A : i <= a /\ x = 0..i
  OBVIOUS
<1>8. ASSUME NEW j \in A, j < i PROVE FALSE
  <2>1. 0..j \in T /\ 0..j \subseteq x /\ 0..j # x
    BY <1>7, <1>8
  <2> QED BY <1>4, <1>6, <2>1 DEF StrictSubsetOrdering
<1> QED BY <1>7, <1>8

(* The first active subscriber is one of the list (getFirstSubscriber).       *)
LEMMA FirstInList ==
  ASSUME NEW l \in Seq(EsHandles), NEW off, Active(l, off) # {}
  PROVE  First(l, off) \in EsHandles
<1>1. Active(l, off) \subseteq DOMAIN l /\ DOMAIN l \subseteq Nat
  BY DEF Active
<1>2. \E i \in Active(l, off) : \A j \in Active(l, off) : i <= j
  BY <1>1, LeastOf
<1> QED BY <1>1, <1>2 DEF First

(* What notifyAllSubscribers leaves are the active ones, if there are any.    *)
LEMMA RemainingOnes ==
  ASSUME NEW l \in Seq(EsHandles), NEW off, NEW r \in Remaining(l, off)
  PROVE  /\ r \in Seq(EsHandles) /\ Elements(r) \intersect off = {}
         /\ Active(l, off) # {} => Elements(r) # {}
<1> DEFINE A == Active(l, off)
           n == Cardinality(A)
<1>1. PICK f \in [1..n -> A] : r = [k \in DOMAIN f |-> l[f[k]]]
  BY DEF Remaining
<1>2. A \subseteq 1..Len(l) /\ Len(l) \in Nat /\ DOMAIN l = 1..Len(l)
  BY DEF Active
<1>3. IsFiniteSet(A)
  <2>1. IsFiniteSet(1..Len(l))
    BY <1>2, FS_Interval
  <2> QED BY <1>2, <2>1, FS_Subset
<1>4. n \in Nat /\ (A # {} => n # 0)
  BY <1>3, FS_CardinalityType, FS_EmptySet
<1>5. \A k \in 1..n : l[f[k]] \in EsHandles /\ l[f[k]] \notin off
  BY <1>2 DEF Active
<1>6. r = [k \in 1..n |-> l[f[k]]]
  BY <1>1
<1> HIDE DEF n, A
<1>7. r \in Seq(EsHandles) /\ Elements(r) \intersect off = {}
  BY <1>4, <1>5, <1>6 DEF Elements
<1>8. A # {} => l[f[1]] \in Elements(r)
  BY <1>4, <1>6 DEF Elements
<1> QED BY <1>7, <1>8 DEF A

(* What a request for the call leaves (requestOrReleaseDataConn).             *)
LEMMA CallRequested ==
  ASSUME EsIInv, NEW l \in Seq(EsHandles), NEW off, NEW rest \in Seq(Messages),
         NEW started \in BOOLEAN, RequestCall(l, off, rest, started)
  PROVE  /\ queue' \in Seq(Messages) /\ Closes(queue') = Closes(rest)
         /\ started => Active(l, off) # {} /\ call' = "starting"
         /\ ~started => call' = call
<1> DEFINE first == IF Active(l, off) = {} THEN <<>> ELSE <<First(l, off)>>
<1>1. first \in Seq(EsHandles)
  BY FirstInList
<1>2. queue' = rest \/ queue' = rest \o Fallbacks(first)
  BY DEF RequestCall
<1>3. queue' \in Seq(Messages) /\ Closes(queue') = Closes(rest)
  <2> HIDE DEF first
  <2> QED BY <1>1, <1>2, ClosesFallback
<1>4. /\ started => Active(l, off) # {} /\ call' = "starting"
      /\ ~started => call' = call
  BY DEF RequestCall
<1> QED BY <1>3, <1>4

LEMMA PositionsOfElements ==
  ASSUME NEW l \in Seq(EsHandles), NEW off
  PROVE  Active(l, off) # {} <=> Elements(l) \ off # {}
BY DEF Active, Elements

(* What was said of the queue stays true when a message other than a report   *)
(* of the close is taken or put and state and call stay.                      *)
LEMMA QueueMoves ==
  ASSUME EsIInv, queue' \in Seq(Messages), Closes(queue') = Closes(queue),
         UNCHANGED <<dsState, list, inactive, call>>
  PROVE  EsIInv'
BY DEF EsIInv, EsTypeOK, CallOwned, DsStateMatches, CallHasOwner, ClosedOnce

LEMMA MessagePut ==
  ASSUME EsIInv, NEW m \in Messages, m # <<"closed">>, queue' = Append(queue, m),
         UNCHANGED <<dsState, list, inactive, call>>
  PROVE  EsIInv'
<1>1. queue' \in Seq(Messages) /\ Closes(queue') = Closes(queue)
  BY ClosesAppended DEF EsIInv, EsTypeOK
<1> QED BY <1>1, QueueMoves

(* Taking the head of the queue.                                              *)
LEMMA MessageTaken ==
  ASSUME EsIInv, queue # <<>>
  PROVE  /\ Tail(queue) \in Seq(Messages) /\ Head(queue) \in Messages
         /\ \A i, j \in Closes(Tail(queue)) : i = j
         /\ Closes(queue) = {} => Closes(Tail(queue)) = {}
         /\ Head(queue) = <<"closed">> => Closes(Tail(queue)) = {}
BY ClosesTaken DEF EsIInv, EsTypeOK, ClosedOnce

(* The closed report is taken once the call is gone.                          *)
LEMMA ClosedTaken ==
  ASSUME EsIInv, queue # <<>>, Head(queue) = <<"closed">>
  PROVE  call = "none" /\ dsState # "RELEASED"
<1>1. 1 \in DOMAIN queue /\ queue[1] = <<"closed">>
  BY EmptySeq DEF EsIInv, EsTypeOK
<1> QED BY <1>1 DEF EsIInv, EsTypeOK, ClosedOnce, Closes

-----------------------------------------------------------------------------
(* The messages, one by one.                                                  *)

LEMMA RequestEsStep ==
  ASSUME EsIInv, NEW h \in EsHandles, ProcRequestEs(h)
  PROVE  EsIInv'
<1>1. /\ queue # <<>> /\ list' = EsAdded(h) /\ inactive' = inactive
      /\ \/ \E started \in BOOLEAN :
              /\ dsState = "RELEASED"
              /\ dsState' = IF started THEN "PENDING" ELSE dsState
              /\ RequestCall(list', inactive, Tail(queue), started)
         \/ dsState # "RELEASED" /\ dsState' = dsState /\ DsAskNothing(Tail(queue))
  BY DEF ProcRequestEs
<1>2. list \in Seq(EsHandles) /\ dsState \in States /\ CallOwned
  BY DEF EsIInv, EsTypeOK
<1>3. list' \in Seq(EsHandles) /\ Elements(list) \subseteq Elements(list')
  <2>1. /\ Append(list, h) \in Seq(EsHandles) /\ Len(Append(list, h)) = Len(list) + 1
        /\ \A i \in 1..Len(list) : Append(list, h)[i] = list[i]
    BY <1>2, AppendProperties
  <2>2. Elements(list) \subseteq Elements(Append(list, h))
    BY <1>2, <2>1 DEF Elements
  <2> QED BY <1>1, <1>2, <2>1, <2>2 DEF EsAdded
<1>4. /\ Tail(queue) \in Seq(Messages)
      /\ \A i, j \in Closes(Tail(queue)) : i = j
      /\ Closes(queue) = {} => Closes(Tail(queue)) = {}
  BY <1>1, MessageTaken
<1>5. CASE dsState # "RELEASED" /\ dsState' = dsState /\ DsAskNothing(Tail(queue))
  BY <1>1, <1>2, <1>3, <1>4, <1>5
  DEF DsAskNothing, EsIInv, EsTypeOK, CallOwned, DsStateMatches, CallHasOwner, ClosedOnce
<1>6. ASSUME NEW started \in BOOLEAN, dsState = "RELEASED",
             dsState' = IF started THEN "PENDING" ELSE dsState,
             RequestCall(list', inactive, Tail(queue), started)
      PROVE  EsIInv'
  <2>1. /\ queue' \in Seq(Messages) /\ Closes(queue') = Closes(Tail(queue))
        /\ started => Active(list', inactive) # {} /\ call' = "starting"
        /\ ~started => call' = call
    BY <1>3, <1>4, <1>6, CallRequested
  <2>2. started => Elements(list') \ inactive # {}
    BY <1>3, <2>1, PositionsOfElements
  <2>3. call = "none" /\ Closes(queue) = {} /\ inactive = {}
    BY <1>2, <1>6 DEF EsIInv, ClosedOnce, CallOwned, DsStateMatches
  <2>4. Closes(queue') = {}
    BY <1>4, <2>1, <2>3
  <2>5. CASE started
    BY <1>1, <1>3, <1>6, <2>1, <2>2, <2>4, <2>5
    DEF EsIInv, EsTypeOK, CallOwned, DsStateMatches, CallHasOwner, ClosedOnce, States
  <2>6. CASE ~started
    BY <1>1, <1>3, <1>6, <2>1, <2>3, <2>4, <2>6
    DEF EsIInv, EsTypeOK, CallOwned, DsStateMatches, CallHasOwner, ClosedOnce, States
  <2> QED BY <2>5, <2>6
<1> QED BY <1>1, <1>5, <1>6

LEMMA ReleaseEsStep ==
  ASSUME EsIInv, NEW h \in EsHandles, ProcRelease(h)
  PROVE  EsIInv'
<1>1. /\ queue # <<>> /\ list' = list /\ Head(queue) = <<"release", h>>
      /\ \/ DsAskNothing(Tail(queue)) /\ UNCHANGED <<dsState, inactive>>
         \/ ReleaseInDs(h, Tail(queue))
  BY DEF ProcRelease
<1>2. list \in Seq(EsHandles) /\ dsState \in States /\ CallOwned
  BY DEF EsIInv, EsTypeOK
<1>3. /\ Tail(queue) \in Seq(Messages)
      /\ \A i, j \in Closes(Tail(queue)) : i = j
      /\ Closes(queue) = {} => Closes(Tail(queue)) = {}
  BY <1>1, MessageTaken
<1>4. CASE DsAskNothing(Tail(queue)) /\ UNCHANGED <<dsState, inactive>>
  BY <1>1, <1>2, <1>3, <1>4
  DEF DsAskNothing, EsIInv, EsTypeOK, CallOwned, DsStateMatches, CallHasOwner, ClosedOnce
<1>5. CASE /\ dsState # "RELEASED" /\ inactive' = inactive \union {h}
           /\ dsState # "RELEASING" /\ Active(list, inactive') = {}
           /\ dsState' = "RELEASING" /\ ReleaseCall(Tail(queue))
  BY <1>1, <1>2, <1>3, <1>5
  DEF ReleaseCall, EsIInv, EsTypeOK, CallOwned, DsStateMatches, CallHasOwner, ClosedOnce,
      States
<1>6. CASE /\ dsState # "RELEASED" /\ inactive' = inactive \union {h}
           /\ ~(dsState # "RELEASING" /\ Active(list, inactive') = {})
           /\ dsState' = dsState /\ DsAskNothing(Tail(queue))
  <2>1. dsState # "RELEASING" => Elements(list) \ inactive' # {}
    BY <1>2, <1>6, PositionsOfElements
  <2> QED BY <1>1, <1>2, <1>3, <1>6, <2>1
    DEF DsAskNothing, EsIInv, EsTypeOK, CallOwned, DsStateMatches, CallHasOwner, ClosedOnce
<1> QED BY <1>1, <1>4, <1>5, <1>6 DEF ReleaseInDs

LEMMA OpenedStep ==
  ASSUME EsIInv, ProcOpened
  PROVE  EsIInv'
<1>1. /\ Tail(queue) \in Seq(Messages)
      /\ \A i, j \in Closes(Tail(queue)) : i = j
      /\ Closes(queue) = {} => Closes(Tail(queue)) = {}
  BY MessageTaken DEF ProcOpened
<1>2. /\ UNCHANGED <<list, inactive, call>> /\ queue' = Tail(queue)
      /\ dsState' = dsState \/ (dsState = "PENDING" /\ dsState' = "ACQUIRED")
  BY DEF ProcOpened, DsAskNothing
<1> QED BY <1>1, <1>2
  DEF EsIInv, EsTypeOK, CallOwned, DsStateMatches, CallHasOwner, ClosedOnce, States

LEMMA ClosedStep ==
  ASSUME EsIInv, ProcClosed
  PROVE  EsIInv'
<1>1. /\ Tail(queue) \in Seq(Messages) /\ Closes(Tail(queue)) = {}
      /\ call = "none" /\ dsState # "RELEASED"
  BY MessageTaken, ClosedTaken DEF ProcClosed
<1>2. inactive' = inactive \intersect Elements(list') /\ list \in Seq(EsHandles)
  BY DEF ProcClosed, EsIInv, EsTypeOK
<1>3. ASSUME list' = <<>>, dsState' = "RELEASED", call' = call,
             queue' \in Seq(Messages), Closes(queue') = {}
      PROVE  EsIInv'
  <2>1. Elements(list') = {} /\ inactive' = {}
    BY <1>2, <1>3 DEF Elements
  <2> QED BY <1>1, <1>3, <2>1
    DEF EsIInv, EsTypeOK, CallOwned, DsStateMatches, CallHasOwner, ClosedOnce, States
<1>4. CASE dsState = "PENDING"
  <2>1. /\ list' = <<>> /\ dsState' = "RELEASED" /\ call' = call
        /\ queue' = Tail(queue) \o Fallbacks(list)
    BY <1>4 DEF ProcClosed
  <2>2. queue' \in Seq(Messages) /\ Closes(queue') = {}
    BY <1>1, <1>2, <2>1, ClosesFallback
  <2> QED BY <1>3, <2>1, <2>2
<1>5. CASE dsState = "ACQUIRED"
  BY <1>1, <1>3, <1>5 DEF ProcClosed, DsAskNothing
<1>6. CASE dsState = "RELEASING"
  <2>1. /\ list' \in Remaining(list, inactive)
        /\ IF Elements(list) \ inactive # {}
           THEN /\ dsState' = "PENDING"
                /\ \E started \in BOOLEAN : RequestCall(list', {}, Tail(queue), started)
           ELSE dsState' = "RELEASED" /\ DsAskNothing(Tail(queue))
    BY <1>6 DEF ProcClosed
  <2>2. /\ list' \in Seq(EsHandles) /\ Elements(list') \intersect inactive = {}
        /\ Active(list, inactive) # {} => Elements(list') # {}
    BY <1>2, <2>1, RemainingOnes
  <2>3. inactive' = {}
    BY <1>2, <2>2
  <2>4. CASE Elements(list) \ inactive # {}
    <3>1. PICK started \in BOOLEAN : RequestCall(list', {}, Tail(queue), started)
      BY <2>1, <2>4
    <3>2. /\ queue' \in Seq(Messages) /\ Closes(queue') = {}
          /\ call' \in {"starting", "none"}
      BY <1>1, <2>2, <3>1, CallRequested
    <3>3. Elements(list') \ inactive' # {}
      BY <1>2, <2>2, <2>3, <2>4, PositionsOfElements
    <3> QED BY <2>1, <2>2, <2>4, <3>2, <3>3
      DEF EsIInv, EsTypeOK, CallOwned, DsStateMatches, CallHasOwner, ClosedOnce, States
  <2>5. CASE Elements(list) \ inactive = {}
    BY <1>1, <2>1, <2>2, <2>3, <2>5
    DEF DsAskNothing, EsIInv, EsTypeOK, CallOwned, DsStateMatches, CallHasOwner,
        ClosedOnce, States
  <2> QED BY <2>4, <2>5
<1> QED BY <1>1, <1>4, <1>5, <1>6 DEF EsIInv, EsTypeOK, States

LEMMA EsInductive ==
  /\ EsInit => EsIInv
  /\ EsIInv /\ [EsNext]_esVars => EsIInv'
<1>1. ASSUME EsInit PROVE EsIInv
  BY <1>1 DEF EsInit, EsIInv, EsTypeOK, CallOwned, DsStateMatches, CallHasOwner,
              ClosedOnce, Closes, States
<1>2. ASSUME EsIInv, [EsNext]_esVars PROVE EsIInv'
  <2>1. CASE EsModem
    <3>1. PICK h \in EsHandles : requestSuplES(h) \/ releaseSuplES(h)
      BY <2>1 DEF EsModem
    <3>2. /\ <<"es", h>> \in Messages /\ <<"es", h>> # <<"closed">>
          /\ <<"release", h>> \in Messages /\ <<"release", h>> # <<"closed">>
      BY DEF Messages
    <3> QED BY <1>2, <3>1, <3>2, MessagePut DEF requestSuplES, releaseSuplES
  <2>2. CASE MsgTaskStep
    <3>1. ASSUME NEW h \in EsHandles, ProcRequestSupl(h) PROVE EsIInv'
      <4>1. /\ queue # <<>> /\ Head(queue) = <<"supl", h>> /\ queue' = Tail(queue)
            /\ UNCHANGED <<dsState, list, inactive, call>>
        BY <3>1 DEF ProcRequestSupl, DsAskNothing
      <4>2. /\ Tail(queue) \in Seq(Messages)
            /\ \A i, j \in Closes(Tail(queue)) : i = j
            /\ Closes(queue) = {} => Closes(Tail(queue)) = {}
        BY <1>2, <4>1, MessageTaken
      <4> QED BY <1>2, <4>1, <4>2
        DEF EsIInv, EsTypeOK, CallOwned, DsStateMatches, CallHasOwner, ClosedOnce
    <3> QED BY <1>2, <2>2, <3>1, RequestEsStep, ReleaseEsStep, OpenedStep, ClosedStep
      DEF MsgTaskStep
  <2>3. CASE RetryTimer
    <3>1. CASE Active(list, inactive) = {}
      BY <1>2, <2>3, <3>1, QueueMoves DEF RetryTimer, EsIInv, EsTypeOK
    <3>2. CASE Active(list, inactive) # {}
      <4>1. First(list, inactive) \in EsHandles
        BY <1>2, <3>2, FirstInList DEF EsIInv, EsTypeOK
      <4>2. <<"es", First(list, inactive)>> \in Messages
            /\ <<"es", First(list, inactive)>> # <<"closed">>
        BY <4>1 DEF Messages
      <4> QED BY <1>2, <2>3, <3>2, <4>2, MessagePut DEF RetryTimer
    <3> QED BY <3>1, <3>2
  <2>4. CASE DataCallOpened
    <3>1. <<"opened">> \in Messages /\ <<"opened">> # <<"closed">>
      BY DEF Messages
    <3>2. queue' \in Seq(Messages) /\ Closes(queue') = Closes(queue)
      BY <1>2, <2>4, <3>1, ClosesAppended DEF DataCallOpened, EsIInv, EsTypeOK
    <3> QED BY <1>2, <2>4, <3>2
      DEF DataCallOpened, EsIInv, EsTypeOK, CallOwned, DsStateMatches, CallHasOwner, ClosedOnce
  <2>5. CASE DataCallClosed
    <3>1. <<"closed">> \in Messages
      BY DEF Messages
    <3>2. queue' \in Seq(Messages) /\ \A i, j \in Closes(queue') : i = j
      BY <1>2, <2>5, <3>1, ClosesAppended DEF DataCallClosed, EsIInv, EsTypeOK, ClosedOnce
    <3> QED BY <1>2, <2>5, <3>2
      DEF DataCallClosed, EsIInv, EsTypeOK, CallOwned, DsStateMatches, CallHasOwner, ClosedOnce
  <2>6. CASE AgnssAnswers \/ UNCHANGED esVars
    BY <1>2, <2>6, QueueMoves DEF AgnssAnswers, esVars, EsIInv, EsTypeOK
  <2> QED BY <1>2, <2>1, <2>2, <2>3, <2>4, <2>5, <2>6 DEF EsNext, DataService
<1> QED BY <1>1, <1>2

-----------------------------------------------------------------------------
(* Both together, as one of them runs and the other rests.                    *)
LEMMA BothInductive ==
  /\ AllInit => IInv /\ InOrder /\ EsIInv
  /\ IInv /\ InOrder /\ EsIInv /\ [AllNext]_AllVars => (IInv /\ InOrder /\ EsIInv)'
<1>1. AllInit => IInv /\ InOrder /\ EsIInv
  BY InitStep, OrderInductive, EsInductive DEF AllInit
<1>2. [AllNext]_AllVars => [Next]_vars /\ [EsNext]_esVars
  BY DEF AllNext, AllVars
<1>3. IInv /\ [Next]_vars => IInv'
  BY NextStep DEF Step
<1> QED BY <1>1, <1>2, <1>3, OrderInductive, EsInductive

(* With nothing under way the framework holds the data connection exactly in  *)
(* ACQUIRED, and the emergency call is not left without an owner, whoever     *)
(* asks, releases and reports (requestOrReleaseDataConn of both classes).     *)
THEOREM ConnectionsAlwaysOwned == AllSpec => []ConnectionsOwned
<1>1. IInv /\ InOrder /\ EsIInv => ConnectionsOwned
  BY OrderAgrees DEF EsIInv, ConnectionsOwned
<1> QED BY <1>1, BothInductive, PTL DEF AllSpec
=============================================================================
