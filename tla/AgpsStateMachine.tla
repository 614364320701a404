-------------------------- MODULE AgpsStateMachine --------------------------
(***************************************************************************)
(* One AGPS state machine (class AgpsStateMachine of                       *)
(* src/gps/gnss/Agps.cpp) between the modem, which requests and releases   *)
(* ATL handles, and the framework, which opens and closes the data         *)
(* connection.  Every handler runs to its end on the MsgTask thread; what  *)
(* is asked of the framework and what it reports is under way in between.  *)
(***************************************************************************)
EXTENDS Naturals, Sequences, FiniteSets

CONSTANTS Handles,      \* the connection handles of the modem
          MaxInFlight,  \* bound: commands and reports under way
          MaxDrop       \* bound: connections the network takes away

ASSUME AgpsAssumption == MaxInFlight \in Nat /\ MaxDrop \in Nat

VARIABLES
  state,          \* mState
  subs,           \* mSubscriberList: per handle "none", "plain", "waiter" (an active
                  \* one with mWaitForCloseComplete) or "inactive" (mIsInactive)
  told,           \* what the modem was told of the handle last
  toFramework,    \* requests and releases the framework has not yet handled
  fromFramework,  \* its reports the MsgTask has not yet handled
  conn,           \* the framework holds the data connection (external)
  overlapped,     \* a request was made while something was under way
  drops           \* counter of the bound

vars == <<state, subs, told, toFramework, fromFramework, conn, overlapped, drops>>
framework == <<conn, drops>>

States == {"RELEASED", "PENDING", "ACQUIRED", "RELEASING"}

IsActive_InList(h) == subs[h] # "none"   \* mutant: mIsInactive is not looked at
IsActive(h) == subs[h] \in {"plain", "waiter"}

-----------------------------------------------------------------------------
(* The helpers of the handlers. *)

\* addSubscriber: a handle that is already in the list stays as it is
Added(h, wait) ==
  IF subs[h] = "none" THEN [subs EXCEPT ![h] = IF wait THEN "waiter" ELSE "plain"]
  ELSE subs

\* one that waits for the close becomes inactive, another is notified and deleted
Removed(h) == [subs EXCEPT ![h] = IF @ = "plain" THEN "none" ELSE "inactive"]

\* notifyAllSubscribers with deletion
Without(S) == [h \in Handles |-> IF subs[h] \in S THEN "none" ELSE subs[h]]
ToldIdle(S) == [h \in Handles |-> IF subs[h] \in S THEN "idle" ELSE told[h]]

SomeActive(s) == \E h \in Handles : s[h] \in {"plain", "waiter"}
Empty(s) == \A h \in Handles : s[h] = "none"

\* requestOrReleaseDataConn
Ask_OneAtATime(command) ==   \* mutant: skipped while the framework is busy
  /\ toFramework' = IF toFramework = <<>> THEN <<command>> ELSE toFramework
  /\ overlapped' = (overlapped \/ (command = "request" /\
                                   (toFramework # <<>> \/ fromFramework' # <<>>)))
Ask(command) ==
  /\ toFramework' = Append(toFramework, command)
  /\ overlapped' = (overlapped \/ (command = "request" /\
                                   (toFramework # <<>> \/ fromFramework' # <<>>)))
AskNothing == UNCHANGED <<toFramework, overlapped>>

-----------------------------------------------------------------------------
(* The modem: AgpsManager::requestATL and releaseATL. *)

\* processAgpsEventSubscribe
Subscribe(h, wait) ==
  /\ subs' = Added(h, wait)
  /\ told' = [told EXCEPT ![h] = IF state = "ACQUIRED" THEN "open" ELSE "opening"]
  /\ IF state = "RELEASED"
     THEN state' = "PENDING" /\ Ask("request")
     ELSE state' = state /\ AskNothing

\* processAgpsEventUnsubscribe
Unsubscribe(h) ==
  /\ subs[h] # "none"
  /\ subs' = IF state = "RELEASED" THEN subs ELSE Removed(h)
  /\ told' = [told EXCEPT ![h] = IF state # "RELEASED" /\ subs'[h] = "inactive"
                                 THEN "closing" ELSE "idle"]
  /\ \/ /\ state \in {"PENDING", "ACQUIRED"} /\ ~SomeActive(subs')
        /\ state' = IF Empty(subs') THEN "RELEASED" ELSE "RELEASING"
        /\ Ask("release")
     \/ /\ state \in {"PENDING", "ACQUIRED"} /\ SomeActive(subs')
        /\ state' = state /\ AskNothing
     \/ /\ state = "RELEASING"
        /\ state' = IF Empty(subs') THEN "RELEASED" ELSE state
        /\ AskNothing
     \/ /\ state = "RELEASED" /\ state' = state /\ AskNothing

(* The modem asks for a handle that is idle, and may release a handle at any *)
(* time: one that has no subscriber is refused and nothing changes.          *)
requestATL(h, wait) ==
  /\ told[h] = "idle"
  /\ Len(toFramework) + Len(fromFramework) < MaxInFlight
  /\ UNCHANGED <<fromFramework, framework>>
  /\ Subscribe(h, wait)

releaseATL(h) ==
  /\ Len(toFramework) + Len(fromFramework) < MaxInFlight
  /\ UNCHANGED <<fromFramework, framework>>
  /\ Unsubscribe(h)

-----------------------------------------------------------------------------
(* The reports of the framework. *)

Report(event) == /\ fromFramework # <<>> /\ Head(fromFramework) = event
                 /\ fromFramework' = Tail(fromFramework)

\* reportAtlOpenSuccess, processAgpsEventGranted
Granted ==
  /\ Report("GRANTED")
  /\ IF state = "PENDING"
     THEN /\ state' = "ACQUIRED"
          /\ told' = [h \in Handles |-> IF IsActive(h) THEN "open" ELSE told[h]]
     ELSE UNCHANGED <<state, told>>
  /\ UNCHANGED <<subs, framework>> /\ AskNothing

(* The end of RELEASING, in processAgpsEventReleased and ...Denied: those who *)
(* waited for the close are told, the others need the connection again.       *)
CloseCompleted ==
  /\ state = "RELEASING"
  /\ subs' = Without({"inactive"}) /\ told' = ToldIdle({"inactive"})
  /\ IF SomeActive(subs) THEN state' = "PENDING" /\ Ask("request")
     ELSE state' = "RELEASED" /\ AskNothing

\* transition to RELEASED, every subscriber is told and deleted
DropAll == /\ state' = "RELEASED"
           /\ subs' = Without({"plain", "waiter", "inactive"})
           /\ told' = ToldIdle({"plain", "waiter", "inactive"})
           /\ AskNothing

\* reportAtlClosed, processAgpsEventReleased
Released ==
  /\ Report("RELEASED")
  /\ \/ CloseCompleted
     \/ state = "ACQUIRED" /\ DropAll
     \/ state \in {"RELEASED", "PENDING"} /\ UNCHANGED <<state, subs, told>> /\ AskNothing
  /\ UNCHANGED framework

\* reportAtlOpenFailed, processAgpsEventDenied
Denied ==
  /\ Report("DENIED")
  /\ \/ CloseCompleted
     \/ state = "PENDING" /\ DropAll
     \/ state \in {"RELEASED", "ACQUIRED"} /\ UNCHANGED <<state, subs, told>> /\ AskNothing
  /\ UNCHANGED framework

-----------------------------------------------------------------------------
(* The framework (external): it handles what it is asked in order.  A release *)
(* of a connection that never came up may be reported as a failure.           *)
FrameworkRequest(ok) ==
  /\ toFramework # <<>> /\ Head(toFramework) = "request"
  /\ toFramework' = Tail(toFramework)
  /\ conn' = ok
  /\ fromFramework' = Append(fromFramework, IF ok THEN "GRANTED" ELSE "DENIED")
  /\ UNCHANGED <<state, subs, told, overlapped, drops>>

FrameworkRelease ==
  /\ toFramework # <<>> /\ Head(toFramework) = "release"
  /\ toFramework' = Tail(toFramework)
  /\ conn' = FALSE
  /\ \E r \in {"RELEASED"} \union (IF conn THEN {} ELSE {"DENIED"}) :
       fromFramework' = Append(fromFramework, r)
  /\ UNCHANGED <<state, subs, told, overlapped, drops>>

\* the network takes the connection away
FrameworkDrop ==
  /\ conn /\ drops < MaxDrop
  /\ conn' = FALSE /\ drops' = drops + 1
  /\ fromFramework' = Append(fromFramework, "RELEASED")
  /\ UNCHANGED <<state, subs, told, toFramework, overlapped>>

-----------------------------------------------------------------------------
Init ==
  /\ state = "RELEASED" /\ subs = [h \in Handles |-> "none"]
  /\ told = [h \in Handles |-> "idle"]
  /\ toFramework = <<>> /\ fromFramework = <<>> /\ conn = FALSE
  /\ overlapped = FALSE /\ drops = 0

Modem == \E h \in Handles : (\E w \in BOOLEAN : requestATL(h, w)) \/ releaseATL(h)
Reports == Granted \/ Released \/ Denied
Framework == (\E ok \in BOOLEAN : FrameworkRequest(ok)) \/ FrameworkRelease

Next == Modem \/ Reports \/ Framework \/ FrameworkDrop

Spec == Init /\ [][Next]_vars

(* The MsgTask handles what is reported and the framework what it is asked.  *)
FairSpec == Spec /\ WF_vars(Reports) /\ WF_vars(Framework)

-----------------------------------------------------------------------------
TypeOK ==
  /\ state \in States
  /\ subs \in [Handles -> {"none", "plain", "waiter", "inactive"}]
  /\ told \in [Handles -> {"idle", "opening", "open", "closing"}]
  /\ toFramework \in Seq({"request", "release"})
  /\ fromFramework \in Seq({"GRANTED", "RELEASED", "DENIED"})
  /\ conn \in BOOLEAN /\ overlapped \in BOOLEAN
  /\ drops \in 0..MaxDrop

(* "Subscriber list should be empty if we are in released state"              *)
(* (Agps.cpp:208), and the connection is asked for or held only while some    *)
(* active subscriber needs it, given up only while one waits for the close.   *)
StateMatchesSubscribers ==
  /\ state = "RELEASED" <=> Empty(subs)
  /\ state \in {"PENDING", "ACQUIRED"} => SomeActive(subs)
  /\ state = "RELEASING" => \E h \in Handles : subs[h] = "inactive"

(* The modem has been told what the state machine believes: no handle is      *)
(* believed open that was refused, and none is waited for that was deleted.   *)
ToldAgrees ==
  \A h \in Handles :
    told[h] = IF subs[h] = "none" THEN "idle"
              ELSE IF subs[h] = "inactive" THEN "closing"
              ELSE IF state = "ACQUIRED" THEN "open" ELSE "opening"

Has(seq, S) == \E i \in DOMAIN seq : seq[i] \in S

(* "Already requested for data connection, do nothing until we get            *)
(* RSRC_GRANTED event" (Agps.cpp:93): in PENDING a request is under way, and  *)
(* in RELEASING a release is, whose report ends the state.                    *)
WaitsForSomething ==
  /\ state = "PENDING" =>
       Has(toFramework, {"request"}) \/ Has(fromFramework, {"GRANTED", "DENIED"})
  /\ state = "RELEASING" =>
       Has(toFramework, {"release"}) \/ Has(fromFramework, {"RELEASED", "DENIED"})

(* With nothing under way the framework holds the connection exactly while    *)
(* the state machine believes so, provided no request ever overtook an        *)
(* earlier exchange: the reports carry nothing that ties them to a request,   *)
(* so a late one is taken for the answer to the next.                         *)
ConnectionAgrees ==
  (toFramework = <<>> /\ fromFramework = <<>> /\ ~overlapped)
    => (conn <=> state = "ACQUIRED")

(* Every handle that is asked for is answered. *)
EveryRequestAnswered ==
  \A h \in Handles : (told[h] = "opening") ~> (told[h] # "opening")

(* The modem sees the abstract service, whatever the framework does. *)
Service == INSTANCE AtlService WITH atl <- told
ImplementsService == Service!Spec
=============================================================================
