------------------------ MODULE GnssTracking_proofs ------------------------
(***************************************************************************)
(* Proofs about GnssTracking: its type invariant, that the engine          *)
(* always runs at the interval of the fastest session, and that no session *)
(* outlives its client but for a refused stop, for any number of           *)
(* clients, sessions, failures and modem restarts.                         *)
(***************************************************************************)
EXTENDS GnssTracking, WellFoundedInduction, FiniteSetTheorems, SequenceTheorems, TLAPS

-----------------------------------------------------------------------------
(* The minimum principle on sets of natural numbers, which the scans for a   *)
(* fastest session rest on.                                                  *)

(* A non-empty set of natural numbers has a smallest element: what a loop    *)
(* that keeps the smaller of two values ends with.                           *)
LEMMA NatMinimum ==
  ASSUME NEW T \in SUBSET Nat, T # {}
  PROVE  \E m \in T : \A n \in T : m <= n
<1> DEFINE U == {1..m : m \in T}
<1>1. U \subseteq FiniteSubsetsOf(Nat) /\ U # {}
  <2>1. \A m \in T : IsFiniteSet(1..m) /\ 1..m \in SUBSET Nat
    BY FS_Interval
  <2> QED BY <2>1 DEF FiniteSubsetsOf
<1>2. PICK u \in U : \A v \in U : ~ (<<v, u>> \in StrictSubsetOrdering(Nat))
  <2> HIDE DEF U
  <2> QED BY <1>1, FS_StrictSubsetOrderingWellFounded, WFMin
<1>3. PICK m \in T : u = 1..m
  OBVIOUS
<1>4. ASSUME NEW n \in T, n < m
      PROVE  FALSE
  <2>1. 1..n \in SUBSET Nat /\ 1..m \in SUBSET Nat /\ 1..n \subseteq 1..m
    BY <1>4
  <2>2. m \in 1..m /\ m \notin 1..n
    BY <1>4
  <2>3. <<1..n, u>> \in StrictSubsetOrdering(Nat)
    BY <1>3, <2>1, <2>2 DEF StrictSubsetOrdering
  <2> QED BY <1>2, <2>3, <1>4
<1> QED BY <1>4

-----------------------------------------------------------------------------
(* Facts about the data. *)

(* The fields a message carries are those its type promises: what proc() of  *)
(* each LocMsg reads.                                                        *)
LEMMA MessageFields ==
  ASSUME NEW m \in Messages
  PROVE  /\ m.type \in {"start", "update"} =>
              m.key \in Keys /\ m.opt \in Options \union {BadOptions}
         /\ m.type = "stop" => m.key \in Keys
         /\ m.type = "add" => m.client \in Clients /\ m.cb \in BOOLEAN
         /\ m.type = "remove" => m.client \in Clients
BY DEF Messages

LEMMA KeyShape ==
  ASSUME NEW k \in Keys
  PROVE  k[1] \in Clients /\ k[2] \in Ids /\ k = <<k[1], k[2]>>
BY DEF Keys

(* Every message the callers and the modem thread post is a message. *)
LEMMA PostedMessages ==
  ASSUME NEW c \in Clients, NEW cb \in BOOLEAN, NEW id \in Ids,
         NEW o \in Options \union {BadOptions}
  PROVE  /\ [type |-> "add", client |-> c, cb |-> cb] \in Messages
         /\ [type |-> "remove", client |-> c] \in Messages
         /\ [type |-> "start", key |-> <<c, id>>, opt |-> o] \in Messages
         /\ [type |-> "update", key |-> <<c, id>>, opt |-> o] \in Messages
         /\ [type |-> "stop", key |-> <<c, id>>] \in Messages
         /\ [type |-> "ssr"] \in Messages
         /\ [type |-> "restart"] \in Messages
BY DEF Messages, Keys

(* A session has the options of its last start or update. *)
LEMMA SessionOptions ==
  ASSUME sessions \in [Keys -> Options \union {Off}], NEW k \in Active
  PROVE  k \in Keys /\ sessions[k] \in Options /\ sessions[k].interval \in Nat
BY TrackingAssumption DEF Active, Options

(* Among any sessions at all there is a fastest one: the scans of             *)
(* startTrackingMultiplex, updateTrackingMultiplex and stopTrackingMultiplex  *)
(* find one.                                                                  *)
LEMMA FastestExists ==
  ASSUME sessions \in [Keys -> Options \union {Off}],
         NEW K \in SUBSET Active, K # {}
  PROVE  \E k \in Fastest(K) : k \in K
<1> DEFINE T == {sessions[k].interval : k \in K}
<1>1. T \in SUBSET Nat /\ T # {}
  BY SessionOptions
<1>2. PICK m \in T : \A n \in T : m <= n
  <2> HIDE DEF T
  <2> QED BY <1>1, NatMinimum
<1>3. PICK k \in K : sessions[k].interval = m
  BY DEF T
<1>4. \A j \in K : m <= sessions[j].interval
  BY <1>2
<1> QED BY <1>3, <1>4 DEF Fastest

(* The multiplexing decisions only ever name options or Off. *)
LEMMA TargetTypes ==
  ASSUME sessions \in [Keys -> Options \union {Off}],
         NEW k \in Keys, NEW o \in Options
  PROVE  /\ StartTargets(o) \subseteq Options
         /\ UpdateTargets(k, o) \subseteq Options
         /\ StopTargets(k) \subseteq Options \union {Off}
         /\ RestartTargets \subseteq Options
<1>1. \A j \in Fastest(Active) \union Fastest(Active \ {k}) : sessions[j] \in Options
  BY SessionOptions DEF Fastest
<1> QED BY <1>1 DEF StartTargets, UpdateTargets, StopTargets, RestartTargets

(* An engine call leaves the engine with one of the wanted options or as it was. *)
LEMMA EngineCallType ==
  ASSUME NEW targets \in SUBSET (Options \union {Off}), NEW ok \in BOOLEAN,
         EngineCall(targets, ok), engine \in Options \union {Off},
         failures \in 0..MaxFail
  PROVE  engine' \in Options \union {Off} /\ failures' \in 0..MaxFail
BY TrackingAssumption DEF EngineCall

LEMMA ReceiveType ==
  ASSUME TypeOK, NEW t, Receive(t)
  PROVE  /\ Head(queue) \in Messages /\ queue' \in Seq(Messages)
         /\ Head(queue).type = t /\ Head(queue) = queue[1]
         /\ Len(queue') = Len(queue) - 1 /\ Len(queue) \in Nat \ {0}
         /\ \A i \in 1..Len(queue') : queue'[i] = queue[i+1]
BY HeadTailProperties, EmptySeq DEF TypeOK, Receive

(* Receiving shifts the queue by one. *)
LEMMA ReceiveShifts ==
  ASSUME TypeOK, NEW t, Receive(t)
  PROVE  /\ 1 \in DOMAIN queue /\ queue[1].type = t
         /\ \A i \in DOMAIN queue' : /\ i \in Nat /\ i + 1 \in DOMAIN queue /\ i + 1 # 1
                                   /\ queue'[i] = queue[i+1]
         /\ \A i \in DOMAIN queue : i # 1 => /\ i \in Nat /\ i - 1 \in DOMAIN queue'
                                           /\ queue'[i-1] = queue[i]
<1>1. /\ DOMAIN queue = 1..Len(queue) /\ Len(queue) \in Nat \ {0}
      /\ queue' \in Seq(Messages) /\ Len(queue') = Len(queue) - 1
      /\ \A i \in 1..Len(queue') : queue'[i] = queue[i+1]
  BY ReceiveType DEF TypeOK
<1>2. DOMAIN queue' = 1..(Len(queue) - 1)
  BY <1>1
<1>3. 1 \in DOMAIN queue /\ queue[1].type = t
  BY <1>1, ReceiveType
<1>4. ASSUME NEW i \in DOMAIN queue'
      PROVE  i \in Nat /\ i + 1 \in DOMAIN queue /\ i + 1 # 1 /\ queue'[i] = queue[i+1]
  BY <1>1, <1>2
<1>5. ASSUME NEW i \in DOMAIN queue, i # 1
      PROVE  i \in Nat /\ i - 1 \in DOMAIN queue' /\ queue'[i-1] = queue[i]
  <2>1. i - 1 \in 1..Len(queue')
    BY <1>1, <1>5
  <2>2. (i - 1) + 1 = i
    BY <1>1
  <2> QED BY <1>1, <1>2, <2>1, <2>2
<1> QED BY <1>3, <1>4, <1>5

-----------------------------------------------------------------------------
(* Type correctness. *)

LEMMA InitType == Init => TypeOK
<1> SUFFICES ASSUME Init PROVE TypeOK
  OBVIOUS
<1>1. queue \in Seq(Messages)
  BY DEF Init
<1>2. sessions \in [Keys -> Options \union {Off}] /\ clients \in [Clients -> {"none", "other", "tracking"}]
  BY DEF Init
<1>3. nextId \in 1..MaxSessions + 1 /\ failures \in 0..MaxFail /\ crashes \in 0..MaxCrash
  BY TrackingAssumption DEF Init
<1>4. /\ removing \subseteq Keys /\ unstopped \subseteq Keys /\ notifying \in BOOLEAN
      /\ engine \in Options \union {Off} /\ modem \in {"down", "stale", "open"}
      /\ unrestored \in BOOLEAN
  BY DEF Init
<1> QED BY <1>1, <1>2, <1>3, <1>4 DEF TypeOK

LEMMA ClientStepType == TypeOK /\ ClientStep => TypeOK'
<1> SUFFICES ASSUME TypeOK, NEW c \in Clients,
                    \/ \E cb \in BOOLEAN : addClientCommand(c, cb)
                    \/ removeClientCommand(c)
                    \/ \E o \in Options \union {BadOptions} : startTrackingCommand(c, o)
                    \/ \E o \in Options \union {BadOptions}, id \in Ids :
                         updateTrackingOptionsCommand(c, id, o)
                    \/ \E id \in Ids : stopTrackingCommand(c, id)
             PROVE  TypeOK'
  BY DEF ClientStep
<1>a. ASSUME NEW m \in Messages, queue' = Append(queue, m)
      PROVE  queue' \in Seq(Messages)
  BY <1>a DEF TypeOK
<1>1. ASSUME NEW cb \in BOOLEAN, addClientCommand(c, cb) PROVE TypeOK'
  <2>1. [type |-> "add", client |-> c, cb |-> cb] \in Messages
    BY DEF Messages
  <2> QED BY <1>1, <1>a, <2>1 DEF TypeOK, addClientCommand, Post
<1>2. ASSUME removeClientCommand(c) PROVE TypeOK'
  <2>1. [type |-> "remove", client |-> c] \in Messages
    BY DEF Messages
  <2> QED BY <1>2, <1>a, <2>1 DEF TypeOK, removeClientCommand, Post
<1>3. ASSUME NEW o \in Options \union {BadOptions}, startTrackingCommand(c, o)
      PROVE  TypeOK'
  <2>1. nextId \in Ids /\ nextId' \in 1..MaxSessions + 1
    BY <1>3, TrackingAssumption DEF TypeOK, startTrackingCommand, Ids
  <2>2. queue' \in Seq(Messages)
    BY <1>3, <1>a, <2>1, PostedMessages DEF startTrackingCommand, Post
  <2> QED BY <1>3, <2>1, <2>2 DEF TypeOK, startTrackingCommand
<1>4. ASSUME NEW o \in Options \union {BadOptions}, NEW id \in Ids,
             updateTrackingOptionsCommand(c, id, o)
      PROVE  TypeOK'
  <2>1. queue' \in Seq(Messages)
    BY <1>4, <1>a, PostedMessages DEF updateTrackingOptionsCommand, Post
  <2> QED BY <1>4, <2>1 DEF TypeOK, updateTrackingOptionsCommand
<1>5. ASSUME NEW id \in Ids, stopTrackingCommand(c, id) PROVE TypeOK'
  <2>1. queue' \in Seq(Messages)
    BY <1>5, <1>a, PostedMessages DEF stopTrackingCommand, Post
  <2> QED BY <1>5, <2>1 DEF TypeOK, stopTrackingCommand
<1> QED BY <1>1, <1>2, <1>3, <1>4, <1>5

LEMMA ProcStepType == TypeOK /\ ProcStep => TypeOK'
<1> SUFFICES ASSUME TypeOK, ProcStep PROVE TypeOK'
  OBVIOUS
<1>1. CASE ProcAddClient
  BY <1>1, ReceiveType, MessageFields DEF ProcAddClient, TypeOK
<1>2. CASE ProcStartTracking
  <2>1. PICK m \in Messages : m = Head(queue) /\ m.key \in Keys
                             /\ m.opt \in Options \union {BadOptions}
    BY <1>2, ReceiveType, MessageFields DEF ProcStartTracking
  <2>2. CASE ~MayStart(m.key[1], m.opt)
    BY <1>2, <2>1, <2>2, ReceiveType DEF ProcStartTracking, TypeOK
  <2>3. CASE MayStart(m.key[1], m.opt)
    <3>1. m.opt \in Options
      BY <2>1, <2>3 DEF MayStart
    <3>2. PICK ok \in BOOLEAN :
            /\ EngineCall(StartTargets(m.opt), ok)
            /\ sessions' = IF ok THEN [sessions EXCEPT ![m.key] = m.opt] ELSE sessions
      BY <1>2, <2>1, <2>3 DEF ProcStartTracking
    <3>a. unrestored' \in BOOLEAN
      BY <1>2, <2>1, <2>3 DEF ProcStartTracking, Told, TypeOK
    <3>3. engine' \in Options \union {Off} /\ failures' \in 0..MaxFail
      BY <2>1, <3>1, <3>2, TargetTypes, EngineCallType DEF TypeOK
    <3>4. sessions' \in [Keys -> Options \union {Off}]
      BY <2>1, <3>1, <3>2 DEF TypeOK
    <3> QED BY <1>2, <3>a, <3>3, <3>4, ReceiveType DEF ProcStartTracking, TypeOK
  <2> QED BY <2>2, <2>3
<1>3. CASE ProcUpdateTracking
  <2>1. PICK m \in Messages : m = Head(queue) /\ m.key \in Keys
                             /\ m.opt \in Options \union {BadOptions}
    BY <1>3, ReceiveType, MessageFields DEF ProcUpdateTracking
  <2>2. CASE m.key \notin Active \/ m.opt = BadOptions
    BY <1>3, <2>1, <2>2, ReceiveType DEF ProcUpdateTracking, TypeOK
  <2>3. CASE ~(m.key \notin Active \/ m.opt = BadOptions)
    <3>1. PICK ok \in BOOLEAN :
            /\ EngineCall(UpdateTargets(m.key, m.opt), ok)
            /\ sessions' = IF ok THEN [sessions EXCEPT ![m.key] = m.opt] ELSE sessions
      BY <1>3, <2>1, <2>3 DEF ProcUpdateTracking
    <3>a. unrestored' \in BOOLEAN
      BY <1>3, <2>1, <2>3 DEF ProcUpdateTracking, Told, TypeOK
    <3>2. engine' \in Options \union {Off} /\ failures' \in 0..MaxFail
      BY <2>1, <2>3, <3>1, TargetTypes, EngineCallType DEF TypeOK
    <3>3. sessions' \in [Keys -> Options \union {Off}]
      BY <2>1, <2>3, <3>1 DEF TypeOK
    <3> QED BY <1>3, <3>a, <3>2, <3>3, ReceiveType DEF ProcUpdateTracking, TypeOK
  <2> QED BY <2>2, <2>3
<1>a. ASSUME NEW k \in Keys, NEW ok \in BOOLEAN, StopSession(k, ok)
      PROVE  /\ engine' \in Options \union {Off} /\ failures' \in 0..MaxFail
             /\ sessions' \in [Keys -> Options \union {Off}]
             /\ unrestored' \in BOOLEAN
  <2>1. StopTargets(k) \subseteq Options \union {Off}
    BY SessionOptions DEF StopTargets, Fastest, TypeOK
  <2>2. unrestored' \in BOOLEAN
    BY <1>a DEF StopSession, Told, TypeOK
  <2> QED BY <1>a, <2>1, <2>2, EngineCallType DEF StopSession, TypeOK
<1>4. CASE ProcStopTracking
  <2>1. PICK m \in Messages : m = Head(queue) /\ m.key \in Keys
    BY <1>4, ReceiveType, MessageFields DEF ProcStopTracking
  <2>2. CASE m.key \notin Active
    BY <1>4, <2>1, <2>2, ReceiveType DEF ProcStopTracking, TypeOK
  <2>3. CASE m.key \in Active
    <3>1. PICK ok \in BOOLEAN : StopSession(m.key, ok)
      BY <1>4, <2>1, <2>3 DEF ProcStopTracking
    <3> QED BY <1>4, <1>a, <2>1, <3>1, ReceiveType DEF ProcStopTracking, TypeOK
  <2> QED BY <2>2, <2>3
<1>5. CASE ProcRemoveClient
  BY <1>5, ReceiveType, MessageFields DEF ProcRemoveClient, TypeOK, Active
<1>6. CASE StopClientSession
  <2>1. PICK k \in removing, ok \in BOOLEAN :
          /\ StopSession(k, ok)
          /\ unstopped' = IF ok THEN unstopped ELSE unstopped \union {k}
          /\ removing' = removing \ {k}
    BY <1>6 DEF StopClientSession
  <2> QED BY <1>6, <1>a, <2>1 DEF StopClientSession, TypeOK
<1>7. CASE ProcSsr
  BY <1>7, ReceiveType DEF ProcSsr, TypeOK
<1>8. CASE ProcRestartSessions
  <2>1. RestartTargets \subseteq Options
    BY SessionOptions DEF RestartTargets, Fastest, TypeOK
  <2>2. engine' \in Options \union {Off} /\ failures' \in 0..MaxFail
    <3>1. CASE UNCHANGED <<engine, failures>>
      BY <3>1 DEF TypeOK
    <3>2. CASE \E ok \in BOOLEAN : EngineCall(RestartTargets, ok)
      BY <2>1, <3>2, EngineCallType DEF TypeOK
    <3> QED BY <1>8, <3>1, <3>2 DEF ProcRestartSessions
  <2>3. unrestored' \in BOOLEAN
    BY <1>8 DEF ProcRestartSessions
  <2> QED BY <1>8, <2>2, <2>3, ReceiveType DEF ProcRestartSessions, TypeOK
<1> QED BY <1>1, <1>2, <1>3, <1>4, <1>5, <1>6, <1>7, <1>8 DEF ProcStep

LEMMA ModemType == TypeOK /\ (ModemStep \/ ModemCrash) => TypeOK'
<1> SUFFICES ASSUME TypeOK, EngineUp \/ PostRestart \/ ModemCrash PROVE TypeOK'
  BY DEF ModemStep
<1>a. [type |-> "ssr"] \in Messages /\ [type |-> "restart"] \in Messages
  BY DEF Messages
<1>1. CASE EngineUp
  <2>1. queue' \in Seq(Messages)
    BY <1>1, <1>a DEF EngineUp, TypeOK
  <2> QED BY <1>1, <2>1 DEF EngineUp, TypeOK
<1>2. CASE PostRestart
  <2>1. queue' \in Seq(Messages)
    BY <1>2, <1>a DEF PostRestart, TypeOK
  <2> QED BY <1>2, <2>1 DEF PostRestart, TypeOK
<1>3. CASE ModemCrash
  BY <1>3, TrackingAssumption DEF ModemCrash, TypeOK
<1> QED BY <1>1, <1>2, <1>3

(* Every reachable state of the adapter is well typed; in particular no       *)
(* session ever holds options of size zero (the check of MsgStartTracking).   *)
THEOREM TypeCorrect == Spec => []TypeOK
<1>1. TypeOK /\ [Next]_vars => TypeOK'
  <2>1. TypeOK /\ UNCHANGED vars => TypeOK'
    BY DEF TypeOK, vars
  <2> QED BY <2>1, ClientStepType, ProcStepType, ModemType DEF Next
<1> QED BY <1>1, InitType, PTL DEF Spec

-----------------------------------------------------------------------------
(* The engine and the sessions.  The inductive invariant adds to the goal     *)
(* that new sessions are new, that a reopened handle is followed by a         *)
(* restart, and that stopClientSessions visits existing sessions only.        *)

IInv == /\ TypeOK
        /\ StartsFresh
        /\ RestartAfterReopen
        /\ removing \subseteq Active
        /\ NoIdleFix
        /\ EngineServesFastest

Quiet == modem = "open" /\ ~RestartPending

\* What the multiplexing keeps, and what a call that the modem takes restores.
Kept == ~unrestored => Serves

(* startTrackingMultiplex keeps the engine at the smallest interval.          *)
LEMMA StartServes ==
  ASSUME TypeOK, Kept, NEW key \in Keys, key \notin Active,
         NEW o \in Options, NEW ok \in BOOLEAN,
         EngineCall(StartTargets(o), ok), Told(StartTargets(o), ok),
         sessions' = IF ok THEN [sessions EXCEPT ![key] = o] ELSE sessions
  PROVE  Kept'
<1>0. sessions \in [Keys -> Options \union {Off}] /\ o.interval \in Nat /\ o # Off
  BY TrackingAssumption DEF TypeOK, Options
<1>1. CASE ~ok
  BY <1>1 DEF EngineCall, Told, Kept, Serves, Active
<1>2. CASE ok
  <2>1. Active' = Active \union {key} /\ sessions'[key] = o
        /\ \A k \in Active : sessions'[k] = sessions[k]
    BY <1>0, <1>2 DEF Active
  <2>2. CASE StartTargets(o) = {} /\ ~unrestored'
    <3>0. Serves
      BY <1>2, <2>2 DEF Told, Kept
    <3>1. PICK k \in Fastest(Active) : ~(o.interval < sessions[k].interval)
      BY <2>2 DEF StartTargets
    <3>2. k \in Active /\ engine \in Options /\ engine.interval <= o.interval
          /\ engine' = engine /\ Active # {}
      BY <1>0, <1>2, <2>2, <3>0, <3>1, SessionOptions DEF Fastest, Serves, EngineCall, TypeOK, Options
    <3>9. Serves'
      BY <3>0, <2>1, <3>2 DEF Serves
    <3> QED BY <3>9 DEF Kept
  <2>3. CASE StartTargets(o) # {}
    <3>1. StartTargets(o) = {o} /\ engine' = o
      BY <1>2, <2>3 DEF StartTargets, EngineCall
    <3>2. \A k \in Fastest(Active) : o.interval < sessions[k].interval
      BY <2>3 DEF StartTargets
    <3>3. \A j \in Active : o.interval <= sessions[j].interval
      BY <1>0, <3>2, FastestExists, SessionOptions DEF Fastest
    <3>9. Serves'
      BY <1>0, <2>1, <3>1, <3>3 DEF Serves
    <3> QED BY <3>9 DEF Kept
  <2> QED BY <2>2, <2>3 DEF Kept
<1> QED BY <1>1, <1>2

(* updateTrackingMultiplex keeps the engine at the smallest interval.         *)
LEMMA UpdateServes ==
  ASSUME TypeOK, Kept, NEW key \in Active,
         NEW o \in Options, NEW ok \in BOOLEAN,
         EngineCall(UpdateTargets(key, o), ok), Told(UpdateTargets(key, o), ok),
         sessions' = IF ok THEN [sessions EXCEPT ![key] = o] ELSE sessions
  PROVE  Kept'
<1>0. sessions \in [Keys -> Options \union {Off}] /\ o.interval \in Nat /\ o # Off
      /\ key \in Keys /\ sessions[key].interval \in Nat
  BY TrackingAssumption, SessionOptions DEF TypeOK, Options
<1>1. CASE ~ok
  BY <1>1 DEF EngineCall, Told, Kept, Serves, Active
<1>2. CASE ok
  <2> DEFINE rest == Fastest(Active \ {key})
  <2>1. Active' = Active /\ sessions'[key] = o
        /\ \A k \in Active \ {key} : sessions'[k] = sessions[k]
    BY <1>0, <1>2 DEF Active
  <2>2. CASE \A k \in rest : o.interval < sessions[k].interval
    <3>1. engine' = o
      BY <1>2, <2>2 DEF UpdateTargets, EngineCall
    <3>2. \A j \in Active \ {key} : o.interval <= sessions[j].interval
      <4>1. CASE Active \ {key} # {}
        <5>1. PICK k \in rest : k \in Active \ {key}
          BY <1>0, <4>1, FastestExists
        <5>2. \A j \in Active \ {key} : sessions[k].interval <= sessions[j].interval
          BY DEF Fastest
        <5>3. \A j \in Active : sessions[j].interval \in Nat
          BY <1>0, SessionOptions
        <5>4. o.interval < sessions[k].interval
          BY <2>2, <5>1
        <5> QED BY <1>0, <5>1, <5>2, <5>3, <5>4
      <4> QED BY <4>1
    <3>9. Serves'
      BY <1>0, <2>1, <3>1, <3>2 DEF Serves
    <3> QED BY <3>9 DEF Kept
  <2>3. CASE /\ \E k \in rest : ~(o.interval < sessions[k].interval)
             /\ \A k \in rest : sessions[key].interval < sessions[k].interval
    <3>1. UpdateTargets(key, o) = {sessions[k] : k \in rest} /\ rest # {}
      BY <2>3 DEF UpdateTargets
    <3>2. PICK k \in rest : engine' = sessions[k]
      BY <1>2, <3>1 DEF EngineCall
    <3>3. k \in Active \ {key} /\ sessions[k] \in Options
          /\ \A j \in Active \ {key} : sessions[k].interval <= sessions[j].interval
      BY <1>0, SessionOptions DEF Fastest
    <3>4. sessions[k].interval <= o.interval
      BY <1>0, <2>3, <3>3, SessionOptions DEF Fastest
    <3>9. Serves'
      BY <1>0, <2>1, <3>2, <3>3, <3>4, TrackingAssumption DEF Serves
    <3> QED BY <3>9 DEF Kept
  <2>4. CASE /\ \E k, j \in rest : /\ ~(o.interval < sessions[k].interval)
                                  /\ ~(sessions[key].interval < sessions[j].interval)
             /\ ~unrestored'
    <3>1. UpdateTargets(key, o) = {}
      BY <2>4 DEF UpdateTargets
    <3>0. Serves
      BY <1>2, <2>4, <3>1 DEF Told, Kept
    <3>2. engine' = engine /\ engine \in Options
      BY <1>2, <3>0, <3>1, <2>4 DEF EngineCall, Serves, TypeOK
    <3>3. PICK k \in rest, j \in rest : /\ ~(o.interval < sessions[k].interval)
                                        /\ ~(sessions[key].interval < sessions[j].interval)
      BY <2>4
    <3>4. k \in Active \ {key} /\ j \in Active \ {key}
          /\ sessions[k].interval = sessions[j].interval
          /\ sessions[k].interval \in Nat
      BY <1>0, SessionOptions DEF Fastest
    <3>5. engine.interval = sessions[k].interval /\ engine.interval <= o.interval
      BY <1>0, <3>0, <3>2, <3>3, <3>4, SessionOptions DEF Serves, Fastest, Options
    <3>9. Serves'
      BY <3>0, <1>0, <2>1, <3>2, <3>4, <3>5 DEF Serves
    <3> QED BY <3>9 DEF Kept
  <2> QED BY <2>2, <2>3, <2>4 DEF Kept
<1> QED BY <1>1, <1>2

(* stopTrackingMultiplex keeps the engine at the smallest interval of the     *)
(* sessions that remain, and stops it with the last one.                      *)
LEMMA StopServes ==
  ASSUME TypeOK, Kept, NEW key \in Active, NEW ok \in BOOLEAN, StopSession(key, ok)
  PROVE  Kept'
<1>0. sessions \in [Keys -> Options \union {Off}]
      /\ key \in Keys /\ sessions[key].interval \in Nat
  BY SessionOptions DEF TypeOK
<1>1. CASE ~ok
  BY <1>1 DEF StopSession, EngineCall, Told, Kept, Serves, Active
<1>2. CASE ok
  <2> DEFINE rest == Fastest(Active \ {key})
  <2>1. Active' = Active \ {key}
        /\ \A k \in Active \ {key} : sessions'[k] = sessions[k]
    BY <1>0, <1>2 DEF Active, StopSession
  <2>2. CASE rest = {}
    <3>1. engine' = Off
      BY <1>2, <2>2 DEF StopSession, StopTargets, EngineCall
    <3>2. Active \ {key} = {}
      BY <1>0, <2>2, FastestExists
    <3>9. Serves'
      BY <2>1, <3>1, <3>2 DEF Serves
    <3> QED BY <3>9 DEF Kept
  <2>3. CASE rest # {} /\ \A k \in rest : sessions[key].interval < sessions[k].interval
    <3>1. PICK k \in rest : engine' = sessions[k]
      BY <1>2, <2>3 DEF StopSession, StopTargets, EngineCall
    <3>2. k \in Active \ {key} /\ sessions[k] \in Options
          /\ \A j \in Active \ {key} : sessions[k].interval <= sessions[j].interval
      BY <1>0, SessionOptions DEF Fastest
    <3>9. Serves'
      BY <2>1, <3>1, <3>2, TrackingAssumption DEF Serves
    <3> QED BY <3>9 DEF Kept
  <2>4. CASE /\ \E k \in rest : ~(sessions[key].interval < sessions[k].interval)
             /\ ~unrestored'
    <3>0. Serves
      BY <1>2, <2>4 DEF StopSession, StopTargets, Told, Kept
    <3>1. engine' = engine /\ engine \in Options
      BY <1>2, <2>4, <3>0 DEF StopSession, StopTargets, EngineCall, Serves, TypeOK
    <3>2. PICK k \in rest : ~(sessions[key].interval < sessions[k].interval)
      BY <2>4
    <3>3. k \in Active \ {key} /\ sessions[k].interval \in Nat
          /\ \A j \in Active \ {key} : sessions[k].interval <= sessions[j].interval
      BY <1>0, SessionOptions DEF Fastest
    <3>4. engine.interval = sessions[k].interval
      BY <1>0, <3>0, <3>1, <3>2, <3>3, SessionOptions DEF Serves, Options
    <3>9. Serves'
      BY <3>0, <2>1, <3>1, <3>3, <3>4 DEF Serves
    <3> QED BY <3>9 DEF Kept
  <2> QED BY <2>2, <2>3, <2>4 DEF Kept
<1> QED BY <1>1, <1>2

(* An engine call leaves no fix behind without a session. *)
LEMMA StopLeavesNoFix ==
  ASSUME TypeOK, NoIdleFix, NEW key \in Active, NEW ok \in BOOLEAN, StopSession(key, ok)
  PROVE  NoIdleFix'
<1>0. sessions \in [Keys -> Options \union {Off}] /\ key \in Keys
  BY SessionOptions DEF TypeOK
<1>1. CASE ~ok
  BY <1>1 DEF StopSession, EngineCall, NoIdleFix, Active
<1>2. CASE ok /\ Active' = {}
  <2>1. Active \ {key} = {}
    BY <1>0, <1>2 DEF Active, StopSession
  <2>2. StopTargets(key) = {Off}
    BY <2>1 DEF StopTargets, Fastest
  <2> QED BY <1>2, <2>2 DEF StopSession, EngineCall, NoIdleFix
<1> QED BY <1>1, <1>2 DEF NoIdleFix

-----------------------------------------------------------------------------
(* What is pending after a step was pending before it. *)

LEMMA QuietBeforeReceive ==
  ASSUME TypeOK, NEW t, Receive(t), t \notin {"ssr", "restart"},
         modem' = modem, notifying' = notifying, Quiet'
  PROVE  Quiet
<1>1. ASSUME NEW i \in DOMAIN queue, queue[i].type \in {"ssr", "restart"}
      PROVE  FALSE
  <2>1. i \in 1..Len(queue) /\ i # 1
    BY <1>1, ReceiveType DEF TypeOK
  <2>2. i - 1 \in DOMAIN queue' /\ queue'[i-1] = queue[i]
    BY <2>1, ReceiveType
  <2> QED BY <1>1, <2>2 DEF Quiet, RestartPending
<1> QED BY <1>1 DEF Quiet, RestartPending

LEMMA AppendFacts ==
  ASSUME TypeOK, NEW m, queue' = Append(queue, m)
  PROVE  /\ DOMAIN queue = 1..Len(queue) /\ Len(queue) \in Nat
         /\ DOMAIN queue' = 1..Len(queue) + 1
         /\ \A i \in DOMAIN queue : queue'[i] = queue[i]
         /\ queue'[Len(queue) + 1] = m
BY DEF TypeOK

LEMMA QuietBeforePost ==
  ASSUME TypeOK, NEW m, queue' = Append(queue, m),
         modem' = modem, notifying' = notifying, Quiet'
  PROVE  Quiet
BY AppendFacts DEF Quiet, RestartPending

(* A received message other than the reopening keeps the order of the rest. *)
LEMMA OrderAfterReceive ==
  ASSUME TypeOK, RestartAfterReopen, NEW t, Receive(t), notifying' = notifying
  PROVE  RestartAfterReopen'
<1> SUFFICES ASSUME NEW i \in DOMAIN queue', queue'[i].type = "ssr", ~notifying
             PROVE  \E j \in DOMAIN queue' : i < j /\ queue'[j].type = "restart"
  BY DEF RestartAfterReopen
<1>1. i \in 1..Len(queue') /\ i + 1 \in DOMAIN queue /\ queue[i+1] = queue'[i]
  BY ReceiveType DEF TypeOK
<1>2. PICK j \in DOMAIN queue : i + 1 < j /\ queue[j].type = "restart"
  BY <1>1 DEF RestartAfterReopen
<1>3. j \in 1..Len(queue) /\ j - 1 \in 1..Len(queue') /\ queue'[j-1] = queue[j]
  BY <1>1, <1>2, ReceiveType DEF TypeOK
<1> QED BY <1>1, <1>2, <1>3, ReceiveType

LEMMA OrderAfterPost ==
  ASSUME TypeOK, RestartAfterReopen, NEW m, queue' = Append(queue, m),
         m.type # "ssr", notifying' = notifying \/ m.type = "restart"
  PROVE  RestartAfterReopen'
<1> SUFFICES ASSUME NEW i \in DOMAIN queue', queue'[i].type = "ssr", ~notifying'
             PROVE  \E j \in DOMAIN queue' : i < j /\ queue'[j].type = "restart"
  BY DEF RestartAfterReopen
<1>1. i \in DOMAIN queue /\ queue[i].type = "ssr" /\ i <= Len(queue)
  BY AppendFacts
<1>2. CASE m.type = "restart"
  BY <1>1, <1>2, AppendFacts
<1>3. CASE m.type # "restart"
  BY <1>1, <1>3, AppendFacts DEF RestartAfterReopen
<1> QED BY <1>2, <1>3

(* Posting a message other than a start leaves the new sessions new. *)
LEMMA FreshAfterPost ==
  ASSUME TypeOK, StartsFresh, NEW m, queue' = Append(queue, m),
         m.type # "start", sessions' = sessions, nextId' = nextId
  PROVE  StartsFresh'
BY AppendFacts DEF StartsFresh, Active

(* Receiving a message leaves them new if no session appears. *)
LEMMA FreshAfterReceive ==
  ASSUME TypeOK, StartsFresh, NEW t, Receive(t), nextId' = nextId,
         Active' \subseteq Active
  PROVE  StartsFresh'
<1>1. \A i \in DOMAIN queue' : i \in 1..Len(queue') /\ i + 1 \in DOMAIN queue /\ queue'[i] = queue[i+1]
  BY ReceiveType DEF TypeOK
<1>2. \A k \in Active' : k[2] < nextId'
  BY DEF StartsFresh
<1>3. ASSUME NEW i \in DOMAIN queue', queue'[i].type = "start"
      PROVE  /\ queue'[i].key[2] < nextId'
             /\ \A k \in Active' : k[2] # queue'[i].key[2]
             /\ \A j \in DOMAIN queue' :
                  (j # i /\ queue'[j].type = "start") => queue'[i].key[2] # queue'[j].key[2]
  BY <1>1, <1>3 DEF StartsFresh
<1> QED BY <1>2, <1>3 DEF StartsFresh

-----------------------------------------------------------------------------
(* One lemma per process. *)

LEMMA InitInv == Init => IInv
<1> SUFFICES ASSUME Init PROVE IInv
  OBVIOUS
<1>1. Active = {} /\ queue = <<>> /\ DOMAIN queue = {}
  BY DEF Init, Active
<1> QED BY <1>1, InitType DEF Init, IInv, StartsFresh, RestartAfterReopen,
        EngineServesFastest, Serves, NoIdleFix

LEMMA ClientStepInv == IInv /\ ClientStep => IInv'
<1> SUFFICES ASSUME IInv, NEW c \in Clients,
                    \/ \E cb \in BOOLEAN : addClientCommand(c, cb)
                    \/ removeClientCommand(c)
                    \/ \E o \in Options \union {BadOptions} : startTrackingCommand(c, o)
                    \/ \E o \in Options \union {BadOptions}, id \in Ids :
                         updateTrackingOptionsCommand(c, id, o)
                    \/ \E id \in Ids : stopTrackingCommand(c, id),
                    TypeOK'
             PROVE  IInv'
  BY ClientStepType DEF ClientStep, IInv
<1>1. PICK m : /\ queue' = Append(queue, m)
               /\ m.type \in {"add", "remove", "start", "update", "stop"}
               /\ IF m.type = "start" THEN m.key[2] = nextId /\ nextId' = nextId + 1
                                      ELSE nextId' = nextId
  <2> DEFINE P(m) == /\ queue' = Append(queue, m)
                     /\ m.type \in {"add", "remove", "start", "update", "stop"}
                     /\ IF m.type = "start" THEN m.key[2] = nextId /\ nextId' = nextId + 1
                                            ELSE nextId' = nextId
  <2>1. ASSUME NEW cb \in BOOLEAN, addClientCommand(c, cb)
        PROVE  P([type |-> "add", client |-> c, cb |-> cb])
    BY <2>1 DEF addClientCommand, Post
  <2>2. ASSUME removeClientCommand(c)
        PROVE  P([type |-> "remove", client |-> c])
    BY <2>2 DEF removeClientCommand, Post
  <2>3. ASSUME NEW o, startTrackingCommand(c, o)
        PROVE  P([type |-> "start", key |-> <<c, nextId>>, opt |-> o])
    BY <2>3 DEF startTrackingCommand, Post
  <2>4. ASSUME NEW o, NEW id \in Ids, updateTrackingOptionsCommand(c, id, o)
        PROVE  P([type |-> "update", key |-> <<c, id>>, opt |-> o])
    BY <2>4 DEF updateTrackingOptionsCommand, Post
  <2>5. ASSUME NEW id \in Ids, stopTrackingCommand(c, id)
        PROVE  P([type |-> "stop", key |-> <<c, id>>])
    BY <2>5 DEF stopTrackingCommand, Post
  <2> HIDE DEF P
  <2>6. \E m : P(m)
    BY <2>1, <2>2, <2>3, <2>4, <2>5
  <2> QED BY <2>6 DEF P
<1>2. UNCHANGED <<clients, sessions, removing, engine, modem, notifying, unrestored>>
  BY DEF addClientCommand, removeClientCommand, startTrackingCommand,
         updateTrackingOptionsCommand, stopTrackingCommand
<1>3. Active' = Active /\ (Serves' <=> Serves)
  BY <1>2 DEF Active, Serves
<1>4. RestartAfterReopen'
  BY <1>1, <1>2, OrderAfterPost DEF IInv
<1>5. StartsFresh'
  <2>1. CASE m.type # "start"
    BY <1>1, <1>2, <2>1, FreshAfterPost DEF IInv
  <2>2. CASE m.type = "start"
    <3>1. nextId \in Nat /\ nextId' = nextId + 1 /\ m.key[2] = nextId
      BY <1>1, <2>2 DEF IInv, TypeOK
    <3>2. \A k \in Active : k[2] \in Nat /\ k[2] < nextId
      BY DEF IInv, StartsFresh, Active, Keys, Ids
    <3>3. \A i \in DOMAIN queue : queue[i].type = "start" =>
            queue[i].key[2] \in Nat /\ queue[i].key[2] < nextId
      <4>1. ASSUME NEW i \in DOMAIN queue, queue[i].type = "start"
            PROVE  queue[i].key[2] \in Nat
        <5>1. queue[i] \in Messages
          BY DEF IInv, TypeOK
        <5>2. queue[i].key \in Keys
          BY <4>1, <5>1, MessageFields
        <5> QED BY <5>2 DEF Keys, Ids
      <4> QED BY <4>1 DEF IInv, StartsFresh
    <3>4. \A i \in DOMAIN queue' :
            \/ i \in DOMAIN queue /\ queue'[i] = queue[i]
            \/ i = Len(queue) + 1 /\ i \notin DOMAIN queue /\ queue'[i] = m
      BY <1>1, AppendFacts DEF IInv
    <3>5. \A k \in Active' : k[2] < nextId'
      BY <1>3, <3>1, <3>2
    <3>6. ASSUME NEW i \in DOMAIN queue', queue'[i].type = "start"
          PROVE  /\ queue'[i].key[2] < nextId'
                 /\ \A k \in Active' : k[2] # queue'[i].key[2]
                 /\ \A j \in DOMAIN queue' :
                      (j # i /\ queue'[j].type = "start")
                        => queue'[i].key[2] # queue'[j].key[2]
      BY <1>3, <3>1, <3>2, <3>3, <3>4, <3>6 DEF IInv, StartsFresh
    <3> QED BY <3>5, <3>6 DEF StartsFresh
  <2> QED BY <2>1, <2>2
<1>6. EngineServesFastest'
  BY <1>1, <1>2, <1>3, QuietBeforePost DEF IInv, EngineServesFastest, Quiet
<1> QED BY <1>2, <1>3, <1>4, <1>5, <1>6 DEF IInv, NoIdleFix

LEMMA ModemInv == IInv /\ (ModemStep \/ ModemCrash) => IInv'
<1> SUFFICES ASSUME IInv, EngineUp \/ PostRestart \/ ModemCrash, TypeOK'
             PROVE  IInv'
  BY ModemType DEF ModemStep, IInv
<1>0. UNCHANGED <<sessions, removing, nextId>> /\ Active' = Active
  BY DEF EngineUp, PostRestart, ModemCrash, Active
<1>1. CASE EngineUp
  <2>1. StartsFresh'
    BY <1>0, <1>1, FreshAfterPost DEF EngineUp, IInv
  <2> QED BY <1>0, <1>1, <2>1 DEF IInv, EngineUp, RestartAfterReopen, EngineServesFastest, NoIdleFix
<1>2. CASE PostRestart
  <2>1. queue' = Append(queue, [type |-> "restart"])
    BY <1>2 DEF PostRestart
  <2>2. StartsFresh' /\ RestartAfterReopen'
    BY <1>0, <2>1, FreshAfterPost, OrderAfterPost DEF IInv
  <2>3. RestartPending'
    <3>1. Len(queue) + 1 \in DOMAIN queue' /\ queue'[Len(queue) + 1].type = "restart"
      BY <2>1, AppendFacts DEF IInv
    <3> QED BY <3>1 DEF RestartPending
  <2> QED BY <1>0, <1>2, <2>2, <2>3 DEF IInv, EngineServesFastest, NoIdleFix, PostRestart
<1>3. CASE ModemCrash
  BY <1>0, <1>3 DEF ModemCrash, IInv, StartsFresh, RestartAfterReopen, EngineServesFastest, NoIdleFix
<1> QED BY <1>1, <1>2, <1>3

LEMMA ProcStepInv == IInv /\ ProcStep => IInv'
<1> SUFFICES ASSUME IInv, ProcStep, TypeOK' PROVE IInv'
  BY ProcStepType DEF IInv
<1>0. TypeOK /\ sessions \in [Keys -> Options \union {Off}]
  BY DEF IInv, TypeOK
<1>1. CASE ProcAddClient
  <2>1. Active' = Active /\ (Serves' <=> Serves)
    BY <1>1 DEF ProcAddClient, Active, Serves
  <2>2. StartsFresh' /\ RestartAfterReopen'
    BY <1>1, <2>1, FreshAfterReceive, OrderAfterReceive DEF ProcAddClient, IInv
  <2> QED BY <1>1, <2>1, <2>2, QuietBeforeReceive
          DEF ProcAddClient, IInv, EngineServesFastest, NoIdleFix, Quiet
<1>2. CASE ProcStartTracking
  <2>1. Receive("start") /\ UNCHANGED <<nextId, removing, modem, notifying>>
        /\ removing = {}
    BY <1>2 DEF ProcStartTracking, Receive
  <2>2. PICK m \in Messages : /\ m = Head(queue) /\ m = queue[1] /\ m.type = "start"
                             /\ m.key \in Keys /\ 1 \in DOMAIN queue
    BY <1>0, <2>1, ReceiveType, MessageFields DEF TypeOK
  <2>3. m.key[2] < nextId /\ m.key \notin Active
    BY <2>2 DEF IInv, StartsFresh
  <2>4. \/ UNCHANGED <<sessions, engine, unrestored>>
        \/ /\ m.opt \in Options
           /\ \E ok \in BOOLEAN :
               /\ EngineCall(StartTargets(m.opt), ok) /\ Told(StartTargets(m.opt), ok)
               /\ sessions' = IF ok THEN [sessions EXCEPT ![m.key] = m.opt] ELSE sessions
    <3>1. m.opt \in Options \union {BadOptions}
      BY <2>2, MessageFields
    <3> QED BY <1>2, <2>2, <3>1 DEF ProcStartTracking, MayStart
  <2>5. Kept => Kept'
    <3>1. CASE UNCHANGED <<sessions, engine, unrestored>>
      BY <3>1 DEF Kept, Serves, Active
    <3>2. CASE /\ m.opt \in Options
               /\ \E ok \in BOOLEAN :
                   /\ EngineCall(StartTargets(m.opt), ok) /\ Told(StartTargets(m.opt), ok)
                   /\ sessions' = IF ok THEN [sessions EXCEPT ![m.key] = m.opt] ELSE sessions
      BY <1>0, <2>2, <2>3, <3>2, StartServes
    <3> QED BY <2>4, <3>1, <3>2
  <2>6. Active' \subseteq Active \union {m.key}
    BY <1>0, <2>2, <2>4 DEF Active
  <2>7. StartsFresh'
    <3>1. \A i \in DOMAIN queue' : /\ i + 1 \in DOMAIN queue /\ i + 1 # 1
                                  /\ queue'[i] = queue[i+1]
      BY <1>0, <2>1, ReceiveShifts
    <3>2. \A k \in Active' : k[2] < nextId'
      BY <2>1, <2>3, <2>6 DEF IInv, StartsFresh
    <3>3. ASSUME NEW i \in DOMAIN queue', queue'[i].type = "start"
          PROVE  /\ queue'[i].key[2] < nextId'
                 /\ \A k \in Active' : k[2] # queue'[i].key[2]
                 /\ \A j \in DOMAIN queue' :
                      (j # i /\ queue'[j].type = "start")
                        => queue'[i].key[2] # queue'[j].key[2]
      <4>1. /\ queue'[i].key[2] < nextId'
            /\ \A k \in Active : k[2] # queue'[i].key[2]
        BY <2>1, <3>1, <3>3 DEF IInv, StartsFresh
      <4>2. m.key[2] # queue'[i].key[2]
        BY <2>2, <3>1, <3>3 DEF IInv, StartsFresh
      <4>3. \A j \in DOMAIN queue' : (j # i /\ queue'[j].type = "start")
                                      => queue'[i].key[2] # queue'[j].key[2]
        <5> SUFFICES ASSUME NEW j \in DOMAIN queue', j # i, queue'[j].type = "start"
                     PROVE  queue'[i].key[2] # queue'[j].key[2]
          OBVIOUS
        <5>1. i + 1 # j + 1
          BY <1>0, <2>1, ReceiveShifts
        <5> QED BY <3>1, <3>3, <5>1 DEF IInv, StartsFresh
      <4> QED BY <2>6, <4>1, <4>2, <4>3
    <3> QED BY <3>2, <3>3 DEF StartsFresh
  <2>8. RestartAfterReopen'
    BY <1>0, <2>1, OrderAfterReceive DEF IInv
  <2>9. NoIdleFix'
    BY <1>0, <2>2, <2>4, TrackingAssumption DEF IInv, NoIdleFix, EngineCall, Active
  <2> QED BY <1>0, <2>1, <2>5, <2>7, <2>8, <2>9, QuietBeforeReceive
          DEF IInv, EngineServesFastest, Quiet, Kept
<1>3. CASE ProcUpdateTracking
  <2>1. Receive("update") /\ UNCHANGED <<nextId, removing, modem, notifying>>
        /\ removing = {}
    BY <1>3 DEF ProcUpdateTracking, Receive
  <2>2. PICK m \in Messages : m = Head(queue) /\ m.type = "update" /\ m.key \in Keys
                             /\ m.opt \in Options \union {BadOptions}
    BY <1>0, <2>1, ReceiveType, MessageFields
  <2>3. \/ UNCHANGED <<sessions, engine, unrestored>>
        \/ /\ m.opt \in Options /\ m.key \in Active
           /\ \E ok \in BOOLEAN :
               /\ EngineCall(UpdateTargets(m.key, m.opt), ok) /\ Told(UpdateTargets(m.key, m.opt), ok)
               /\ sessions' = IF ok THEN [sessions EXCEPT ![m.key] = m.opt] ELSE sessions
    BY <1>3, <2>2 DEF ProcUpdateTracking
  <2>4. (Kept => Kept') /\ Active' \subseteq Active
    <3>1. CASE UNCHANGED <<sessions, engine, unrestored>>
      BY <3>1 DEF Kept, Serves, Active
    <3>2. CASE /\ m.opt \in Options /\ m.key \in Active
               /\ \E ok \in BOOLEAN :
                   /\ EngineCall(UpdateTargets(m.key, m.opt), ok) /\ Told(UpdateTargets(m.key, m.opt), ok)
                   /\ sessions' = IF ok THEN [sessions EXCEPT ![m.key] = m.opt] ELSE sessions
      <4>1. Kept => Kept'
        BY <1>0, <3>2, UpdateServes
      <4>2. Active' \subseteq Active
        BY <1>0, <3>2 DEF Active
      <4> QED BY <4>1, <4>2
    <3> QED BY <2>3, <3>1, <3>2
  <2>5. StartsFresh' /\ RestartAfterReopen'
    BY <1>0, <2>1, <2>4, FreshAfterReceive, OrderAfterReceive DEF IInv
  <2>6. NoIdleFix'
    BY <1>0, <2>2, <2>3, TrackingAssumption DEF IInv, NoIdleFix, EngineCall, Active
  <2> QED BY <1>0, <2>1, <2>4, <2>5, <2>6, QuietBeforeReceive
          DEF IInv, EngineServesFastest, Quiet, Kept
<1>4. CASE ProcStopTracking
  <2>1. Receive("stop") /\ UNCHANGED <<nextId, removing, modem, notifying>>
        /\ removing = {}
    BY <1>4 DEF ProcStopTracking, Receive
  <2>2. \/ UNCHANGED <<sessions, engine, unrestored>>
        \/ \E k \in Active, ok \in BOOLEAN : StopSession(k, ok)
    BY <1>4 DEF ProcStopTracking
  <2>3. (Kept => Kept') /\ Active' \subseteq Active
    BY <1>0, <2>2, StopServes DEF Kept, Serves, Active, StopSession
  <2>4. StartsFresh' /\ RestartAfterReopen'
    BY <1>0, <2>1, <2>3, FreshAfterReceive, OrderAfterReceive DEF IInv
  <2>5. NoIdleFix'
    BY <1>0, <2>2, StopLeavesNoFix DEF IInv, NoIdleFix, Active
  <2> QED BY <1>0, <2>1, <2>3, <2>4, <2>5, QuietBeforeReceive
          DEF IInv, EngineServesFastest, Quiet, Kept
<1>5. CASE ProcRemoveClient
  <2>1. Active' = Active /\ (Serves' <=> Serves) /\ removing' \subseteq Active'
    BY <1>5 DEF ProcRemoveClient, Active, Serves
  <2>2. StartsFresh' /\ RestartAfterReopen'
    BY <1>0, <1>5, <2>1, FreshAfterReceive, OrderAfterReceive DEF ProcRemoveClient, IInv
  <2> QED BY <1>0, <1>5, <2>1, <2>2, QuietBeforeReceive
          DEF ProcRemoveClient, IInv, EngineServesFastest, NoIdleFix, Quiet
<1>6. CASE StopClientSession
  <2>1. PICK k \in removing, ok \in BOOLEAN :
          StopSession(k, ok) /\ removing' = removing \ {k}
    BY <1>6 DEF StopClientSession
  <2>2. k \in Active /\ UNCHANGED <<queue, nextId, modem, notifying>>
    BY <1>6, <2>1 DEF StopClientSession, IInv
  <2>3. (Kept => Kept')
    BY <1>0, <2>1, <2>2, StopServes
  <2>4. Active' \subseteq Active /\ Active \ {k} \subseteq Active'
    BY <1>0, <2>1, <2>2 DEF Active, StopSession
  <2>5. removing' \subseteq Active'
    BY <2>1, <2>4 DEF IInv
  <2>6. StartsFresh' /\ RestartAfterReopen'
    BY <2>2, <2>4 DEF IInv, StartsFresh, RestartAfterReopen
  <2>7. NoIdleFix'
    BY <1>0, <2>1, <2>2, StopLeavesNoFix DEF IInv
  <2> QED BY <2>2, <2>3, <2>5, <2>6, <2>7 DEF IInv, EngineServesFastest, RestartPending, Kept
<1>7. CASE ProcSsr
  <2>1. Active' = Active /\ removing' = {}
    BY <1>7 DEF ProcSsr, Active, Receive
  <2>2. StartsFresh' /\ RestartAfterReopen'
    BY <1>0, <1>7, <2>1, FreshAfterReceive, OrderAfterReceive DEF ProcSsr, IInv
  <2>3. RestartPending'
    <3>1. 1 \in DOMAIN queue /\ queue[1].type = "ssr" /\ notifying' = notifying
      BY <1>0, <1>7, ReceiveType DEF ProcSsr, TypeOK
    <3>2. CASE notifying
      BY <3>1, <3>2 DEF RestartPending
    <3>3. CASE ~notifying
      <4>1. PICK j \in DOMAIN queue : 1 < j /\ queue[j].type = "restart"
        BY <3>1, <3>3 DEF IInv, RestartAfterReopen
      <4>2. j - 1 \in DOMAIN queue' /\ queue'[j-1] = queue[j]
        BY <1>0, <1>7, <4>1, ReceiveShifts DEF ProcSsr
      <4> QED BY <4>1, <4>2 DEF RestartPending
    <3> QED BY <3>2, <3>3
  <2> QED BY <1>7, <2>1, <2>2, <2>3 DEF IInv, EngineServesFastest, NoIdleFix, ProcSsr
<1>8. CASE ProcRestartSessions
  <2>1. Active' = Active /\ removing' = {} /\ modem' = modem
        /\ sessions' = sessions
    BY <1>8 DEF ProcRestartSessions, Active, Receive
  <2>2. StartsFresh' /\ RestartAfterReopen'
    BY <1>0, <1>8, <2>1, FreshAfterReceive, OrderAfterReceive
       DEF ProcRestartSessions, IInv
  <2>3. ASSUME ~unrestored', Active # {} PROVE Serves'
    <3>1. PICK k \in Fastest(Active) : engine' = sessions[k]
      BY <1>8, <2>3, FastestExists, <1>0 DEF ProcRestartSessions, RestartTargets, EngineCall
    <3>2. k \in Active /\ sessions[k] \in Options /\ sessions[k].interval \in Nat
          /\ \A j \in Active : sessions[k].interval <= sessions[j].interval
      BY <1>0, SessionOptions DEF Fastest
    <3> QED BY <2>1, <3>1, <3>2, TrackingAssumption DEF Serves
  <2>4. ASSUME Active = {} PROVE Serves' /\ NoIdleFix'
    BY <1>8, <2>1, <2>4 DEF ProcRestartSessions, Serves, IInv, NoIdleFix
  <2> QED BY <1>8, <2>1, <2>2, <2>3, <2>4
          DEF IInv, EngineServesFastest, NoIdleFix
<1> QED BY <1>1, <1>2, <1>3, <1>4, <1>5, <1>6, <1>7, <1>8 DEF ProcStep

-----------------------------------------------------------------------------
LEMMA InvHolds == Spec => []IInv
<1>1. IInv /\ [Next]_vars => IInv'
  <2>1. IInv /\ UNCHANGED vars => IInv'
    BY DEF IInv, TypeOK, StartsFresh, RestartAfterReopen, NoIdleFix,
           EngineServesFastest, Serves, RestartPending, Active, vars
  <2> QED BY <2>1, ClientStepInv, ProcStepInv, ModemInv DEF Next
<1> QED BY <1>1, InitInv, PTL DEF Spec

(* The engine runs at the interval of the fastest session, and is off exactly *)
(* when there is none, in every state in which the modem is up, no restart of *)
(* it is still to be dealt with, and it did not refuse the last one with no   *)
(* call taken since.                                                          *)
THEOREM EngineAlwaysServesFastest == Spec => []EngineServesFastest
<1>1. IInv => EngineServesFastest
  BY DEF IInv
<1> QED BY <1>1, InvHolds, PTL

(* Whatever the modem and the callers do, the engine never runs a fix without *)
(* a session that asked for one.                                              *)
THEOREM NeverIdleFix == Spec => []NoIdleFix
<1>1. IInv => NoIdleFix
  BY DEF IInv
<1> QED BY <1>1, InvHolds, PTL
-----------------------------------------------------------------------------
(* Sessions and their clients.                                                *)

LEMMA OrphanInductive ==
  ASSUME TypeOK, OrphanOnlyAfterFailedStop, [Next]_vars
  PROVE  OrphanOnlyAfterFailedStop'
<1>0. sessions \in [Keys -> Options \union {Off}]
  BY DEF TypeOK
<1>1. ASSUME Active' \subseteq Active, clients' = clients, removing \subseteq removing',
             unstopped' = unstopped
      PROVE  OrphanOnlyAfterFailedStop'
  BY <1>1 DEF OrphanOnlyAfterFailedStop
<1>2. CASE ClientStep \/ ModemStep \/ ModemCrash \/ ProcSsr \/ ProcRestartSessions
           \/ UNCHANGED vars
  <2>1. UNCHANGED <<sessions, clients, removing, unstopped>>
    BY <1>2 DEF ClientStep, addClientCommand, removeClientCommand, startTrackingCommand,
                updateTrackingOptionsCommand, stopTrackingCommand, ModemStep, EngineUp,
                PostRestart, ModemCrash, ProcSsr, ProcRestartSessions, vars
  <2> QED BY <1>1, <2>1 DEF Active
<1>3. CASE ProcAddClient
  <2>1. Head(queue).client \in Clients /\ clients \in [Clients -> {"none", "other", "tracking"}]
    BY <1>3, ReceiveType, MessageFields DEF ProcAddClient, TypeOK
  <2>2. \A k \in Keys : clients'[k[1]] = clients[k[1]] \/ clients'[k[1]] # "none"
    BY <1>3, <2>1, KeyShape DEF ProcAddClient
  <2> QED BY <1>3, <2>2 DEF ProcAddClient, OrphanOnlyAfterFailedStop, Active
<1>4. CASE ProcStartTracking
  <2>1. UNCHANGED <<clients, removing, unstopped>>
    BY <1>4 DEF ProcStartTracking
  <2>2. PICK key \in Keys : \/ sessions' = sessions
                           \/ /\ clients[key[1]] # "none"
                              /\ \A k \in Keys \ {key} : sessions'[k] = sessions[k]
    <3>1. Head(queue).key \in Keys
      BY <1>4, ReceiveType, MessageFields DEF ProcStartTracking
    <3> QED BY <1>0, <1>4, <3>1 DEF ProcStartTracking, MayStart
  <2> QED BY <2>1, <2>2 DEF OrphanOnlyAfterFailedStop, Active
<1>5. CASE ProcUpdateTracking
  <2>1. UNCHANGED <<clients, removing, unstopped>>
    BY <1>5 DEF ProcUpdateTracking
  <2>2. Active' \subseteq Active
    BY <1>0, <1>5 DEF ProcUpdateTracking, Active
  <2> QED BY <1>1, <2>1, <2>2
<1>a. ASSUME NEW k \in Active, NEW ok \in BOOLEAN, StopSession(k, ok)
      PROVE  Active' \subseteq Active /\ (ok => k \notin Active')
  BY <1>0, <1>a DEF StopSession, Active
<1>6. CASE ProcStopTracking
  <2>1. UNCHANGED <<clients, removing, unstopped>>
    BY <1>6 DEF ProcStopTracking
  <2>2. Active' \subseteq Active
    BY <1>6, <1>a DEF ProcStopTracking, Active
  <2> QED BY <1>1, <2>1, <2>2
<1>7. CASE ProcRemoveClient
  <2>1. Head(queue).client \in Clients /\ clients \in [Clients -> {"none", "other", "tracking"}]
        /\ removing = {}
    BY <1>7, ReceiveType, MessageFields DEF ProcRemoveClient, Receive, TypeOK
  <2>2. \A k \in Active' : clients'[k[1]] = clients[k[1]] \/ k \in removing'
    BY <1>7, <2>1, KeyShape DEF ProcRemoveClient, Active
  <2> QED BY <1>7, <2>1, <2>2 DEF ProcRemoveClient, OrphanOnlyAfterFailedStop, Active
<1>8. CASE StopClientSession
  <2>1. PICK k \in removing, ok \in BOOLEAN :
          /\ StopSession(k, ok) /\ removing' = removing \ {k}
          /\ unstopped' = IF ok THEN unstopped ELSE unstopped \union {k}
    BY <1>8 DEF StopClientSession
  <2>2. Active' \subseteq Active /\ (ok => k \notin Active')
    BY <1>0, <2>1 DEF StopSession, Active, TypeOK
  <2> QED BY <1>8, <2>1, <2>2 DEF StopClientSession, OrphanOnlyAfterFailedStop
<1> QED BY <1>2, <1>3, <1>4, <1>5, <1>6, <1>7, <1>8 DEF Next, ProcStep

(* A session without a client is one the engine refused to stop: neither a    *)
(* start queued behind the removal nor a removal that is still at work        *)
(* (stopClientSessions) leaves another one.                                   *)
THEOREM OrphansWereRefused == Spec => []OrphanOnlyAfterFailedStop
<1>1. Init => OrphanOnlyAfterFailedStop
  BY DEF Init, OrphanOnlyAfterFailedStop, Active
<1>2. TypeOK /\ OrphanOnlyAfterFailedStop /\ [Next]_vars => OrphanOnlyAfterFailedStop'
  BY OrphanInductive
<1> QED BY <1>1, <1>2, TypeCorrect, PTL DEF Spec
=============================================================================
