---------------------------- MODULE GnssTracking ----------------------------
(***************************************************************************)
(* Time based tracking in GnssAdapter (src/gps/gnss/GnssAdapter.cpp).      *)
(*                                                                         *)
(* Several location clients share one GNSS engine.  Each client call only  *)
(* posts a message; one MsgTask thread runs the messages in order.  The    *)
(* adapter keeps the options of every session and drives the engine with   *)
(* the options of the session whose minimum interval is the smallest.      *)
(* The modem that holds the engine may restart at any moment (SSR): its    *)
(* event thread then posts a message that reopens the handle and one that  *)
(* restarts the sessions.                                                  *)
(***************************************************************************)
EXTENDS Naturals, Sequences, FiniteSets

CONSTANTS Clients,       \* the LocationAPI objects that use the adapter
          Intervals,     \* the minInterval values a client asks for
          Modes,         \* the GnssSuplMode values a client asks for
          Off,           \* the engine runs no fix; also "no such session"
          BadOptions,    \* LocationOptions whose size field is zero
          MaxSessions,   \* bound: session ids handed out
          QueueBound,    \* bound: client messages waiting in the queue
          MaxFail,       \* bound: engine calls that fail while the modem is up
          MaxCrash       \* bound: modem restarts

Options == [interval : Intervals, mode : Modes]
Ids == 1..MaxSessions
Keys == Clients \X Ids    \* LocationSessionKey

ASSUME TrackingAssumption ==
  /\ Intervals \subseteq Nat
  /\ Off \notin Options /\ BadOptions \notin Options /\ Off # BadOptions
  /\ MaxSessions \in Nat /\ QueueBound \in Nat
  /\ MaxFail \in Nat /\ MaxCrash \in Nat

VARIABLES
  clients,    \* mClientData: "none", or whether a tracking or measurement
              \* callback is among the callbacks of the client
  sessions,   \* mTrackingSessions: Keys -> options, Off where there is no session
  queue,      \* the messages MsgTask has not yet processed
  nextId,     \* LocAdapterBase::mSessionIdCounter
  removing,   \* the keys stopClientSessions has still to visit
  engine,     \* what the modem runs: options or Off (external)
  modem,      \* "down", "stale" (up, our handle is not reopened) or "open"
  notifying,  \* the modem's event thread is between its two posts
  unstopped,  \* sessions whose stop failed while their client was removed
  unrestored, \* the last restart was refused and the engine was told nothing since
  failures, crashes   \* counters of the bounds

vars == <<clients, sessions, queue, nextId, removing, engine, modem,
          notifying, unstopped, unrestored, failures, crashes>>

Active == {k \in Keys : sessions[k] # Off}

(* The sessions of K with the smallest interval.  The scan of the code keeps *)
(* the first of them in the order of the client pointers, which is not       *)
(* determined: any of them may be the one.                                   *)
Fastest(K) ==
  {k \in K : \A j \in K : sessions[k].interval <= sessions[j].interval}

-----------------------------------------------------------------------------
(* The multiplexing decisions: the set of options the engine may be given,  *)
(* empty when the engine is left alone.                                     *)

\* startTrackingMultiplex
StartTargets(o) ==
  IF \A k \in Fastest(Active) : o.interval < sessions[k].interval
  THEN {o} ELSE {}

\* updateTrackingMultiplex
UpdateTargets_OnlyFaster(key, o) ==   \* mutant: never falls back to another session
  IF \A k \in Fastest(Active \ {key}) : o.interval < sessions[k].interval
  THEN {o} ELSE {}
UpdateTargets(key, o) ==
  LET rest == Fastest(Active \ {key}) IN
  IF \A k \in rest : o.interval < sessions[k].interval THEN {o}
  ELSE IF \A k \in rest : sessions[key].interval < sessions[k].interval
       THEN {sessions[k] : k \in rest} ELSE {}

\* stopTrackingMultiplex
StopTargets(key) ==
  LET rest == Fastest(Active \ {key}) IN
  IF rest = {} THEN {Off}
  ELSE IF \A k \in rest : sessions[key].interval < sessions[k].interval
       THEN {sessions[k] : k \in rest} ELSE {}

\* restartSessions
RestartTargets_AnySession == {sessions[k] : k \in Active}   \* mutant
RestartTargets == {sessions[k] : k \in Fastest(Active)}

(* startTracking and stopTracking: the call into LocApiBase.  It fails when  *)
(* the modem is down, may fail on a stale handle, and at most MaxFail times  *)
(* otherwise; a call that fails leaves the engine as it is.                  *)
EngineCall(targets, ok) ==
  \/ /\ ok /\ targets = {}
     /\ UNCHANGED <<engine, failures>>
  \/ /\ ok /\ modem # "down"
     /\ engine' \in targets
     /\ UNCHANGED failures
  \/ /\ ~ok /\ targets # {}
     /\ \/ modem # "open" /\ UNCHANGED failures
        \/ modem = "open" /\ failures < MaxFail /\ failures' = failures + 1
     /\ UNCHANGED engine

\* A call that the modem takes makes up for a restart that it refused.
Told(targets, ok) ==
  unrestored' = IF ok /\ targets # {} THEN FALSE ELSE unrestored

-----------------------------------------------------------------------------
(* The callers: each operation posts one message. *)

Post(m) == /\ Len(queue) < QueueBound
           /\ queue' = Append(queue, m)

addClientCommand(c, cb) ==
  /\ Post([type |-> "add", client |-> c, cb |-> cb])
  /\ UNCHANGED <<clients, sessions, nextId, removing, engine, modem,
                 notifying, unstopped, unrestored, failures, crashes>>

removeClientCommand(c) ==
  /\ Post([type |-> "remove", client |-> c])
  /\ UNCHANGED <<clients, sessions, nextId, removing, engine, modem,
                 notifying, unstopped, unrestored, failures, crashes>>

startTrackingCommand(c, o) ==
  /\ nextId <= MaxSessions
  /\ Post([type |-> "start", key |-> <<c, nextId>>, opt |-> o])
  /\ nextId' = nextId + 1
  /\ UNCHANGED <<clients, sessions, removing, engine, modem,
                 notifying, unstopped, unrestored, failures, crashes>>

updateTrackingOptionsCommand(c, id, o) ==
  /\ id < nextId
  /\ Post([type |-> "update", key |-> <<c, id>>, opt |-> o])
  /\ UNCHANGED <<clients, sessions, nextId, removing, engine, modem,
                 notifying, unstopped, unrestored, failures, crashes>>

stopTrackingCommand(c, id) ==
  /\ id < nextId
  /\ Post([type |-> "stop", key |-> <<c, id>>])
  /\ UNCHANGED <<clients, sessions, nextId, removing, engine, modem,
                 notifying, unstopped, unrestored, failures, crashes>>

-----------------------------------------------------------------------------
(* The MsgTask thread: proc() of the message at the head of the queue. *)

Receive(type) == /\ removing = {}
                 /\ queue # <<>>
                 /\ Head(queue).type = type
                 /\ queue' = Tail(queue)

\* MsgAddClient: saveClient
ProcAddClient ==
  /\ Receive("add")
  /\ LET m == Head(queue) IN
     clients' = [clients EXCEPT ![m.client] = IF m.cb THEN "tracking" ELSE "other"]
  /\ UNCHANGED <<sessions, nextId, removing, engine, modem, notifying,
                 unstopped, unrestored, failures, crashes>>

\* MsgStartTracking checks the callbacks and the options before it multiplexes
MayStart_AnyClient(c, o) == o # BadOptions             \* mutant
MayStart(c, o) == clients[c] = "tracking" /\ o # BadOptions

\* MsgStartTracking of a client
ProcStartTracking ==
  /\ Receive("start")
  /\ LET m == Head(queue) IN
     IF ~MayStart(m.key[1], m.opt)
     THEN UNCHANGED <<sessions, engine, unrestored, failures>>
     ELSE \E ok \in BOOLEAN :
            /\ EngineCall(StartTargets(m.opt), ok)
            /\ Told(StartTargets(m.opt), ok)
            /\ sessions' = IF ok THEN [sessions EXCEPT ![m.key] = m.opt]
                                 ELSE sessions
  /\ UNCHANGED <<clients, nextId, removing, modem, notifying, unstopped, crashes>>

\* MsgUpdateTracking: a key without a session is ignored
ProcUpdateTracking ==
  /\ Receive("update")
  /\ LET m == Head(queue) IN
     IF m.key \notin Active \/ m.opt = BadOptions
     THEN UNCHANGED <<sessions, engine, unrestored, failures>>
     ELSE \E ok \in BOOLEAN :
            /\ EngineCall(UpdateTargets(m.key, m.opt), ok)
            /\ Told(UpdateTargets(m.key, m.opt), ok)
            /\ sessions' = IF ok THEN [sessions EXCEPT ![m.key] = m.opt]
                                 ELSE sessions
  /\ UNCHANGED <<clients, nextId, removing, modem, notifying, unstopped, crashes>>

\* stopTrackingMultiplex, then eraseTrackingSession when it succeeded
StopSession(key, ok) ==
  /\ EngineCall(StopTargets(key), ok)
  /\ Told(StopTargets(key), ok)
  /\ sessions' = IF ok THEN [sessions EXCEPT ![key] = Off] ELSE sessions

\* MsgStopTracking of a client
ProcStopTracking ==
  /\ Receive("stop")
  /\ LET m == Head(queue) IN
     IF m.key \notin Active
     THEN UNCHANGED <<sessions, engine, unrestored, failures>>
     ELSE \E ok \in BOOLEAN : StopSession(m.key, ok)
  /\ UNCHANGED <<clients, nextId, removing, modem, notifying, unstopped, crashes>>

(* MsgRemoveClient: stopClientSessions visits the sessions of the client one *)
(* by one while the modem goes on, then eraseClient.                         *)
ProcRemoveClient ==
  /\ Receive("remove")
  /\ LET c == Head(queue).client IN
     /\ removing' = {k \in Active : k[1] = c}
     /\ clients' = [clients EXCEPT ![c] = "none"]
  /\ UNCHANGED <<sessions, nextId, engine, modem, notifying, unstopped,
                 unrestored, failures, crashes>>

StopClientSession ==
  /\ removing # {}
  /\ \E k \in removing :
       /\ \A j \in removing : k[2] <= j[2]
       /\ \E ok \in BOOLEAN :
            /\ StopSession(k, ok)
            /\ unstopped' = IF ok THEN unstopped ELSE unstopped \union {k}
       /\ removing' = removing \ {k}
  /\ UNCHANGED <<clients, queue, nextId, modem, notifying, crashes>>

\* LocSsrMsg: close() ends what this handle runs, open() takes a new handle
ProcSsr ==
  /\ Receive("ssr")
  /\ engine' = Off
  /\ modem' = IF modem = "down" THEN "down" ELSE "open"
  /\ UNCHANGED <<clients, sessions, nextId, removing, notifying, unstopped,
                 unrestored, failures, crashes>>

(* MsgRestartSessions: startFix may fail as it may for a client, but its      *)
(* result is not looked at and nothing tries again.                           *)
ProcRestartSessions ==
  /\ Receive("restart")
  /\ \/ /\ Active = {}
        /\ unrestored' = FALSE
        /\ UNCHANGED <<engine, failures>>
     \/ /\ Active # {}
        /\ \E ok \in BOOLEAN : /\ EngineCall(RestartTargets, ok)
                              /\ unrestored' = ~ok
  /\ UNCHANGED <<clients, sessions, nextId, removing, modem, notifying,
                 unstopped, crashes>>

-----------------------------------------------------------------------------
(* The modem and its event thread (external up to handleEngineUpEvent). *)

ModemCrash ==
  /\ modem # "down" /\ crashes < MaxCrash
  /\ modem' = "down" /\ engine' = Off /\ crashes' = crashes + 1
  /\ UNCHANGED <<clients, sessions, queue, nextId, removing, notifying,
                 unstopped, unrestored, failures>>

\* LocApiBase::handleEngineUpEvent posts LocSsrMsg before it calls the adapters
EngineUp ==
  /\ modem = "down" /\ ~notifying
  /\ modem' = "stale" /\ notifying' = TRUE
  /\ queue' = Append(queue, [type |-> "ssr"])
  /\ UNCHANGED <<clients, sessions, nextId, removing, engine, unstopped,
                 unrestored, failures, crashes>>

\* GnssAdapter::handleEngineUpEvent
PostRestart ==
  /\ notifying
  /\ notifying' = FALSE
  /\ queue' = Append(queue, [type |-> "restart"])
  /\ UNCHANGED <<clients, sessions, nextId, removing, engine, modem,
                 unstopped, unrestored, failures, crashes>>

-----------------------------------------------------------------------------
Init ==
  /\ clients = [c \in Clients |-> "none"]
  /\ sessions = [k \in Keys |-> Off]
  /\ queue = <<>> /\ nextId = 1 /\ removing = {}
  /\ engine = Off /\ modem = "open" /\ notifying = FALSE
  /\ unstopped = {} /\ unrestored = FALSE /\ failures = 0 /\ crashes = 0

ClientStep ==
  \E c \in Clients :
    \/ \E cb \in BOOLEAN : addClientCommand(c, cb)
    \/ removeClientCommand(c)
    \/ \E o \in Options \union {BadOptions} :
         \/ startTrackingCommand(c, o)
         \/ \E id \in Ids : updateTrackingOptionsCommand(c, id, o)
    \/ \E id \in Ids : stopTrackingCommand(c, id)

ProcStep ==
  \/ ProcAddClient \/ ProcStartTracking \/ ProcUpdateTracking
  \/ ProcStopTracking \/ ProcRemoveClient \/ StopClientSession
  \/ ProcSsr \/ ProcRestartSessions

ModemStep == EngineUp \/ PostRestart

Next == ClientStep \/ ProcStep \/ ModemStep \/ ModemCrash

Spec == Init /\ [][Next]_vars

(* The MsgTask thread keeps running and a modem that restarts comes back and *)
(* reports it; no client is obliged to call.                                 *)
FairSpec == Spec /\ WF_vars(ProcStep) /\ WF_vars(ModemStep)

-----------------------------------------------------------------------------
Messages ==
  [type : {"add"}, client : Clients, cb : BOOLEAN]
  \union [type : {"remove"}, client : Clients]
  \union [type : {"start", "update"}, key : Keys, opt : Options \union {BadOptions}]
  \union [type : {"stop"}, key : Keys]
  \union [type : {"ssr", "restart"}]

(* The types of the adapter's and the modem's state. *)
TypeOK ==
  /\ clients \in [Clients -> {"none", "other", "tracking"}]
  /\ sessions \in [Keys -> Options \union {Off}]
  /\ queue \in Seq(Messages)
  /\ nextId \in 1..MaxSessions + 1
  /\ removing \subseteq Keys
  /\ engine \in Options \union {Off}
  /\ modem \in {"down", "stale", "open"}
  /\ notifying \in BOOLEAN
  /\ unstopped \subseteq Keys
  /\ unrestored \in BOOLEAN
  /\ failures \in 0..MaxFail
  /\ crashes \in 0..MaxCrash

RestartPending ==
  notifying \/ \E i \in DOMAIN queue : queue[i].type \in {"ssr", "restart"}

Serves ==
  IF Active = {} THEN engine = Off
  ELSE /\ engine # Off
       /\ \A k \in Active : engine.interval <= sessions[k].interval
       /\ \E k \in Active : engine.interval = sessions[k].interval

(* No start message, queued or handled, carries the id of another session:    *)
(* generateSessionId never repeats an id within the bound, so saving a new    *)
(* session cannot overwrite one that the engine is serving.                   *)
StartsFresh ==
  /\ \A k \in Active : k[2] < nextId
  /\ \A i \in DOMAIN queue : queue[i].type = "start" =>
       /\ queue[i].key[2] < nextId
       /\ \A k \in Active : k[2] # queue[i].key[2]
       /\ \A j \in DOMAIN queue :
            (j # i /\ queue[j].type = "start") => queue[i].key[2] # queue[j].key[2]

(* Every reopening of the handle is followed by a restart of the sessions:    *)
(* LocApiBase::handleEngineUpEvent posts LocSsrMsg before the adapters post   *)
(* theirs, and the queue keeps the order.                                     *)
RestartAfterReopen ==
  \A i \in DOMAIN queue : queue[i].type = "ssr" =>
    notifying \/ \E j \in DOMAIN queue : i < j /\ queue[j].type = "restart"

(* The engine runs no fix without a session, in every state: the erasing of   *)
(* the last session goes with the stopping of the engine, and what is started *)
(* between a modem restart and the restart of the sessions is stopped too.    *)
NoIdleFix == Active = {} => engine = Off

(* The engine runs at the interval of the fastest session, and is off exactly *)
(* when there is no session: what the multiplexing of start, update and stop  *)
(* is for, whatever calls failed on the way.  It need not while the modem is  *)
(* down or its restart is not dealt with, nor after a restart that the modem  *)
(* refused, until the next call that it takes.                                *)
EngineServesFastest ==
  (modem = "open" /\ ~RestartPending /\ ~unrestored) => Serves

(* A session outlives its client only when the engine refused to stop it:     *)
(* removeClientCommand stops the rest, and messages of the client that were   *)
(* queued behind its removal start nothing.                                   *)
OrphanOnlyAfterFailedStop ==
  \A k \in Active : clients[k[1]] # "none" \/ k \in removing \/ k \in unstopped

(* Once the modem stops restarting, the engine serves the sessions for good:  *)
(* the restart message repairs every session that was lost or started in      *)
(* between.  Only a restart that the modem refuses, which nothing repeats,    *)
(* leaves the engine behind, until a client's call reaches the modem.         *)
EngineRecovers == <>[](Serves \/ unrestored)
=============================================================================
