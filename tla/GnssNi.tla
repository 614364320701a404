------------------------------- MODULE GnssNi -------------------------------
(***************************************************************************)
(* Network initiated requests in GnssAdapter (src/gps/gnss/GnssAdapter.cpp)*)
(*                                                                         *)
(* The modem asks whether a position may be given out; the adapter shows   *)
(* the request to a client and starts a thread that waits for the user's   *)
(* response or for a timeout and then sends the answer back.  There is one *)
(* NiSession for SUPL and one for emergency SUPL.  The MsgTask thread and  *)
(* the waiting threads share the sessions: some of the fields are guarded  *)
(* by tLock, but rawRequest and reqID are also read and written outside it *)
(***************************************************************************)
EXTENDS Naturals, Sequences

CONSTANTS MaxReq,       \* bound: requests accepted
          QueueBound    \* bound: messages of the modem and the user waiting

Kinds == {"session", "sessionEs"}
Ids == 1..MaxReq
UserResponses == {"ACCEPT", "DENY"}

ASSUME NiAssumption == MaxReq \in Nat /\ QueueBound \in Nat

VARIABLES
  rawRequest, \* per session: the id under which its payload was accepted, 0 = NULL
  reqID,      \* per session: the id a response must carry, 0 = none
  respRecvd, resp,
  counter,    \* NiData::reqIDCounter
  thread,     \* per id: the thread niThreadProc that waits for its answer
  handling,   \* where MsgGnssNiResponse::proc is: the locks it has still to take
  listening,  \* some client has a gnssNiCb
  queue,      \* the messages MsgTask has not yet processed
  given,      \* per id: the responses the user gave under it
  settled     \* per id: how often its payload was answered or freed

vars == <<rawRequest, reqID, respRecvd, resp, counter, thread, handling, listening,
          queue, given, settled>>

sessionVars == <<rawRequest, reqID, respRecvd, resp>>

NoThread == [pc |-> "none", kind |-> "session", out |-> 0, resp |-> "NO_RESPONSE"]
Idle == [stage |-> "idle", kind |-> "session", resp |-> "NO_RESPONSE"]

-----------------------------------------------------------------------------
(* The modem and the user post messages. *)

\* requestNiNotifyEvent
requestNiNotifyEvent(kind) ==
  /\ Len(queue) < QueueBound /\ counter < MaxReq
  /\ queue' = Append(queue, [type |-> "notify", kind |-> kind])
  /\ UNCHANGED <<sessionVars, counter, thread, handling, listening, given, settled>>

\* gnssNiResponseCommand of a client, for a request it was shown
gnssNiResponseCommand(id, r) ==
  /\ Len(queue) < QueueBound /\ id <= counter
  /\ queue' = Append(queue, [type |-> "response", id |-> id, resp |-> r])
  /\ given' = [given EXCEPT ![id] = @ \union {r}]
  /\ UNCHANGED <<sessionVars, counter, thread, handling, listening, settled>>

-----------------------------------------------------------------------------
(* The MsgTask thread. *)

Receive(type) == /\ handling.stage = "idle"
                 /\ queue # <<>> /\ Head(queue).type = type
                 /\ queue' = Tail(queue)

\* saveClient and eraseClient change whether a client with a gnssNiCb is there
SetListening ==
  /\ handling.stage = "idle"
  /\ listening' = ~listening
  /\ UNCHANGED <<sessionVars, counter, thread, handling, queue, given, settled>>

\* requestNiNotify: is there a session for the request
Free_Always(kind) == TRUE   \* mutant: the pending request is not looked at
Free(kind) ==
  IF kind = "sessionEs" THEN rawRequest["sessionEs"] = 0
  ELSE rawRequest["session"] = 0 /\ rawRequest["sessionEs"] = 0

(* MsgReportNiNotify: requestNiNotify.  A request that is not taken is freed *)
(* (or, without a client that listens, dropped).                             *)
ProcNotify ==
  /\ Receive("notify")
  /\ LET kind == Head(queue).kind
         id == counter + 1
     IN IF listening /\ Free(kind) /\ counter < MaxReq
        THEN /\ rawRequest' = [rawRequest EXCEPT ![kind] = id]
             /\ reqID' = [reqID EXCEPT ![kind] = id]
             /\ counter' = id
             /\ thread' = [thread EXCEPT ![id] = [NoThread EXCEPT !.pc = "start",
                                                                  !.kind = kind]]
        ELSE UNCHANGED <<rawRequest, reqID, counter, thread>>
  /\ UNCHANGED <<respRecvd, resp, handling, listening, given, settled>>

(* MsgGnssNiResponse of a client: which session the response is for is read  *)
(* without the lock, the response is stored under it in a later step.        *)
ProcResponse ==
  /\ Receive("response")
  /\ LET m == Head(queue)
         for(kind) == m.id = reqID[kind] /\ rawRequest[kind] # 0
     IN handling' =
          IF ~listening THEN Idle
          ELSE IF for("sessionEs")
          THEN [stage |-> IF m.resp = "ACCEPT" /\ rawRequest["session"] # 0
                          THEN "ignore" ELSE "set",
                kind |-> "sessionEs", resp |-> m.resp]
          ELSE IF for("session")
          THEN [stage |-> "set", kind |-> "session", resp |-> m.resp]
          ELSE Idle
  /\ UNCHANGED <<sessionVars, counter, thread, listening, given, settled>>

\* an accepted emergency request makes the pending one ignored
IgnoreNormal ==
  /\ handling.stage = "ignore"
  /\ resp' = [resp EXCEPT !["session"] = "IGNORE"]
  /\ respRecvd' = [respRecvd EXCEPT !["session"] = TRUE]
  /\ handling' = [handling EXCEPT !.stage = "set"]
  /\ UNCHANGED <<rawRequest, reqID, counter, thread, listening, queue,
                 given, settled>>

SetResponse ==
  /\ handling.stage = "set"
  /\ resp' = [resp EXCEPT ![handling.kind] = handling.resp]
  /\ respRecvd' = [respRecvd EXCEPT ![handling.kind] = TRUE]
  /\ handling' = Idle
  /\ UNCHANGED <<rawRequest, reqID, counter, thread, listening, queue, given, settled>>

\* MsgGnssNiResponse of a thread: informNiResponse, and the payload is freed
ProcInform ==
  /\ Receive("inform")
  /\ settled' = [settled EXCEPT ![Head(queue).id] = @ + 1]
  /\ UNCHANGED <<sessionVars, counter, thread, handling, listening, given>>

-----------------------------------------------------------------------------
(* niThreadProc of the request with this id. *)

\* what the thread leaves in rawRequest once it has taken the payload
AfterTaking_Kept(kind) == rawRequest[kind]   \* mutant: not reset
AfterTaking(kind) == 0

(* The end of the wait, still under tLock: the flag is reset, and the payload *)
(* is taken to be sent, or freed when it is to be ignored.                    *)
Finish(id, r) ==
  LET kind == thread[id].kind
      payload == rawRequest[kind]
      send == payload # 0 /\ r # "IGNORE"
  IN /\ respRecvd' = [respRecvd EXCEPT ![kind] = FALSE]
     /\ resp' = [resp EXCEPT ![kind] = r]
     /\ rawRequest' = [rawRequest EXCEPT ![kind] = AfterTaking(kind)]
     /\ settled' = IF payload # 0 /\ ~send
                   THEN [settled EXCEPT ![payload] = @ + 1] ELSE settled
     /\ thread' = [thread EXCEPT ![id].pc = "clear",
                                 ![id].out = IF send THEN payload ELSE 0,
                                 ![id].resp = r]

\* the thread takes tLock and looks at respRecvd before it waits
ThreadStart(id) ==
  /\ thread[id].pc = "start"
  /\ IF respRecvd[thread[id].kind]
     THEN Finish(id, resp[thread[id].kind])
     ELSE /\ thread' = [thread EXCEPT ![id].pc = "wait"]
          /\ UNCHANGED <<rawRequest, respRecvd, resp, settled>>
  /\ UNCHANGED <<reqID, counter, handling, listening, queue, given>>

\* pthread_cond_signal
ThreadWake(id) ==
  /\ thread[id].pc = "wait"
  /\ respRecvd[thread[id].kind]
  /\ Finish(id, resp[thread[id].kind])
  /\ UNCHANGED <<reqID, counter, handling, listening, queue, given>>

\* what a thread answers when nobody responded in time
TimeoutResponse == "NO_RESPONSE"

\* ETIMEDOUT, also when a response arrived while the thread waits for tLock
ThreadTimeout(id) ==
  /\ thread[id].pc = "wait"
  /\ Finish(id, TimeoutResponse)
  /\ UNCHANGED <<reqID, counter, handling, listening, queue, given>>

\* after tLock is released: reqID is cleared, whoever owns the session by now
ThreadClear(id) ==
  /\ thread[id].pc = "clear"
  /\ reqID' = [reqID EXCEPT ![thread[id].kind] = 0]
  /\ thread' = [thread EXCEPT ![id].pc = IF @ = "clear" /\ thread[id].out # 0
                                         THEN "send" ELSE "done"]
  /\ UNCHANGED <<rawRequest, respRecvd, resp, counter, handling, listening,
                 queue, given, settled>>

\* gnssNiResponseCommand of the adapter
ThreadSend(id) ==
  /\ thread[id].pc = "send"
  /\ queue' = Append(queue, [type |-> "inform", id |-> thread[id].out])
  /\ thread' = [thread EXCEPT ![id].pc = "done"]
  /\ UNCHANGED <<sessionVars, counter, handling, listening, given, settled>>

-----------------------------------------------------------------------------
Init ==
  /\ rawRequest = [k \in Kinds |-> 0] /\ reqID = [k \in Kinds |-> 0]
  /\ respRecvd = [k \in Kinds |-> FALSE]
  /\ resp = [k \in Kinds |-> "NO_RESPONSE"]
  /\ counter = 0 /\ thread = [i \in Ids |-> NoThread]
  /\ handling = Idle /\ listening = TRUE /\ queue = <<>>
  /\ given = [i \in Ids |-> {}]
  /\ settled = [i \in Ids |-> 0]

Environment ==
  \/ \E k \in Kinds : requestNiNotifyEvent(k)
  \/ \E i \in Ids, r \in UserResponses : gnssNiResponseCommand(i, r)
  \/ SetListening

MsgTaskStep ==
  ProcNotify \/ ProcResponse \/ IgnoreNormal \/ SetResponse \/ ProcInform

ThreadStep(id) ==
  \/ ThreadStart(id) \/ ThreadWake(id) \/ ThreadTimeout(id)
  \/ ThreadClear(id) \/ ThreadSend(id)

Next == Environment \/ MsgTaskStep \/ \E i \in Ids : ThreadStep(i)

Spec == Init /\ [][Next]_vars

(* The MsgTask thread and every NI thread run; a timed wait ends.             *)
FairSpec == Spec /\ WF_vars(MsgTaskStep) /\ \A i \in Ids : WF_vars(ThreadStep(i))

-----------------------------------------------------------------------------
Responses == UserResponses \union {"NO_RESPONSE", "IGNORE"}
Messages == [type : {"notify"}, kind : Kinds]
            \union [type : {"response"}, id : Ids, resp : UserResponses]
            \union [type : {"inform"}, id : Ids]

TypeOK ==
  /\ rawRequest \in [Kinds -> 0..MaxReq] /\ reqID \in [Kinds -> 0..MaxReq]
  /\ respRecvd \in [Kinds -> BOOLEAN] /\ resp \in [Kinds -> Responses]
  /\ counter \in 0..MaxReq
  /\ thread \in [Ids -> [pc : {"none", "start", "wait", "clear", "send", "done"},
                         kind : Kinds, out : 0..MaxReq, resp : Responses]]
  /\ handling \in [stage : {"idle", "ignore", "set"}, kind : Kinds,
                   resp : Responses]
  /\ listening \in BOOLEAN
  /\ queue \in Seq(Messages)
  /\ given \in [Ids -> SUBSET UserResponses]
  /\ settled \in [Ids -> Nat]

(* A request is answered or freed at most once, although the thread that      *)
(* takes the payload, the next request and the user's response all touch the  *)
(* session without agreeing on a lock.                                        *)
SettledOnce ==
  \A i \in Ids :
    /\ settled[i] <= 1
    /\ (\E k \in Kinds : rawRequest[k] = i) => settled[i] = 0

(* At most one thread waits on a session, and it waits for the payload the    *)
(* session holds: a second waiter would take the answer to another request.   *)
OneWaiter ==
  \A i \in Ids : thread[i].pc \in {"start", "wait"} =>
    /\ rawRequest[thread[i].kind] = i
    /\ \A j \in Ids : (j # i /\ thread[j].kind = thread[i].kind)
                        => thread[j].pc \notin {"start", "wait"}

(* Every request shown to the user is answered or freed in the end, so that   *)
(* the session is free for the next one.                                      *)
EventuallySettled == \A i \in Ids : (counter = i) ~> (settled[i] = 1)

(* "Reset the user response flag for the next session" (GnssAdapter.cpp:2251):*)
(* what is answered to a request is what the user said to that request, or    *)
(* that there was no response, or that an emergency request overrode it.       *)
AnswerIsOwn ==
  \A i \in Ids : thread[i].out # 0 =>
    thread[i].resp \in given[thread[i].out] \union {"NO_RESPONSE", "IGNORE"}
=============================================================================
