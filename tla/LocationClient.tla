--------------------------- MODULE LocationClient ---------------------------
(***************************************************************************)
(* LocationAPIClientBase: the base class of the HAL's clients.  It remembers *)
(* each request in a queue, and gives the answer an interface reports for a  *)
(* session to the request at the head of the queue that serves the session:  *)
(* the queue of the one tracking session, of the network initiated request,  *)
(* or of the sessions in the dictionary of ids (batching).                   *)
(***************************************************************************)
EXTENDS LocationApi

VARIABLES
  tracking,  \* mTracking
  queues,    \* mRequestQueues: the requests, and the session they are about
  dict,      \* mSessionBiDict: its forward, backward and extension maps
  answer,    \* per interface: the request whose onResponse is about to run
  refused,   \* history: tracking sessions whose stop was refused
  cut,       \* history: interfaces the callbacks called for before, and do no more
  astray     \* history: a call whose answer need not find its request

clientVars == <<tracking, queues, dict, answer, refused, cut, astray>>

-----------------------------------------------------------------------------
(* BiDict.  "mForwardMap[id]" makes an entry of 0 where there is none. *)
EmptyDict == [fwd |-> <<>>, back |-> <<>>, ext |-> <<>>]
HasId(d, id) == id \in DOMAIN d.fwd
HasSession(d, s) == s \in DOMAIN d.back
DictSet(d, id, s, ext) ==
  [fwd |-> With(d.fwd, id, s), back |-> With(d.back, s, id), ext |-> With(d.ext, s, ext)]
ForwardOf(d, id) == IF HasId(d, id) THEN d.fwd[id] ELSE 0
BackwardOf(d, s) == IF HasSession(d, s) THEN d.back[s] ELSE 0
RmById(d, id) ==
  LET s == ForwardOf(d, id)
  IN [fwd |-> Without(d.fwd, id), back |-> Without(d.back, s), ext |-> Without(d.ext, s)]
RmBySession_KeepId(d, s) ==   \* mutant: the forward entry stays
  [d EXCEPT !.back = Without(@, s), !.ext = Without(@, s)]
RmBySession(d, s) ==
  [fwd |-> Without(d.fwd, BackwardOf(d, s)), back |-> Without(d.back, s),
   ext |-> Without(d.ext, s)]
\* getExtById: all zero for session 0, which reads as SESSION_MODE_NONE
Entity(mode, t, b) == [mode |-> mode, t |-> t, b |-> b]
ExtById(d, id) ==
  IF d.fwd[id] > 0 /\ d.fwd[id] \in DOMAIN d.ext THEN d.ext[d.fwd[id]] ELSE Entity("none", 0, 0)

\* RequestQueue
Pushed(q, r) == [queues EXCEPT ![q].reqs = Append(@, r)]
ResetTo_Keep(q, s, r) == [queues EXCEPT ![q] = [s |-> s, reqs |-> Append(@.reqs, r)]]   \* mutant
ResetTo(q, s, r) == [queues EXCEPT ![q] = [s |-> s, reqs |-> <<r>>]]

\* is an answer for this session still to come
UnderWay(s) ==
  \/ \E i \in Interfaces : \E k \in DOMAIN work[i] : work[i][k].s = s /\ work[i][k].req # NoClient
  \/ \E i \in Interfaces : answer[i] # NoClient /\ answer[i].s = s

Call == cbs # NoClient /\ calls < setup.calls /\ calls' = calls + 1
CallFrame == UNCHANGED <<setup, loaded, cbs, known, live, answer, refused, cut>>

-----------------------------------------------------------------------------
(* The tracking session: Gnss::start, stop, setPositionMode and the          *)
(* measurement client.                                                       *)
locAPIStartTracking(far) ==
  /\ Call
  /\ IF tracking THEN UNCHANGED <<tracking, queues, lastId, work>>
     ELSE LET i == Tracker(far) s == NewSession(i) IN
            /\ Start(i, "fix", "start")
            /\ queues' = ResetTo("tracking", s, Req("start", s))
            /\ tracking' = TRUE
  /\ astray' = (astray \/ (~tracking /\ (lastId' = queues["ni"].s \/ UnderWay(lastId'))))
  /\ UNCHANGED <<dict>> /\ CallFrame

locAPIStopTracking ==
  /\ Call
  /\ LET s == queues["tracking"].s IN
       IF s > 0
       THEN /\ queues' = Pushed("tracking", Req("stop", s))
            /\ stopTracking(s, Req("stop", s))
            /\ tracking' = FALSE
       ELSE UNCHANGED <<queues, work, tracking>>
  /\ UNCHANGED <<lastId, dict, astray>> /\ CallFrame

locAPIUpdateTrackingOptions ==
  /\ Call
  /\ LET s == queues["tracking"].s IN
       IF s > 0
       THEN /\ queues' = Pushed("tracking", Req("update", s))
            /\ updateTrackingOptions(s, Req("update", s))
       ELSE UNCHANGED <<queues, work>>
  /\ UNCHANGED <<lastId, tracking, dict, astray>> /\ CallFrame

locAPIGnssNiResponse(id) ==
  /\ Call /\ gnssNiResponse(id) /\ queues' = ResetTo("ni", id, Req("ni", id))
  /\ astray' = (astray \/ id \in 2..lastId)
  /\ UNCHANGED <<lastId, tracking, dict>> /\ CallFrame

-----------------------------------------------------------------------------
(* The sessions of the dictionary: the batching client. *)
OnFix(mode) == mode = "fix"
Starter(mode) == IF OnFix(mode) THEN Tracker(FALSE) ELSE Batcher
Running(e) == IF OnFix(e.mode) THEN e.t ELSE e.b
EntityOf(mode, s) == IF OnFix(mode) THEN Entity(mode, s, 0) ELSE Entity(mode, 0, s)

MayStray(s) == astray' = (astray \/ s = 0 \/ UnderWay(s))

locAPIStartSession(id, mode) ==
  /\ Call
  /\ IF HasId(dict, id) THEN UNCHANGED <<queues, dict, lastId, work, astray>>
     ELSE LET s == NewSession(Starter(mode)) IN
            /\ Start(Starter(mode), mode, "start")
            /\ queues' = Pushed("session", Req("start", s))
            /\ dict' = DictSet(dict, id, s, EntityOf(mode, s))
            /\ MayStray(s)
  /\ UNCHANGED <<tracking>> /\ CallFrame

StopCall(e) ==
  LET s == Running(e) IN
    /\ queues' = Pushed("session", Req("stop", s))
    /\ IF OnFix(e.mode) THEN stopTracking(s, Req("stop", s))
       ELSE stopBatching(s, e.mode, Req("stop", s))
locAPIStopSession(id) ==
  /\ Call
  /\ IF ~HasId(dict, id) THEN UNCHANGED <<queues, work, astray>>
     ELSE LET e == ExtById(dict, id) IN StopCall(e) /\ MayStray(Running(e))
  /\ UNCHANGED <<tracking, lastId, dict>> /\ CallFrame

(* A change between batching and tracking stops one session and starts       *)
(* another with a single request; the dictionary knows the new one at once.  *)
ChangeCall(e, mode) ==
  LET i == Starter(mode) s == NewSession(i)
      to == IF OnFix(e.mode) THEN Trackers ELSE {b \in {"flp"} : Loaded(b)}
      stopped == PostAll(to, Msg("stop", Running(e), e.mode, NoClient))
  IN /\ queues' = Pushed("session", Req("update", s))
     /\ lastId' = lastId + (IF i = NoClient THEN 0 ELSE 1)
     /\ work' = IF i = NoClient THEN stopped
                ELSE [stopped EXCEPT ![i] = Append(@, Msg("start", s, mode, Req("update", s)))]
Changed(d, id, mode) ==
  LET s == NewSession(Starter(mode)) IN DictSet(RmById(d, id), id, s, EntityOf(mode, s))
Change(id, e, mode) ==
  /\ ChangeCall(e, mode) /\ dict' = Changed(dict, id, mode)
  /\ astray' = (astray \/ NewSession(Starter(mode)) = 0 \/ Running(e) = 0
                       \/ UnderWay(Running(e)))

UpdateCall(e, mode) ==
  LET s == IF OnFix(mode) THEN e.t ELSE e.b IN
    /\ queues' = Pushed("session", Req("update", s))
    /\ IF OnFix(mode) THEN updateTrackingOptions(s, Req("update", s))
       ELSE updateBatchingOptions(s, mode, Req("update", s))
    /\ lastId' = lastId
Updated(d, id, e, mode) ==
  DictSet(RmById(d, id), id, IF OnFix(mode) THEN e.t ELSE e.b, [e EXCEPT !.mode = mode])
Update(id, e, mode) ==
  /\ UpdateCall(e, mode) /\ dict' = Updated(dict, id, e, mode)
  /\ MayStray(IF OnFix(mode) THEN e.t ELSE e.b)

locAPIUpdateSessionOptions(id, mode) ==
  /\ Call
  /\ IF ~HasId(dict, id) THEN UNCHANGED <<queues, dict, lastId, work, astray>>
     ELSE LET e == ExtById(dict, id) IN
            IF OnFix(e.mode) = OnFix(mode) THEN Update(id, e, mode) ELSE Change(id, e, mode)
  /\ UNCHANGED <<tracking>> /\ CallFrame

GetCall(e) ==
  /\ queues' = Pushed("session", Req("get", e.b))
  /\ getBatchedLocations(e.b, Req("get", e.b))
locAPIGetBatchedLocations(id) ==
  /\ Call
  /\ IF ~HasId(dict, id) THEN UNCHANGED <<queues, work, astray>>
     ELSE LET e == ExtById(dict, id) IN GetCall(e) /\ MayStray(e.b)
  /\ UNCHANGED <<tracking, lastId, dict>> /\ CallFrame

-----------------------------------------------------------------------------
(* The answers.  getRequestBySession takes the head of the first queue about *)
(* this session, and of the queue of sessions when that gives nothing and    *)
(* the dictionary knows the session.                                         *)
Holder(s) == IF queues["tracking"].s = s THEN "tracking"
             ELSE IF queues["ni"].s = s THEN "ni" ELSE NoClient
Holds(q) == queues[q].reqs # <<>>
SourceOf(s) == IF Holder(s) # NoClient /\ Holds(Holder(s)) THEN Holder(s)
               ELSE IF HasSession(dict, s) /\ Holds("session") THEN "session" ELSE NoClient

\* onResponseCb: the request is taken under the lock, and runs after it
TakeRequest(i, m, r) ==
  LET q == SourceOf(m.s) IN
    IF r.told /\ cbs # NoClient /\ q # NoClient
    THEN /\ answer' = [answer EXCEPT ![i] = [req |-> Head(queues[q].reqs), call |-> m.req,
                                             s |-> m.s, ok |-> r.ok]]
         /\ queues' = [queues EXCEPT ![q].reqs = Tail(@)]
    ELSE UNCHANGED <<answer, queues>>

(* A change of mode is in the dictionary before the interface has agreed, and *)
(* no request takes it back when the interface refuses: a start or a stop     *)
(* that a change between batching and tracking sent, an update of the mode.   *)
AssumedBefore(i, m) ==
  \/ m.op = "stop" /\ m.req = NoClient
  \/ m.op = "start" /\ m.req.op = "update"
  \/ m.op = "update" /\ m.s \in DOMAIN live[i] /\ live[i][m.s] # m.mode

Answer(i) ==
  /\ answer[i] = NoClient /\ work[i] # <<>>
  /\ LET m == Head(work[i]) IN
       \E r \in Results(i, m) :
         /\ Serve(i, r) /\ TakeRequest(i, m, r)
         /\ refused' = refused \union {s \in {m.s} : m.op = "stop" /\ ~r.ok}
         /\ astray' = (astray \/ (~r.ok /\ AssumedBefore(i, m)))
  /\ UNCHANGED <<tracking, dict, cut>>

(* onResponse: a start that failed and a stop that worked take the session   *)
(* out of the dictionary, by the id of the answer.                           *)
Removes(a) == (a.req.op = "start" /\ ~a.ok) \/ (a.req.op = "stop" /\ a.ok)
onResponse(i) ==
  /\ answer[i] # NoClient
  /\ dict' = IF Removes(answer[i]) /\ HasSession(dict, answer[i].s)
             THEN RmBySession(dict, answer[i].s) ELSE dict
  /\ answer' = [answer EXCEPT ![i] = NoClient]
  /\ UNCHANGED <<apiVars, tracking, queues, refused, cut, astray>>

(* beforeBatchingStatusCb: a trip is over, and its session with it.          *)
TripOver(s) ==
  /\ answer["flp"] = NoClient
  /\ s \in DOMAIN live["flp"] /\ live["flp"][s] = "trip"
  /\ live' = [live EXCEPT !["flp"] = Without(@, s)]
TripCompleted(s) ==
  /\ TripOver(s) /\ cbs # NoClient
  /\ dict' = IF HasSession(dict, s) /\ dict.ext[s].mode = "trip" THEN RmBySession(dict, s) ELSE dict
  /\ MayStray(s)
  /\ UNCHANGED <<setup, loaded, cbs, known, lastId, work, calls, tracking, queues, answer,
                 refused, cut>>

(* The calls hold mMutex, but neither the end of a trip nor an answer does    *)
(* when it takes its session out of the dictionary, so it can do so at any    *)
(* point of a call about that session: before the entry is read, where the    *)
(* call finds nothing and leaves an id with session 0; before the entry is    *)
(* replaced; or after, when what made it do so was seen before.               *)
SessionEnds(s) ==
  \/ TripOver(s) /\ dict.ext[s].mode = "trip" /\ answer' = answer
  \/ \E i \in Interfaces :
       /\ answer[i] # NoClient /\ answer[i].s = s /\ Removes(answer[i])
       /\ answer' = [answer EXCEPT ![i] = NoClient] /\ live' = live
CallOvertaken(id, e, early, gone) ==
  \/ (StopCall(e) \/ GetCall(e)) /\ lastId' = lastId /\ dict' = gone
  \/ \E mode \in setup.modes :
       LET Entered(d) == IF OnFix(e.mode) = OnFix(mode) THEN Updated(d, id, e, mode)
                         ELSE Changed(d, id, mode)
       IN /\ IF OnFix(e.mode) = OnFix(mode) THEN UpdateCall(e, mode) ELSE ChangeCall(e, mode)
          /\ dict' \in {Entered(gone)}
               \union (IF early THEN {}
                       ELSE {Entered(dict), RmBySession(Entered(dict), dict.fwd[id])})
Overtaken(id) ==
  /\ Call /\ HasId(dict, id) /\ HasSession(dict, dict.fwd[id]) /\ SessionEnds(dict.fwd[id])
  /\ LET gone == RmBySession(dict, dict.fwd[id])
         blank == [gone EXCEPT !.fwd = With(@, id, 0)]
     IN \/ CallOvertaken(id, ExtById(dict, id), FALSE, gone)
        \/ CallOvertaken(id, ExtById(blank, id), TRUE, blank)
  /\ astray' = TRUE
  /\ UNCHANGED <<setup, loaded, cbs, known, tracking, refused, cut>>

\* locAPISetCallbacks and the destructor
locAPISetCallbacks(c) ==
  /\ calls < setup.calls /\ calls' = calls + 1
  /\ createInstance(c) \/ updateCallbacks(c)
  /\ cut' = IF cbs = NoClient THEN cut ELSE (cut \union Wanted(cbs)) \ Wanted(c)
  /\ UNCHANGED <<tracking, queues, dict, answer, refused, astray>>
DestroyClient ==
  /\ setup.destroy /\ Destroy /\ calls' = setup.calls
  /\ queues' = [q \in DOMAIN queues |-> [s |-> 0, reqs |-> <<>>]]
  /\ UNCHANGED <<tracking, dict, answer, refused, cut, astray>>

ClientInit ==
  /\ ApiInit
  /\ tracking = FALSE /\ dict = EmptyDict
  /\ queues = [q \in {"tracking", "session", "ni"} |-> [s |-> 0, reqs |-> <<>>]]
  /\ answer = [i \in Interfaces |-> NoClient]
  /\ refused = {} /\ cut = {} /\ astray = FALSE

TrackingCall ==
  \/ \E far \in BOOLEAN : locAPIStartTracking(far)
  \/ locAPIStopTracking \/ locAPIUpdateTrackingOptions
  \/ \E id \in setup.ni : locAPIGnssNiResponse(id)
SessionCall ==
  \E id \in setup.ids :
    \/ \E mode \in setup.modes : locAPIStartSession(id, mode) \/ locAPIUpdateSessionOptions(id, mode)
    \/ locAPIStopSession(id) \/ locAPIGetBatchedLocations(id)

ClientNext ==
  \/ \E c \in setup.cbs : locAPISetCallbacks(c)
  \/ setup.kind = "tracking" /\ TrackingCall
  \/ setup.kind = "session" /\ (SessionCall \/ \E id \in setup.ids : Overtaken(id))
  \/ DestroyClient
  \/ \E i \in Interfaces : Answer(i) \/ onResponse(i)
  \/ \E s \in 2..lastId : TripCompleted(s)

-----------------------------------------------------------------------------
Quiet == \A i \in Interfaces : work[i] = <<>> /\ answer[i] = NoClient

(* "try to find it from mSessionBiDict" (LocationAPIClientBase.cpp:904): an   *)
(* answer reaches the request it is for, however the interfaces' answers and  *)
(* the client's calls interleave, as long as a session of the dictionary has  *)
(* one request under way and does not end in the middle of one of its calls,  *)
(* the modes it changes between are served and the changes accepted, and no   *)
(* notification has a tracking session's id.                                  *)
AnswersOwn ==
  ~astray => \A i \in Interfaces : answer[i] # NoClient => answer[i].req = answer[i].call

(* "stopTracking call to the incorrect interface will fail without response   *)
(* back to client" (LocationAPI.cpp:337): when the client is not tracking,    *)
(* whatever tracks for it or is going to has been told to stop.               *)
StopAhead(i, s, k) == \E l \in DOMAIN work[i] : l > k /\ work[i][l].op = "stop" /\ work[i][l].s = s
TrackingStops ==
  (setup.kind = "tracking" /\ cbs # NoClient /\ ~tracking) =>
    \A i \in Interfaces :
      /\ \A s \in DOMAIN live[i] : s \in refused \/ StopAhead(i, s, 0)
      /\ \A k \in DOMAIN work[i] : work[i][k].op = "start" => StopAhead(i, work[i][k].s, k)

(* The dictionary (LocationAPIClientBase.h:212) is one to one, and once all   *)
(* answers are in it names the sessions that run: none runs that its client   *)
(* could not stop, none is named that is gone.                                *)
SessionsAgree ==
  (setup.kind = "session" /\ cbs # NoClient /\ ~astray) =>
    /\ \A id \in DOMAIN dict.fwd : BackwardOf(dict, dict.fwd[id]) = id
    /\ Quiet =>
         {dict.fwd[id] : id \in DOMAIN dict.fwd}
           = UNION {DOMAIN live[i] : i \in Interfaces}

(* LocationAPI::~LocationAPI: however the callbacks changed before, after the *)
(* destruction no interface knows the client or runs a session of its, but    *)
(* the ones its last callbacks did not call for any more.                     *)
ClientLeaves ==
  (cbs = NoClient /\ Quiet) =>
    \A i \in Interfaces \ cut : known[i] = NoClient /\ live[i] = <<>>
=============================================================================
