----------------------------- MODULE LocationApi -----------------------------
(***************************************************************************)
(* LocationAPI (src/gps/location/LocationAPI.cpp): one client of the       *)
(* location interfaces.  The library of an interface is loaded for the     *)
(* first client that needs it, calls are handed to the interfaces under    *)
(* one lock, and each interface serves its calls in order on a thread of   *)
(* its own.  gnss is GnssAdapter; flp (batching, distance tracking) is not *)
(* part of the repository and answers as GnssAdapter does.                 *)
(***************************************************************************)
EXTENDS Naturals, Sequences, FiniteSets, TLC

CONSTANTS ApiSetups,   \* which client, with which callbacks and libraries
          NoClient     \* no client, no request, no callback

Interfaces == {"gnss", "flp"}

ASSUME NoClientAssumption ==
  NoClient \notin Interfaces \union {"tracking", "session", "ni", "aiding", "control", "config"}
\* what the client's queues hold, and what NoClient is told from
Requests == [op : {"start", "stop", "update", "get", "ni"}, s : Nat]
ASSUME RequestsAssumption ==
  /\ NoClient \notin Requests
  /\ NoClient \notin [req : Requests, call : Requests, s : Nat, ok : BOOLEAN]
ASSUME SetupsAssumption ==
  \A st \in ApiSetups : st.calls \in Nat /\ IsFiniteSet(st.cbs) /\ NoClient \notin st.cbs
                         /\ NoClient \notin st.ids
                         /\ st.ni \subseteq Nat \ {0}
\* BatchingAPIClient's callbacks: the one of its sessions, and none of gnss's own
ASSUME SessionsAssumption ==
  \A st \in ApiSetups : st.kind = "session" =>
    \A c \in st.cbs : "batching" \in c /\ c \intersect {"info", "sv", "nmea", "meas"} = {}

VARIABLES
  setup,    \* the setup of this behaviour
  loaded,   \* gData.gnssInterface, gData.flpInterface and g*LoadFailed
  cbs,      \* the client's entry of gData.clientData: the kinds of callbacks it set
  known,    \* what each interface's addClient was told last
  lastId,   \* LocAdapterBase::mSessionIdCounter
  work,     \* the calls each interface has not served yet
  live,     \* the sessions each interface runs, with their mode
  calls     \* bound: calls of the client

apiVars == <<setup, loaded, cbs, known, lastId, work, live, calls>>

IsGnssClient(c) == c \intersect {"ni", "tracking", "meas"} # {}
IsFlpClient(c)  == c \intersect {"tracking", "batching"} # {}
NeedsGnssTrackingInfo(c) == c \intersect {"info", "sv", "nmea", "meas"} # {}

Wanted(c) == {i \in Interfaces : IF i = "gnss" THEN IsGnssClient(c) ELSE IsFlpClient(c)}
Loaded(i) == loaded[i] = "yes"

\* a request of the client, as its queues hold it
Req(op, s) == [op |-> op, s |-> s]
\* a call to an interface; req is the request its answer is for
Msg(op, s, mode, req) == [op |-> op, s |-> s, mode |-> mode, req |-> req]

Post(i, m) == [work EXCEPT ![i] = Append(@, m)]
PostAll(is, m) == [i \in Interfaces |-> IF i \in is THEN Append(work[i], m) ELSE work[i]]

-----------------------------------------------------------------------------
(* createInstance and updateCallbacks: every interface the callbacks call    *)
(* for is loaded unless that failed before, and told of the client.          *)
Load(c) ==
  [i \in Interfaces |->
     IF i \notin Wanted(c) \/ loaded[i] # "no" THEN loaded[i]
     ELSE IF i \in setup.installed THEN "yes" ELSE "failed"]

AddClient(c) ==
  /\ loaded' = Load(c) /\ cbs' = c
  /\ work' = PostAll({i \in Wanted(c) : loaded'[i] = "yes"}, Msg("add", 0, c, NoClient))
  /\ UNCHANGED <<setup, known, lastId, live>>
createInstance(c)  == cbs = NoClient /\ AddClient(c)
updateCallbacks(c) == cbs # NoClient /\ cbs # c /\ AddClient(c)

(* The destructor takes the client from the interfaces its last callbacks    *)
(* called for, and from no other.                                            *)
RemoveFrom_Loaded == {i \in Interfaces : Loaded(i) /\ i = "gnss"}   \* mutant: flp forgotten
RemoveFrom == {i \in Wanted(cbs) : Loaded(i)}

Destroy ==
  /\ cbs # NoClient /\ cbs' = NoClient
  /\ work' = PostAll(RemoveFrom, Msg("remove", 0, NoClient, NoClient))
  /\ UNCHANGED <<setup, loaded, known, lastId, live>>

(* startTracking: who tracks for this client.  far: minDistance > 0. *)
Tracker(far) ==
  IF Loaded("flp") /\ far THEN "flp"
  ELSE IF Loaded("gnss") /\ NeedsGnssTrackingInfo(cbs) THEN "gnss"
  ELSE IF Loaded("flp") THEN "flp"
  ELSE IF Loaded("gnss") THEN "gnss" ELSE NoClient

\* startBatching: only flp batches
Batcher == IF Loaded("flp") THEN "flp" ELSE NoClient

\* the id of a session i is asked to start: 0 when there is nobody to ask
NewSession(i) == IF i = NoClient THEN 0 ELSE lastId + 1
Start(i, mode, op) ==
  /\ lastId' = lastId + (IF i = NoClient THEN 0 ELSE 1)
  /\ work' = IF i = NoClient THEN work
             ELSE Post(i, Msg("start", lastId', mode, Req(op, lastId')))

(* stopTracking and updateTrackingOptions: "we don't know if tracking was    *)
(* started on flp or gnss, so we call stop on both".                         *)
Trackers_FlpFirst == IF Loaded("flp") THEN {"flp"} ELSE {"gnss"}   \* mutant
Trackers == {i \in Interfaces : Loaded(i)}
stopTracking(s, req) == work' = PostAll(Trackers, Msg("stop", s, "fix", req))
updateTrackingOptions(s, req) == work' = PostAll(Trackers, Msg("update", s, "fix", req))

\* the calls only flp, only gnss is for
CallOne(i, m) == work' = IF Loaded(i) THEN Post(i, m) ELSE work
stopBatching(s, mode, req) == CallOne("flp", Msg("stop", s, mode, req))
updateBatchingOptions(s, mode, req) == CallOne("flp", Msg("update", s, mode, req))
getBatchedLocations(s, req) == CallOne("flp", Msg("get", s, "full", req))
gnssNiResponse(id) == CallOne("gnss", Msg("ni", id, "fix", Req("ni", id)))

-----------------------------------------------------------------------------
(* What an interface does with a call, GnssAdapter's way: a start is refused *)
(* without the callback it is for; "we do not reportResponse for the case    *)
(* where there is no existing tracking session"; an answer to a client that  *)
(* is not known goes nowhere.                                                *)
Without(f, x) == [y \in DOMAIN f \ {x} |-> f[y]]
With(f, x, v) == [y \in DOMAIN f \union {x} |-> IF y = x THEN v ELSE f[y]]

HasCallback(i, m) ==
  known[i] # NoClient /\ (IF m.mode = "fix" THEN known[i] \intersect {"tracking", "meas"} # {}
                          ELSE "batching" \in known[i])

Result(sessions, told, ok) == [live |-> sessions, told |-> told, ok |-> ok]

Results(i, m) ==
  CASE m.op = "start" ->
         {Result(live[i], TRUE, FALSE)}
         \union (IF HasCallback(i, m) THEN {Result(With(live[i], m.s, m.mode), TRUE, TRUE)} ELSE {})
    [] m.op = "stop" /\ m.s \in DOMAIN live[i] ->
         {Result(live[i], TRUE, FALSE), Result(Without(live[i], m.s), TRUE, TRUE)}
    [] m.op = "update" /\ m.s \in DOMAIN live[i] ->
         {Result(live[i], TRUE, FALSE), Result([live[i] EXCEPT ![m.s] = m.mode], TRUE, TRUE)}
    [] m.op = "get" /\ m.s \in DOMAIN live[i] -> {Result(live[i], TRUE, ok) : ok \in BOOLEAN}
    [] m.op = "ni" -> {Result(live[i], TRUE, ok) : ok \in BOOLEAN}
    [] m.op = "remove" -> {Result(<<>>, FALSE, TRUE)}
    [] OTHER -> {Result(live[i], FALSE, TRUE)}

Known(i, m) == IF m.op = "add" THEN m.mode ELSE IF m.op = "remove" THEN NoClient ELSE known[i]

\* interface i serves its next call with result r
Serve(i, r) ==
  /\ work[i] # <<>>
  /\ LET m == Head(work[i]) IN
       /\ r \in Results(i, m)
       /\ live' = [live EXCEPT ![i] = r.live] /\ known' = [known EXCEPT ![i] = Known(i, m)]
  /\ work' = [work EXCEPT ![i] = Tail(@)]
  /\ UNCHANGED <<setup, loaded, cbs, lastId, calls>>

ApiInit ==
  /\ setup \in ApiSetups
  /\ loaded = [i \in Interfaces |-> IF i \in setup.preloaded THEN "yes" ELSE "no"]
  /\ cbs = NoClient
  /\ known = [i \in Interfaces |-> NoClient] /\ live = [i \in Interfaces |-> <<>>]
  /\ work = [i \in Interfaces |-> <<>>] /\ lastId = 1 /\ calls = 0
=============================================================================
