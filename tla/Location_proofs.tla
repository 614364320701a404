--------------------------- MODULE Location_proofs ---------------------------
(***************************************************************************)
(* What MCLocation guarantees for every set of clients' setups, however    *)
(* many calls the clients make, whatever libraries are there, and however  *)
(* the interfaces interleave their answers; and of the adapter's requests  *)
(* for any number of them.                                                 *)
(*                                                                         *)
(* Five inductive invariants of the clients.  ControlIInv: the votes that  *)
(* wait for the adapter alternate, and the modem's power vote is, once     *)
(* they are served, what the control client believes.  LeaveInv: an        *)
(* interface that knows a client, or is going to, is one the client's      *)
(* callbacks call for, and has a remove waiting once the client is gone.   *)
(* TrackInv (Stopping): a session that tracks, or is going to, is the      *)
(* client's present one or has a stop waiting behind it.  FenceInv: the    *)
(* dictionary leads from an id to the last session it was given to, a      *)
(* fence that is watched, or going to be, is in it or has its removal      *)
(* waiting behind it, and the last call that sets a fence's mask sets what *)
(* the client knows of it.  AskInv: the requests of a queue are, in order, *)
(* those of the calls about its sessions that wait for the one interface   *)
(* that runs them (Match), and the dictionary, what runs, what waits and   *)
(* the answer under way tell the same of each session (Talk).              *)
(*                                                                         *)
(* NiIInv, of the requests: who may still settle a payload is one thread   *)
(* or one message, and the session holds what its one waiter waits for.    *)
(***************************************************************************)
EXTENDS MCLocation, SequenceTheorems, FiniteSetTheorems, TLAPS
(***************************************************************************)
(* The control client.                                                     *)
(***************************************************************************)
Votes    == {"enable", "disable"}
CtrlOps  == Votes \union {"delete", "config"}
Commands == {c \in [op : CtrlOps, s : Nat, config : Configs \union {NoClient}] :
               c.op = "config" => c.config \in Configs}
Queues   == {"aiding", "control", "config"}

ControlTypeOK ==
  /\ lastId \in Nat \ {0} /\ vote \in Nat /\ enabled \in BOOLEAN
  /\ cwork \in Seq(Commands)
  /\ ctrl \in [Queues -> [s : Nat, reqs : Seq(CtrlOps)]]

\* no command of these kinds waits between the i-th and the j-th
Clear(w, ops, i, j) == \A l \in 1..Len(w) : i < l /\ l < j => w[l].op \notin ops
First(w, ops, k) == w[k].op \in ops /\ Clear(w, ops, 0, k)
Latest(w, ops, k) == w[k].op \in ops /\ Clear(w, ops, k, Len(w) + 1)

(* A session is of one kind: no deletion carries the session of a vote.       *)
IdsIssued ==
  /\ \A q \in Queues : ctrl[q].s <= lastId
  /\ ctrl["control"].s = ctrl["aiding"].s => ctrl["control"].s = 0
  /\ ctrl["control"].s = 0 => ~enabled
  /\ \A k \in 1..Len(cwork) : cwork[k].op # "config" =>
       /\ cwork[k].s \in 1..lastId
       /\ cwork[k].s = ctrl["aiding"].s => cwork[k].op = "delete"
       /\ cwork[k].s = ctrl["control"].s => cwork[k].op \in Votes

(* The votes that wait alternate, lead from what the modem was told to what   *)
(* the client believes, and a disabling carries the session it undoes.        *)
VotesLead ==
  /\ \A k \in 1..Len(cwork) : First(cwork, Votes, k) =>
       vote = (IF cwork[k].op = "enable" THEN 0 ELSE cwork[k].s)
  /\ \A j, k \in 1..Len(cwork) :
       (j < k /\ cwork[j].op \in Votes /\ cwork[k].op \in Votes /\ Clear(cwork, Votes, j, k)) =>
         /\ cwork[j].op # cwork[k].op
         /\ cwork[k].op = "disable" => cwork[j].s = cwork[k].s
  /\ \A k \in 1..Len(cwork) : Latest(cwork, Votes, k) =>
       cwork[k].s = ctrl["control"].s /\ (enabled <=> cwork[k].op = "enable")
  /\ Clear(cwork, Votes, 0, Len(cwork) + 1) => vote = (IF enabled THEN ctrl["control"].s ELSE 0)

(* The requests of the present session are those of its commands.            *)
Waits(op) == \E k \in 1..Len(cwork) : cwork[k].op = op /\ cwork[k].s = ctrl["control"].s
RequestsWait ==
  /\ \A k \in 1..Len(ctrl["config"].reqs) : ctrl["config"].reqs[k] = "config"
  /\ \A k \in 1..Len(ctrl["aiding"].reqs) : ctrl["aiding"].reqs[k] = "delete"
  /\ ctrl["control"].reqs = IF Waits("enable")
                            THEN IF Waits("disable") THEN <<"enable", "disable">> ELSE <<"enable">>
                            ELSE IF Waits("disable") THEN <<"disable">> ELSE <<>>
  /\ Waits("disable") => ~enabled
  /\ \A j, k \in 1..Len(cwork) :
       (j < k /\ cwork[j].op \in Votes /\ cwork[k].op \in Votes /\ cwork[j].s = cwork[k].s) =>
         cwork[j].op = "enable" /\ cwork[k].op = "disable"

ConfigLeads ==
  /\ \A k \in 1..Len(cwork) : Latest(cwork, {"config"}, k) => config \in {NoClient, cwork[k].config}
  /\ Clear(cwork, {"config"}, 0, Len(cwork) + 1) => \A i \in Asked : conf[i] = config[i]

ToldOwn == told # NoClient => told.req = told.op

ControlIInv ==
  ControlTypeOK /\ IdsIssued /\ VotesLead /\ RequestsWait /\ ConfigLeads /\ ModemAgrees
  /\ ToldOwn

-----------------------------------------------------------------------------
(* Sequences that grow at their end and shrink at their head.                 *)
LEMMA Appended ==
  ASSUME NEW S, NEW s \in Seq(S), NEW e \in S
  PROVE  /\ Append(s, e) \in Seq(S) /\ Len(s) \in Nat /\ Len(Append(s, e)) = Len(s) + 1
         /\ \A k \in 1..Len(s) : Append(s, e)[k] = s[k]
         /\ Append(s, e)[Len(s) + 1] = e
BY AppendProperties, LenProperties

(* A sequence of one value only stays so when the value is appended.          *)
LEMMA AppendedSame ==
  ASSUME NEW S, NEW s \in Seq(S), NEW e \in S, \A k \in 1..Len(s) : s[k] = e
  PROVE  \A k \in 1..Len(Append(s, e)) : Append(s, e)[k] = e
<1>1. \A k \in 1..Len(Append(s, e)) : k \in 1..Len(s) \/ k = Len(s) + 1
  BY Appended
<1> QED BY <1>1, Appended

LEMMA Shortened ==
  ASSUME NEW S, NEW s \in Seq(S), s # <<>>
  PROVE  /\ Tail(s) \in Seq(S) /\ Len(s) \in Nat \ {0} /\ Len(Tail(s)) = Len(s) - 1
         /\ \A k \in 1..Len(s) - 1 : Tail(s)[k] = s[k + 1]
         /\ Head(s) = s[1] /\ s[1] \in S
<1>1. Len(s) \in Nat \ {0}
  BY EmptySeq
<1>2. Head(s) = s[1]
  BY <1>1
<1>3. s[1] \in S
  BY <1>1, ElementOfSeq
<1> QED BY <1>1, <1>2, <1>3, HeadTailProperties

LEMMA ClearAppended ==
  ASSUME NEW w \in Seq(Commands), NEW c \in Commands, NEW v, v = Append(w, c), NEW ops
  PROVE  /\ \A i, j \in Int : j <= Len(w) + 1 => (Clear(v, ops, i, j) <=> Clear(w, ops, i, j))
         /\ \A k \in 1..Len(w) : /\ First(v, ops, k) <=> First(w, ops, k)
                                 /\ Latest(v, ops, k) <=> Latest(w, ops, k) /\ c.op \notin ops
         /\ First(v, ops, Len(w) + 1) <=> c.op \in ops /\ Clear(w, ops, 0, Len(w) + 1)
         /\ Latest(v, ops, Len(w) + 1) <=> c.op \in ops
         /\ Clear(v, ops, 0, Len(v) + 1) <=> Clear(w, ops, 0, Len(w) + 1) /\ c.op \notin ops
<1>1. /\ Len(w) \in Nat /\ Len(v) = Len(w) + 1
      /\ \A k \in 1..Len(w) : v[k] = w[k]
      /\ v[Len(w) + 1] = c
  BY Appended
<1>2. \A i, j \in Int : j <= Len(w) + 1 => (Clear(v, ops, i, j) <=> Clear(w, ops, i, j))
  BY <1>1 DEF Clear
<1>3. ASSUME NEW i \in Int, i <= Len(w)
      PROVE  Clear(v, ops, i, Len(v) + 1) <=> Clear(w, ops, i, Len(w) + 1) /\ c.op \notin ops
  BY <1>1, <1>3 DEF Clear
<1>4. Clear(v, ops, Len(w) + 1, Len(v) + 1)
  BY <1>1 DEF Clear
<1>5. 0 <= Len(w) /\ \A k \in 1..Len(w) : k \in Int /\ k <= Len(w)
  BY <1>1
<1>6. \A k \in 1..Len(w) : First(v, ops, k) <=> First(w, ops, k)
  BY <1>1, <1>2 DEF First
<1>7. \A k \in 1..Len(w) : Latest(v, ops, k) <=> Latest(w, ops, k) /\ c.op \notin ops
  BY <1>1, <1>3, <1>5 DEF Latest
<1>8. First(v, ops, Len(w) + 1) <=> c.op \in ops /\ Clear(w, ops, 0, Len(w) + 1)
  BY <1>1, <1>2 DEF First
<1>9. Latest(v, ops, Len(w) + 1) <=> c.op \in ops
  BY <1>1, <1>4 DEF Latest
<1> QED BY <1>2, <1>3, <1>5, <1>6, <1>7, <1>8, <1>9

LEMMA ClearShortened ==
  ASSUME NEW w \in Seq(Commands), w # <<>>, NEW v, v = Tail(w), NEW ops
  PROVE  /\ \A j, k \in 1..Len(v) : Clear(v, ops, j, k) <=> Clear(w, ops, j + 1, k + 1)
         /\ \A k \in 1..Len(v) : /\ First(v, ops, k) <=> w[k + 1].op \in ops /\ Clear(w, ops, 1, k + 1)
                                 /\ Latest(v, ops, k) <=> Latest(w, ops, k + 1)
                                 /\ First(w, ops, k + 1) <=> First(v, ops, k) /\ w[1].op \notin ops
         /\ First(w, ops, 1) <=> w[1].op \in ops
         /\ Latest(w, ops, 1) <=> w[1].op \in ops /\ Clear(v, ops, 0, Len(v) + 1)
         /\ Clear(w, ops, 0, Len(w) + 1) <=> Clear(v, ops, 0, Len(v) + 1) /\ w[1].op \notin ops
<1>1. /\ Len(w) \in Nat \ {0} /\ Len(v) = Len(w) - 1
      /\ \A k \in 1..Len(v) : v[k] = w[k + 1]
  BY Shortened
<1>2. ASSUME NEW i \in Nat, NEW j \in Int, Clear(v, ops, i, j) PROVE Clear(w, ops, i + 1, j + 1)
  <2> SUFFICES ASSUME NEW l \in 1..Len(w), i + 1 < l, l < j + 1 PROVE w[l].op \notin ops
    BY DEF Clear
  <2>1. l - 1 \in 1..Len(v) /\ i < l - 1 /\ l - 1 < j /\ v[l - 1] = w[l]
    BY <1>1
  <2> QED BY <2>1, <1>2 DEF Clear
<1>3. ASSUME NEW i \in Nat, NEW j \in Int, Clear(w, ops, i + 1, j + 1) PROVE Clear(v, ops, i, j)
  <2> SUFFICES ASSUME NEW l \in 1..Len(v), i < l, l < j PROVE v[l].op \notin ops
    BY DEF Clear
  <2>1. l + 1 \in 1..Len(w) /\ i + 1 < l + 1 /\ l + 1 < j + 1 /\ v[l] = w[l + 1]
    BY <1>1
  <2> QED BY <2>1, <1>3 DEF Clear
<1>4. ASSUME NEW j \in Int, j > 1
      PROVE  Clear(w, ops, 0, j) <=> Clear(w, ops, 1, j) /\ w[1].op \notin ops
  BY <1>1, <1>4 DEF Clear
<1>5. \A j, k \in 1..Len(v) : Clear(v, ops, j, k) <=> Clear(w, ops, j + 1, k + 1)
  BY <1>1, <1>2, <1>3
<1>6. Clear(w, ops, 1, Len(w) + 1) <=> Clear(v, ops, 0, Len(v) + 1)
  <2>1. 0 + 1 = 1 /\ (Len(v) + 1) + 1 = Len(w) + 1 /\ Len(v) + 1 \in Int /\ 0 \in Nat
    BY <1>1
  <2> QED BY <2>1, <1>2, <1>3
<1>7. ASSUME NEW k \in 1..Len(v)
      PROVE  /\ First(v, ops, k) <=> w[k + 1].op \in ops /\ Clear(w, ops, 1, k + 1)
             /\ Latest(v, ops, k) <=> Latest(w, ops, k + 1)
             /\ First(w, ops, k + 1) <=> First(v, ops, k) /\ w[1].op \notin ops
  <2>1. /\ 0 + 1 = 1 /\ (Len(v) + 1) + 1 = Len(w) + 1 /\ Len(v) + 1 \in Int
        /\ k \in Nat /\ k \in Int /\ k + 1 > 1 /\ k + 1 \in Int /\ v[k] = w[k + 1]
    BY <1>1
  <2>2. Clear(v, ops, 0, k) <=> Clear(w, ops, 1, k + 1)
    BY <2>1, <1>2, <1>3
  <2>3. Clear(v, ops, k, Len(v) + 1) <=> Clear(w, ops, k + 1, Len(w) + 1)
    BY <2>1, <1>2, <1>3
  <2>4. Clear(w, ops, 0, k + 1) <=> Clear(w, ops, 1, k + 1) /\ w[1].op \notin ops
    BY <2>1, <1>4
  <2> QED BY <2>1, <2>2, <2>3, <2>4 DEF First, Latest
<1>8. First(w, ops, 1) <=> w[1].op \in ops
  BY <1>1 DEF First, Clear
<1>9. Latest(w, ops, 1) <=> w[1].op \in ops /\ Clear(v, ops, 0, Len(v) + 1)
  BY <1>6 DEF Latest
<1>10. Clear(w, ops, 0, Len(w) + 1) <=> Clear(v, ops, 0, Len(v) + 1) /\ w[1].op \notin ops
  BY <1>1, <1>4, <1>6
<1> QED BY <1>5, <1>7, <1>8, <1>9, <1>10

LEMMA ShortQueues ==
  /\ Append(<<>>, "disable") = <<"disable">>
  /\ Append(<<"enable">>, "disable") = <<"enable", "disable">>
  /\ Tail(<<"disable">>) = <<>> /\ Tail(<<"enable">>) = <<>>
  /\ Tail(<<"enable", "disable">>) = <<"disable">>
<1> DEFINE T == {"enable", "disable"}
<1>1. <<>> \in Seq(T) /\ <<"disable">> \in Seq(T) /\ <<"enable">> \in Seq(T)
      /\ <<"enable", "disable">> \in Seq(T)
  OBVIOUS
<1>2. Append(<<>>, "disable") = <<"disable">>
  <2>1. Append(<<>>, "disable") \in Seq(T) /\ Len(Append(<<>>, "disable")) = 1
        /\ Append(<<>>, "disable")[1] = "disable"
    BY <1>1, Appended
  <2> QED BY <2>1, <1>1, SeqEqual
<1>3. Append(<<"enable">>, "disable") = <<"enable", "disable">>
  <2> DEFINE t == Append(<<"enable">>, "disable")
             u == <<"enable", "disable">>
  <2>1. t \in Seq(T) /\ Len(t) = 2 /\ t[1] = "enable" /\ t[2] = "disable"
    BY <1>1, Appended
  <2>2. u \in Seq(T) /\ Len(u) = 2 /\ u[1] = "enable" /\ u[2] = "disable"
    BY <1>1
  <2> HIDE DEF t, u, T
  <2>3. Len(t) = Len(u) /\ \A i \in 1..Len(t) : t[i] = u[i]
    BY <2>1, <2>2
  <2>4. t = u
    BY <2>1, <2>2, <2>3, SeqEqual
  <2> QED BY <2>4 DEF t, u
<1>4. Tail(<<"disable">>) = <<>> /\ Tail(<<"enable">>) = <<>>
      /\ Tail(<<"enable", "disable">>) = <<"disable">>
  OBVIOUS
<1> QED BY <1>2, <1>3, <1>4

-----------------------------------------------------------------------------
(* The initial states, and the steps that are not the control client's.      *)
LEMMA ControlInitial == AllInit => ControlIInv
<1> SUFFICES ASSUME AllInit PROVE ControlIInv
  OBVIOUS
<1>1. /\ lastId = 1 /\ vote = 0 /\ enabled = FALSE /\ cwork = <<>> /\ told = NoClient
      /\ ctrl = [q \in Queues |-> [s |-> 0, reqs |-> <<>>]] /\ config = NoClient
      /\ conf = GpsConf /\ modem = [i \in Sendable |-> GpsConf[i]] /\ "lock" \in declined
  BY DEF AllInit, ClientInit, ApiInit, ControlInit, Queues
<1>2. <<>> \in Seq(Commands) /\ <<>> \in Seq(CtrlOps) /\ Len(cwork) = 0
  BY <1>1
<1>3. \A k : k \notin 1..Len(cwork)
  BY <1>2
<1>4. \A op : ~Waits(op)
  BY <1>3 DEF Waits
<1>5. ControlTypeOK
  <2>1. [s |-> 0, reqs |-> <<>>] \in [s : Nat, reqs : Seq(CtrlOps)]
    BY <1>2
  <2>2. ctrl \in [Queues -> [s : Nat, reqs : Seq(CtrlOps)]]
    BY <2>1, <1>1
  <2>3. lastId \in Nat \ {0} /\ vote \in Nat
    BY <1>1
  <2>4. cwork \in Seq(Commands) /\ enabled \in BOOLEAN
    BY <1>1, <1>2, Zenon
  <2> QED BY <2>2, <2>3, <2>4 DEF ControlTypeOK
<1>6. IdsIssued
  BY <1>1, <1>3 DEF IdsIssued, Queues
<1>7. VotesLead
  BY <1>1, <1>3 DEF VotesLead
<1>8. RequestsWait
  BY <1>1, <1>3, <1>4 DEF RequestsWait, Queues
<1>9. ConfigLeads /\ ModemAgrees /\ ToldOwn
  BY <1>1, <1>3 DEF ConfigLeads, Asked, ModemAgrees, ToldOwn
<1> QED BY <1>5, <1>6, <1>7, <1>8, <1>9 DEF ControlIInv

\* sessions are numbered upwards
LEMMA LastIdGrows ==
  ASSUME lastId \in Nat \ {0}, ClientNext \/ FenceNext
  PROVE  lastId' \in Nat \ {0} /\ lastId' >= lastId
<1>1. CASE FenceNext
  <2>1. ClientOfFences \/ ServeFences
    BY <1>1, Zenon DEF FenceNext, AddGeofences, RemoveGeofences, PauseGeofences, ModifyGeofences,
                       ResumeGeofences, RemoveAllGeofences
  <2>2. lastId' = lastId
    BY <2>1 DEF ClientOfFences, ServeFences, apiVars
  <2> QED BY <2>2
<1>2. ASSUME NEW i, NEW mode, NEW op, Start(i, mode, op)
      PROVE  lastId' \in Nat \ {0} /\ lastId' >= lastId
  BY <1>2 DEF Start
<1>3. CASE TrackingCall
  BY <1>2, <1>3 DEF TrackingCall, locAPIStartTracking, locAPIStopTracking,
                    locAPIUpdateTrackingOptions, locAPIGnssNiResponse
<1>4. CASE SessionCall
  <2>1. ASSUME NEW id, NEW mode, locAPIUpdateSessionOptions(id, mode)
        PROVE  lastId' \in Nat \ {0} /\ lastId' >= lastId
    <3>1. ASSUME NEW e, Change(id, e, mode) PROVE lastId' \in Nat \ {0} /\ lastId' >= lastId
      <4>1. lastId' = lastId + 0 \/ lastId' = lastId + 1
        BY <3>1, Zenon DEF Change, ChangeCall
      <4> QED BY <4>1
    <3>2. ASSUME NEW e, Update(id, e, mode) PROVE lastId' \in Nat \ {0} /\ lastId' >= lastId
      BY <3>2 DEF Update, UpdateCall
    <3> QED BY <2>1, <3>1, <3>2 DEF locAPIUpdateSessionOptions
  <2>2. ASSUME NEW id, NEW mode, locAPIStartSession(id, mode)
        PROVE  lastId' \in Nat \ {0} /\ lastId' >= lastId
    <3>1. lastId' = lastId \/ \E i, op : Start(i, mode, op)
      BY <2>2, Zenon DEF locAPIStartSession
    <3> QED BY <3>1, <1>2
  <2> QED BY <1>4, <2>1, <2>2 DEF SessionCall, locAPIStopSession, locAPIGetBatchedLocations
<1>5. ASSUME NEW i \in Interfaces, Answer(i) \/ onResponse(i)
      PROVE  lastId' \in Nat \ {0} /\ lastId' >= lastId
  BY <1>5 DEF Answer, Serve, onResponse, apiVars
<1>6. ASSUME NEW s, TripCompleted(s) PROVE lastId' \in Nat \ {0} /\ lastId' >= lastId
  BY <1>6 DEF TripCompleted
<1>7. CASE DestroyClient
  BY <1>7 DEF DestroyClient, Destroy
<1>8. ASSUME NEW c, locAPISetCallbacks(c) PROVE lastId' \in Nat \ {0} /\ lastId' >= lastId
  BY <1>8 DEF locAPISetCallbacks, createInstance, updateCallbacks, AddClient
<1>9. ASSUME NEW id, Overtaken(id) PROVE lastId' \in Nat \ {0} /\ lastId' >= lastId
  <2>1. PICK e, early, gone : CallOvertaken(id, e, early, gone)
    BY <1>9, Zenon DEF Overtaken
  <2>2. lastId' = lastId \/ \E mode : ChangeCall(e, mode)
    BY <2>1, Zenon DEF CallOvertaken, UpdateCall
  <2>3. lastId' = lastId \/ lastId' = lastId + 0 \/ lastId' = lastId + 1
    BY <2>2, Zenon DEF ChangeCall
  <2> QED BY <2>3
<1> QED BY <1>1, <1>3, <1>4, <1>5, <1>6, <1>7, <1>8, <1>9 DEF ClientNext

LEMMA OthersKeepControl ==
  ASSUME ControlIInv, lastId' \in Nat \ {0}, lastId' >= lastId, UNCHANGED controlVars
  PROVE  ControlIInv'
<1> USE DEF controlVars
<1>1. ControlTypeOK'
  BY DEF ControlIInv, ControlTypeOK
<1>2. IdsIssued'
  <2>1. \A q \in Queues : ctrl[q].s \in Nat
    BY DEF ControlIInv, ControlTypeOK
  <2>2. \A q \in Queues : ctrl[q].s <= lastId'
    BY <2>1 DEF ControlIInv, ControlTypeOK, IdsIssued
  <2>3. 1..lastId \subseteq 1..lastId'
    BY DEF ControlIInv, ControlTypeOK
  <2> QED BY <2>2, <2>3 DEF ControlIInv, IdsIssued
<1>3. VotesLead'
  <2>1. cwork' = cwork /\ vote' = vote /\ enabled' = enabled /\ ctrl' = ctrl
    OBVIOUS
  <2> QED BY <2>1 DEF ControlIInv, VotesLead
<1>4. RequestsWait'
  BY DEF ControlIInv, RequestsWait, Waits
<1>5. ConfigLeads' /\ ToldOwn'
  BY DEF ControlIInv, ConfigLeads, Asked, ToldOwn, Latest, Clear
<1>6. ModemAgrees'
  BY DEF ControlIInv, ModemAgrees
<1> QED BY <1>1, <1>2, <1>3, <1>4, <1>5, <1>6 DEF ControlIInv

-----------------------------------------------------------------------------
(* The calls of the control client.                                           *)
LEMMA EnableStep == ASSUME ControlIInv, locAPIEnable PROVE ControlIInv'
<1>a. /\ ControlTypeOK /\ IdsIssued /\ VotesLead /\ RequestsWait /\ ConfigLeads
      /\ ModemAgrees /\ ToldOwn /\ lastId \in Nat \ {0} /\ vote \in Nat /\ enabled \in BOOLEAN /\ Len(cwork) \in Nat
      /\ cwork \in Seq(Commands) /\ ctrl \in [Queues -> [s : Nat, reqs : Seq(CtrlOps)]]
  BY LenProperties DEF ControlIInv, ControlTypeOK
<1>b. UNCHANGED <<vote, conf, modem, told, declined, config>>
  BY DEF locAPIEnable, ControlCall
<1>1. CASE enabled
  <2>1. UNCHANGED <<controlVars, lastId>>
    BY <1>1, <1>b DEF locAPIEnable, controlVars
  <2> QED BY <2>1, <1>a, OthersKeepControl
<1>2. CASE ~enabled
  <2> DEFINE c == Command("enable", lastId + 1, NoClient)
             L == Len(cwork)
  <2>1. /\ lastId' = lastId + 1 /\ enabled' = TRUE
        /\ ctrl' = [ctrl EXCEPT !["control"] = [s |-> lastId + 1, reqs |-> <<"enable">>]]
        /\ cwork' = Append(cwork, c)
    BY <1>2 DEF locAPIEnable, Reset
  <2>2. /\ c \in Commands /\ c.op = "enable" /\ c.s = lastId + 1
    BY <1>a DEF Commands, Command, CtrlOps, Votes
  <2>3. /\ cwork' \in Seq(Commands) /\ Len(cwork') = L + 1
        /\ \A k \in 1..L : cwork'[k] = cwork[k]
        /\ cwork'[L + 1] = c
    BY <1>a, <2>1, <2>2, Appended
  <2>4. /\ ctrl' \in [Queues -> [s : Nat, reqs : Seq(CtrlOps)]]
        /\ ctrl'["control"].s = lastId + 1 /\ ctrl'["control"].reqs = <<"enable">>
        /\ ctrl'["aiding"] = ctrl["aiding"] /\ ctrl'["config"] = ctrl["config"]
    <3>1. <<"enable">> \in Seq(CtrlOps)
      BY DEF CtrlOps, Votes
    <3>2. [s |-> lastId + 1, reqs |-> <<"enable">>] \in [s : Nat, reqs : Seq(CtrlOps)]
      BY <3>1, <1>a
    <3> QED BY <3>2, <1>a, <2>1 DEF Queues
  <2>5. \A ops :
          /\ \A i, j \in Int : j <= L + 1 => (Clear(cwork', ops, i, j) <=> Clear(cwork, ops, i, j))
          /\ \A k \in 1..L : /\ First(cwork', ops, k) <=> First(cwork, ops, k)
                             /\ Latest(cwork', ops, k) <=> Latest(cwork, ops, k) /\ c.op \notin ops
          /\ First(cwork', ops, L + 1) <=> c.op \in ops /\ Clear(cwork, ops, 0, L + 1)
          /\ Latest(cwork', ops, L + 1) <=> c.op \in ops
          /\ Clear(cwork', ops, 0, Len(cwork') + 1) <=> Clear(cwork, ops, 0, L + 1) /\ c.op \notin ops
    <3>1. cwork \in Seq(Commands) /\ c \in Commands /\ cwork' = Append(cwork, c)
      BY <1>a, <2>1, <2>2
    <3> HIDE DEF c
    <3> QED BY <3>1, ClearAppended
  <2>6. \A k \in 1..Len(cwork') : k \in 1..L \/ k = L + 1
    BY <1>a, <2>3
  <2>7. \A k \in 1..L : cwork[k].op # "config" => cwork[k].s \in 1..lastId
    BY <1>a DEF IdsIssued
  <2> HIDE DEF c
  <2>8. ControlTypeOK'
    BY <1>a, <1>b, <2>1, <2>3, <2>4 DEF ControlTypeOK
  <2>9. IdsIssued'
    BY <1>a, <2>1, <2>2, <2>3, <2>4, <2>6, <2>7, SMTT(30) DEF IdsIssued, Queues, Votes
  <2>10. VotesLead'
    <3>1. \A k \in 1..Len(cwork') : First(cwork', Votes, k) =>
            vote' = (IF cwork'[k].op = "enable" THEN 0 ELSE cwork'[k].s)
      BY <1>a, <1>b, <1>2, <2>2, <2>3, <2>5, <2>6, ZenonT(40) DEF VotesLead, Votes
    <3>2. ASSUME NEW j \in 1..Len(cwork'), NEW k \in 1..Len(cwork'), j < k,
                 cwork'[j].op \in Votes, cwork'[k].op \in Votes, Clear(cwork', Votes, j, k)
          PROVE  /\ cwork'[j].op # cwork'[k].op
                 /\ cwork'[k].op = "disable" => cwork'[j].s = cwork'[k].s
      <4>1. CASE k \in 1..L
        <5>1. j \in 1..L /\ j \in Int /\ k \in Int /\ k <= L + 1
          BY <4>1, <3>2, <1>a
        <5>2. Clear(cwork, Votes, j, k)
          BY <5>1, <3>2, <2>5
        <5> QED BY <5>1, <5>2, <4>1, <3>2, <2>3, <1>a DEF VotesLead
      <4>2. CASE k = L + 1
        <5>1. j \in 1..L /\ Clear(cwork, Votes, j, L + 1)
          BY <4>2, <3>2, <2>3, <2>5, <1>a
        <5>2. Latest(cwork, Votes, j)
          BY <5>1, <3>2, <2>3 DEF Latest
        <5> QED BY <5>1, <5>2, <4>2, <3>2, <2>2, <2>3, <1>a, <1>2 DEF VotesLead, Votes
      <4> QED BY <4>1, <4>2, <2>6
    <3>3. ASSUME NEW k \in 1..Len(cwork'), Latest(cwork', Votes, k)
          PROVE  cwork'[k].s = ctrl'["control"].s /\ (enabled' <=> cwork'[k].op = "enable")
      <4>1. k = L + 1
        BY <3>3, <2>2, <2>5, <2>6 DEF Votes
      <4> QED BY <4>1, <2>1, <2>2, <2>3, <2>4
    <3>4. ~Clear(cwork', Votes, 0, Len(cwork') + 1)
      BY <2>2, <2>5 DEF Votes
    <3> QED BY <3>1, <3>2, <3>3, <3>4 DEF VotesLead
  <2>11. RequestsWait'
    <3>1. Waits("enable")'
      BY <1>a, <2>2, <2>3, <2>4 DEF Waits
    <3>2. ~Waits("disable")'
      <4> SUFFICES ASSUME NEW k \in 1..Len(cwork'), cwork'[k].op = "disable",
                          cwork'[k].s = ctrl'["control"].s
                   PROVE  FALSE
        BY DEF Waits
      <4>1. k \in 1..L
        BY <2>2, <2>3, <2>6
      <4>2. cwork[k].op = "disable" /\ cwork[k].s = lastId + 1
        BY <4>1, <2>3, <2>4
      <4> QED BY <4>1, <4>2, <2>7, <1>a
    <3>3. \A j, k \in 1..Len(cwork') :
            (j < k /\ cwork'[j].op \in Votes /\ cwork'[k].op \in Votes /\ cwork'[j].s = cwork'[k].s)
              => cwork'[j].op = "enable" /\ cwork'[k].op = "disable"
      <4> SUFFICES ASSUME NEW j \in 1..Len(cwork'), NEW k \in 1..Len(cwork'), j < k,
                          cwork'[j].op \in Votes, cwork'[k].op \in Votes,
                          cwork'[j].s = cwork'[k].s
                   PROVE  cwork'[j].op = "enable" /\ cwork'[k].op = "disable"
        OBVIOUS
      <4>1. CASE k \in 1..L
        <5>1. j \in 1..L
          BY <4>1, <1>a
        <5> QED BY <4>1, <5>1, <2>3, <1>a DEF RequestsWait
      <4>2. CASE k = L + 1
        <5>1. j \in 1..L
          BY <4>2, <1>a
        <5>2. cwork[j].s = lastId + 1 /\ cwork[j].op # "config"
          BY <4>2, <5>1, <2>2, <2>3 DEF Votes
        <5> QED BY <5>1, <5>2, <2>7, <1>a
      <4> QED BY <4>1, <4>2, <2>6
    <3> QED BY <3>1, <3>2, <3>3, <2>4, <1>a DEF RequestsWait
  <2>12. ConfigLeads'
    BY <1>a, <1>b, <2>2, <2>3, <2>5, <2>6 DEF ConfigLeads, Asked, Latest
  <2>13. ToldOwn' /\ ModemAgrees'
    BY <1>a, <1>b DEF ToldOwn, ModemAgrees
  <2> QED BY <2>8, <2>9, <2>10, <2>11, <2>12, <2>13 DEF ControlIInv
<1> QED BY <1>a, <1>1, <1>2

\* what the commands that wait are after another one is posted
LEMMA CommandPosted ==
  ASSUME cwork \in Seq(Commands), NEW c \in Commands, cwork' = Append(cwork, c)
  PROVE  /\ cwork' \in Seq(Commands) /\ Len(cwork') = Len(cwork) + 1 /\ Len(cwork) \in Nat
         /\ \A k \in 1..Len(cwork) : cwork'[k] = cwork[k]
         /\ cwork'[Len(cwork) + 1] = c
         /\ \A k \in 1..Len(cwork') : k \in 1..Len(cwork) \/ k = Len(cwork) + 1
<1>1. /\ cwork' \in Seq(Commands) /\ Len(cwork') = Len(cwork) + 1 /\ Len(cwork) \in Nat
      /\ \A k \in 1..Len(cwork) : cwork'[k] = cwork[k]
      /\ cwork'[Len(cwork) + 1] = c
  BY Appended
<1> QED BY <1>1

LEMMA DisableStep == ASSUME ControlIInv, locAPIDisable PROVE ControlIInv'
<1>a. /\ ControlTypeOK /\ IdsIssued /\ VotesLead /\ RequestsWait /\ ConfigLeads
      /\ ModemAgrees /\ ToldOwn /\ lastId \in Nat \ {0} /\ vote \in Nat /\ enabled \in BOOLEAN /\ Len(cwork) \in Nat
      /\ cwork \in Seq(Commands) /\ ctrl \in [Queues -> [s : Nat, reqs : Seq(CtrlOps)]]
  BY LenProperties DEF ControlIInv, ControlTypeOK
<1>b. UNCHANGED <<vote, conf, modem, told, declined, config, lastId>>
  BY DEF locAPIDisable, ControlCall
<1> DEFINE s == ctrl["control"].s
           L == Len(cwork)
<1>1. CASE ~(enabled /\ s > 0)
  <2>1. UNCHANGED <<controlVars, lastId>>
    BY <1>1, <1>b DEF locAPIDisable, controlVars
  <2> QED BY <2>1, <1>a, OthersKeepControl
<1>2. CASE enabled /\ s > 0
  <2> DEFINE c == Command("disable", s, NoClient)
  <2>0. s \in Nat \ {0} /\ s \in 1..lastId
    BY <1>a, <1>2 DEF Queues, IdsIssued
  <2>1. /\ enabled' = FALSE
        /\ ctrl' = [ctrl EXCEPT !["control"].reqs = Append(@, "disable")]
        /\ cwork' = Append(cwork, c)
    BY <1>2 DEF locAPIDisable
  <2>2. /\ c \in Commands /\ c.op = "disable" /\ c.s = s
    BY <2>0 DEF Commands, Command, CtrlOps, Votes
  <2>3. /\ cwork' \in Seq(Commands) /\ Len(cwork') = L + 1
        /\ \A k \in 1..L : cwork'[k] = cwork[k]
        /\ cwork'[L + 1] = c
        /\ \A k \in 1..Len(cwork') : k \in 1..L \/ k = L + 1
    BY <1>a, <2>1, <2>2, CommandPosted
  <2>4. /\ ctrl' \in [Queues -> [s : Nat, reqs : Seq(CtrlOps)]]
        /\ ctrl'["control"].s = s
        /\ ctrl'["control"].reqs = Append(ctrl["control"].reqs, "disable")
        /\ ctrl'["aiding"] = ctrl["aiding"] /\ ctrl'["config"] = ctrl["config"]
    <3>1. /\ ctrl["control"].reqs \in Seq(CtrlOps) /\ ctrl["control"].s \in Nat
          /\ "disable" \in CtrlOps
      BY <1>a DEF Queues, CtrlOps, Votes
    <3>2. Append(ctrl["control"].reqs, "disable") \in Seq(CtrlOps)
      BY <3>1, Appended
    <3>3. [ctrl["control"] EXCEPT !.reqs = Append(@, "disable")]
            = [s |-> s, reqs |-> Append(ctrl["control"].reqs, "disable")]
      <4>1. ctrl["control"] \in [s : Nat, reqs : Seq(CtrlOps)]
        BY <1>a DEF Queues
      <4>2. ctrl["control"] = [s |-> ctrl["control"].s, reqs |-> ctrl["control"].reqs]
        BY <4>1
      <4> QED BY <4>2, SMTT(30)
    <3>4. [s |-> s, reqs |-> Append(ctrl["control"].reqs, "disable")]
            \in [s : Nat, reqs : Seq(CtrlOps)]
      BY <3>1, <3>2
    <3> QED BY <3>3, <3>4, <1>a, <2>1 DEF Queues
  <2>5. \A ops :
          /\ \A i, j \in Int : j <= L + 1 => (Clear(cwork', ops, i, j) <=> Clear(cwork, ops, i, j))
          /\ \A k \in 1..L : /\ First(cwork', ops, k) <=> First(cwork, ops, k)
                             /\ Latest(cwork', ops, k) <=> Latest(cwork, ops, k) /\ c.op \notin ops
          /\ First(cwork', ops, L + 1) <=> c.op \in ops /\ Clear(cwork, ops, 0, L + 1)
          /\ Latest(cwork', ops, L + 1) <=> c.op \in ops
          /\ Clear(cwork', ops, 0, Len(cwork') + 1) <=> Clear(cwork, ops, 0, L + 1) /\ c.op \notin ops
    <3>1. cwork \in Seq(Commands) /\ c \in Commands /\ cwork' = Append(cwork, c)
      BY <1>a, <2>1, <2>2
    <3> HIDE DEF c
    <3> QED BY <3>1, ClearAppended
  <2>6. \A k \in 1..L : ~(cwork[k].op = "disable" /\ cwork[k].s = s)
    BY <1>2, <1>a DEF RequestsWait, Waits
  <2> HIDE DEF c
  <2>8. ControlTypeOK'
    BY <1>a, <1>b, <2>1, <2>3, <2>4 DEF ControlTypeOK
  <2>9. IdsIssued'
    <3>1. \A k \in 1..L : cwork[k].op # "config" =>
            /\ cwork[k].s \in 1..lastId
            /\ cwork[k].s = ctrl["aiding"].s => cwork[k].op = "delete"
            /\ cwork[k].s = s => cwork[k].op \in Votes
      BY <1>a DEF IdsIssued
    <3>2. s # ctrl["aiding"].s /\ ctrl["aiding"].s <= lastId /\ ctrl["config"].s <= lastId
      BY <2>0, <1>a DEF IdsIssued, Queues
    <3>3. \A k \in 1..Len(cwork') : cwork'[k].op # "config" =>
            /\ cwork'[k].s \in 1..lastId'
            /\ cwork'[k].s = ctrl'["aiding"].s => cwork'[k].op = "delete"
            /\ cwork'[k].s = ctrl'["control"].s => cwork'[k].op \in Votes
      BY <3>1, <3>2, <2>0, <2>2, <2>3, <2>4, <1>b, ZenonT(30) DEF Votes
    <3>4. \A q \in Queues : ctrl'[q].s <= lastId'
      BY <2>0, <3>2, <2>4, <1>b, <1>a DEF Queues
    <3> QED BY <3>3, <3>4, <2>0, <2>1, <2>4, <3>2 DEF IdsIssued
  <2>10. VotesLead'
    <3>1. \A k \in 1..Len(cwork') : First(cwork', Votes, k) =>
            vote' = (IF cwork'[k].op = "enable" THEN 0 ELSE cwork'[k].s)
      <4>1. Clear(cwork, Votes, 0, L + 1) => vote = s
        BY <1>2, <1>a DEF VotesLead
      <4> QED BY <4>1, <1>a, <1>b, <2>2, <2>3, <2>5 DEF VotesLead, Votes
    <3>2. ASSUME NEW j \in 1..Len(cwork'), NEW k \in 1..Len(cwork'), j < k,
                 cwork'[j].op \in Votes, cwork'[k].op \in Votes, Clear(cwork', Votes, j, k)
          PROVE  /\ cwork'[j].op # cwork'[k].op
                 /\ cwork'[k].op = "disable" => cwork'[j].s = cwork'[k].s
      <4>1. CASE k \in 1..L
        <5>1. j \in 1..L /\ j \in Int /\ k \in Int /\ k <= L + 1
          BY <4>1, <3>2, <1>a
        <5>2. Clear(cwork, Votes, j, k)
          BY <5>1, <3>2, <2>5
        <5> QED BY <5>1, <5>2, <4>1, <3>2, <2>3, <1>a DEF VotesLead
      <4>2. CASE k = L + 1
        <5>1. j \in 1..L /\ Clear(cwork, Votes, j, L + 1)
          BY <4>2, <3>2, <2>3, <2>5, <1>a
        <5>2. Latest(cwork, Votes, j)
          BY <5>1, <3>2, <2>3 DEF Latest
        <5>3. cwork[j].s = s /\ cwork[j].op = "enable"
          BY <5>1, <5>2, <1>2, <1>a DEF VotesLead
        <5> QED BY <5>1, <5>3, <4>2, <2>2, <2>3
      <4> QED BY <4>1, <4>2, <2>3
    <3>3. ASSUME NEW k \in 1..Len(cwork'), Latest(cwork', Votes, k)
          PROVE  cwork'[k].s = ctrl'["control"].s /\ (enabled' <=> cwork'[k].op = "enable")
      <4>1. k = L + 1
        BY <3>3, <2>2, <2>3, <2>5 DEF Votes
      <4> QED BY <4>1, <2>1, <2>2, <2>3, <2>4
    <3>4. ~Clear(cwork', Votes, 0, Len(cwork') + 1)
      BY <2>2, <2>5 DEF Votes
    <3> QED BY <3>1, <3>2, <3>3, <3>4 DEF VotesLead
  <2>11. RequestsWait'
    <3>0. L + 1 \in 1..Len(cwork') /\ 1..L \subseteq 1..Len(cwork')
      BY <1>a, <2>3
    <3>1. Waits("disable")'
      BY <3>0, <2>2, <2>3, <2>4 DEF Waits
    <3>2. Waits("enable")' <=> Waits("enable")
      <4>1. ASSUME Waits("enable")' PROVE Waits("enable")
        <5>1. PICK k \in 1..Len(cwork') : cwork'[k].op = "enable" /\ cwork'[k].s = s
          BY <4>1, <2>4 DEF Waits
        <5> QED BY <5>1, <2>2, <2>3 DEF Waits
      <4>2. ASSUME Waits("enable") PROVE Waits("enable")'
        BY <4>2, <3>0, <2>3, <2>4 DEF Waits
      <4> QED BY <4>1, <4>2
    <3>3. \A j, k \in 1..Len(cwork') :
            (j < k /\ cwork'[j].op \in Votes /\ cwork'[k].op \in Votes /\ cwork'[j].s = cwork'[k].s)
              => cwork'[j].op = "enable" /\ cwork'[k].op = "disable"
      <4> SUFFICES ASSUME NEW j \in 1..Len(cwork'), NEW k \in 1..Len(cwork'), j < k,
                          cwork'[j].op \in Votes, cwork'[k].op \in Votes,
                          cwork'[j].s = cwork'[k].s
                   PROVE  cwork'[j].op = "enable" /\ cwork'[k].op = "disable"
        OBVIOUS
      <4>1. CASE k \in 1..L
        <5>1. j \in 1..L
          BY <4>1, <1>a
        <5> QED BY <4>1, <5>1, <2>3, <1>a DEF RequestsWait
      <4>2. CASE k = L + 1
        <5>1. j \in 1..L
          BY <4>2, <1>a
        <5>2. cwork[j].s = s /\ cwork[j].op \in Votes
          BY <4>2, <5>1, <2>2, <2>3
        <5> QED BY <5>1, <5>2, <4>2, <2>2, <2>3, <2>6 DEF Votes
      <4> QED BY <4>1, <4>2, <2>3
    <3>4. ~Waits("disable")
      BY <2>6 DEF Waits
    <3>5. ctrl'["control"].reqs = IF Waits("enable") THEN <<"enable", "disable">> ELSE <<"disable">>
      <4>1. ctrl["control"].reqs = IF Waits("enable") THEN <<"enable">> ELSE <<>>
        BY <3>4, <1>a DEF RequestsWait
      <4>2. Append(<<>>, "disable") = <<"disable">>
            /\ Append(<<"enable">>, "disable") = <<"enable", "disable">>
        BY ShortQueues
      <4> QED BY <4>1, <4>2, <2>4
    <3> QED BY <3>1, <3>2, <3>3, <3>5, <2>1, <2>4, <1>a DEF RequestsWait
  <2>12. ConfigLeads'
    <3>1. /\ \A k \in 1..L : Latest(cwork', {"config"}, k) => Latest(cwork, {"config"}, k)
          /\ ~Latest(cwork', {"config"}, L + 1)
          /\ Clear(cwork', {"config"}, 0, Len(cwork') + 1) => Clear(cwork, {"config"}, 0, L + 1)
      BY <2>2, <2>5
    <3> QED BY <3>1, <1>a, <1>b, <2>3 DEF ConfigLeads, Asked
  <2>13. ToldOwn' /\ ModemAgrees'
    BY <1>a, <1>b DEF ToldOwn, ModemAgrees
  <2> QED BY <2>8, <2>9, <2>10, <2>11, <2>12, <2>13 DEF ControlIInv
<1> QED BY <1>a, <1>1, <1>2

\* a command that is no vote leaves the votes and their requests as they are
LEMMA OtherCommandPosted ==
  ASSUME ControlIInv, NEW c \in Commands, c.op \notin Votes, cwork' = Append(cwork, c),
         UNCHANGED <<vote, enabled>>, ctrl'["control"] = ctrl["control"]
  PROVE  /\ VotesLead'
         /\ \A op \in Votes : Waits(op)' <=> Waits(op)
         /\ \A j, k \in 1..Len(cwork') :
              (j < k /\ cwork'[j].op \in Votes /\ cwork'[k].op \in Votes
                 /\ cwork'[j].s = cwork'[k].s)
                => cwork'[j].op = "enable" /\ cwork'[k].op = "disable"
<1> DEFINE L == Len(cwork)
<1>a. VotesLead /\ RequestsWait /\ cwork \in Seq(Commands)
  BY DEF ControlIInv, ControlTypeOK
<1>1. /\ cwork' \in Seq(Commands) /\ Len(cwork') = L + 1 /\ L \in Nat
      /\ \A k \in 1..L : cwork'[k] = cwork[k]
      /\ cwork'[L + 1] = c
      /\ \A k \in 1..Len(cwork') : k \in 1..L \/ k = L + 1
  BY <1>a, CommandPosted
<1>2. /\ \A i, j \in Int : j <= L + 1 => (Clear(cwork', Votes, i, j) <=> Clear(cwork, Votes, i, j))
      /\ \A k \in 1..L : /\ First(cwork', Votes, k) <=> First(cwork, Votes, k)
                         /\ Latest(cwork', Votes, k) <=> Latest(cwork, Votes, k)
      /\ Clear(cwork', Votes, 0, Len(cwork') + 1) <=> Clear(cwork, Votes, 0, L + 1)
  BY <1>a, ClearAppended
<1>3. \A k \in 1..Len(cwork') : cwork'[k].op \in Votes => k \in 1..L /\ cwork'[k] = cwork[k]
  BY <1>1
<1>4. \A k \in 1..Len(cwork') : First(cwork', Votes, k) \/ Latest(cwork', Votes, k) =>
                                   k \in 1..L /\ cwork'[k] = cwork[k]
  BY <1>3 DEF First, Latest
<1>5. VotesLead'
  <2>1. \A k \in 1..Len(cwork') : First(cwork', Votes, k) =>
          vote' = (IF cwork'[k].op = "enable" THEN 0 ELSE cwork'[k].s)
    BY <1>a, <1>2, <1>4 DEF VotesLead
  <2>2. ASSUME NEW j \in 1..Len(cwork'), NEW k \in 1..Len(cwork'), j < k,
               cwork'[j].op \in Votes, cwork'[k].op \in Votes, Clear(cwork', Votes, j, k)
        PROVE  /\ cwork'[j].op # cwork'[k].op
               /\ cwork'[k].op = "disable" => cwork'[j].s = cwork'[k].s
    <3>1. j \in 1..L /\ k \in 1..L /\ cwork'[j] = cwork[j] /\ cwork'[k] = cwork[k]
      BY <2>2, <1>3
    <3>2. j \in Int /\ k \in Int /\ k <= L + 1
      BY <3>1, <1>1
    <3>3. Clear(cwork, Votes, j, k)
      BY <3>2, <2>2, <1>2
    <3> QED BY <3>1, <3>3, <2>2, <1>a DEF VotesLead
  <2>3. \A k \in 1..Len(cwork') : Latest(cwork', Votes, k) =>
          cwork'[k].s = ctrl'["control"].s /\ (enabled' <=> cwork'[k].op = "enable")
    BY <1>a, <1>2, <1>4 DEF VotesLead
  <2>4. Clear(cwork', Votes, 0, Len(cwork') + 1) =>
          vote' = (IF enabled' THEN ctrl'["control"].s ELSE 0)
    BY <1>a, <1>2 DEF VotesLead
  <2> QED BY <2>1, <2>2, <2>3, <2>4 DEF VotesLead
<1>6. 1..L \subseteq 1..Len(cwork')
  BY <1>1
<1>7. \A op \in Votes : Waits(op)' <=> Waits(op)
  <2> SUFFICES ASSUME NEW op \in Votes PROVE Waits(op)' <=> Waits(op)
    OBVIOUS
  <2>1. ASSUME Waits(op)' PROVE Waits(op)
    <3>1. PICK k \in 1..Len(cwork') : cwork'[k].op = op /\ cwork'[k].s = ctrl'["control"].s
      BY <2>1 DEF Waits
    <3> QED BY <3>1, <1>3 DEF Waits
  <2>2. ASSUME Waits(op) PROVE Waits(op)'
    <3>1. PICK k \in 1..Len(cwork) : cwork[k].op = op /\ cwork[k].s = ctrl["control"].s
      BY <2>2 DEF Waits
    <3> QED BY <3>1, <1>1, <1>6 DEF Waits
  <2> QED BY <2>1, <2>2
<1>8. \A j, k \in 1..Len(cwork') :
        (j < k /\ cwork'[j].op \in Votes /\ cwork'[k].op \in Votes /\ cwork'[j].s = cwork'[k].s)
          => cwork'[j].op = "enable" /\ cwork'[k].op = "disable"
  BY <1>a, <1>3 DEF RequestsWait
<1> QED BY <1>5, <1>7, <1>8

LEMMA DeleteStep == ASSUME ControlIInv, locAPIGnssDeleteAidingData PROVE ControlIInv'
<1> DEFINE c == Command("delete", lastId + 1, NoClient)
           L == Len(cwork)
<1>a. /\ ControlTypeOK /\ IdsIssued /\ VotesLead /\ RequestsWait /\ ConfigLeads
      /\ ModemAgrees /\ ToldOwn /\ lastId \in Nat \ {0} /\ vote \in Nat /\ enabled \in BOOLEAN /\ Len(cwork) \in Nat
      /\ cwork \in Seq(Commands) /\ ctrl \in [Queues -> [s : Nat, reqs : Seq(CtrlOps)]]
  BY LenProperties DEF ControlIInv, ControlTypeOK
<1>1. /\ UNCHANGED <<vote, conf, modem, told, declined, config, enabled>> /\ lastId' = lastId + 1
      /\ ctrl' = [ctrl EXCEPT !["aiding"] = [s |-> lastId + 1, reqs |-> <<"delete">>]]
      /\ cwork' = Append(cwork, c)
  BY DEF locAPIGnssDeleteAidingData, ControlCall, Reset
<1>2. c \in Commands /\ c.op = "delete" /\ c.s = lastId + 1 /\ c.op \notin Votes
  BY <1>a DEF Commands, Command, CtrlOps, Votes
<1>3. /\ ctrl' \in [Queues -> [s : Nat, reqs : Seq(CtrlOps)]]
      /\ ctrl'["aiding"].s = lastId + 1 /\ ctrl'["aiding"].reqs = <<"delete">>
      /\ ctrl'["control"] = ctrl["control"] /\ ctrl'["config"] = ctrl["config"]
  <2>1. <<"delete">> \in Seq(CtrlOps)
    BY DEF CtrlOps
  <2>2. [s |-> lastId + 1, reqs |-> <<"delete">>] \in [s : Nat, reqs : Seq(CtrlOps)]
    BY <2>1, <1>a
  <2> QED BY <2>2, <1>a, <1>1 DEF Queues
<1>4. /\ cwork' \in Seq(Commands) /\ Len(cwork') = L + 1
      /\ \A k \in 1..L : cwork'[k] = cwork[k]
      /\ cwork'[L + 1] = c
      /\ \A k \in 1..Len(cwork') : k \in 1..L \/ k = L + 1
  BY <1>a, <1>1, <1>2, CommandPosted
<1> HIDE DEF c
<1>5. /\ VotesLead'
      /\ \A op \in Votes : Waits(op)' <=> Waits(op)
      /\ \A j, k \in 1..Len(cwork') :
           (j < k /\ cwork'[j].op \in Votes /\ cwork'[k].op \in Votes
              /\ cwork'[j].s = cwork'[k].s)
             => cwork'[j].op = "enable" /\ cwork'[k].op = "disable"
  BY <1>1, <1>2, <1>3, OtherCommandPosted
<1>6. ControlTypeOK'
  BY <1>a, <1>1, <1>3, <1>4 DEF ControlTypeOK
<1>7. IdsIssued'
  <2>1. \A k \in 1..L : cwork[k].op # "config" =>
          /\ cwork[k].s \in 1..lastId
          /\ cwork[k].s = ctrl["control"].s => cwork[k].op \in Votes
    BY <1>a DEF IdsIssued
  <2>2. ctrl["control"].s \in Nat /\ ctrl["control"].s <= lastId /\ ctrl["config"].s \in Nat
        /\ ctrl["config"].s <= lastId
    BY <1>a DEF IdsIssued, Queues
  <2>3. \A k \in 1..Len(cwork') : cwork'[k].op # "config" =>
          /\ cwork'[k].s \in 1..lastId'
          /\ cwork'[k].s = ctrl'["aiding"].s => cwork'[k].op = "delete"
          /\ cwork'[k].s = ctrl'["control"].s => cwork'[k].op \in Votes
    BY <2>1, <2>2, <1>1, <1>2, <1>3, <1>4, <1>a
  <2>4. \A q \in Queues : ctrl'[q].s <= lastId'
    BY <2>2, <1>1, <1>3, <1>a DEF Queues
  <2> QED BY <2>2, <2>3, <2>4, <1>1, <1>3, <1>a DEF IdsIssued
<1>8. RequestsWait'
  <2>1. \A k \in 1..Len(ctrl'["aiding"].reqs) : ctrl'["aiding"].reqs[k] = "delete"
    BY <1>3
  <2>2. (Waits("enable")' <=> Waits("enable")) /\ (Waits("disable")' <=> Waits("disable"))
    BY <1>5 DEF Votes
  <2>3. /\ \A k \in 1..Len(ctrl["config"].reqs) : ctrl["config"].reqs[k] = "config"
        /\ ctrl["control"].reqs = IF Waits("enable")
             THEN IF Waits("disable") THEN <<"enable", "disable">> ELSE <<"enable">>
             ELSE IF Waits("disable") THEN <<"disable">> ELSE <<>>
        /\ Waits("disable") => ~enabled
    BY <1>a DEF RequestsWait
  <2>4. ctrl'["control"].reqs = IF Waits("enable")'
          THEN IF Waits("disable")' THEN <<"enable", "disable">> ELSE <<"enable">>
          ELSE IF Waits("disable")' THEN <<"disable">> ELSE <<>>
    BY <2>2, <2>3, <1>3
  <2>5. Waits("disable")' => ~enabled'
    BY <2>2, <2>3, <1>1
  <2>6. \A k \in 1..Len(ctrl'["config"].reqs) : ctrl'["config"].reqs[k] = "config"
    BY <2>3, <1>3
  <2> QED BY <2>1, <2>4, <2>5, <2>6, <1>5 DEF RequestsWait
<1>9. ConfigLeads'
  <2>1. /\ \A k \in 1..L : Latest(cwork', {"config"}, k) => Latest(cwork, {"config"}, k)
        /\ ~Latest(cwork', {"config"}, L + 1)
        /\ Clear(cwork', {"config"}, 0, Len(cwork') + 1) => Clear(cwork, {"config"}, 0, L + 1)
    BY <1>a, <1>1, <1>2, ClearAppended
  <2> QED BY <2>1, <1>a, <1>1, <1>4 DEF ConfigLeads, Asked
<1>10. ToldOwn' /\ ModemAgrees'
  BY <1>a, <1>1 DEF ToldOwn, ModemAgrees
<1> QED BY <1>5, <1>6, <1>7, <1>8, <1>9, <1>10 DEF ControlIInv

LEMMA ConfigStep ==
  ASSUME ControlIInv, NEW cc \in Configs \union {NoClient}, locAPIGnssUpdateConfig(cc)
  PROVE  ControlIInv'
<1> DEFINE c == Command("config", 0, cc)
           L == Len(cwork)
<1>a. /\ ControlTypeOK /\ IdsIssued /\ VotesLead /\ RequestsWait /\ ConfigLeads
      /\ ModemAgrees /\ ToldOwn /\ lastId \in Nat \ {0} /\ vote \in Nat /\ enabled \in BOOLEAN /\ Len(cwork) \in Nat
      /\ cwork \in Seq(Commands) /\ ctrl \in [Queues -> [s : Nat, reqs : Seq(CtrlOps)]]
  BY LenProperties DEF ControlIInv, ControlTypeOK
<1>b. UNCHANGED <<vote, conf, modem, told, declined, enabled, lastId>>
  BY DEF locAPIGnssUpdateConfig, ControlCall
<1>1. CASE cc = config
  <2>1. UNCHANGED <<controlVars, lastId>>
    BY <1>1, <1>b DEF locAPIGnssUpdateConfig, controlVars
  <2> QED BY <2>1, <1>a, OthersKeepControl
<1>2. CASE cc # config /\ cc = NoClient
  <2>1. UNCHANGED <<cwork, ctrl>> /\ config' = NoClient
    BY <1>2 DEF locAPIGnssUpdateConfig
  <2>2. ControlTypeOK' /\ IdsIssued' /\ ToldOwn' /\ ModemAgrees'
    BY <2>1, <1>a, <1>b DEF ControlTypeOK, IdsIssued, ToldOwn, ModemAgrees
  <2>3. VotesLead' /\ RequestsWait'
    BY <2>1, <1>a, <1>b DEF VotesLead, RequestsWait, Waits
  <2>4. ConfigLeads'
    BY <2>1 DEF ConfigLeads, Asked
  <2> QED BY <2>2, <2>3, <2>4 DEF ControlIInv
<1>3. CASE cc # config /\ cc # NoClient
  <2>1. /\ config' = cc /\ cwork' = Append(cwork, c)
        /\ ctrl' = [ctrl EXCEPT !["config"].reqs = Append(@, "config")]
    BY <1>3 DEF locAPIGnssUpdateConfig
  <2>2. c \in Commands /\ c.op = "config" /\ c.config = cc /\ c.op \notin Votes
    BY <1>3 DEF Commands, Command, CtrlOps, Votes
  <2>3. /\ ctrl' \in [Queues -> [s : Nat, reqs : Seq(CtrlOps)]]
        /\ ctrl'["config"].s = ctrl["config"].s
        /\ ctrl'["config"].reqs = Append(ctrl["config"].reqs, "config")
        /\ ctrl'["control"] = ctrl["control"] /\ ctrl'["aiding"] = ctrl["aiding"]
    <3>1. /\ ctrl["config"].reqs \in Seq(CtrlOps) /\ ctrl["config"].s \in Nat
          /\ "config" \in CtrlOps
      BY <1>a DEF Queues, CtrlOps
    <3>2. Append(ctrl["config"].reqs, "config") \in Seq(CtrlOps)
      BY <3>1, Appended
    <3>3. [ctrl["config"] EXCEPT !.reqs = Append(@, "config")]
            = [s |-> ctrl["config"].s, reqs |-> Append(ctrl["config"].reqs, "config")]
      <4>1. ctrl["config"] \in [s : Nat, reqs : Seq(CtrlOps)]
        BY <1>a DEF Queues
      <4>2. ctrl["config"] = [s |-> ctrl["config"].s, reqs |-> ctrl["config"].reqs]
        BY <4>1
      <4> QED BY <4>2
    <3>4. [s |-> ctrl["config"].s, reqs |-> Append(ctrl["config"].reqs, "config")]
            \in [s : Nat, reqs : Seq(CtrlOps)]
      BY <3>1, <3>2
    <3> QED BY <3>3, <3>4, <1>a, <2>1 DEF Queues
  <2>4. /\ cwork' \in Seq(Commands) /\ Len(cwork') = L + 1
        /\ \A k \in 1..L : cwork'[k] = cwork[k]
        /\ cwork'[L + 1] = c
        /\ \A k \in 1..Len(cwork') : k \in 1..L \/ k = L + 1
    BY <1>a, <2>1, <2>2, CommandPosted
  <2> HIDE DEF c
  <2>5. /\ VotesLead'
        /\ \A op \in Votes : Waits(op)' <=> Waits(op)
        /\ \A j, k \in 1..Len(cwork') :
             (j < k /\ cwork'[j].op \in Votes /\ cwork'[k].op \in Votes
                /\ cwork'[j].s = cwork'[k].s)
               => cwork'[j].op = "enable" /\ cwork'[k].op = "disable"
    BY <1>b, <2>1, <2>2, <2>3, OtherCommandPosted
  <2>6. ControlTypeOK'
    BY <1>a, <1>b, <2>1, <2>3, <2>4 DEF ControlTypeOK
  <2>7. IdsIssued'
    <3>1. \A q \in Queues : ctrl'[q].s = ctrl[q].s
      BY <2>3 DEF Queues
    <3>2. \A q \in Queues : ctrl'[q].s <= lastId'
      BY <3>1, <1>a, <1>b DEF IdsIssued
    <3>3. \A k \in 1..Len(cwork') : cwork'[k].op # "config" => k \in 1..L /\ cwork'[k] = cwork[k]
      BY <2>2, <2>4
    <3> QED BY <3>2, <3>3, <2>3, <1>a, <1>b DEF IdsIssued
  <2>8. RequestsWait'
    <3>1. \A k \in 1..Len(ctrl'["config"].reqs) : ctrl'["config"].reqs[k] = "config"
      <4>1. ctrl["config"].reqs \in Seq(CtrlOps) /\ "config" \in CtrlOps
        BY <1>a DEF Queues, CtrlOps
      <4>2. \A k \in 1..Len(ctrl["config"].reqs) : ctrl["config"].reqs[k] = "config"
        BY <1>a DEF RequestsWait
      <4>3. \A k \in 1..Len(Append(ctrl["config"].reqs, "config")) :
              Append(ctrl["config"].reqs, "config")[k] = "config"
        BY <4>1, <4>2, AppendedSame
      <4> QED BY <4>3, <2>3
    <3>2. (Waits("enable")' <=> Waits("enable")) /\ (Waits("disable")' <=> Waits("disable"))
      BY <2>5 DEF Votes
    <3> QED BY <3>1, <3>2, <1>b, <2>3, <2>5, <1>a, ZenonT(40) DEF RequestsWait
  <2>9. ConfigLeads'
    <3>1. /\ \A k \in 1..L : ~Latest(cwork', {"config"}, k)
          /\ ~Clear(cwork', {"config"}, 0, Len(cwork') + 1)
      BY <1>a, <2>1, <2>2, ClearAppended
    <3> QED BY <3>1, <1>b, <2>1, <2>2, <2>4 DEF ConfigLeads
  <2>10. ToldOwn' /\ ModemAgrees'
    BY <1>a, <1>b DEF ToldOwn, ModemAgrees
  <2> QED BY <2>5, <2>6, <2>7, <2>8, <2>9, <2>10 DEF ControlIInv
<1> QED BY <1>1, <1>2, <1>3

-----------------------------------------------------------------------------
(* GnssAdapter serves a command.                                              *)
LEMMA ServeTells ==
  ASSUME ControlIInv, ServeControl
  PROVE  /\ ctrl' \in [Queues -> [s : Nat, reqs : Seq(CtrlOps)]]
         /\ \A q \in Queues : ctrl'[q].s = ctrl[q].s
         /\ \A k \in 1..Len(ctrl'["config"].reqs) : ctrl'["config"].reqs[k] = "config"
         /\ \A k \in 1..Len(ctrl'["aiding"].reqs) : ctrl'["aiding"].reqs[k] = "delete"
         /\ ctrl'["control"].reqs =
              IF cwork[1].op \in Votes /\ cwork[1].s = ctrl["control"].s
              THEN Tail(ctrl["control"].reqs) ELSE ctrl["control"].reqs
         /\ ToldOwn'
<1> DEFINE c == Head(cwork)
           q == QueueOf(c)
<1>a. /\ ControlTypeOK /\ IdsIssued /\ RequestsWait /\ ToldOwn
      /\ cwork \in Seq(Commands) /\ ctrl \in [Queues -> [s : Nat, reqs : Seq(CtrlOps)]]
  BY DEF ControlIInv, ControlTypeOK
<1>1. cwork # <<>> /\ Tell(c)
  BY DEF ServeControl
<1>2. c = cwork[1] /\ cwork[1] \in Commands /\ 1 \in 1..Len(cwork)
  <2>1. Len(cwork) \in Nat \ {0} /\ c = cwork[1] /\ cwork[1] \in Commands
    BY <1>a, <1>1, Shortened
  <2> QED BY <2>1
<1>3. c.op \in CtrlOps /\ c.op = cwork[1].op /\ c.s = cwork[1].s
  BY <1>2 DEF Commands
<1>4. \A r \in Queues : ctrl[r] \in [s : Nat, reqs : Seq(CtrlOps)] /\ ctrl[r].s \in Nat
                          /\ ctrl[r].reqs \in Seq(CtrlOps)
  BY <1>a
<1>5. q \in Queues \union {NoClient}
  BY DEF QueueOf, Queues
<1>6. q \in Queues => q # NoClient
  BY NoClientAssumption DEF NoClientAssumption, Queues
\* whose request is told
<1>7. /\ c.op = "config" => q = "config"
      /\ q = "config" => c.op = "config"
      /\ q = "aiding" => c.op = "delete"
      /\ q = "control" => c.op \in Votes /\ c.s = ctrl["control"].s
      /\ c.op \in Votes /\ c.s = ctrl["control"].s => q = "control"
  <2>1. NoClient \notin Queues
    BY NoClientAssumption DEF NoClientAssumption, Queues
  <2>2. c.op # "config" => /\ c.s = ctrl["aiding"].s => c.op = "delete"
                           /\ c.s = ctrl["control"].s => c.op \in Votes
    BY <1>a, <1>2, <1>3 DEF IdsIssued
  <2> HIDE DEF c
  <2> QED BY <2>1, <2>2, <1>3 DEF QueueOf, Queues, Votes
<1>8. q = "control" => ctrl["control"].reqs # <<>> /\ Head(ctrl["control"].reqs) = c.op
  <2> SUFFICES ASSUME q = "control"
               PROVE  ctrl["control"].reqs # <<>> /\ Head(ctrl["control"].reqs) = c.op
    OBVIOUS
  <2>1. c.op \in Votes /\ c.s = ctrl["control"].s
    BY <1>7
  <2>2. Waits(c.op)
    BY <2>1, <1>2 DEF Waits
  <2>3. c.op = "disable" => ~Waits("enable")
    <3> SUFFICES ASSUME c.op = "disable", NEW k \in 1..Len(cwork), cwork[k].op = "enable",
                        cwork[k].s = ctrl["control"].s
                 PROVE  FALSE
      BY DEF Waits
    <3>1. k # 1 /\ 1 < k
      BY <1>3
    <3> QED BY <3>1, <1>2, <1>3, <2>1, <1>a DEF RequestsWait, Votes
  <2>4. ctrl["control"].reqs = IF Waits("enable")
          THEN IF Waits("disable") THEN <<"enable", "disable">> ELSE <<"enable">>
          ELSE IF Waits("disable") THEN <<"disable">> ELSE <<>>
    BY <1>a DEF RequestsWait
  <2>5. c.op = "enable" \/ c.op = "disable"
    BY <2>1 DEF Votes
  <2> HIDE DEF c, q
  <2>6. CASE c.op = "enable"
    <3>1. ctrl["control"].reqs = <<"enable", "disable">> \/ ctrl["control"].reqs = <<"enable">>
      BY <2>2, <2>4, <2>6
    <3> QED BY <3>1, <2>6
  <2>7. CASE c.op = "disable"
    <3>1. ctrl["control"].reqs = <<"disable">>
      BY <2>2, <2>3, <2>4, <2>7
    <3> QED BY <3>1, <2>7
  <2> QED BY <2>5, <2>6, <2>7
<1>9. CASE q \in Queues /\ ctrl[q].reqs # <<>>
  <2>1. /\ told' = [req |-> Head(ctrl[q].reqs), op |-> c.op]
        /\ ctrl' = [ctrl EXCEPT ![q].reqs = Tail(@)]
    BY <1>1, <1>6, <1>9 DEF Tell
  <2> DEFINE old == ctrl[q].reqs
  <2>2. /\ old \in Seq(CtrlOps) /\ Tail(old) \in Seq(CtrlOps) /\ Head(old) = old[1]
        /\ Len(old) \in Nat \ {0} /\ Len(Tail(old)) = Len(old) - 1
        /\ \A k \in 1..Len(old) - 1 : Tail(old)[k] = old[k + 1]
    BY <1>4, <1>9, Shortened
  <2>3. ctrl'[q] = [s |-> ctrl[q].s, reqs |-> Tail(old)]
    <3>1. ctrl[q] = [s |-> ctrl[q].s, reqs |-> ctrl[q].reqs]
      BY <1>4, <1>9
    <3>2. ctrl'[q] = [ctrl[q] EXCEPT !.reqs = Tail(old)]
      BY <2>1, <1>a, <1>9
    <3> QED BY <3>1, <3>2
  <2>4. [s |-> ctrl[q].s, reqs |-> Tail(old)] \in [s : Nat, reqs : Seq(CtrlOps)]
    BY <2>2, <1>4, <1>9
  <2> HIDE DEF c, q
  <2>5. ctrl' \in [Queues -> [s : Nat, reqs : Seq(CtrlOps)]]
        /\ \A r \in Queues : r # q => ctrl'[r] = ctrl[r]
    BY <2>1, <2>3, <2>4, <1>a, <1>9
  <2>6. \A r \in Queues : ctrl'[r].s = ctrl[r].s
    BY <2>3, <2>5
  <2>7. ctrl'[q].reqs = Tail(old)
    BY <2>3
  <2>8. \A k \in 1..Len(ctrl'["config"].reqs) : ctrl'["config"].reqs[k] = "config"
    <3>1. \A k \in 1..Len(ctrl["config"].reqs) : ctrl["config"].reqs[k] = "config"
      BY <1>a DEF RequestsWait
    <3>2. CASE q = "config"
      <4>1. \A k \in 1..Len(Tail(old)) : k \in 1..Len(old) - 1 /\ k + 1 \in 1..Len(old)
        BY <2>2
      <4>2. \A k \in 1..Len(old) : old[k] = "config"
        BY <3>1, <3>2
      <4>3. ctrl'["config"].reqs = Tail(old)
        BY <2>7, <3>2
      <4> HIDE DEF old
      <4> QED BY <4>1, <4>2, <4>3, <2>2
    <3>3. CASE q # "config"
      BY <3>1, <3>3, <2>5 DEF Queues
    <3> QED BY <3>2, <3>3
  <2>9. \A k \in 1..Len(ctrl'["aiding"].reqs) : ctrl'["aiding"].reqs[k] = "delete"
    <3>1. \A k \in 1..Len(ctrl["aiding"].reqs) : ctrl["aiding"].reqs[k] = "delete"
      BY <1>a DEF RequestsWait
    <3>2. CASE q = "aiding"
      <4>1. \A k \in 1..Len(Tail(old)) : k \in 1..Len(old) - 1 /\ k + 1 \in 1..Len(old)
        BY <2>2
      <4>2. \A k \in 1..Len(old) : old[k] = "delete"
        BY <3>1, <3>2
      <4>3. ctrl'["aiding"].reqs = Tail(old)
        BY <2>7, <3>2
      <4> HIDE DEF old
      <4> QED BY <4>1, <4>2, <4>3, <2>2
    <3>3. CASE q # "aiding"
      BY <3>1, <3>3, <2>5 DEF Queues
    <3> QED BY <3>2, <3>3
  <2>10. ctrl'["control"].reqs =
           IF cwork[1].op \in Votes /\ cwork[1].s = ctrl["control"].s
           THEN Tail(ctrl["control"].reqs) ELSE ctrl["control"].reqs
    BY <1>3, <1>7, <2>5, <2>7 DEF Queues
  <2>11. told'.req = told'.op
    <3>1. q = "config" => old[1] = "config"
      BY <1>a, <2>2 DEF RequestsWait
    <3>2. q = "aiding" => old[1] = "delete"
      BY <1>a, <2>2 DEF RequestsWait
    <3>3. Head(old) = c.op
      BY <3>1, <3>2, <2>2, <1>7, <1>8, <1>9 DEF Queues
    <3> QED BY <3>3, <2>1
  <2> QED BY <2>5, <2>6, <2>8, <2>9, <2>10, <2>11 DEF ToldOwn
<1>10. CASE ~(q \in Queues /\ ctrl[q].reqs # <<>>)
  <2>1. ctrl' = ctrl /\ told' = told
    BY <1>1, <1>5, <1>10 DEF Tell
  <2>2. q # "control"
    BY <1>8, <1>10 DEF Queues
  <2>3. ~(cwork[1].op \in Votes /\ cwork[1].s = ctrl["control"].s)
    BY <2>2, <1>3, <1>7
  <2> QED BY <2>1, <2>3, <1>a DEF RequestsWait, ToldOwn
<1> QED BY <1>9, <1>10

\* an item sent is the adapter's, or is declined
LEMMA SentAgrees ==
  ASSUME ModemAgrees, NEW items \in SUBSET Sendable, NEW value, Send(items, value),
         \A i \in items : value[i] = IF i = "lock" /\ vote' # 0 THEN NoLock ELSE conf'[i],
         \A i \in Sendable \ items :
           (i = "lock" => vote' = vote) /\ (conf'[i] = conf[i] \/ (i = "lock" /\ vote # 0))
  PROVE  ModemAgrees'
<1>1. PICK D \in SUBSET items :
        /\ modem' = [i \in Sendable |-> IF i \in items \ D THEN value[i] ELSE modem[i]]
        /\ declined' = (declined \ items) \union D
  BY DEF Send
<1> SUFFICES ASSUME NEW i \in Sendable \ declined'
             PROVE  modem'[i] = IF i = "lock" /\ vote' # 0 THEN NoLock ELSE conf'[i]
  BY DEF ModemAgrees
<1>2. CASE i \in items
  BY <1>1, <1>2
<1>3. CASE i \notin items
  BY <1>1, <1>3 DEF ModemAgrees
<1> QED BY <1>2, <1>3

LEMMA VoteServed ==
  ASSUME ModemAgrees, vote \in Nat, NEW s \in Nat, s > 0, conf' = conf
  PROVE  /\ Enable(s) => vote' = (IF vote > 0 THEN vote ELSE s) /\ ModemAgrees'
         /\ Disable(s) => vote' = (IF vote # s THEN vote ELSE 0) /\ ModemAgrees'
         /\ UNCHANGED <<vote, modem, declined>> => ModemAgrees'
<1>0. "lock" \in Sendable /\ (vote # 0 <=> vote > 0)
  BY DEF Sendable
<1>1. UNCHANGED <<vote, modem, declined>> => ModemAgrees'
  BY DEF ModemAgrees
<1>2. ASSUME Enable(s) PROVE vote' = (IF vote > 0 THEN vote ELSE s) /\ ModemAgrees'
  <2>1. CASE vote > 0
    BY <2>1, <1>1, <1>2 DEF Enable
  <2>2. CASE ~(vote > 0)
    <3>1. vote' = s /\ vote = 0 /\ Send({"lock"}, [lock |-> NoLock])
      BY <2>2, <1>2 DEF Enable
    <3>2. [lock |-> NoLock]["lock"] = NoLock
      OBVIOUS
    <3> DEFINE v == [lock |-> NoLock]
    <3>3. Send({"lock"}, v) /\ v["lock"] = NoLock /\ {"lock"} \in SUBSET Sendable
      BY <3>1, <3>2, <1>0
    <3> HIDE DEF v
    <3>4. ModemAgrees'
      BY <3>1, <3>3, SentAgrees
    <3> QED BY <3>1, <3>4, <2>2
  <2> QED BY <2>1, <2>2
<1>3. ASSUME Disable(s) PROVE vote' = (IF vote # s THEN vote ELSE 0) /\ ModemAgrees'
  <2>1. CASE vote # s
    BY <2>1, <1>1, <1>3 DEF Disable
  <2>2. CASE vote = s
    <3>1. vote' = 0 /\ Send({"lock"}, conf) /\ {"lock"} \in SUBSET Sendable
      BY <2>2, <1>0, <1>3 DEF Disable
    <3>2. ModemAgrees'
      BY <3>1, SentAgrees
    <3> QED BY <3>1, <3>2, <2>2
  <2> QED BY <2>1, <2>2
<1> QED BY <1>1, <1>2, <1>3

LEMMA ConfigServed ==
  ASSUME ModemAgrees, NEW c \in Configs, Configure(c)
  PROVE  vote' = vote /\ ModemAgrees'
<1>1. /\ conf' = [i \in DOMAIN GpsConf |-> IF i \in DOMAIN c \ Ignored THEN c[i] ELSE conf[i]]
      /\ Send(Sent(c), c) /\ vote' = vote
  BY DEF Configure
<1>2. /\ Sendable \subseteq DOMAIN GpsConf \ Ignored /\ "lock" \notin Compared
      /\ Sendable = Compared \union {"lock"}
  BY ItemsAssumption DEF ItemsAssumption, Sendable
<1>3. Sent(c) \in SUBSET Sendable /\ \A i \in Sent(c) : i \in DOMAIN c /\ ~(i = "lock" /\ vote # 0)
  BY <1>2 DEF Sent
<1>4. \A i \in Sent(c) : c[i] = conf'[i] /\ ~(i = "lock" /\ vote' # 0)
  BY <1>1, <1>2, <1>3
<1>5. \A i \in Sendable \ Sent(c) : conf'[i] = conf[i] \/ (i = "lock" /\ vote # 0)
  BY <1>1, <1>2 DEF Sent
<1>6. ModemAgrees'
  BY <1>1, <1>3, <1>4, <1>5, SentAgrees
<1> QED BY <1>1, <1>6

LEMMA ServeStep == ASSUME ControlIInv, ServeControl PROVE ControlIInv'
<1> DEFINE c == cwork[1]
           L == Len(cwork)
<1>a. /\ ControlTypeOK /\ IdsIssued /\ VotesLead /\ RequestsWait /\ ConfigLeads
      /\ ModemAgrees /\ ToldOwn /\ lastId \in Nat \ {0} /\ vote \in Nat /\ enabled \in BOOLEAN
      /\ cwork \in Seq(Commands) /\ ctrl \in [Queues -> [s : Nat, reqs : Seq(CtrlOps)]]
  BY DEF ControlIInv, ControlTypeOK
<1>1. cwork # <<>> /\ cwork' = Tail(cwork) /\ UNCHANGED <<lastId, enabled, config>>
  BY DEF ServeControl, apiVars
<1>2. /\ L \in Nat \ {0} /\ Head(cwork) = c /\ c \in Commands /\ 1 \in 1..L
      /\ cwork' \in Seq(Commands) /\ Len(cwork') = L - 1
      /\ \A k \in 1..Len(cwork') : k + 1 \in 1..L /\ 1 < k + 1 /\ cwork'[k] = cwork[k + 1]
  BY <1>a, <1>1, Shortened
<1>3. /\ ctrl' \in [Queues -> [s : Nat, reqs : Seq(CtrlOps)]]
      /\ \A q \in Queues : ctrl'[q].s = ctrl[q].s
      /\ \A k \in 1..Len(ctrl'["config"].reqs) : ctrl'["config"].reqs[k] = "config"
      /\ \A k \in 1..Len(ctrl'["aiding"].reqs) : ctrl'["aiding"].reqs[k] = "delete"
      /\ ctrl'["control"].reqs = IF c.op \in Votes /\ c.s = ctrl["control"].s
                                 THEN Tail(ctrl["control"].reqs) ELSE ctrl["control"].reqs
      /\ ToldOwn'
  BY ServeTells
<1>4. /\ vote' = IF c.op = "enable" THEN IF vote > 0 THEN vote ELSE c.s
                 ELSE IF c.op = "disable" THEN IF vote # c.s THEN vote ELSE 0 ELSE vote
      /\ c.op = "config" => Configure(c.config)
      /\ c.op # "config" => conf' = conf
      /\ ModemAgrees'
  <2>1. \/ c.op = "enable" /\ Enable(c.s) /\ UNCHANGED conf
        \/ c.op = "disable" /\ Disable(c.s) /\ UNCHANGED conf
        \/ c.op = "config" /\ Configure(c.config)
        \/ c.op = "delete" /\ UNCHANGED <<vote, conf, modem, declined>>
    BY <1>2 DEF ServeControl
  <2>2. c.s \in Nat /\ (c.op # "config" => c.s > 0) /\ (c.op = "config" => c.config \in Configs)
    BY <1>a, <1>2 DEF Commands, IdsIssued
  <2> QED BY <2>1, <2>2, <1>a, VoteServed, ConfigServed
<1>5. \A ops :
        /\ \A j, k \in 1..Len(cwork') : Clear(cwork', ops, j, k) <=> Clear(cwork, ops, j + 1, k + 1)
        /\ \A k \in 1..Len(cwork') :
             /\ First(cwork', ops, k) <=> cwork[k + 1].op \in ops /\ Clear(cwork, ops, 1, k + 1)
             /\ Latest(cwork', ops, k) <=> Latest(cwork, ops, k + 1)
             /\ First(cwork, ops, k + 1) <=> First(cwork', ops, k) /\ c.op \notin ops
        /\ First(cwork, ops, 1) <=> c.op \in ops
        /\ Latest(cwork, ops, 1) <=> c.op \in ops /\ Clear(cwork', ops, 0, Len(cwork') + 1)
        /\ Clear(cwork, ops, 0, L + 1) <=> Clear(cwork', ops, 0, Len(cwork') + 1) /\ c.op \notin ops
  BY <1>a, <1>1, ClearShortened
<1>6. c.s \in Nat /\ c.op \in CtrlOps /\ (c.op # "config" => c.s > 0)
  BY <1>a, <1>2 DEF Commands, IdsIssued
<1> HIDE DEF c, L
<1>7. ControlTypeOK'
  <2>1. vote' \in Nat
    BY <1>4, <1>6, <1>a
  <2>2. lastId' \in Nat \ {0} /\ enabled' \in BOOLEAN
    BY <1>a, <1>1
  <2> QED BY <2>1, <2>2, <1>2, <1>3 DEF ControlTypeOK
<1>8. IdsIssued'
  <2>1. \A q \in Queues : ctrl'[q].s <= lastId'
    BY <1>1, <1>3, <1>a DEF IdsIssued
  <2>2. ctrl'["control"].s = ctrl["control"].s /\ ctrl'["aiding"].s = ctrl["aiding"].s
    BY <1>3 DEF Queues
  <2>3. \A k \in 1..L : cwork[k].op # "config" =>
          /\ cwork[k].s \in 1..lastId
          /\ cwork[k].s = ctrl["aiding"].s => cwork[k].op = "delete"
          /\ cwork[k].s = ctrl["control"].s => cwork[k].op \in Votes
    BY <1>a DEF IdsIssued, L
  <2>4. \A k \in 1..Len(cwork') : cwork'[k].op # "config" =>
          /\ cwork'[k].s \in 1..lastId'
          /\ cwork'[k].s = ctrl'["aiding"].s => cwork'[k].op = "delete"
          /\ cwork'[k].s = ctrl'["control"].s => cwork'[k].op \in Votes
    BY <2>2, <2>3, <1>1, <1>2
  <2> QED BY <2>1, <2>2, <2>4, <1>1, <1>a DEF IdsIssued
<1>9. VotesLead'
  <2>0. ctrl'["control"].s = ctrl["control"].s /\ enabled' = enabled
    BY <1>1, <1>3 DEF Queues
  <2>a. /\ c.op \in Votes => vote = (IF c.op = "enable" THEN 0 ELSE c.s)
        /\ \A k \in 1..Len(cwork') : (c.op \in Votes /\ First(cwork', Votes, k)) =>
             /\ c.op # cwork'[k].op
             /\ cwork'[k].op = "disable" => c.s = cwork'[k].s
    <3>1. c.op \in Votes => vote = (IF c.op = "enable" THEN 0 ELSE c.s)
      BY <1>a, <1>2, <1>5 DEF VotesLead, c, L
    <3>2. ASSUME NEW k \in 1..Len(cwork'), c.op \in Votes, First(cwork', Votes, k)
          PROVE  c.op # cwork'[k].op /\ (cwork'[k].op = "disable" => c.s = cwork'[k].s)
      <4>1. /\ 1 \in 1..Len(cwork) /\ k + 1 \in 1..Len(cwork) /\ 1 < k + 1
            /\ cwork[1].op \in Votes /\ cwork[k + 1].op \in Votes
            /\ Clear(cwork, Votes, 1, k + 1) /\ cwork'[k] = cwork[k + 1]
        BY <3>2, <1>2, <1>5 DEF c, L
      <4> QED BY <4>1, <1>a DEF VotesLead, c
    <3> QED BY <3>1, <3>2
  <2>b. c.op \in Votes => vote' = IF c.op = "enable" THEN c.s ELSE 0
    BY <2>a, <1>4, <1>6 DEF Votes
  <2>c. c.op \notin Votes => vote' = vote
    BY <1>4 DEF Votes
  <2>1. ASSUME NEW k \in 1..Len(cwork'), First(cwork', Votes, k)
        PROVE  vote' = (IF cwork'[k].op = "enable" THEN 0 ELSE cwork'[k].s)
    <3>1. CASE c.op \in Votes
      <4>1. cwork'[k].op \in Votes
        BY <2>1, <1>2, <1>5
      <4> QED BY <3>1, <4>1, <2>1, <2>a, <2>b DEF Votes
    <3>2. CASE c.op \notin Votes
      <4>1. First(cwork, Votes, k + 1) /\ k + 1 \in 1..Len(cwork) /\ cwork'[k] = cwork[k + 1]
        BY <3>2, <2>1, <1>2, <1>5 DEF L
      <4> QED BY <4>1, <3>2, <2>c, <1>a DEF VotesLead
    <3> QED BY <3>1, <3>2
  <2>2. ASSUME NEW j \in 1..Len(cwork'), NEW k \in 1..Len(cwork'), j < k,
               cwork'[j].op \in Votes, cwork'[k].op \in Votes, Clear(cwork', Votes, j, k)
        PROVE  /\ cwork'[j].op # cwork'[k].op
               /\ cwork'[k].op = "disable" => cwork'[j].s = cwork'[k].s
    <3>1. /\ j + 1 \in 1..Len(cwork) /\ k + 1 \in 1..Len(cwork)
          /\ cwork'[j] = cwork[j + 1] /\ cwork'[k] = cwork[k + 1]
          /\ Clear(cwork, Votes, j + 1, k + 1)
      BY <2>2, <1>2, <1>5 DEF L
    <3>2. j + 1 < k + 1
      BY <2>2, <1>2
    <3> QED BY <3>1, <3>2, <2>2, <1>a DEF VotesLead
  <2>3. ASSUME NEW k \in 1..Len(cwork'), Latest(cwork', Votes, k)
        PROVE  cwork'[k].s = ctrl'["control"].s /\ (enabled' <=> cwork'[k].op = "enable")
    <3>1. k + 1 \in 1..Len(cwork) /\ Latest(cwork, Votes, k + 1) /\ cwork'[k] = cwork[k + 1]
      BY <2>3, <1>2, <1>5 DEF L
    <3>2. cwork[k + 1].s = ctrl["control"].s /\ (enabled <=> cwork[k + 1].op = "enable")
      BY <3>1, <1>a DEF VotesLead
    <3> QED BY <3>1, <3>2, <2>0
  <2>4. ASSUME Clear(cwork', Votes, 0, Len(cwork') + 1)
        PROVE  vote' = (IF enabled' THEN ctrl'["control"].s ELSE 0)
    <3>1. CASE c.op \in Votes
      <4>1. Latest(cwork, Votes, 1)
        BY <3>1, <2>4, <1>5
      <4>2. c.s = ctrl["control"].s /\ (enabled <=> c.op = "enable")
        BY <4>1, <1>2, <1>a DEF VotesLead, c, L
      <4> QED BY <4>2, <3>1, <2>0, <2>b
    <3>2. CASE c.op \notin Votes
      <4>1. Clear(cwork, Votes, 0, Len(cwork) + 1)
        BY <3>2, <2>4, <1>5 DEF L
      <4>2. vote = (IF enabled THEN ctrl["control"].s ELSE 0)
        BY <4>1, <1>a DEF VotesLead
      <4> QED BY <4>2, <3>2, <2>0, <2>c
    <3> QED BY <3>1, <3>2
  <2> QED BY <2>1, <2>2, <2>3, <2>4 DEF VotesLead
<1>10. RequestsWait'
  <2>0. ctrl'["control"].s = ctrl["control"].s
    BY <1>3 DEF Queues
  <2>1. \A j, k \in 1..Len(cwork') :
          (j < k /\ cwork'[j].op \in Votes /\ cwork'[k].op \in Votes /\ cwork'[j].s = cwork'[k].s)
            => cwork'[j].op = "enable" /\ cwork'[k].op = "disable"
    <3> SUFFICES ASSUME NEW j \in 1..Len(cwork'), NEW k \in 1..Len(cwork'), j < k,
                        cwork'[j].op \in Votes, cwork'[k].op \in Votes, cwork'[j].s = cwork'[k].s
                 PROVE  cwork'[j].op = "enable" /\ cwork'[k].op = "disable"
      OBVIOUS
    <3>1. /\ j + 1 \in 1..Len(cwork) /\ k + 1 \in 1..Len(cwork) /\ j + 1 < k + 1
          /\ cwork'[j] = cwork[j + 1] /\ cwork'[k] = cwork[k + 1]
      BY <1>2 DEF L
    <3> QED BY <3>1, <1>a DEF RequestsWait
  \* an operation waits afterwards unless it was the one served
  <2>2. ASSUME NEW op \in Votes
        PROVE  Waits(op)' <=> Waits(op) /\ ~(c.op = op /\ c.s = ctrl["control"].s)
    <3>1. ASSUME Waits(op)' PROVE Waits(op) /\ ~(c.op = op /\ c.s = ctrl["control"].s)
      <4>1. PICK k \in 1..Len(cwork') : cwork'[k].op = op /\ cwork'[k].s = ctrl'["control"].s
        BY <3>1 DEF Waits
      <4>2. /\ k + 1 \in 1..Len(cwork) /\ 1 \in 1..Len(cwork) /\ 1 < k + 1
            /\ cwork[k + 1].op = op /\ cwork[k + 1].s = ctrl["control"].s
        BY <4>1, <1>2, <2>0 DEF L
      <4>3. ~(cwork[1].op = op /\ cwork[1].s = ctrl["control"].s)
        BY <4>2, <1>a DEF RequestsWait, Votes
      <4> QED BY <4>2, <4>3 DEF Waits, c
    <3>2. ASSUME Waits(op), ~(c.op = op /\ c.s = ctrl["control"].s) PROVE Waits(op)'
      <4>1. PICK k \in 1..Len(cwork) : cwork[k].op = op /\ cwork[k].s = ctrl["control"].s
        BY <3>2 DEF Waits
      <4>2. k # 1
        BY <4>1, <3>2 DEF c
      <4>3. k - 1 \in 1..Len(cwork') /\ (k - 1) + 1 = k
        BY <4>2, <1>2 DEF L
      <4>4. cwork'[k - 1] = cwork[k]
        BY <4>3, <1>2
      <4> QED BY <4>1, <4>3, <4>4, <2>0 DEF Waits
    <3> QED BY <3>1, <3>2
  <2>3. /\ ctrl["control"].reqs = IF Waits("enable")
             THEN IF Waits("disable") THEN <<"enable", "disable">> ELSE <<"enable">>
             ELSE IF Waits("disable") THEN <<"disable">> ELSE <<>>
        /\ Waits("disable") => ~enabled
    BY <1>a DEF RequestsWait
  <2>4. (c.op \in Votes /\ c.s = ctrl["control"].s) =>
          Waits(c.op) /\ (c.op = "disable" => ~Waits("enable"))
    <3> SUFFICES ASSUME c.op \in Votes, c.s = ctrl["control"].s
                 PROVE  Waits(c.op) /\ (c.op = "disable" => ~Waits("enable"))
      OBVIOUS
    <3>1. Waits(c.op)
      BY <1>2 DEF Waits, c, L
    <3>2. ASSUME c.op = "disable", NEW k \in 1..Len(cwork), cwork[k].op = "enable",
                 cwork[k].s = ctrl["control"].s
          PROVE  FALSE
      <4>1. k # 1 /\ 1 < k /\ 1 \in 1..Len(cwork)
        BY <3>2, <1>2 DEF c, L
      <4>2. cwork[1].op = "disable" /\ cwork[1].s = cwork[k].s
        BY <3>2 DEF c
      <4> QED BY <4>1, <4>2, <3>2, <1>a DEF RequestsWait, Votes
    <3> QED BY <3>1, <3>2 DEF Waits
  <2>5. ctrl'["control"].reqs = IF Waits("enable")'
          THEN IF Waits("disable")' THEN <<"enable", "disable">> ELSE <<"enable">>
          ELSE IF Waits("disable")' THEN <<"disable">> ELSE <<>>
    <3>1. /\ Waits("enable")' <=> Waits("enable") /\ ~(c.op = "enable" /\ c.s = ctrl["control"].s)
          /\ Waits("disable")' <=>
               Waits("disable") /\ ~(c.op = "disable" /\ c.s = ctrl["control"].s)
      BY <2>2 DEF Votes
    <3>2. CASE ~(c.op \in Votes /\ c.s = ctrl["control"].s)
      <4>1. (Waits("enable")' <=> Waits("enable")) /\ (Waits("disable")' <=> Waits("disable"))
        BY <3>1, <3>2 DEF Votes
      <4> QED BY <4>1, <3>2, <2>3, <1>3
    <3>3. CASE c.op = "enable" /\ c.s = ctrl["control"].s
      <4>1. ~Waits("enable")' /\ (Waits("disable")' <=> Waits("disable")) /\ Waits("enable")
        BY <3>1, <3>3, <2>4 DEF Votes
      <4>2. ctrl'["control"].reqs = Tail(ctrl["control"].reqs)
        BY <3>3, <1>3 DEF Votes
      <4>3. ctrl["control"].reqs = IF Waits("disable") THEN <<"enable", "disable">> ELSE <<"enable">>
        BY <4>1, <2>3
      <4> QED BY <4>1, <4>2, <4>3, ShortQueues
    <3>4. CASE c.op = "disable" /\ c.s = ctrl["control"].s
      <4>1. ~Waits("enable")' /\ ~Waits("disable")' /\ ~Waits("enable") /\ Waits("disable")
        BY <3>1, <3>4, <2>4 DEF Votes
      <4>2. ctrl'["control"].reqs = Tail(ctrl["control"].reqs)
        BY <3>4, <1>3 DEF Votes
      <4>3. ctrl["control"].reqs = <<"disable">>
        BY <4>1, <2>3
      <4> QED BY <4>1, <4>2, <4>3, ShortQueues
    <3> QED BY <3>2, <3>3, <3>4 DEF Votes
  <2>6. Waits("disable")' => ~enabled'
    BY <2>2, <2>3, <1>1 DEF Votes
  <2> QED BY <2>1, <2>5, <2>6, <1>3 DEF RequestsWait
<1>11. ConfigLeads'
  <2>1. ASSUME NEW k \in 1..Len(cwork'), Latest(cwork', {"config"}, k)
        PROVE  config' \in {NoClient, cwork'[k].config}
    <3>1. k + 1 \in 1..Len(cwork) /\ Latest(cwork, {"config"}, k + 1) /\ cwork'[k] = cwork[k + 1]
      BY <2>1, <1>2, <1>5 DEF L
    <3> QED BY <3>1, <1>a, <1>1 DEF ConfigLeads
  <2>2. ASSUME Clear(cwork', {"config"}, 0, Len(cwork') + 1)
        PROVE  \A i \in Asked' : conf'[i] = config'[i]
    <3>1. CASE c.op = "config"
      <4>1. Latest(cwork, {"config"}, 1)
        BY <3>1, <2>2, <1>5
      <4>2. config \in {NoClient, c.config}
        BY <4>1, <1>2, <1>a DEF ConfigLeads, c, L
      <4>3. CASE config = NoClient
        BY <4>3, <1>1 DEF Asked
      <4>4. CASE config # NoClient
        <5>1. config = c.config /\ c.config \in Configs /\ Configure(c.config)
          BY <4>2, <4>4, <3>1, <1>2, <1>4 DEF Commands
        <5>2. Asked' = DOMAIN c.config \ Ignored /\ Asked' \subseteq DOMAIN GpsConf
          BY <5>1, <4>4, <1>1, ItemsAssumption DEF Asked, ItemsAssumption
        <5> QED BY <5>1, <5>2, <1>1 DEF Configure
      <4> QED BY <4>3, <4>4
    <3>2. CASE c.op # "config"
      <4>1. Clear(cwork, {"config"}, 0, Len(cwork) + 1)
        BY <3>2, <2>2, <1>5 DEF L
      <4> QED BY <4>1, <3>2, <1>1, <1>4, <1>a DEF ConfigLeads, Asked
    <3> QED BY <3>1, <3>2
  <2> QED BY <2>1, <2>2 DEF ConfigLeads
<1> QED BY <1>3, <1>4, <1>7, <1>8, <1>9, <1>10, <1>11 DEF ControlIInv

LEMMA ControlInductive == ASSUME ControlIInv, [AllNext]_AllVars PROVE ControlIInv'
<1>a. lastId \in Nat \ {0}
  BY DEF ControlIInv, ControlTypeOK
<1>1. CASE ControlNext
  BY <1>1, EnableStep, DisableStep, DeleteStep, ConfigStep, ServeStep DEF ControlNext
<1>2. CASE (ClientNext \/ FenceNext) /\ UNCHANGED controlVars
  BY <1>a, <1>2, LastIdGrows, OthersKeepControl
<1>3. CASE UNCHANGED clientAll
  <2>1. UNCHANGED controlVars /\ lastId' = lastId
    BY <1>3 DEF clientAll, apiVars
  <2> QED BY <2>1, <1>a, OthersKeepControl
<1> QED BY <1>1, <1>2, <1>3 DEF AllNext, AllVars

LEMMA ControlSettled == ControlIInv => ControlSettles
<1> SUFFICES ASSUME ControlIInv PROVE ControlSettles
  OBVIOUS
<1>1. cwork = <<>> => \A ops : Clear(cwork, ops, 0, Len(cwork) + 1)
  BY DEF Clear
<1> QED BY <1>1 DEF ControlIInv, VotesLead, ConfigLeads, ToldOwn, ControlSettles

(* ControlSettles of the runs: "just return success if already enabled"       *)
(* (LocationAPIClientBase.cpp:110).  Whatever the client calls while commands *)
(* wait, the modem ends up voted for by the session the client would disable, *)
(* mGps_conf is what it asked for, the modem has mGps_conf but for the lock    *)
(* under a vote and what it declined last, and each response is given to the   *)
(* request it answers.                                                        *)
THEOREM ControlAlwaysSettles == AllSpec => []ControlSettles
<1>1. AllInit => ControlIInv
  BY ControlInitial
<1>2. ControlIInv /\ [AllNext]_AllVars => ControlIInv'
  BY ControlInductive
<1>3. ControlIInv => ControlSettles
  BY ControlSettled
<1> QED BY <1>1, <1>2, <1>3, PTL DEF AllSpec

(***************************************************************************)
(* The client and the interfaces.                                          *)
(***************************************************************************)
Sequence(w) == \E S : w \in Seq(S)

LEMMA Grown ==
  ASSUME NEW w, Sequence(w), NEW m
  PROVE  /\ Sequence(Append(w, m)) /\ Len(w) \in Nat /\ Len(Append(w, m)) = Len(w) + 1
         /\ DOMAIN w = 1..Len(w) /\ DOMAIN Append(w, m) = 1..Len(w) + 1
         /\ \A k \in 1..Len(w) : Append(w, m)[k] = w[k]
         /\ Append(w, m)[Len(w) + 1] = m
         /\ Append(w, m) # <<>>
<1>1. PICK S : w \in Seq(S)
  BY DEF Sequence
<1>2. w \in Seq(S \union {m})
  BY <1>1, SeqMonotonic
<1> HIDE DEF Sequence
<1>3. /\ Append(w, m) \in Seq(S \union {m}) /\ Len(w) \in Nat /\ Len(Append(w, m)) = Len(w) + 1
      /\ \A k \in 1..Len(w) : Append(w, m)[k] = w[k]
      /\ Append(w, m)[Len(w) + 1] = m
  BY <1>2, Appended
<1>4. DOMAIN w = 1..Len(w) /\ DOMAIN Append(w, m) = 1..Len(w) + 1
  BY <1>2, <1>3, LenProperties
<1>5. Append(w, m) # <<>>
  BY <1>3
<1> QED BY <1>3, <1>4, <1>5 DEF Sequence

LEMMA Shrunk ==
  ASSUME NEW w, Sequence(w), w # <<>>
  PROVE  /\ Sequence(Tail(w)) /\ Len(w) \in Nat \ {0} /\ Len(Tail(w)) = Len(w) - 1
         /\ DOMAIN w = 1..Len(w) /\ DOMAIN Tail(w) = 1..Len(w) - 1
         /\ \A k \in 1..Len(w) - 1 : Tail(w)[k] = w[k + 1]
         /\ Head(w) = w[1]
<1>1. PICK S : w \in Seq(S)
  BY DEF Sequence
<1>2. /\ Tail(w) \in Seq(S) /\ Len(w) \in Nat \ {0} /\ Len(Tail(w)) = Len(w) - 1
      /\ \A k \in 1..Len(w) - 1 : Tail(w)[k] = w[k + 1]
      /\ Head(w) = w[1]
  BY <1>1, Shortened
<1>3. DOMAIN w = 1..Len(w) /\ DOMAIN Tail(w) = 1..Len(w) - 1
  BY <1>1, <1>2, LenProperties
<1> QED BY <1>2, <1>3 DEF Sequence

LEMMA SequenceLen ==
  ASSUME NEW w, Sequence(w) PROVE Len(w) \in Nat /\ DOMAIN w = 1..Len(w)
BY LenProperties DEF Sequence

ApiOK ==
  /\ setup \in ApiSetups
  /\ work = [i \in Interfaces |-> work[i]] /\ live = [i \in Interfaces |-> live[i]]
  /\ known = [i \in Interfaces |-> known[i]]
  /\ \A i \in Interfaces : Sequence(work[i])

-----------------------------------------------------------------------------
(* What the calls of a client do to the interfaces' work: they append to it.  *)
Extends(w, v) ==
  /\ Sequence(v) /\ Len(v) >= Len(w)
  /\ \A k \in 1..Len(w) : v[k] = w[k]
  /\ \A k \in 1..Len(v) : k > Len(w) => v[k].op \notin {"add", "remove"}

LEMMA ExtendsSame == ASSUME NEW w, Sequence(w) PROVE Extends(w, w)
BY SequenceLen DEF Extends

LEMMA ExtendsPost ==
  ASSUME NEW w, NEW v, Sequence(w), Extends(w, v), NEW m, m.op \notin {"add", "remove"}
  PROVE  Extends(w, Append(v, m))
<1>1. Sequence(v) /\ Len(v) >= Len(w) /\ Len(w) \in Nat
  BY SequenceLen DEF Extends
<1>2. /\ Sequence(Append(v, m)) /\ Len(v) \in Nat /\ Len(Append(v, m)) = Len(v) + 1
      /\ \A k \in 1..Len(v) : Append(v, m)[k] = v[k]
      /\ Append(v, m)[Len(v) + 1] = m
  BY <1>1, Grown
<1> QED BY <1>1, <1>2 DEF Extends

Called ==
  /\ work' = [i \in Interfaces |-> work'[i]]
  /\ \A i \in Interfaces : Extends(work[i], work'[i])
  /\ UNCHANGED <<setup, loaded, cbs, known, live>> /\ cbs # NoClient

\* ... a session may end meanwhile
Posted ==
  /\ work' = [i \in Interfaces |-> work'[i]]
  /\ \A i \in Interfaces : Extends(work[i], work'[i])
  /\ UNCHANGED <<setup, loaded, cbs, known>> /\ cbs # NoClient

LEMMA PostExtends ==
  ASSUME ApiOK, UNCHANGED <<setup, loaded, cbs, known>>, cbs # NoClient,
         \/ work' = work
         \/ \E i, m : m.op \notin {"add", "remove"} /\ work' = Post(i, m)
         \/ \E is, m : m.op \notin {"add", "remove"} /\ work' = PostAll(is, m)
         \/ \E is, m, i, n : /\ m.op \notin {"add", "remove"} /\ n.op \notin {"add", "remove"}
                             /\ work' = [PostAll(is, m) EXCEPT ![i] = Append(@, n)]
  PROVE  Posted
<1>1. ApiOK /\ \A i \in Interfaces : Sequence(work[i]) /\ Extends(work[i], work[i])
  BY ExtendsSame DEF ApiOK
<1>2. \A i \in Interfaces : \A m : m.op \notin {"add", "remove"} => Extends(work[i], Append(work[i], m))
  BY <1>1, ExtendsPost
<1>3. CASE work' = work
  BY <1>1, <1>3 DEF Posted, ApiOK
<1>4. CASE \E i, m : m.op \notin {"add", "remove"} /\ work' = Post(i, m)
  <2>1. PICK i, m : m.op \notin {"add", "remove"} /\ work' = [work EXCEPT ![i] = Append(work[i], m)]
    BY <1>4 DEF Post
  <2>2. work' = [j \in Interfaces |-> work'[j]]
    BY <2>1, <1>1 DEF ApiOK
  <2>3. \A j \in Interfaces : work'[j] = work[j] \/ work'[j] = Append(work[j], m)
    BY <2>1, <1>1 DEF ApiOK
  <2> QED BY <2>1, <2>2, <2>3, <1>1, <1>2 DEF Posted
<1>5. ASSUME NEW is, NEW m, m.op \notin {"add", "remove"}
      PROVE  /\ PostAll(is, m) = [j \in Interfaces |-> PostAll(is, m)[j]]
             /\ \A j \in Interfaces : Extends(work[j], PostAll(is, m)[j])
  BY <1>1, <1>2, <1>5 DEF PostAll
<1>6. CASE \E is, m : m.op \notin {"add", "remove"} /\ work' = PostAll(is, m)
  <2>1. PICK is, m : m.op \notin {"add", "remove"} /\ work' = PostAll(is, m)
    BY <1>6
  <2> QED BY <2>1, <1>5 DEF Posted
<1>7. CASE \E is, m, i, n : /\ m.op \notin {"add", "remove"} /\ n.op \notin {"add", "remove"}
                            /\ work' = [PostAll(is, m) EXCEPT ![i] = Append(@, n)]
  <2>1. PICK is, m, i, n : /\ m.op \notin {"add", "remove"} /\ n.op \notin {"add", "remove"}
                           /\ work' = [PostAll(is, m) EXCEPT ![i] = Append(@, n)]
    BY <1>7
  <2> DEFINE p == PostAll(is, m)
  <2>2. p = [j \in Interfaces |-> p[j]] /\ \A j \in Interfaces : Extends(work[j], p[j])
    BY <2>1, <1>5
  <2>3. work' = [p EXCEPT ![i] = Append(p[i], n)]
    BY <2>1
  <2> HIDE DEF p
  <2>4. work' = [j \in Interfaces |-> work'[j]]
        /\ \A j \in Interfaces : work'[j] = p[j] \/ work'[j] = Append(p[j], n)
    BY <2>2, <2>3
  <2>5. \A j \in Interfaces : Extends(work[j], Append(p[j], n))
    BY <2>1, <2>2, <1>1, ExtendsPost
  <2> QED BY <2>2, <2>4, <2>5 DEF Posted
<1> QED BY <1>3, <1>4, <1>6, <1>7

LEMMA PostCalled ==
  ASSUME ApiOK, UNCHANGED <<setup, loaded, cbs, known, live>>, cbs # NoClient,
         \/ work' = work
         \/ \E i, m : m.op \notin {"add", "remove"} /\ work' = Post(i, m)
         \/ \E is, m : m.op \notin {"add", "remove"} /\ work' = PostAll(is, m)
  PROVE  Called
<1>1. Posted
  BY PostExtends, Zenon
<1> QED BY <1>1 DEF Posted, Called

LEMMA TrackingCalled == ASSUME ApiOK, TrackingCall PROVE Called
<1> USE DEF Call, CallFrame, Msg, Req
<1>1. ASSUME NEW i, NEW mode, NEW op, Start(i, mode, op)
      PROVE  work' = work \/ \E j, m : m.op \notin {"add", "remove"} /\ work' = Post(j, m)
  <2>1. [op |-> "start", s |-> lastId', mode |-> mode, req |-> [op |-> op, s |-> lastId']].op = "start"
    OBVIOUS
  <2> QED BY <1>1, <2>1 DEF Start
<1>2. ASSUME NEW far, locAPIStartTracking(far) PROVE Called
  <2>1. work' = work \/ \E i : Start(i, "fix", "start")
    BY <1>2, Zenon DEF locAPIStartTracking
  <2>2. UNCHANGED <<setup, loaded, cbs, known, live>> /\ cbs # NoClient
    BY <1>2 DEF locAPIStartTracking
  <2> QED BY <2>1, <2>2, <1>1, PostCalled
<1>3. ASSUME locAPIStopTracking PROVE Called
  <2>1. UNCHANGED <<setup, loaded, cbs, known, live>> /\ cbs # NoClient
    BY <1>3 DEF locAPIStopTracking
  <2>2. work' = work \/ \E s, req : stopTracking(s, req)
    BY <1>3, Zenon DEF locAPIStopTracking
  <2> QED BY <2>1, <2>2, PostCalled DEF stopTracking
<1>4. ASSUME locAPIUpdateTrackingOptions PROVE Called
  <2>1. UNCHANGED <<setup, loaded, cbs, known, live>> /\ cbs # NoClient
    BY <1>4 DEF locAPIUpdateTrackingOptions
  <2>2. work' = work \/ \E s, req : updateTrackingOptions(s, req)
    BY <1>4, Zenon DEF locAPIUpdateTrackingOptions
  <2> QED BY <2>1, <2>2, PostCalled DEF updateTrackingOptions
<1>5. ASSUME NEW id, locAPIGnssNiResponse(id) PROVE Called
  <2>1. UNCHANGED <<setup, loaded, cbs, known, live>> /\ cbs # NoClient
    BY <1>5 DEF locAPIGnssNiResponse
  <2>2. work' = work \/ \E i, m : m.op \notin {"add", "remove"} /\ work' = Post(i, m)
    BY <1>5 DEF locAPIGnssNiResponse, gnssNiResponse, CallOne
  <2> QED BY <2>1, <2>2, PostCalled
<1> QED BY <1>2, <1>3, <1>4, <1>5 DEF TrackingCall

\* what a call about a session of the dictionary asks of the interfaces
AskedOf(e) ==
  \/ StopCall(e) \/ GetCall(e)
  \/ \E mode : UpdateCall(e, mode) \/ ChangeCall(e, mode)

LEMMA AskedPosts ==
  ASSUME ApiOK, UNCHANGED <<setup, loaded, cbs, known>>, cbs # NoClient, NEW e, AskedOf(e)
  PROVE  Posted
<1>1. ASSUME NEW s, NEW mode, NEW req,
             \/ stopTracking(s, req) \/ stopBatching(s, mode, req)
             \/ updateTrackingOptions(s, req) \/ updateBatchingOptions(s, mode, req)
             \/ getBatchedLocations(s, req)
      PROVE  \/ work' = work
             \/ \E i, m : m.op \notin {"add", "remove"} /\ work' = Post(i, m)
             \/ \E is, m : m.op \notin {"add", "remove"} /\ work' = PostAll(is, m)
  <2>1. \A op, x : op \in {"stop", "update", "get"} =>
          [op |-> op, s |-> s, mode |-> x, req |-> req].op \notin {"add", "remove"}
    OBVIOUS
  <2> QED BY <1>1, <2>1 DEF stopTracking, stopBatching, updateTrackingOptions,
                            updateBatchingOptions, getBatchedLocations, CallOne, Msg
<1>2. CASE StopCall(e)
  <2>1. \E s, mode, req : stopTracking(s, req) \/ stopBatching(s, mode, req)
    BY <1>2, Zenon DEF StopCall
  <2> QED BY <2>1, <1>1, PostExtends
<1>3. CASE GetCall(e)
  <2>1. \E s, req : getBatchedLocations(s, req)
    BY <1>3, Zenon DEF GetCall
  <2> QED BY <2>1, <1>1, PostExtends
<1>4. ASSUME NEW mode, UpdateCall(e, mode) PROVE Posted
  <2>1. \E s, m, req : updateTrackingOptions(s, req) \/ updateBatchingOptions(s, m, req)
    BY <1>4, Zenon DEF UpdateCall
  <2> QED BY <2>1, <1>1, PostExtends
<1>5. ASSUME NEW mode, ChangeCall(e, mode) PROVE Posted
  <2>1. PICK is, old, x, i, s :
          \/ work' = PostAll(is, Msg("stop", old, x, NoClient))
          \/ work' = [PostAll(is, Msg("stop", old, x, NoClient)) EXCEPT
                        ![i] = Append(@, Msg("start", s, mode, Req("update", s)))]
    BY <1>5, Zenon DEF ChangeCall
  <2> DEFINE m == Msg("stop", old, x, NoClient)
             n == Msg("start", s, mode, Req("update", s))
  <2>2. m.op \notin {"add", "remove"} /\ n.op \notin {"add", "remove"}
    BY DEF Msg
  <2>3. work' = PostAll(is, m) \/ work' = [PostAll(is, m) EXCEPT ![i] = Append(@, n)]
    BY <2>1
  <2> HIDE DEF m, n
  <2>4. CASE work' = PostAll(is, m)
    BY <2>2, <2>4, PostExtends
  <2>5. CASE work' = [PostAll(is, m) EXCEPT ![i] = Append(@, n)]
    <3>1. \E js, a, j, b : /\ a.op \notin {"add", "remove"} /\ b.op \notin {"add", "remove"}
                           /\ work' = [PostAll(js, a) EXCEPT ![j] = Append(@, b)]
      BY <2>2, <2>5, Zenon
    <3> QED BY <3>1, PostExtends, Zenon
  <2> QED BY <2>3, <2>4, <2>5
<1> QED BY <1>2, <1>3, <1>4, <1>5 DEF AskedOf

LEMMA SessionCalled == ASSUME ApiOK, SessionCall PROVE Called
<1> USE DEF Call, CallFrame, Msg
<1>1. ASSUME NEW i, NEW mode, NEW op, Start(i, mode, op)
      PROVE  work' = work \/ \E j, m : m.op \notin {"add", "remove"} /\ work' = Post(j, m)
  <2>1. [op |-> "start", s |-> lastId', mode |-> mode, req |-> Req(op, lastId')].op = "start"
    OBVIOUS
  <2> QED BY <1>1, <2>1 DEF Start
<1>2. ASSUME UNCHANGED <<setup, loaded, cbs, known, live>>, cbs # NoClient,
             work' = work \/ \E e : AskedOf(e)
      PROVE  Called
  <2>1. Posted
    BY <1>2, AskedPosts, PostExtends
  <2> QED BY <1>2, <2>1 DEF Posted, Called
<1>3. ASSUME NEW id, NEW mode, locAPIStartSession(id, mode) PROVE Called
  <2>1. UNCHANGED <<setup, loaded, cbs, known, live>> /\ cbs # NoClient
    BY <1>3 DEF locAPIStartSession
  <2>2. work' = work \/ \E i : Start(i, mode, "start")
    BY <1>3, Zenon DEF locAPIStartSession
  <2> QED BY <2>1, <2>2, <1>1, PostCalled
<1>4. ASSUME NEW id, locAPIStopSession(id) PROVE Called
  <2>1. UNCHANGED <<setup, loaded, cbs, known, live>> /\ cbs # NoClient
    BY <1>4 DEF locAPIStopSession
  <2>2. work' = work \/ \E e : AskedOf(e)
    BY <1>4, Zenon DEF locAPIStopSession, AskedOf
  <2> QED BY <1>2, <2>1, <2>2
<1>5. ASSUME NEW id, NEW mode, locAPIUpdateSessionOptions(id, mode) PROVE Called
  <2>1. UNCHANGED <<setup, loaded, cbs, known, live>> /\ cbs # NoClient
    BY <1>5 DEF locAPIUpdateSessionOptions
  <2>2. work' = work \/ \E e : AskedOf(e)
    BY <1>5, Zenon DEF locAPIUpdateSessionOptions, Change, Update, AskedOf
  <2> QED BY <1>2, <2>1, <2>2
<1>6. ASSUME NEW id, locAPIGetBatchedLocations(id) PROVE Called
  <2>1. UNCHANGED <<setup, loaded, cbs, known, live>> /\ cbs # NoClient
    BY <1>6 DEF locAPIGetBatchedLocations
  <2>2. work' = work \/ \E e : AskedOf(e)
    BY <1>6, Zenon DEF locAPIGetBatchedLocations, AskedOf
  <2> QED BY <1>2, <2>1, <2>2
<1> QED BY <1>3, <1>4, <1>5, <1>6 DEF SessionCall

\* a session that is taken out of the dictionary while a call is about it
LEMMA EndsFacts ==
  ASSUME ApiOK, NEW s, SessionEnds(s)
  PROVE  /\ live' = [i \in Interfaces |-> live'[i]]
         /\ \A i \in Interfaces : live'[i] # <<>> => live[i] # <<>>
         /\ answer' = answer \/ \E i \in Interfaces : answer' = [answer EXCEPT ![i] = NoClient]
<1>1. live = [i \in Interfaces |-> live[i]]
  BY DEF ApiOK
<1>2. CASE TripOver(s) /\ answer' = answer
  <2> DEFINE f == Without(live["flp"], s)
  <2>1. live["flp"] # <<>> /\ live' = [live EXCEPT !["flp"] = f]
    BY <1>2 DEF TripOver
  <2> HIDE DEF f
  <2> QED BY <1>1, <1>2, <2>1
<1>3. CASE live' = live /\ \E i \in Interfaces : answer' = [answer EXCEPT ![i] = NoClient]
  BY <1>1, <1>3
<1>4. \/ TripOver(s) /\ answer' = answer
      \/ live' = live /\ \E i \in Interfaces : answer' = [answer EXCEPT ![i] = NoClient]
  BY DEF SessionEnds
<1> QED BY <1>2, <1>3, <1>4

LEMMA OvertakenAsks ==
  ASSUME NEW id, Overtaken(id)
  PROVE  /\ Call /\ UNCHANGED <<setup, loaded, cbs, known>> /\ astray'
         /\ SessionEnds(dict.fwd[id]) /\ \E e : AskedOf(e)
<1>1. PICK e, early, gone : CallOvertaken(id, e, early, gone)
  BY Zenon DEF Overtaken
<1>2. AskedOf(e)
  BY <1>1, Zenon DEF CallOvertaken, AskedOf
<1>3. Call /\ SessionEnds(dict.fwd[id]) /\ UNCHANGED <<setup, loaded, cbs, known, tracking, refused, cut>>
  BY Zenon DEF Overtaken
<1>4. astray'
  BY Zenon DEF Overtaken
<1> QED BY <1>2, <1>3, <1>4

LEMMA OvertakenPosts ==
  ASSUME ApiOK, NEW id, Overtaken(id)
  PROVE  /\ Posted /\ live' = [i \in Interfaces |-> live'[i]]
         /\ \A i \in Interfaces : live'[i] # <<>> => live[i] # <<>>
<1>1. /\ Call /\ UNCHANGED <<setup, loaded, cbs, known>>
      /\ SessionEnds(dict.fwd[id]) /\ \E e : AskedOf(e)
  BY OvertakenAsks, Zenon
<1>2. cbs # NoClient
  BY <1>1 DEF Call
<1>3. Posted
  BY <1>1, <1>2, AskedPosts
<1> QED BY <1>1, <1>3, EndsFacts

-----------------------------------------------------------------------------
(* What an interface does with the call at the head of its work.              *)
LEMMA ResultKinds ==
  ASSUME NEW i, NEW m, NEW r \in Results(i, m)
  PROVE  \/ m.op = "start" /\ r = Result(live[i], TRUE, FALSE)
         \/ m.op = "start" /\ HasCallback(i, m) /\ r = Result(With(live[i], m.s, m.mode), TRUE, TRUE)
         \/ m.op = "stop" /\ m.s \in DOMAIN live[i] /\ r = Result(live[i], TRUE, FALSE)
         \/ m.op = "stop" /\ m.s \in DOMAIN live[i] /\ r = Result(Without(live[i], m.s), TRUE, TRUE)
         \/ m.op = "update" /\ m.s \in DOMAIN live[i] /\ r = Result(live[i], TRUE, FALSE)
         \/ m.op = "update" /\ m.s \in DOMAIN live[i]
              /\ r = Result([live[i] EXCEPT ![m.s] = m.mode], TRUE, TRUE)
         \/ m.op = "get" /\ m.s \in DOMAIN live[i] /\ \E ok \in BOOLEAN : r = Result(live[i], TRUE, ok)
         \/ m.op = "ni" /\ \E ok \in BOOLEAN : r = Result(live[i], TRUE, ok)
         \/ m.op = "remove" /\ r = Result(<<>>, FALSE, TRUE)
         \/ m.op \notin {"start", "ni", "remove"} /\ r = Result(live[i], FALSE, TRUE)
              /\ (m.op \in {"stop", "update", "get"} => m.s \notin DOMAIN live[i])
<1>1. CASE m.op = "start"
  BY <1>1 DEF Results
<1>2. CASE m.op = "stop" /\ m.s \in DOMAIN live[i]
  BY <1>2 DEF Results
<1>3. CASE m.op = "update" /\ m.s \in DOMAIN live[i]
  BY <1>3 DEF Results
<1>4. CASE m.op = "get" /\ m.s \in DOMAIN live[i]
  BY <1>4 DEF Results
<1>5. CASE m.op = "ni"
  BY <1>5 DEF Results
<1>6. CASE m.op = "remove"
  BY <1>6 DEF Results
<1>7. CASE m.op \notin {"start", "ni", "remove"}
             /\ (m.op \in {"stop", "update", "get"} => m.s \notin DOMAIN live[i])
  BY <1>7 DEF Results
<1> QED BY <1>1, <1>2, <1>3, <1>4, <1>5, <1>6, <1>7

LEMMA AnswerServes ==
  ASSUME ApiOK, NEW i \in Interfaces, Answer(i)
  PROVE  /\ ApiOK'
         /\ work[i] # <<>> /\ Sequence(work[i]) /\ work'[i] = Tail(work[i])
         /\ \A j \in Interfaces \ {i} : /\ work'[j] = work[j] /\ live'[j] = live[j]
                                        /\ known'[j] = known[j]
         /\ known'[i] = Known(i, work[i][1])
         /\ \E r \in Results(i, work[i][1]) :
              /\ live'[i] = r.live
              /\ refused' = refused \union
                              {s \in {work[i][1].s} : work[i][1].op = "stop" /\ ~r.ok}
         /\ UNCHANGED <<setup, loaded, cbs, lastId, calls, tracking>>
<1>1. work[i] # <<>> /\ Sequence(work[i])
  BY DEF Answer, ApiOK
<1>2. Head(work[i]) = work[i][1] /\ Sequence(Tail(work[i]))
  BY <1>1, Shrunk
<1>3. PICK r \in Results(i, work[i][1]) :
        Serve(i, r) /\ refused' = refused \union
                         {s \in {work[i][1].s} : work[i][1].op = "stop" /\ ~r.ok}
  BY <1>2 DEF Answer
<1>4. /\ live' = [live EXCEPT ![i] = r.live] /\ known' = [known EXCEPT ![i] = Known(i, work[i][1])]
      /\ work' = [work EXCEPT ![i] = Tail(work[i])]
      /\ UNCHANGED <<setup, loaded, cbs, lastId, calls>>
  BY <1>2, <1>3 DEF Serve
<1>5. UNCHANGED tracking
  BY DEF Answer
<1>6. /\ work = [j \in Interfaces |-> work[j]] /\ live = [j \in Interfaces |-> live[j]]
      /\ known = [j \in Interfaces |-> known[j]]
      /\ \A j \in Interfaces : Sequence(work[j])
      /\ setup \in ApiSetups
  BY DEF ApiOK
<1>7. /\ work' = [j \in Interfaces |-> work'[j]] /\ live' = [j \in Interfaces |-> live'[j]]
      /\ known' = [j \in Interfaces |-> known'[j]]
      /\ work'[i] = Tail(work[i]) /\ live'[i] = r.live /\ known'[i] = Known(i, work[i][1])
      /\ \A j \in Interfaces \ {i} : /\ work'[j] = work[j] /\ live'[j] = live[j]
                                     /\ known'[j] = known[j]
  BY <1>4, <1>6
<1>8. ApiOK'
  BY <1>2, <1>4, <1>6, <1>7 DEF ApiOK
<1> QED BY <1>1, <1>3, <1>4, <1>5, <1>7, <1>8

-----------------------------------------------------------------------------
(* The destruction of a client.                                               *)
HasAdd(i) == \E k \in 1..Len(work[i]) : work[i][k].op = "add"
Leaves ==
  /\ \A i \in Interfaces : known[i] # NoClient \/ HasAdd(i) => Loaded(i)
  /\ cbs # NoClient =>
       \A i \in Interfaces \ cut : known[i] # NoClient \/ HasAdd(i) => i \in Wanted(cbs)
  /\ cbs = NoClient /\ calls < setup.calls =>
       \A i \in Interfaces : known[i] = NoClient /\ ~HasAdd(i)
  /\ cbs = NoClient =>
       \A i \in Interfaces \ cut :
         /\ known[i] # NoClient => \E l \in 1..Len(work[i]) : work[i][l].op = "remove"
         /\ \A k \in 1..Len(work[i]) : work[i][k].op = "add" =>
              \E l \in 1..Len(work[i]) : l > k /\ work[i][l].op = "remove"

LeaveInv ==
  /\ ApiOK
  /\ \A i \in Interfaces : live[i] # <<>> => known[i] # NoClient
  /\ \A i \in Interfaces : \A k \in 1..Len(work[i]) :
       work[i][k].op = "add" => work[i][k].mode # NoClient
  /\ Leaves

LEMMA LeaveInit == AllInit => LeaveInv
<1> SUFFICES ASSUME AllInit PROVE LeaveInv
  OBVIOUS
<1>1. /\ setup \in ApiSetups /\ cbs = NoClient
      /\ work = [i \in Interfaces |-> <<>>] /\ live = [i \in Interfaces |-> <<>>]
      /\ known = [i \in Interfaces |-> NoClient]
  BY DEF AllInit, ClientInit, ApiInit
<1>2. Sequence(<<>>)
  BY EmptySeq DEF Sequence
<1>3. Len(<<>>) = 0
  OBVIOUS
<1> QED BY <1>1, <1>2, <1>3 DEF LeaveInv, ApiOK, Leaves, HasAdd

LEMMA LeavePosted ==
  ASSUME LeaveInv, Posted, cut' = cut, live' = [i \in Interfaces |-> live'[i]],
         \A i \in Interfaces : live'[i] # <<>> => live[i] # <<>>
  PROVE  LeaveInv'
<1>1. /\ work' = [i \in Interfaces |-> work'[i]]
      /\ UNCHANGED <<setup, loaded, cbs, known>> /\ cbs # NoClient
      /\ ApiOK
  BY DEF Posted, LeaveInv
<1>2. \A i \in Interfaces : Sequence(work'[i])
  BY DEF Posted, Extends
<1>3. ApiOK'
  BY <1>1, <1>2 DEF ApiOK
<1>4. ASSUME NEW i \in Interfaces, NEW k \in 1..Len(work'[i]), work'[i][k].op = "add"
      PROVE  k \in 1..Len(work[i]) /\ work'[i][k] = work[i][k]
  <2>1. Len(work[i]) \in Nat /\ Len(work'[i]) \in Nat
    BY <1>1, <1>2, SequenceLen DEF ApiOK
  <2> QED BY <1>4, <2>1 DEF Posted, Extends
<1>5. \A i \in Interfaces : HasAdd(i)' => HasAdd(i)
  BY <1>4 DEF HasAdd
<1>6. Leaves'
  BY <1>1, <1>5 DEF LeaveInv, Leaves, Loaded
<1> QED BY <1>1, <1>3, <1>4, <1>6 DEF LeaveInv

LEMMA LeaveCalled == ASSUME LeaveInv, Called, cut' = cut PROVE LeaveInv'
<1>1. live' = live /\ live = [i \in Interfaces |-> live[i]]
  BY DEF Called, LeaveInv, ApiOK
<1>2. Posted
  BY DEF Called, Posted
<1> QED BY <1>1, <1>2, LeavePosted

LEMMA LeaveAdd ==
  ASSUME LeaveInv, NEW c, c # NoClient, AddClient(c), calls < setup.calls,
         cut' = IF cbs = NoClient THEN cut ELSE (cut \union Wanted(cbs)) \ Wanted(c)
  PROVE  LeaveInv'
<1> DEFINE m == Msg("add", 0, c, NoClient)
           is == {j \in Wanted(c) : loaded'[j] = "yes"}
<1>1. /\ cbs' = c /\ loaded' = Load(c) /\ UNCHANGED <<setup, known, live>>
      /\ work' = [i \in Interfaces |-> IF i \in is THEN Append(work[i], m) ELSE work[i]]
  BY DEF AddClient, PostAll
<1>2. m.op = "add" /\ m.mode = c
  BY DEF Msg
<1>3. is \subseteq Wanted(c) /\ \A i \in is : loaded'[i] = "yes"
  OBVIOUS
<1>4. \A i \in Interfaces : Loaded(i) => loaded'[i] = "yes"
  BY <1>1 DEF Loaded, Load
<1>5. ApiOK
  BY DEF LeaveInv
<1> HIDE DEF m, is
<1>6. ASSUME NEW i \in Interfaces
      PROVE  /\ Sequence(work'[i]) /\ Len(work[i]) \in Nat
             /\ \/ work'[i] = work[i]
                \/ /\ i \in is /\ Len(work'[i]) = Len(work[i]) + 1 /\ work'[i][Len(work[i]) + 1] = m
                   /\ \A k \in 1..Len(work[i]) : work'[i][k] = work[i][k]
  <2>1. Sequence(work[i])
    BY <1>5 DEF ApiOK
  <2>2. work'[i] = IF i \in is THEN Append(work[i], m) ELSE work[i]
    BY <1>1
  <2>3. CASE i \notin is
    BY <2>1, <2>2, <2>3, SequenceLen
  <2>4. CASE i \in is
    BY <2>1, <2>2, <2>4, Grown
  <2> QED BY <2>3, <2>4
<1>7. ApiOK'
  BY <1>1, <1>5, <1>6 DEF ApiOK
<1>8. \A i \in Interfaces : \A k \in 1..Len(work'[i]) :
        work'[i][k].op = "add" => work'[i][k].mode # NoClient
  <2> SUFFICES ASSUME NEW i \in Interfaces, NEW k \in 1..Len(work'[i]), work'[i][k].op = "add"
               PROVE  work'[i][k].mode # NoClient
    OBVIOUS
  <2>1. CASE k \in 1..Len(work[i]) /\ work'[i][k] = work[i][k]
    BY <2>1 DEF LeaveInv
  <2>2. CASE work'[i][k] = m
    BY <2>2, <1>2
  <2> QED BY <2>1, <2>2, <1>6
<1>9. \A i \in Interfaces : HasAdd(i)' => HasAdd(i) \/ i \in is
  BY <1>6 DEF HasAdd
<1>10. Leaves'
  <2>1. ASSUME NEW i \in Interfaces, known'[i] # NoClient \/ HasAdd(i)'
        PROVE  loaded'[i] = "yes" /\ (i \notin cut' => i \in Wanted(c))
    <3>1. CASE i \in is
      BY <1>3, <3>1
    <3>2. CASE i \notin is
      <4>1. known[i] # NoClient \/ HasAdd(i)
        BY <1>1, <1>9, <2>1, <3>2
      <4>2. cbs # NoClient /\ Loaded(i) /\ (i \notin cut => i \in Wanted(cbs))
        BY <4>1 DEF LeaveInv, Leaves
      <4>3. loaded'[i] = "yes"
        BY <4>2, <1>4
      <4>4. i \notin cut' => i \in Wanted(c)
        BY <4>2
      <4> QED BY <4>3, <4>4
    <3> QED BY <3>1, <3>2
  <2> QED BY <1>1, <2>1 DEF Leaves, Loaded
<1> QED BY <1>1, <1>7, <1>8, <1>10 DEF LeaveInv

LEMMA LeaveDestroy == ASSUME LeaveInv, DestroyClient PROVE LeaveInv'
<1> DEFINE m == Msg("remove", 0, NoClient, NoClient)
<1>1. /\ cbs' = NoClient /\ cbs # NoClient /\ UNCHANGED <<setup, loaded, known, live, cut>>
      /\ calls' = setup.calls /\ setup.calls \in Nat
      /\ work' = [i \in Interfaces |-> IF i \in RemoveFrom THEN Append(work[i], m) ELSE work[i]]
  BY SetupsAssumption DEF DestroyClient, Destroy, PostAll, LeaveInv, ApiOK, SetupsAssumption
<1>2. m.op = "remove"
  BY DEF Msg
<1>3. ApiOK
  BY DEF LeaveInv
<1> HIDE DEF m
<1>4. ASSUME NEW i \in Interfaces
      PROVE  /\ Sequence(work'[i]) /\ Len(work[i]) \in Nat /\ Len(work'[i]) \in Nat
             /\ i \notin RemoveFrom => work'[i] = work[i]
             /\ i \in RemoveFrom =>
                  /\ Len(work'[i]) = Len(work[i]) + 1 /\ work'[i][Len(work[i]) + 1] = m
                  /\ \A k \in 1..Len(work[i]) : work'[i][k] = work[i][k]
  <2>1. Sequence(work[i]) /\ Len(work[i]) \in Nat
    BY <1>3, SequenceLen DEF ApiOK
  <2>2. work'[i] = IF i \in RemoveFrom THEN Append(work[i], m) ELSE work[i]
    BY <1>1
  <2>3. CASE i \notin RemoveFrom
    BY <2>1, <2>2, <2>3
  <2>4. CASE i \in RemoveFrom
    BY <2>1, <2>2, <2>4, Grown
  <2> QED BY <2>3, <2>4
<1>5. ApiOK'
  BY <1>1, <1>3, <1>4 DEF ApiOK
<1>6. ASSUME NEW i \in Interfaces, NEW k \in 1..Len(work'[i]), work'[i][k].op = "add"
      PROVE  k \in 1..Len(work[i]) /\ work'[i][k] = work[i][k]
  BY <1>2, <1>4, <1>6
<1>7. \A i \in Interfaces : HasAdd(i)' => HasAdd(i)
  BY <1>6 DEF HasAdd
<1>8. Leaves'
  <2>1. ~(calls' < setup'.calls)
    BY <1>1
  <2>2. \A i \in Interfaces \ cut : known[i] # NoClient \/ HasAdd(i) => i \in RemoveFrom
    BY <1>1 DEF LeaveInv, Leaves, RemoveFrom
  <2>3. ASSUME NEW i \in Interfaces, i \in RemoveFrom
        PROVE  \E l \in 1..Len(work'[i]) : /\ l > Len(work[i]) /\ work'[i][l].op = "remove"
    BY <2>3, <1>2, <1>4
  <2>4. ASSUME NEW i \in Interfaces \ cut
        PROVE  /\ known'[i] # NoClient => \E l \in 1..Len(work'[i]) : work'[i][l].op = "remove"
               /\ \A k \in 1..Len(work'[i]) : work'[i][k].op = "add" =>
                    \E l \in 1..Len(work'[i]) : l > k /\ work'[i][l].op = "remove"
    <3>1. known'[i] # NoClient => \E l \in 1..Len(work'[i]) : work'[i][l].op = "remove"
      BY <2>2, <2>3, <1>1
    <3>2. ASSUME NEW k \in 1..Len(work'[i]), work'[i][k].op = "add"
          PROVE  \E l \in 1..Len(work'[i]) : l > k /\ work'[i][l].op = "remove"
      <4>1. k \in 1..Len(work[i]) /\ HasAdd(i)
        BY <3>2, <1>6 DEF HasAdd
      <4> QED BY <4>1, <2>2, <2>3, <1>4
    <3> QED BY <3>1, <3>2
  <2>5. \A i \in Interfaces : known'[i] # NoClient \/ HasAdd(i)' => Loaded(i)'
    BY <1>1, <1>7 DEF LeaveInv, Leaves, Loaded
  <2> QED BY <2>1, <2>4, <2>5, <1>1 DEF Leaves
<1> QED BY <1>1, <1>5, <1>6, <1>8 DEF LeaveInv

LEMMA LeaveAnswer == ASSUME LeaveInv, NEW i \in Interfaces, Answer(i) PROVE LeaveInv'
<1> DEFINE m == work[i][1]
<1>1. ApiOK
  BY DEF LeaveInv
<1>2. /\ ApiOK' /\ work[i] # <<>> /\ Sequence(work[i]) /\ work'[i] = Tail(work[i])
      /\ \A j \in Interfaces \ {i} : /\ work'[j] = work[j] /\ live'[j] = live[j]
                                     /\ known'[j] = known[j]
      /\ known'[i] = Known(i, m) /\ UNCHANGED <<setup, loaded, cbs, calls>>
  BY <1>1, AnswerServes
<1>a. cut' = cut
  BY DEF Answer
<1>3. PICK r \in Results(i, m) : live'[i] = r.live
  BY <1>1, AnswerServes
<1>4. /\ Len(work[i]) \in Nat \ {0} /\ Len(work'[i]) = Len(work[i]) - 1
      /\ \A k \in 1..Len(work'[i]) : k + 1 \in 1..Len(work[i]) /\ work'[i][k] = work[i][k + 1]
  BY <1>2, Shrunk
<1> HIDE DEF m
<1>5. live'[i] # <<>> => known'[i] # NoClient
  <2>1. CASE m.op = "add"
    BY <2>1, <1>2, <1>4 DEF LeaveInv, Known, m
  <2>2. CASE m.op = "remove"
    BY <2>2, <1>3, ResultKinds DEF Result
  <2>3. CASE m.op \notin {"add", "remove"}
    <3>1. known'[i] = known[i]
      BY <2>3, <1>2 DEF Known
    <3>2. live[i] # <<>> => known[i] # NoClient
      BY DEF LeaveInv
    <3>3. \/ live'[i] = live[i] \/ HasCallback(i, m) \/ m.s \in DOMAIN live[i]
      BY <2>3, <1>3, ResultKinds DEF Result
    <3> QED BY <3>1, <3>2, <3>3 DEF HasCallback
  <2> QED BY <2>1, <2>2, <2>3
<1>b. ASSUME NEW j \in Interfaces, NEW k \in 1..Len(work'[j])
      PROVE  \E l \in 1..Len(work[j]) : work'[j][k] = work[j][l]
  <2>1. CASE j = i
    BY <2>1, <1>4
  <2>2. CASE j # i
    BY <2>2, <1>2
  <2> QED BY <2>1, <2>2
<1>6. \A j \in Interfaces : live'[j] # <<>> => known'[j] # NoClient
  BY <1>2, <1>5 DEF LeaveInv
<1>7. \A j \in Interfaces : \A k \in 1..Len(work'[j]) :
        work'[j][k].op = "add" => work'[j][k].mode # NoClient
  BY <1>b DEF LeaveInv
<1>8. \A j \in Interfaces : HasAdd(j)' => HasAdd(j)
  BY <1>b DEF HasAdd
<1>9. known'[i] # NoClient => known[i] # NoClient \/ HasAdd(i)
  BY <1>2, <1>4 DEF Known, HasAdd, m
<1>10. Leaves'
  <2>1. Leaves
    BY DEF LeaveInv
  <2>2. \A j \in Interfaces : known'[j] # NoClient \/ HasAdd(j)' => known[j] # NoClient \/ HasAdd(j)
    BY <1>2, <1>8, <1>9
  <2>a. /\ \A j \in Interfaces : known'[j] # NoClient \/ HasAdd(j)' => Loaded(j)'
        /\ cbs' # NoClient =>
             \A j \in Interfaces \ cut' : known'[j] # NoClient \/ HasAdd(j)' => j \in Wanted(cbs')
        /\ cbs' = NoClient /\ calls' < setup'.calls =>
             \A j \in Interfaces : known'[j] = NoClient /\ ~HasAdd(j)'
    BY <2>1, <2>2, <1>2, <1>a DEF Leaves, Loaded
  <2>3. ASSUME cbs = NoClient, i \notin cut, known'[i] # NoClient
        PROVE  \E l \in 1..Len(work'[i]) : work'[i][l].op = "remove"
    <3>1. \E l \in 1..Len(work[i]) : work[i][l].op = "remove" /\ l > 1
      <4>1. m.op # "remove"
        BY <2>3, <1>2 DEF Known
      <4>2. CASE m.op = "add"
        BY <4>2, <2>1, <2>3, <1>4 DEF Leaves, m
      <4>3. CASE m.op # "add"
        <5>1. known[i] # NoClient
          BY <4>1, <4>3, <2>3, <1>2 DEF Known
        <5>2. PICK l \in 1..Len(work[i]) : work[i][l].op = "remove"
          BY <5>1, <2>1, <2>3 DEF Leaves
        <5> QED BY <5>2, <4>1, <1>4 DEF m
      <4> QED BY <4>2, <4>3
    <3>2. PICK l \in 1..Len(work[i]) : work[i][l].op = "remove" /\ l > 1
      BY <3>1
    <3>3. l - 1 \in 1..Len(work'[i]) /\ (l - 1) + 1 = l
      BY <3>2, <1>4
    <3> QED BY <3>2, <3>3, <1>4
  <2>4. ASSUME cbs = NoClient, i \notin cut, NEW k \in 1..Len(work'[i]), work'[i][k].op = "add"
        PROVE  \E l \in 1..Len(work'[i]) : l > k /\ work'[i][l].op = "remove"
    <3>1. PICK l \in 1..Len(work[i]) : l > k + 1 /\ work[i][l].op = "remove"
      BY <2>1, <2>4, <1>4 DEF Leaves
    <3>2. l - 1 \in 1..Len(work'[i]) /\ (l - 1) + 1 = l /\ l - 1 > k
      BY <3>1, <1>4
    <3> QED BY <3>1, <3>2, <1>4
  <2>5. cbs' = NoClient =>
          \A j \in Interfaces \ cut :
            /\ known'[j] # NoClient => \E l \in 1..Len(work'[j]) : work'[j][l].op = "remove"
            /\ \A k \in 1..Len(work'[j]) : work'[j][k].op = "add" =>
                 \E l \in 1..Len(work'[j]) : l > k /\ work'[j][l].op = "remove"
    <3> SUFFICES ASSUME cbs = NoClient, NEW j \in Interfaces \ cut
                 PROVE  /\ known'[j] # NoClient =>
                             \E l \in 1..Len(work'[j]) : work'[j][l].op = "remove"
                        /\ \A k \in 1..Len(work'[j]) : work'[j][k].op = "add" =>
                             \E l \in 1..Len(work'[j]) : l > k /\ work'[j][l].op = "remove"
      BY <1>2
    <3>1. CASE j = i
      BY <3>1, <2>3, <2>4
    <3>2. CASE j # i
      <4>1. work'[j] = work[j] /\ known'[j] = known[j]
        BY <3>2, <1>2
      <4> QED BY <4>1, <2>1 DEF Leaves
    <3> QED BY <3>1, <3>2
  <2> QED BY <2>a, <2>5, <1>a, Zenon DEF Leaves
<1> QED BY <1>2, <1>6, <1>7, <1>10 DEF LeaveInv

\* steps that leave the interfaces and what they were asked alone
LEMMA LeaveSame ==
  ASSUME LeaveInv, UNCHANGED <<setup, loaded, cbs, known, live, work, cut>>,
         calls' = calls \/ calls < setup.calls
  PROVE  LeaveInv'
<1>1. ApiOK'
  BY DEF LeaveInv, ApiOK
<1>2. \A i \in Interfaces : HasAdd(i)' <=> HasAdd(i)
  BY DEF HasAdd
<1>3. Leaves'
  BY <1>2 DEF LeaveInv, Leaves, Loaded
<1> QED BY <1>1, <1>3 DEF LeaveInv

LEMMA TripFacts ==
  ASSUME ApiOK, NEW s, TripCompleted(s)
  PROVE  /\ ApiOK' /\ UNCHANGED <<setup, loaded, cbs, known, work, calls, tracking, queues, refused>>
         /\ cbs # NoClient /\ s \in DOMAIN live["flp"]
         /\ live' = [live EXCEPT !["flp"] = Without(live["flp"], s)]
         /\ \A i \in Interfaces : live'[i] = live[i]
                                  \/ (i = "flp" /\ live'[i] = Without(live["flp"], s))
<1>1. /\ UNCHANGED <<setup, loaded, cbs, known, work, calls, tracking, queues, refused>>
      /\ cbs # NoClient /\ s \in DOMAIN live["flp"]
      /\ live' = [live EXCEPT !["flp"] = Without(live["flp"], s)]
  BY DEF TripCompleted, TripOver
<1>2. live = [i \in Interfaces |-> live[i]]
  BY DEF ApiOK
<1>3. /\ live' = [i \in Interfaces |-> live'[i]]
      /\ \A i \in Interfaces : live'[i] = live[i]
                               \/ (i = "flp" /\ live'[i] = Without(live["flp"], s))
  <2> DEFINE f == Without(live["flp"], s)
  <2>1. live' = [live EXCEPT !["flp"] = f]
    BY <1>1
  <2> HIDE DEF f
  <2>2. /\ live' = [i \in Interfaces |-> live'[i]]
        /\ \A i \in Interfaces : live'[i] = live[i] \/ (i = "flp" /\ live'[i] = f)
    BY <2>1, <1>2
  <2> QED BY <2>2 DEF f
<1> QED BY <1>1, <1>3 DEF ApiOK

LEMMA LeaveTrip == ASSUME LeaveInv, NEW s, TripCompleted(s) PROVE LeaveInv'
<1>1. ApiOK
  BY DEF LeaveInv
<1>2. /\ ApiOK' /\ UNCHANGED <<setup, loaded, cbs, known, work>>
      /\ s \in DOMAIN live["flp"]
      /\ \A i \in Interfaces : live'[i] = live[i] \/ i = "flp"
  BY <1>1, TripFacts
<1>3. live["flp"] # <<>> /\ "flp" \in Interfaces
  BY <1>2 DEF Interfaces
<1>4. \A i \in Interfaces : live'[i] # <<>> => known'[i] # NoClient
  BY <1>2, <1>3 DEF LeaveInv
<1>5. Leaves'
  <2>1. \A i \in Interfaces : HasAdd(i)' <=> HasAdd(i)
    BY <1>2 DEF HasAdd
  <2>2. cut' = cut /\ cbs # NoClient /\ cbs' = cbs
    BY DEF TripCompleted
  <2>3. Leaves
    BY DEF LeaveInv
  <2>4. UNCHANGED <<loaded, known, work>>
    BY <1>2
  <2> QED BY <2>1, <2>2, <2>3, <2>4 DEF Leaves, Loaded
<1> QED BY <1>2, <1>4, <1>5 DEF LeaveInv

\* the callbacks say which interfaces they no longer call for, and no other step
LEMMA CutKept ==
  ASSUME TrackingCall \/ SessionCall \/ \E id : Overtaken(id) PROVE cut' = cut
<1>1. CASE TrackingCall \/ SessionCall
  <2>1. CallFrame
    BY <1>1, Zenon DEF TrackingCall, SessionCall, locAPIStartTracking, locAPIStopTracking,
                       locAPIUpdateTrackingOptions, locAPIGnssNiResponse, locAPIStartSession,
                       locAPIStopSession, locAPIUpdateSessionOptions, locAPIGetBatchedLocations
  <2> QED BY <2>1 DEF CallFrame
<1>2. ASSUME NEW id, Overtaken(id) PROVE cut' = cut
  <2>1. UNCHANGED <<setup, loaded, cbs, known, tracking, refused, cut>>
    BY <1>2, Zenon DEF Overtaken
  <2> QED BY <2>1
<1> QED BY <1>1, <1>2

LEMMA LeaveInductive == ASSUME LeaveInv, [AllNext]_AllVars PROVE LeaveInv'
<1>1. CASE ControlNext
  <2>1. /\ UNCHANGED <<setup, loaded, cbs, known, live, work, cut>>
        /\ calls' = calls \/ calls < setup.calls
    BY <1>1 DEF ControlNext, locAPIEnable, locAPIDisable, locAPIGnssDeleteAidingData,
                locAPIGnssUpdateConfig, ControlCall, ServeControl, apiVars, clientVars
  <2> QED BY <2>1, LeaveSame
<1>2. CASE FenceNext
  <2>1. ClientOfFences \/ ServeFences
    BY <1>2, Zenon DEF FenceNext, AddGeofences, RemoveGeofences, PauseGeofences, ModifyGeofences,
                       ResumeGeofences, RemoveAllGeofences
  <2>2. /\ UNCHANGED <<setup, loaded, cbs, known, live, work, cut>>
        /\ calls' = calls \/ calls < setup.calls
    BY <2>1 DEF ClientOfFences, ServeFences, apiVars, clientVars
  <2> QED BY <2>2, LeaveSame
<1>3. CASE UNCHANGED clientAll
  <2>1. UNCHANGED <<setup, loaded, cbs, known, live, work, calls, cut>>
    BY <1>3 DEF clientAll, apiVars, clientVars
  <2> QED BY <2>1, LeaveSame
<1>4. CASE ClientNext
  <2>0. ApiOK
    BY DEF LeaveInv
  <2>1. ASSUME NEW c \in setup.cbs, locAPISetCallbacks(c) PROVE LeaveInv'
    <3>1. /\ AddClient(c) /\ calls < setup.calls
          /\ cut' = IF cbs = NoClient THEN cut ELSE (cut \union Wanted(cbs)) \ Wanted(c)
      BY <2>1 DEF locAPISetCallbacks, createInstance, updateCallbacks
    <3>2. c # NoClient
      BY <2>0, SetupsAssumption DEF SetupsAssumption, ApiOK
    <3> QED BY <3>1, <3>2, LeaveAdd
  <2>2. ASSUME NEW i \in Interfaces, onResponse(i) PROVE LeaveInv'
    <3>1. UNCHANGED <<setup, loaded, cbs, known, live, work, calls, cut>>
      BY <2>2 DEF onResponse, apiVars
    <3> QED BY <3>1, LeaveSame
  <2>3. CASE TrackingCall \/ SessionCall
    BY <2>0, <2>3, TrackingCalled, SessionCalled, CutKept, LeaveCalled
  <2>4. ASSUME NEW id, Overtaken(id) PROVE LeaveInv'
    <3>1. /\ Posted /\ live' = [i \in Interfaces |-> live'[i]]
          /\ \A i \in Interfaces : live'[i] # <<>> => live[i] # <<>>
      BY <2>0, <2>4, OvertakenPosts
    <3>2. cut' = cut
      BY <2>4, CutKept
    <3> QED BY <3>1, <3>2, LeavePosted
  <2> QED BY <1>4, <2>1, <2>2, <2>3, <2>4, LeaveDestroy, LeaveAnswer, LeaveTrip DEF ClientNext
<1> QED BY <1>1, <1>2, <1>3, <1>4 DEF AllNext, AllVars

LEMMA LeaveImplies == LeaveInv => ClientLeaves
<1> SUFFICES ASSUME LeaveInv, cbs = NoClient, Quiet, NEW i \in Interfaces \ cut
             PROVE  known[i] = NoClient /\ live[i] = <<>>
  BY DEF ClientLeaves
<1>1. work[i] = <<>>
  BY DEF Quiet
<1>2. \A l : l \notin 1..Len(work[i])
  BY <1>1
<1>3. known[i] = NoClient
  BY <1>2 DEF LeaveInv, Leaves
<1> QED BY <1>3 DEF LeaveInv

(* ClientLeaves of the runs: LocationAPI::~LocationAPI.  However the calls and *)
(* the answers interleave, whichever interfaces are loaded and however the     *)
(* callbacks change, a client leaves neither itself nor a session behind in    *)
(* any interface its last callbacks called for.                                *)
THEOREM ClientAlwaysLeaves == AllSpec => []ClientLeaves
<1>1. AllInit => LeaveInv
  BY LeaveInit
<1>2. LeaveInv /\ [AllNext]_AllVars => LeaveInv'
  BY LeaveInductive
<1>3. LeaveInv => ClientLeaves
  BY LeaveImplies
<1> QED BY <1>1, <1>2, <1>3, PTL DEF AllSpec

-----------------------------------------------------------------------------
(* The stop of a tracking session.                                            *)
ClientQueues == {"tracking", "session", "ni"}
QueuesOK ==
  /\ queues = [q \in ClientQueues |-> queues[q]]
  /\ \A q \in ClientQueues : queues[q] = [s |-> queues[q].s, reqs |-> queues[q].reqs]

\* t and q: whether the client is tracking, and its queues
Current(t, q, s) == t /\ s = q["tracking"].s
Ahead(w, s, k) == \E l \in 1..Len(w) : l > k /\ w[l].op = "stop" /\ w[l].s = s

(* What tracks for the client, or is going to, is its present session or is   *)
(* going to be stopped, by every interface that may know of it.               *)
Stopping ==
  /\ \A i \in Interfaces : work[i] # <<>> \/ live[i] # <<>> => Loaded(i)
  /\ cbs # NoClient =>
       \A i \in Interfaces :
         /\ \A s \in DOMAIN live[i] : s \in refused \/ Ahead(work[i], s, 0) \/ Current(tracking, queues, s)
         /\ \A k \in 1..Len(work[i]) : work[i][k].op = "start" =>
              Ahead(work[i], work[i][k].s, k) \/ Current(tracking, queues, work[i][k].s)
  /\ cbs = NoClient /\ calls < setup.calls =>
       \A i \in Interfaces : live[i] = <<>> /\ work[i] = <<>>

TrackInv == ApiOK /\ (setup.kind = "tracking" => QueuesOK /\ Stopping)

LEMMA TrackInit == AllInit => TrackInv
<1> SUFFICES ASSUME AllInit PROVE TrackInv
  OBVIOUS
<1>1. /\ setup \in ApiSetups /\ cbs = NoClient
      /\ work = [i \in Interfaces |-> <<>>] /\ live = [i \in Interfaces |-> <<>>]
      /\ known = [i \in Interfaces |-> NoClient]
      /\ queues = [q \in ClientQueues |-> [s |-> 0, reqs |-> <<>>]]
  BY DEF AllInit, ClientInit, ApiInit, ClientQueues
<1>2. Sequence(<<>>)
  BY EmptySeq DEF Sequence
<1>3. ApiOK
  BY <1>1, <1>2 DEF ApiOK
<1>4. QueuesOK
  BY <1>1 DEF QueuesOK
<1>5. Stopping
  BY <1>1 DEF Stopping
<1> QED BY <1>3, <1>4, <1>5 DEF TrackInv

LEMMA AheadExtends ==
  ASSUME NEW w, NEW v, Sequence(w), Extends(w, v), NEW s, NEW k, Ahead(w, s, k)
  PROVE  Ahead(v, s, k)
<1>1. Len(w) \in Nat /\ Len(v) \in Nat /\ Len(v) >= Len(w)
  BY SequenceLen DEF Extends
<1>2. PICK l \in 1..Len(w) : l > k /\ w[l].op = "stop" /\ w[l].s = s
  BY DEF Ahead
<1>3. l \in 1..Len(v) /\ v[l] = w[l]
  BY <1>1, <1>2 DEF Extends
<1> QED BY <1>2, <1>3 DEF Ahead

\* what a call of the tracking client must see to
LEMMA TrackCalled ==
  ASSUME TrackInv, Called, setup.kind = "tracking", refused' = refused, QueuesOK',
         \A i \in Interfaces : work'[i] = work[i] \/ Loaded(i),
         \A i \in Interfaces : \A k \in 1..Len(work'[i]) :
           (k > Len(work[i]) /\ work'[i][k].op = "start") => Current(tracking', queues', work'[i][k].s),
         \A s : Current(tracking, queues, s) =>
           \/ Current(tracking', queues', s)
           \/ \A i \in Interfaces : Loaded(i) =>
                \E l \in 1..Len(work'[i]) :
                  l > Len(work[i]) /\ work'[i][l].op = "stop" /\ work'[i][l].s = s
  PROVE  TrackInv'
<1>1. /\ work' = [i \in Interfaces |-> work'[i]]
      /\ \A i \in Interfaces : Extends(work[i], work'[i])
      /\ UNCHANGED <<setup, loaded, cbs, known, live>> /\ cbs # NoClient
      /\ ApiOK /\ Stopping /\ \A i \in Interfaces : Sequence(work[i])
  BY DEF Called, TrackInv, ApiOK
<1>2. ApiOK'
  BY <1>1 DEF ApiOK, Extends
<1>3. \A i \in Interfaces : work'[i] # <<>> \/ live'[i] # <<>> => loaded'[i] = "yes"
  BY <1>1 DEF Stopping, Loaded
<1>4. ASSUME NEW i \in Interfaces, NEW s, NEW k \in 0..Len(work[i]), Loaded(i),
             Ahead(work[i], s, k) \/ Current(tracking, queues, s)
      PROVE  Ahead(work'[i], s, k) \/ Current(tracking', queues', s)
  <2>1. CASE Ahead(work[i], s, k)
    BY <2>1, <1>1, AheadExtends
  <2>2. CASE Current(tracking, queues, s) /\ ~Current(tracking', queues', s)
    <3>1. PICK l \in 1..Len(work'[i]) :
            l > Len(work[i]) /\ work'[i][l].op = "stop" /\ work'[i][l].s = s
      BY <2>2, <1>4
    <3>2. Len(work[i]) \in Nat
      BY <1>1, SequenceLen
    <3> QED BY <3>1, <3>2 DEF Ahead
  <2> QED BY <1>4, <2>1, <2>2
<1>5. ASSUME NEW i \in Interfaces, NEW s \in DOMAIN live'[i]
      PROVE  s \in refused' \/ Ahead(work'[i], s, 0) \/ Current(tracking', queues', s)
  <2>1. live[i] # <<>> /\ s \in DOMAIN live[i]
    BY <1>1, <1>5
  <2>2. Loaded(i) /\ (s \in refused \/ Ahead(work[i], s, 0) \/ Current(tracking, queues, s))
    BY <2>1, <1>1 DEF Stopping
  <2>3. 0 \in 0..Len(work[i])
    BY <1>1, SequenceLen
  <2> QED BY <2>2, <2>3, <1>4
<1>6. ASSUME NEW i \in Interfaces, NEW k \in 1..Len(work'[i]), work'[i][k].op = "start"
      PROVE  Ahead(work'[i], work'[i][k].s, k) \/ Current(tracking', queues', work'[i][k].s)
  <2>1. Len(work[i]) \in Nat /\ Len(work'[i]) \in Nat
    BY <1>1, SequenceLen DEF Extends
  <2>2. CASE k > Len(work[i])
    BY <2>2, <1>6
  <2>3. CASE ~(k > Len(work[i]))
    <3>1. k \in 1..Len(work[i]) /\ k \in 0..Len(work[i]) /\ work'[i][k] = work[i][k]
      BY <2>1, <2>3, <1>1 DEF Extends
    <3>2. work[i] # <<>>
      BY <3>1
    <3>3. Loaded(i) /\ (Ahead(work[i], work[i][k].s, k) \/ Current(tracking, queues, work[i][k].s))
      BY <3>1, <3>2, <1>1, <1>6 DEF Stopping
    <3> QED BY <3>1, <3>3, <1>4
  <2> QED BY <2>2, <2>3
<1>7. Stopping'
  <2>1. /\ cbs' # NoClient
        /\ \A i \in Interfaces : work'[i] # <<>> \/ live'[i] # <<>> => loaded'[i] = "yes"
    BY <1>1, <1>3
  <2> QED BY <2>1, <1>5, <1>6 DEF Stopping, Loaded, Ahead, Current
<1> QED BY <1>2, <1>7 DEF TrackInv

\* one call more for the interfaces in is, for interface j
LEMMA PostedAll ==
  ASSUME ApiOK, NEW is, NEW m, work' = PostAll(is, m), NEW i \in Interfaces
  PROVE  /\ Len(work[i]) \in Nat
         /\ i \notin is => work'[i] = work[i]
         /\ i \in is => /\ Len(work'[i]) = Len(work[i]) + 1 /\ work'[i][Len(work[i]) + 1] = m
                        /\ \A k \in 1..Len(work[i]) : work'[i][k] = work[i][k]
<1>1. Sequence(work[i])
  BY DEF ApiOK
<1>2. work'[i] = IF i \in is THEN Append(work[i], m) ELSE work[i]
  BY DEF PostAll
<1>3. CASE i \in is
  BY <1>1, <1>2, <1>3, Grown
<1>4. CASE i \notin is
  BY <1>1, <1>2, <1>4, SequenceLen
<1> QED BY <1>3, <1>4

LEMMA PostedOne ==
  ASSUME ApiOK, NEW j \in Interfaces, NEW m, work' = Post(j, m), NEW i \in Interfaces
  PROVE  /\ Len(work[i]) \in Nat
         /\ i # j => work'[i] = work[i]
         /\ i = j => /\ Len(work'[i]) = Len(work[i]) + 1 /\ work'[i][Len(work[i]) + 1] = m
                     /\ \A k \in 1..Len(work[i]) : work'[i][k] = work[i][k]
<1>1. Sequence(work[i]) /\ work = [x \in Interfaces |-> work[x]]
  BY DEF ApiOK
<1>2. work'[i] = IF i = j THEN Append(work[i], m) ELSE work[i]
  BY <1>1 DEF Post
<1>3. CASE i = j
  BY <1>1, <1>2, <1>3, Grown
<1>4. CASE i # j
  BY <1>1, <1>2, <1>4, SequenceLen
<1> QED BY <1>3, <1>4

LEMMA PushedQueue ==
  ASSUME QueuesOK, NEW q \in ClientQueues, NEW rs, queues' = [queues EXCEPT ![q].reqs = rs]
  PROVE  QueuesOK' /\ \A x \in ClientQueues : queues'[x].s = queues[x].s
<1>1. /\ queues = [x \in ClientQueues |-> queues[x]]
      /\ \A x \in ClientQueues : queues[x] = [s |-> queues[x].s, reqs |-> queues[x].reqs]
  BY DEF QueuesOK
<1>2. queues' = [x \in ClientQueues |-> IF x = q THEN [queues[q] EXCEPT !.reqs = rs] ELSE queues[x]]
  BY <1>1
<1>3. [queues[q] EXCEPT !.reqs = rs] = [s |-> queues[q].s, reqs |-> rs]
  BY <1>1
<1>4. \A x \in ClientQueues :
        queues'[x] = IF x = q THEN [s |-> queues[q].s, reqs |-> rs] ELSE queues[x]
  BY <1>2, <1>3
<1>5. queues' = [x \in ClientQueues |-> queues'[x]]
  BY <1>2
<1>6. \A x \in ClientQueues : /\ queues'[x] = [s |-> queues'[x].s, reqs |-> queues'[x].reqs]
                              /\ queues'[x].s = queues[x].s
  BY <1>1, <1>4
<1> QED BY <1>5, <1>6 DEF QueuesOK

LEMMA ResetQueue ==
  ASSUME QueuesOK, NEW q \in ClientQueues, NEW s, NEW r, queues' = ResetTo(q, s, r)
  PROVE  /\ QueuesOK' /\ queues'[q].s = s
         /\ \A x \in ClientQueues \ {q} : queues'[x] = queues[x]
<1>1. /\ queues = [x \in ClientQueues |-> queues[x]]
      /\ \A x \in ClientQueues : queues[x] = [s |-> queues[x].s, reqs |-> queues[x].reqs]
  BY DEF QueuesOK
<1> DEFINE e == [s |-> s, reqs |-> <<r>>]
<1>2. e.s = s /\ e = [s |-> e.s, reqs |-> e.reqs]
  OBVIOUS
<1>3. queues' = [queues EXCEPT ![q] = e]
  BY DEF ResetTo
<1> HIDE DEF e
<1>4. queues' = [x \in ClientQueues |-> IF x = q THEN e ELSE queues[x]]
  BY <1>1, <1>3
<1>5. queues' = [x \in ClientQueues |-> queues'[x]]
  BY <1>4
<1>6. \A x \in ClientQueues : queues'[x] = [s |-> queues'[x].s, reqs |-> queues'[x].reqs]
  BY <1>1, <1>2, <1>4
<1> QED BY <1>2, <1>4, <1>5, <1>6 DEF QueuesOK

LEMMA StartStops ==
  ASSUME TrackInv, setup.kind = "tracking", NEW far \in BOOLEAN, locAPIStartTracking(far)
  PROVE  TrackInv'
<1>1. ApiOK /\ QueuesOK /\ Called /\ refused' = refused
  BY TrackingCalled DEF TrackInv, locAPIStartTracking, TrackingCall, CallFrame
<1>2. CASE tracking
  <2>1. UNCHANGED <<tracking, queues, lastId, work>>
    BY <1>2 DEF locAPIStartTracking
  <2>2. QueuesOK'
    BY <2>1, <1>1 DEF QueuesOK
  <2>3. \A i \in Interfaces : \A k \in 1..Len(work'[i]) : ~(k > Len(work[i]))
    <3>1. \A i \in Interfaces : Len(work[i]) \in Nat
      BY <1>1, SequenceLen DEF ApiOK
    <3> QED BY <3>1, <2>1
  <2> QED BY <2>1, <2>2, <2>3, <1>1, TrackCalled
<1>3. CASE ~tracking
  <2> DEFINE j == Tracker(far)
             a == NewSession(j)
             m == Msg("start", lastId', "fix", Req("start", lastId'))
  <2>1. /\ Start(j, "fix", "start") /\ tracking' = TRUE
        /\ queues' = ResetTo("tracking", a, Req("start", a))
    BY <1>3 DEF locAPIStartTracking
  <2>2. QueuesOK' /\ queues'["tracking"].s = a
    BY <2>1, <1>1, ResetQueue DEF ClientQueues
  <2>3. work' = IF j = NoClient THEN work ELSE Post(j, m)
    BY <2>1 DEF Start
  <2>4. j # NoClient => a = lastId'
    BY <2>1 DEF Start, NewSession
  <2>5. j = NoClient \/ (j \in Interfaces /\ Loaded(j))
    BY DEF Tracker, Interfaces
  <2>6. m.s = lastId'
    BY DEF Msg
  <2> HIDE DEF a, j, m
  <2>7. \A i \in Interfaces : work'[i] = work[i] \/ Loaded(i)
    <3>1. CASE j = NoClient
      BY <3>1, <2>3
    <3>2. CASE j # NoClient
      <4>1. work' = Post(j, m) /\ j \in Interfaces /\ Loaded(j)
        BY <3>2, <2>3, <2>5
      <4>2. \A i \in Interfaces : i # j => work'[i] = work[i]
        BY <4>1, <1>1, PostedOne
      <4> QED BY <4>1, <4>2
    <3> QED BY <3>1, <3>2
  <2>8. ASSUME NEW i \in Interfaces, NEW k \in 1..Len(work'[i]), k > Len(work[i])
        PROVE  Current(tracking', queues', work'[i][k].s)
    <3>0. Len(work[i]) \in Nat
      BY <1>1, SequenceLen DEF ApiOK
    <3>1. j # NoClient /\ work' = Post(j, m)
      <4>1. work'[i] # work[i]
        BY <3>0, <2>8
      <4> QED BY <4>1, <2>3
    <3>2. i = j /\ Len(work'[i]) = Len(work[i]) + 1 /\ work'[i][Len(work[i]) + 1] = m
      <4>1. j \in Interfaces
        BY <3>1, <2>5
      <4>2. /\ i # j => work'[i] = work[i]
            /\ i = j => Len(work'[i]) = Len(work[i]) + 1 /\ work'[i][Len(work[i]) + 1] = m
        BY <4>1, <3>1, <1>1, PostedOne
      <4> QED BY <4>2, <3>0, <2>8
    <3>3. k = Len(work[i]) + 1
      BY <3>0, <3>2, <2>8
    <3> QED BY <3>1, <3>2, <3>3, <2>1, <2>2, <2>4, <2>6 DEF Current
  <2>9. \A s : ~Current(tracking, queues, s)
    BY <1>3 DEF Current
  <2> QED BY <2>2, <2>7, <2>8, <2>9, <1>1, TrackCalled
<1> QED BY <1>2, <1>3

\* stop, update: every loaded interface is told of the present session
LEMMA ToldStops ==
  ASSUME TrackInv, setup.kind = "tracking", Called, refused' = refused, QueuesOK',
         NEW m, m.op # "start", work' = work \/ work' = PostAll(Trackers, m),
         \/ tracking' = tracking
         \/ /\ m.op = "stop" /\ m.s = queues["tracking"].s
            /\ work' = PostAll(Trackers, m),
         queues'["tracking"].s = queues["tracking"].s
  PROVE  TrackInv'
<1>1. ApiOK /\ \A i \in Interfaces : Len(work[i]) \in Nat
  BY SequenceLen DEF TrackInv, ApiOK
<1>2. \A i \in Interfaces : i \in Trackers <=> Loaded(i)
  BY DEF Trackers
<1>3. CASE work' = work
  <2>1. \A i \in Interfaces : \A k \in 1..Len(work'[i]) : ~(k > Len(work[i]))
    BY <1>1, <1>3
  <2>2. \A s : Current(tracking, queues, s) =>
           \/ Current(tracking', queues', s)
           \/ \A i \in Interfaces : Loaded(i) =>
                \E l \in 1..Len(work'[i]) :
                  l > Len(work[i]) /\ work'[i][l].op = "stop" /\ work'[i][l].s = s
    <3>1. CASE tracking' = tracking
      BY <3>1 DEF Current
    <3>2. CASE m.op = "stop" /\ m.s = queues["tracking"].s /\ work' = PostAll(Trackers, m)
      <4>1. \A i \in Interfaces : ~Loaded(i)
        <5> SUFFICES ASSUME NEW i \in Interfaces, Loaded(i) PROVE FALSE
          OBVIOUS
        <5>1. i \in Trackers /\ Len(work'[i]) = Len(work[i]) + 1
          BY <3>2, <1>1, <1>2, PostedAll
        <5> QED BY <5>1, <1>1, <1>3
      <4> QED BY <4>1
    <3> QED BY <3>1, <3>2
  <2> QED BY <2>1, <2>2, <1>3, TrackCalled
<1>4. CASE work' = PostAll(Trackers, m)
  <2>1. \A i \in Interfaces :
          /\ ~Loaded(i) => work'[i] = work[i]
          /\ Loaded(i) => /\ Len(work'[i]) = Len(work[i]) + 1 /\ work'[i][Len(work[i]) + 1] = m
                          /\ \A k \in 1..Len(work[i]) : work'[i][k] = work[i][k]
    BY <1>1, <1>2, <1>4, PostedAll
  <2>2. \A i \in Interfaces : \A k \in 1..Len(work'[i]) :
          k > Len(work[i]) => work'[i][k].op # "start"
    BY <1>1, <2>1
  <2>3. \A s : Current(tracking, queues, s) =>
           \/ Current(tracking', queues', s)
           \/ \A i \in Interfaces : Loaded(i) =>
                \E l \in 1..Len(work'[i]) :
                  l > Len(work[i]) /\ work'[i][l].op = "stop" /\ work'[i][l].s = s
    <3>1. CASE tracking' = tracking
      BY <3>1 DEF Current
    <3>2. CASE m.op = "stop" /\ m.s = queues["tracking"].s
      <4>1. ASSUME NEW i \in Interfaces, Loaded(i)
            PROVE  \E l \in 1..Len(work'[i]) : /\ l > Len(work[i]) /\ work'[i][l].op = "stop"
                                               /\ work'[i][l].s = queues["tracking"].s
        BY <4>1, <3>2, <2>1, <1>1
      <4> QED BY <4>1 DEF Current
    <3> QED BY <3>1, <3>2
  <2> QED BY <2>1, <2>2, <2>3, TrackCalled
<1> QED BY <1>3, <1>4

LEMMA CallStops == ASSUME TrackInv, setup.kind = "tracking", TrackingCall PROVE TrackInv'
<1>1. ApiOK /\ QueuesOK /\ Called /\ \A i \in Interfaces : Len(work[i]) \in Nat
  BY TrackingCalled, SequenceLen DEF TrackInv, ApiOK
<1> DEFINE s == queues["tracking"].s
<1>2. ASSUME QueuesOK, NEW r, queues' = Pushed("tracking", r)
      PROVE  QueuesOK' /\ queues'["tracking"].s = s
  <2>1. queues' = [queues EXCEPT !["tracking"].reqs = Append(queues["tracking"].reqs, r)]
    BY <1>2 DEF Pushed
  <2> DEFINE rs == Append(queues["tracking"].reqs, r)
  <2>2. queues' = [queues EXCEPT !["tracking"].reqs = rs]
    BY <2>1
  <2> HIDE DEF rs
  <2> QED BY <2>2, <1>1, PushedQueue DEF ClientQueues
<1>3. queues' = queues => QueuesOK'
  BY <1>1 DEF QueuesOK
<1>4. CASE locAPIStopTracking
  <2> DEFINE m == Msg("stop", s, "fix", Req("stop", s))
  <2>1. /\ refused' = refused
        /\ \/ queues' = Pushed("tracking", Req("stop", s)) /\ work' = PostAll(Trackers, m)
           \/ UNCHANGED <<queues, work, tracking>>
    BY <1>4 DEF locAPIStopTracking, stopTracking, CallFrame
  <2>2. m.op = "stop" /\ m.s = s
    BY DEF Msg
  <2> HIDE DEF m
  <2>3. QueuesOK' /\ queues'["tracking"].s = s
    BY <2>1, <1>1, <1>2, <1>3
  <2> QED BY <2>1, <2>2, <2>3, <1>1, ToldStops
<1>5. CASE locAPIUpdateTrackingOptions
  <2> DEFINE m == Msg("update", s, "fix", Req("update", s))
  <2>1. /\ refused' = refused /\ tracking' = tracking
        /\ \/ queues' = Pushed("tracking", Req("update", s)) /\ work' = PostAll(Trackers, m)
           \/ UNCHANGED <<queues, work>>
    BY <1>5 DEF locAPIUpdateTrackingOptions, updateTrackingOptions, CallFrame
  <2>2. m.op # "start"
    BY DEF Msg
  <2> HIDE DEF m
  <2>3. QueuesOK' /\ queues'["tracking"].s = s
    BY <2>1, <1>1, <1>2, <1>3
  <2> QED BY <2>1, <2>2, <2>3, <1>1, ToldStops
<1>6. ASSUME NEW id \in setup.ni, locAPIGnssNiResponse(id) PROVE TrackInv'
  <2> DEFINE m == Msg("ni", id, "fix", Req("ni", id))
  <2>1. /\ refused' = refused /\ tracking' = tracking
        /\ queues' = ResetTo("ni", id, Req("ni", id))
        /\ work' = IF Loaded("gnss") THEN Post("gnss", m) ELSE work
    BY <1>6 DEF locAPIGnssNiResponse, gnssNiResponse, CallOne, CallFrame
  <2>2. QueuesOK' /\ queues'["tracking"] = queues["tracking"]
    BY <2>1, <1>1, ResetQueue DEF ClientQueues
  <2>3. m.op # "start"
    BY DEF Msg
  <2> HIDE DEF m
  <2>4. \A i \in Interfaces : work'[i] = work[i]
          \/ /\ i = "gnss" /\ Loaded(i)
             /\ Len(work'[i]) = Len(work[i]) + 1 /\ work'[i][Len(work[i]) + 1] = m
    <3>1. CASE ~Loaded("gnss")
      BY <3>1, <2>1
    <3>2. CASE Loaded("gnss")
      <4>1. work' = Post("gnss", m) /\ "gnss" \in Interfaces
        BY <3>2, <2>1 DEF Interfaces
      <4> QED BY <4>1, <3>2, <1>1, PostedOne
    <3> QED BY <3>1, <3>2
  <2>5. \A i \in Interfaces : \A k \in 1..Len(work'[i]) :
          k > Len(work[i]) => work'[i][k].op # "start"
    BY <2>3, <2>4, <1>1
  <2>6. \A x : Current(tracking, queues, x) => Current(tracking', queues', x)
    BY <2>1, <2>2 DEF Current
  <2> QED BY <2>1, <2>2, <2>4, <2>5, <2>6, <1>1, TrackCalled
<1> QED BY <1>4, <1>5, <1>6, StartStops DEF TrackingCall

\* the callbacks: a call for the interfaces that are loaded now
LEMMA AddStops ==
  ASSUME TrackInv, ApiOK', setup.kind = "tracking", NEW c, c # NoClient, locAPISetCallbacks(c)
  PROVE  TrackInv'
<1> DEFINE m == Msg("add", 0, c, NoClient)
           is == {j \in Wanted(c) : loaded'[j] = "yes"}
<1>1. /\ cbs' = c /\ loaded' = Load(c) /\ UNCHANGED <<setup, live>> /\ work' = PostAll(is, m)
      /\ UNCHANGED <<tracking, queues, refused>> /\ calls < setup.calls
  BY DEF locAPISetCallbacks, createInstance, updateCallbacks, AddClient, clientVars
<1>2. m.op = "add"
  BY DEF Msg
<1>3. \A i \in is : loaded'[i] = "yes"
  OBVIOUS
<1>4. \A i \in Interfaces : Loaded(i) => loaded'[i] = "yes"
  BY <1>1 DEF Loaded, Load
<1>5. ApiOK /\ Stopping /\ QueuesOK
  BY DEF TrackInv
<1> HIDE DEF m, is
<1>6. ASSUME NEW i \in Interfaces
      PROVE  /\ Len(work[i]) \in Nat
             /\ i \notin is => work'[i] = work[i]
             /\ i \in is => /\ Len(work'[i]) = Len(work[i]) + 1 /\ work'[i][Len(work[i]) + 1] = m
                            /\ \A k \in 1..Len(work[i]) : work'[i][k] = work[i][k]
  BY <1>1, <1>5, PostedAll
<1>7. ASSUME NEW i \in Interfaces, NEW s, NEW k, Ahead(work[i], s, k) PROVE Ahead(work'[i], s, k)
  <2>1. PICK l \in 1..Len(work[i]) : l > k /\ work[i][l].op = "stop" /\ work[i][l].s = s
    BY <1>7 DEF Ahead
  <2>2. l \in 1..Len(work'[i]) /\ work'[i][l] = work[i][l]
    BY <2>1, <1>6
  <2> QED BY <2>1, <2>2 DEF Ahead
<1>8. \A s : Current(tracking', queues', s) <=> Current(tracking, queues, s)
  BY <1>1 DEF Current
<1>9. \A i \in Interfaces : work'[i] # <<>> \/ live'[i] # <<>> => loaded'[i] = "yes"
  <2> SUFFICES ASSUME NEW i \in Interfaces, work'[i] # <<>> \/ live'[i] # <<>>
               PROVE  loaded'[i] = "yes"
    OBVIOUS
  <2>1. CASE i \in is
    BY <2>1, <1>3
  <2>2. CASE i \notin is
    BY <2>2, <1>1, <1>4, <1>5, <1>6 DEF Stopping
  <2> QED BY <2>1, <2>2
<1>10. ASSUME NEW i \in Interfaces, NEW s \in DOMAIN live'[i]
       PROVE  s \in refused' \/ Ahead(work'[i], s, 0) \/ Current(tracking', queues', s)
  <2>1. CASE cbs # NoClient
    <3>1. s \in refused \/ Ahead(work[i], s, 0) \/ Current(tracking, queues, s)
      BY <2>1, <1>1, <1>5, <1>10 DEF Stopping
    <3> QED BY <3>1, <1>1, <1>7, <1>8
  <2>2. CASE cbs = NoClient
    BY <2>2, <1>1, <1>5, <1>10 DEF Stopping
  <2> QED BY <2>1, <2>2
<1>11. ASSUME NEW i \in Interfaces, NEW k \in 1..Len(work'[i]), work'[i][k].op = "start"
       PROVE  Ahead(work'[i], work'[i][k].s, k) \/ Current(tracking', queues', work'[i][k].s)
  <2>1. k \in 1..Len(work[i]) /\ work'[i][k] = work[i][k]
    BY <1>2, <1>6, <1>11
  <2>2. CASE cbs # NoClient
    <3>1. Ahead(work[i], work[i][k].s, k) \/ Current(tracking, queues, work[i][k].s)
      BY <2>1, <2>2, <1>5, <1>11 DEF Stopping
    <3> QED BY <3>1, <2>1, <1>7, <1>8
  <2>3. CASE cbs = NoClient
    BY <2>1, <2>3, <1>1, <1>5 DEF Stopping
  <2> QED BY <2>2, <2>3
<1>12. Stopping'
  <2>1. cbs' # NoClient
    BY <1>1
  <2> QED BY <2>1, <1>9, <1>10, <1>11 DEF Stopping, Loaded, Ahead, Current
<1>13. QueuesOK'
  BY <1>1, <1>5 DEF QueuesOK
<1> QED BY <1>12, <1>13 DEF TrackInv

LEMMA DestroyStops ==
  ASSUME TrackInv, ApiOK', setup.kind = "tracking", DestroyClient PROVE TrackInv'
<1>1. /\ cbs' = NoClient /\ calls' = setup.calls /\ UNCHANGED <<setup, live, loaded>>
      /\ queues' = [q \in DOMAIN queues |-> [s |-> 0, reqs |-> <<>>]]
      /\ work' = PostAll(RemoveFrom, Msg("remove", 0, NoClient, NoClient))
  BY DEF DestroyClient, Destroy
<1>2. ApiOK /\ Stopping /\ QueuesOK
  BY DEF TrackInv
<1>3. ~(calls' < setup'.calls)
  BY <1>1, <1>2, SetupsAssumption DEF SetupsAssumption, ApiOK
<1>4. \A i \in Interfaces : work'[i] # <<>> \/ live'[i] # <<>> => loaded'[i] = "yes"
  <2> SUFFICES ASSUME NEW i \in Interfaces, work'[i] # <<>> \/ live'[i] # <<>>
               PROVE  loaded'[i] = "yes"
    OBVIOUS
  <2>1. CASE i \in RemoveFrom
    BY <2>1, <1>1 DEF RemoveFrom, Loaded
  <2>2. CASE i \notin RemoveFrom
    <3>1. work'[i] = work[i]
      BY <2>2, <1>1 DEF PostAll
    <3> QED BY <3>1, <1>1, <1>2 DEF Stopping, Loaded
  <2> QED BY <2>1, <2>2
<1>5. Stopping'
  BY <1>1, <1>3, <1>4 DEF Stopping, Loaded
<1>6. QueuesOK'
  <2>1. queues' = [q \in ClientQueues |-> [s |-> 0, reqs |-> <<>>]]
    BY <1>1, <1>2 DEF QueuesOK
  <2> QED BY <2>1 DEF QueuesOK
<1> QED BY <1>5, <1>6 DEF TrackInv

LEMMA AnswerStops ==
  ASSUME TrackInv, setup.kind = "tracking", NEW i \in Interfaces, Answer(i) PROVE TrackInv'
<1> DEFINE m == work[i][1]
<1>0. ApiOK /\ Stopping /\ QueuesOK
  BY DEF TrackInv
<1>1. /\ ApiOK' /\ work[i] # <<>> /\ Sequence(work[i]) /\ work'[i] = Tail(work[i])
      /\ \A j \in Interfaces \ {i} : work'[j] = work[j] /\ live'[j] = live[j]
      /\ UNCHANGED <<setup, loaded, cbs, calls, tracking>>
  BY <1>0, AnswerServes
<1>2. PICK r \in Results(i, m) :
        /\ live'[i] = r.live
        /\ refused' = refused \union {s \in {m.s} : m.op = "stop" /\ ~r.ok}
  BY <1>0, AnswerServes
<1>3. /\ Len(work[i]) \in Nat \ {0} /\ Len(work'[i]) = Len(work[i]) - 1
      /\ \A k \in 1..Len(work'[i]) : k + 1 \in 1..Len(work[i]) /\ work'[i][k] = work[i][k + 1]
  BY <1>1, Shrunk
<1>4. QueuesOK' /\ queues'["tracking"].s = queues["tracking"].s
  <2>1. CASE queues' = queues
    BY <2>1, <1>0 DEF QueuesOK
  <2>2. CASE \E q \in ClientQueues : queues' = [queues EXCEPT ![q].reqs = Tail(@)]
    <3>1. PICK q \in ClientQueues : queues' = [queues EXCEPT ![q].reqs = Tail(queues[q].reqs)]
      BY <2>2
    <3> DEFINE rs == Tail(queues[q].reqs)
    <3>2. queues' = [queues EXCEPT ![q].reqs = rs]
      BY <3>1
    <3> HIDE DEF rs
    <3> QED BY <3>2, <1>0, PushedQueue DEF ClientQueues
  <2>3. PICK x, y : TakeRequest(i, x, y)
    BY DEF Answer
  <2>4. SourceOf(x.s) = NoClient \/ SourceOf(x.s) \in ClientQueues
    BY DEF SourceOf, Holder, ClientQueues
  <2> QED BY <2>1, <2>2, <2>3, <2>4 DEF TakeRequest
<1>5. \A s : Current(tracking', queues', s) <=> Current(tracking, queues, s)
  BY <1>1, <1>4 DEF Current
<1> HIDE DEF m
<1>6. ASSUME NEW s, NEW k \in Nat, Ahead(work[i], s, k + 1) PROVE Ahead(work'[i], s, k)
  <2>1. PICK l \in 1..Len(work[i]) : l > k + 1 /\ work[i][l].op = "stop" /\ work[i][l].s = s
    BY <1>6 DEF Ahead
  <2>2. l - 1 \in 1..Len(work'[i]) /\ l - 1 > k /\ (l - 1) + 1 = l
    BY <2>1, <1>3
  <2>3. work'[i][l - 1] = work[i][l]
    BY <2>2, <1>3
  <2> QED BY <2>1, <2>2, <2>3 DEF Ahead
<1>7. (Loaded(i) /\ cbs # NoClient) \/ ~(cbs = NoClient /\ calls < setup.calls)
  BY <1>0, <1>1 DEF Stopping
<1>8. ~(cbs' = NoClient /\ calls' < setup'.calls)
  BY <1>0, <1>1 DEF Stopping
<1>9. ASSUME cbs # NoClient, NEW s \in DOMAIN live'[i]
      PROVE  s \in refused' \/ Ahead(work'[i], s, 0) \/ Current(tracking, queues, s)
  <2>1. CASE m.op = "start" /\ s = m.s
    <3>1. Ahead(work[i], s, 1) \/ Current(tracking, queues, s)
      BY <2>1, <1>0, <1>3, <1>9 DEF Stopping, m
    <3>2. 0 \in Nat /\ 0 + 1 = 1
      OBVIOUS
    <3> QED BY <3>1, <3>2, <1>6
  <2>2. CASE s \in DOMAIN live[i]
    <3>1. s \in refused \/ Ahead(work[i], s, 0) \/ Current(tracking, queues, s)
      BY <2>2, <1>0, <1>9 DEF Stopping
    <3>2. CASE Ahead(work[i], s, 0)
      <4>1. PICK l \in 1..Len(work[i]) : l > 0 /\ work[i][l].op = "stop" /\ work[i][l].s = s
        BY <3>2 DEF Ahead
      <4>2. CASE l = 1
        <5>1. m.op = "stop" /\ m.s = s
          BY <4>1, <4>2 DEF m
        <5>2. r = Result(live[i], TRUE, FALSE) \/ r = Result(Without(live[i], m.s), TRUE, TRUE)
          BY <5>1, <2>2, ResultKinds
        <5>3. CASE r = Result(live[i], TRUE, FALSE)
          <6>1. ~r.ok
            BY <5>3 DEF Result
          <6> QED BY <6>1, <5>1, <1>2
        <5>4. CASE r = Result(Without(live[i], m.s), TRUE, TRUE)
          BY <5>1, <5>4, <1>2, <1>9 DEF Result, Without
        <5> QED BY <5>2, <5>3, <5>4
      <4>3. CASE l # 1
        <5>1. l > 0 + 1
          BY <4>1, <4>3
        <5>2. Ahead(work[i], s, 0 + 1)
          BY <4>1, <5>1 DEF Ahead
        <5> QED BY <5>2, <1>6
      <4> QED BY <4>2, <4>3
    <3> QED BY <3>1, <3>2, <1>2
  <2>3. s \in DOMAIN live[i] \/ (m.op = "start" /\ s = m.s)
    <3>1. \/ r.live = live[i] \/ r.live = <<>> \/ r.live = Without(live[i], m.s)
          \/ r.live = [live[i] EXCEPT ![m.s] = m.mode]
          \/ m.op = "start" /\ r.live = With(live[i], m.s, m.mode)
      BY ResultKinds DEF Result
    <3>2. s \in DOMAIN r.live
      BY <1>2, <1>9
    <3>3. DOMAIN <<>> = {}
      OBVIOUS
    <3> QED BY <3>1, <3>2, <3>3 DEF Without, With
  <2> QED BY <2>1, <2>2, <2>3
<1>10. ASSUME cbs # NoClient, NEW k \in 1..Len(work'[i]), work'[i][k].op = "start"
       PROVE  Ahead(work'[i], work'[i][k].s, k) \/ Current(tracking, queues, work'[i][k].s)
  <2>1. k + 1 \in 1..Len(work[i]) /\ work'[i][k] = work[i][k + 1] /\ k \in Nat
    BY <1>3
  <2>2. Ahead(work[i], work'[i][k].s, k + 1) \/ Current(tracking, queues, work'[i][k].s)
    BY <2>1, <1>0, <1>10 DEF Stopping
  <2> QED BY <2>1, <2>2, <1>6
<1>11. refused \subseteq refused'
  BY <1>2
<1>12. ASSUME cbs # NoClient, NEW j \in Interfaces, NEW s \in DOMAIN live'[j]
       PROVE  s \in refused' \/ Ahead(work'[j], s, 0) \/ Current(tracking', queues', s)
  <2>1. CASE j = i
    BY <2>1, <1>5, <1>9, <1>12
  <2>2. CASE j # i
    <3>1. work'[j] = work[j] /\ live'[j] = live[j]
      BY <2>2, <1>1
    <3> QED BY <3>1, <1>0, <1>5, <1>11, <1>12 DEF Stopping
  <2> QED BY <2>1, <2>2
<1>13. ASSUME cbs # NoClient, NEW j \in Interfaces, NEW k \in 1..Len(work'[j]),
              work'[j][k].op = "start"
       PROVE  Ahead(work'[j], work'[j][k].s, k) \/ Current(tracking', queues', work'[j][k].s)
  <2>1. CASE j = i
    BY <2>1, <1>5, <1>10, <1>13
  <2>2. CASE j # i
    <3>1. work'[j] = work[j]
      BY <2>2, <1>1
    <3> QED BY <3>1, <1>0, <1>5, <1>13 DEF Stopping
  <2> QED BY <2>1, <2>2
<1>14. \A j \in Interfaces : work'[j] # <<>> \/ live'[j] # <<>> => loaded'[j] = "yes"
  <2>1. Loaded(i)
    BY <1>0, <1>1 DEF Stopping
  <2> QED BY <2>1, <1>0, <1>1 DEF Stopping, Loaded
<1>15. Stopping'
  <2>1. cbs' = cbs
    BY <1>1
  <2> QED BY <2>1, <1>8, <1>12, <1>13, <1>14 DEF Stopping, Loaded, Ahead, Current
<1> QED BY <1>1, <1>4, <1>15 DEF TrackInv

\* steps in which nothing starts, and sessions end at most
LEMMA QuietStops ==
  ASSUME TrackInv, ApiOK', setup.kind = "tracking",
         UNCHANGED <<setup, loaded, cbs, work, calls, queues, tracking, refused>>,
         \A i \in Interfaces : /\ DOMAIN live'[i] \subseteq DOMAIN live[i]
                               /\ live'[i] # <<>> => live[i] # <<>>
                               /\ cbs = NoClient => live'[i] = live[i]
  PROVE  TrackInv'
<1>1. Stopping /\ QueuesOK
  BY DEF TrackInv
<1>2. QueuesOK'
  BY <1>1 DEF QueuesOK
<1>3. /\ \A i \in Interfaces : work'[i] # <<>> \/ live'[i] # <<>> => loaded'[i] = "yes"
      /\ cbs' = NoClient /\ calls' < setup'.calls =>
           \A i \in Interfaces : live'[i] = <<>> /\ work'[i] = <<>>
  BY <1>1 DEF Stopping, Loaded
<1>4. ASSUME cbs # NoClient, NEW i \in Interfaces
      PROVE  /\ \A s \in DOMAIN live'[i] :
                  s \in refused' \/ Ahead(work'[i], s, 0) \/ Current(tracking', queues', s)
             /\ \A k \in 1..Len(work'[i]) : work'[i][k].op = "start" =>
                  Ahead(work'[i], work'[i][k].s, k) \/ Current(tracking', queues', work'[i][k].s)
  <2>1. work'[i] = work[i] /\ refused' = refused /\ tracking' = tracking /\ queues' = queues
    OBVIOUS
  <2> QED BY <2>1, <1>1, <1>4 DEF Stopping
<1>5. Stopping'
  <2>1. cbs' = cbs
    OBVIOUS
  <2> QED BY <2>1, <1>3, <1>4 DEF Stopping, Loaded, Ahead, Current
<1> QED BY <1>2, <1>5 DEF TrackInv

LEMMA TrackInductive ==
  ASSUME LeaveInv, LeaveInv', TrackInv, [AllNext]_AllVars PROVE TrackInv'
<1>0. ApiOK /\ ApiOK'
  BY DEF LeaveInv
<1>1. CASE ClientNext /\ setup.kind = "tracking"
  <2>1. ASSUME NEW c \in setup.cbs, locAPISetCallbacks(c) PROVE TrackInv'
    <3>1. c # NoClient
      BY <1>0, SetupsAssumption DEF SetupsAssumption, ApiOK
    <3> QED BY <3>1, <2>1, <1>0, <1>1, AddStops
  <2>2. ASSUME NEW i \in Interfaces, onResponse(i) PROVE TrackInv'
    <3>1. UNCHANGED <<setup, loaded, cbs, work, live, calls, queues, tracking, refused>>
      BY <2>2 DEF onResponse, apiVars
    <3> QED BY <3>1, <1>0, <1>1, QuietStops
  <2>3. ASSUME NEW s, TripCompleted(s) PROVE TrackInv'
    <3>1. /\ UNCHANGED <<setup, loaded, cbs, work, calls, queues, tracking, refused>>
          /\ cbs # NoClient /\ s \in DOMAIN live["flp"]
          /\ \A i \in Interfaces : live'[i] = live[i]
                                   \/ (i = "flp" /\ live'[i] = Without(live["flp"], s))
      BY <2>3, <1>0, TripFacts
    <3>2. live["flp"] # <<>>
      BY <3>1
    <3>3. \A i \in Interfaces : /\ DOMAIN live'[i] \subseteq DOMAIN live[i]
                                /\ live'[i] # <<>> => live[i] # <<>>
      BY <3>1, <3>2 DEF Without
    <3> QED BY <3>1, <3>3, <1>0, <1>1, QuietStops
  <2>4. CASE TrackingCall
    BY <2>4, <1>1, CallStops
  <2> QED BY <1>1, <1>0, <2>1, <2>2, <2>3, <2>4, DestroyStops, AnswerStops DEF ClientNext
<1>2. CASE ClientNext /\ setup.kind # "tracking"
  <2>1. setup' = setup
    <3>1. CASE TrackingCall \/ SessionCall
      BY <3>1, <1>0, TrackingCalled, SessionCalled DEF Called
    <3>2. CASE \E c \in setup.cbs : locAPISetCallbacks(c)
      BY <3>2 DEF locAPISetCallbacks, createInstance, updateCallbacks, AddClient
    <3>3. CASE DestroyClient
      BY <3>3 DEF DestroyClient, Destroy
    <3>4. CASE \E i \in Interfaces : Answer(i) \/ onResponse(i)
      BY <3>4, <1>0, AnswerServes DEF onResponse, apiVars
    <3>5. CASE \E s \in 2..lastId : TripCompleted(s)
      BY <3>5, <1>0, TripFacts
    <3>6. ASSUME NEW id, Overtaken(id) PROVE setup' = setup
      BY <3>6, OvertakenAsks
    <3> QED BY <1>2, <3>1, <3>2, <3>3, <3>4, <3>5, <3>6 DEF ClientNext
  <2> QED BY <2>1, <1>0, <1>2 DEF TrackInv
<1>3. CASE setup.kind \in {"fence", "control"} /\ (FenceNext \/ ControlNext)
  <2>1. setup' = setup
    <3>1. CASE ControlNext
      BY <3>1 DEF ControlNext, locAPIEnable, locAPIDisable, locAPIGnssDeleteAidingData,
                  locAPIGnssUpdateConfig, ControlCall, ServeControl, apiVars
    <3>2. CASE FenceNext
      <4>1. ClientOfFences \/ ServeFences
        BY <3>2, Zenon DEF FenceNext, AddGeofences, RemoveGeofences, PauseGeofences,
                           ModifyGeofences, ResumeGeofences, RemoveAllGeofences
      <4> QED BY <4>1 DEF ClientOfFences, ServeFences, apiVars
    <3> QED BY <1>3, <3>1, <3>2
  <2> QED BY <2>1, <1>0, <1>3 DEF TrackInv
<1>4. CASE UNCHANGED clientAll
  <2>1. UNCHANGED <<setup, loaded, cbs, work, live, calls, queues, tracking, refused>>
    BY <1>4 DEF clientAll, apiVars, clientVars
  <2>2. CASE setup.kind = "tracking"
    BY <2>1, <2>2, <1>0, QuietStops
  <2>3. CASE setup.kind # "tracking"
    BY <2>1, <2>3, <1>0 DEF TrackInv
  <2> QED BY <2>2, <2>3
<1> QED BY <1>1, <1>2, <1>3, <1>4 DEF AllNext, AllVars

LEMMA TrackImplies == TrackInv => TrackingStops
<1> SUFFICES ASSUME TrackInv, setup.kind = "tracking", cbs # NoClient, ~tracking,
                    NEW i \in Interfaces
             PROVE  /\ \A s \in DOMAIN live[i] : s \in refused \/ StopAhead(i, s, 0)
                    /\ \A k \in DOMAIN work[i] : work[i][k].op = "start" =>
                         StopAhead(i, work[i][k].s, k)
  BY DEF TrackingStops
<1>1. DOMAIN work[i] = 1..Len(work[i])
  BY SequenceLen DEF TrackInv, ApiOK
<1>2. \A s, k : Ahead(work[i], s, k) => StopAhead(i, s, k)
  BY <1>1 DEF Ahead, StopAhead
<1>3. \A s : ~Current(tracking, queues, s)
  BY DEF Current
<1> QED BY <1>1, <1>2, <1>3 DEF TrackInv, Stopping

(* TrackingStops of the runs: stopTracking calls every interface that is loaded *)
(* because the client does not know which one tracks; however many the sets of  *)
(* callbacks and the starts, what tracks when the client does not has its stop  *)
(* waiting behind it, or a stop that the interface refused.                     *)
THEOREM TrackingAlwaysStops == AllSpec => []TrackingStops
<1>1. AllInit => LeaveInv /\ TrackInv
  BY LeaveInit, TrackInit
<1>2. LeaveInv /\ TrackInv /\ [AllNext]_AllVars => LeaveInv' /\ TrackInv'
  BY LeaveInductive, TrackInductive
<1>3. TrackInv => TrackingStops
  BY TrackImplies
<1> QED BY <1>1, <1>2, <1>3, PTL DEF AllSpec

(***************************************************************************)
(* The geofences.                                                          *)
(***************************************************************************)
\* what the k-th waiting call will do to fence s: add it, remove it, set its mask
Adds(k, s) == fwork[k].op = "add" /\ s \in DOMAIN fwork[k].ask
Takes(k, s) == fwork[k].op = "remove" /\ s \in DOMAIN fwork[k].ask
Sets(k, s) == fwork[k].op \in {"add", "modify"} /\ s \in DOMAIN fwork[k].ask
Waiting == 1..Len(fwork)

(* The dictionary: an id leads to the last session it was given to.           *)
FenceDict ==
  /\ fdict = [fwd |-> fdict.fwd, back |-> fdict.back, ext |-> fdict.ext]
  /\ DOMAIN fdict.back \subseteq 1..made /\ DOMAIN fdict.ext = DOMAIN fdict.back
  /\ \A s \in DOMAIN fdict.back : fdict.back[s] \in setup.ids
  /\ \A id \in DOMAIN fdict.fwd :
       fdict.fwd[id] \in DOMAIN fdict.back /\ fdict.back[fdict.fwd[id]] = id
  /\ \A s \in DOMAIN fdict.back \ odd :
       fdict.back[s] \in DOMAIN fdict.fwd /\ fdict.fwd[fdict.back[s]] = s

FenceCalls ==
  /\ setup \in ApiSetups /\ made \in Nat /\ Sequence(fwork) /\ Sequence(freqs)
  /\ Len(freqs) = Len(fwork) /\ \A k \in Waiting : freqs[k] = fwork[k].op
  /\ \A k \in Waiting : DOMAIN fwork[k].ask \subseteq 1..made
  /\ DOMAIN fences \subseteq 1..made
  /\ \A s \in DOMAIN fences : fences[s] = [mask |-> fences[s].mask, on |-> fences[s].on]

(* A fence is added once, and one that is watched or going to be is in the    *)
(* dictionary or has its removal waiting behind it.                           *)
AddedOnce ==
  \A k \in Waiting : \A s \in DOMAIN fwork[k].ask : Adds(k, s) =>
    s \notin DOMAIN fences /\ \A l \in Waiting : Adds(l, s) => l = k
WatchedKnown ==
  \A s \in DOMAIN fences \ odd : s \in DOMAIN fdict.back \/ \E k \in Waiting : Takes(k, s)
AddedKnown ==
  \A k \in Waiting : \A s \in DOMAIN fwork[k].ask \ odd : Adds(k, s) =>
    s \in DOMAIN fdict.back \/ \E l \in Waiting : l > k /\ Takes(l, s)

(* The last call that sets the mask of a fence sets what its client knows.    *)
LastMask ==
  \A s \in DOMAIN fdict.back \ odd :
    /\ \A k \in Waiting :
         Sets(k, s) /\ (\A l \in Waiting : l > k => ~Sets(l, s)) => fwork[k].ask[s] = fdict.ext[s]
    /\ (\A k \in Waiting : ~Sets(k, s)) /\ s \in DOMAIN fences => fences[s].mask = fdict.ext[s]

FenceInv == FenceDict /\ FenceCalls /\ AddedOnce /\ WatchedKnown /\ AddedKnown /\ LastMask

-----------------------------------------------------------------------------
(* A call of the client: what it may make of the dictionary.                  *)
Asks(op, ask) == CallFor(op, ask) \/ FenceCall(op, ask)
MayAsk(op, ask) ==
  /\ Asks(op, ask) /\ fences' = fences /\ setup' = setup /\ odd \subseteq odd'
  /\ made' \in Nat /\ made <= made' /\ DOMAIN ask \subseteq 1..made'
  /\ op = "add" => DOMAIN ask \subseteq DOMAIN fdict.back' \ 1..made
  /\ \A s \in DOMAIN fdict.back \ DOMAIN fdict.back' : op = "remove" /\ s \in DOMAIN ask
  /\ \A s \in DOMAIN fdict.back' \ odd' :
       /\ s \in DOMAIN fdict.back \/ (op = "add" /\ s \in DOMAIN ask)
       /\ op \in {"add", "modify"} /\ s \in DOMAIN ask => ask[s] = fdict.ext'[s]
       /\ ~(op \in {"add", "modify"} /\ s \in DOMAIN ask) => fdict.ext'[s] = fdict.ext[s]

\* the waiting calls afterwards: those before, and this one behind them
Extended(op, ask, n) ==
  /\ Len(fwork') = n
  /\ \A k \in Waiting : fwork'[k] = fwork[k]
  /\ n = Len(fwork) \/ (n = Len(fwork) + 1 /\ fwork'[n] = [op |-> op, ask |-> ask])
  /\ n = Len(fwork) => DOMAIN ask = {}

LEMMA AsksExtend ==
  ASSUME FenceCalls, NEW op, NEW ask, Asks(op, ask)
  PROVE  /\ Sequence(fwork') /\ Sequence(freqs') /\ Len(freqs') = Len(fwork')
         /\ \A k \in 1..Len(fwork') : freqs'[k] = fwork'[k].op
         /\ Extended(op, ask, Len(fwork'))
<1>1. /\ Sequence(fwork) /\ Sequence(freqs) /\ Len(freqs) = Len(fwork) /\ Len(fwork) \in Nat
      /\ \A k \in Waiting : freqs[k] = fwork[k].op
  BY SequenceLen, Shrunk DEF FenceCalls
<1>2. CASE UNCHANGED <<freqs, fwork>> /\ DOMAIN ask = {}
  BY <1>1, <1>2 DEF Extended, Waiting
<1>3. CASE FenceCall(op, ask)
  <2>1. PICK c : c = [op |-> op, ask |-> ask]
    OBVIOUS
  <2>2. c.op = op
    BY <2>1
  <2>3. fwork' = Append(fwork, c) /\ freqs' = Append(freqs, op)
    BY <1>3, <2>1 DEF FenceCall
  <2>4. /\ Sequence(fwork') /\ Len(fwork') = Len(fwork) + 1 /\ fwork'[Len(fwork) + 1] = c
        /\ \A k \in Waiting : fwork'[k] = fwork[k]
    BY <1>1, <2>3, Grown DEF Waiting
  <2>5. /\ Sequence(freqs') /\ Len(freqs') = Len(fwork) + 1 /\ freqs'[Len(fwork) + 1] = op
        /\ \A k \in Waiting : freqs'[k] = freqs[k]
    BY <1>1, <2>3, Grown DEF Waiting
  <2>6. \A k \in 1..Len(fwork') : freqs'[k] = fwork'[k].op
    BY <1>1, <2>2, <2>4, <2>5 DEF Waiting
  <2>7. Extended(op, ask, Len(fwork'))
    BY <1>1, <2>1, <2>4 DEF Extended
  <2> QED BY <2>4, <2>5, <2>6, <2>7
<1> QED BY <1>2, <1>3 DEF Asks, CallFor, NoFenceCall

LEMMA AskedInv ==
  ASSUME FenceInv, NEW op, NEW ask, MayAsk(op, ask), FenceDict'
  PROVE  FenceInv'
<1> DEFINE n == Len(fwork')
           B == DOMAIN fdict.back
           C == DOMAIN fdict.back'
<1>1. /\ Sequence(fwork') /\ Sequence(freqs') /\ Len(freqs') = n
      /\ \A k \in 1..n : freqs'[k] = fwork'[k].op
      /\ Extended(op, ask, n)
  BY AsksExtend DEF FenceInv, MayAsk
<1>2. Len(fwork) \in Nat /\ (n = Len(fwork) \/ n = Len(fwork) + 1) /\ n \in Nat /\ Waiting \subseteq 1..n
  BY <1>1, SequenceLen, Shrunk DEF FenceInv, FenceCalls, Extended, Waiting
<1>3. \A k \in Waiting : fwork'[k] = fwork[k]
  BY <1>1 DEF Extended
<1>4. \A k \in 1..n \ Waiting : k = n /\ n = Len(fwork) + 1 /\ fwork'[k].op = op /\ fwork'[k].ask = ask
  BY <1>1, <1>2 DEF Extended, Waiting
<1>5. /\ made \in Nat /\ made' \in Nat /\ made <= made' /\ DOMAIN ask \subseteq 1..made'
      /\ fences' = fences /\ setup' = setup /\ odd \subseteq odd'
      /\ 1..made \subseteq 1..made' /\ DOMAIN fences \subseteq 1..made
      /\ \A k \in Waiting : DOMAIN fwork[k].ask \subseteq 1..made
  BY DEF MayAsk, FenceInv, FenceCalls
<1>6. FenceCalls'
  <2>1. \A k \in 1..n : DOMAIN fwork'[k].ask \subseteq 1..made'
    BY <1>3, <1>4, <1>5
  <2>2. \A s \in DOMAIN fences : fences[s] = [mask |-> fences[s].mask, on |-> fences[s].on]
    BY DEF FenceInv, FenceCalls
  <2>3. setup \in ApiSetups
    BY DEF FenceInv, FenceCalls
  <2> QED BY <1>1, <1>5, <2>1, <2>2, <2>3 DEF FenceCalls, Waiting
<1>7. \A k \in 1..n \ Waiting : op = "add" => \A s \in DOMAIN fwork'[k].ask : s \in C /\ s \notin 1..made
  BY <1>4 DEF MayAsk
<1>8. AddedOnce'
  <2>1. ASSUME NEW k \in 1..n, NEW s \in DOMAIN fwork'[k].ask, fwork'[k].op = "add"
        PROVE  /\ s \notin DOMAIN fences
               /\ \A l \in 1..n : fwork'[l].op = "add" /\ s \in DOMAIN fwork'[l].ask => l = k
    <3>1. CASE k \in Waiting
      <4>1. s \in DOMAIN fwork[k].ask /\ fwork[k].op = "add" /\ s \in 1..made
        BY <1>3, <1>5, <2>1, <3>1
      <4>2. s \notin DOMAIN fences /\ \A l \in Waiting : Adds(l, s) => l = k
        BY <3>1, <4>1 DEF FenceInv, AddedOnce, Adds
      <4>3. ASSUME NEW l \in 1..n, fwork'[l].op = "add", s \in DOMAIN fwork'[l].ask PROVE l = k
        <5>1. l \in Waiting
          BY <1>4, <1>7, <4>1, <4>3
        <5> QED BY <1>3, <4>2, <4>3, <5>1 DEF Adds
      <4> QED BY <4>2, <4>3
    <3>2. CASE k \notin Waiting
      <4>1. s \notin 1..made
        BY <1>4, <1>7, <2>1, <3>2
      <4>2. \A l \in Waiting : s \notin DOMAIN fwork'[l].ask
        BY <1>3, <1>5, <4>1
      <4> QED BY <1>4, <1>5, <3>2, <4>1, <4>2
    <3> QED BY <3>1, <3>2
  <2> QED BY <1>5, <2>1 DEF AddedOnce, Adds, Waiting
<1>9. \A s \in B \ C : \E k \in 1..n \ Waiting : fwork'[k].op = "remove" /\ s \in DOMAIN fwork'[k].ask
  <2>1. ASSUME NEW s \in B \ C PROVE op = "remove" /\ s \in DOMAIN ask
    BY DEF MayAsk
  <2>2. ASSUME NEW s \in B \ C PROVE n = Len(fwork) + 1
    BY <1>1, <2>1 DEF Extended
  <2>3. ASSUME NEW s \in B \ C PROVE n \in 1..n \ Waiting
    BY <1>2, <2>2 DEF Waiting
  <2> QED BY <1>4, <2>1, <2>3
<1>10. WatchedKnown'
  <2>1. ASSUME NEW s \in DOMAIN fences \ odd', s \notin C
        PROVE  \E k \in 1..n : fwork'[k].op = "remove" /\ s \in DOMAIN fwork'[k].ask
    <3>1. CASE s \in B
      BY <1>9, <2>1, <3>1
    <3>2. CASE s \notin B
      <4>1. PICK k \in Waiting : Takes(k, s)
        BY <1>5, <2>1, <3>2 DEF FenceInv, WatchedKnown
      <4> QED BY <1>2, <1>3, <4>1 DEF Takes
    <3> QED BY <3>1, <3>2
  <2> QED BY <1>5, <2>1 DEF WatchedKnown, Takes, Waiting
<1>11. AddedKnown'
  <2>1. ASSUME NEW k \in 1..n, NEW s \in DOMAIN fwork'[k].ask \ odd', fwork'[k].op = "add", s \notin C
        PROVE  \E l \in 1..n : l > k /\ fwork'[l].op = "remove" /\ s \in DOMAIN fwork'[l].ask
    <3>0. k \in Waiting
      BY <1>4, <1>7, <2>1
    <3>1. CASE s \in B
      <4>1. PICK l \in 1..n \ Waiting : fwork'[l].op = "remove" /\ s \in DOMAIN fwork'[l].ask
        BY <1>9, <2>1, <3>1
      <4>2. l > k
        BY <1>2, <1>4, <3>0 DEF Waiting
      <4> QED BY <4>1, <4>2
    <3>2. CASE s \notin B
      <4>0. s \in DOMAIN fwork[k].ask \ odd /\ Adds(k, s)
        BY <1>3, <1>5, <2>1, <3>0 DEF Adds
      <4>1. PICK l \in Waiting : l > k /\ Takes(l, s)
        BY <3>0, <3>2, <4>0 DEF FenceInv, AddedKnown
      <4> QED BY <1>2, <1>3, <4>1 DEF Takes
    <3> QED BY <3>1, <3>2
  <2> QED BY <2>1 DEF AddedKnown, Adds, Takes, Waiting
<1>12. LastMask'
  <2> DEFINE NewSets(k, s) == fwork'[k].op \in {"add", "modify"} /\ s \in DOMAIN fwork'[k].ask
             M == {s \in DOMAIN ask : op \in {"add", "modify"}}
  <2>0. \A s \in C \ odd' :
           /\ s \in (B \ odd) \union M
           /\ s \in M => ask[s] = fdict.ext'[s]
           /\ s \notin M => fdict.ext'[s] = fdict.ext[s]
    <3>1. \A s \in C \ odd' : s \in B \/ s \in M
      BY DEF MayAsk
    <3>2. \A s \in C \ odd' : s \in M => ask[s] = fdict.ext'[s]
      BY DEF MayAsk
    <3>3. \A s \in C \ odd' : s \notin M => fdict.ext'[s] = fdict.ext[s]
      BY DEF MayAsk
    <3> QED BY <1>5, <3>1, <3>2, <3>3
  <2>0a. ASSUME NEW s, NEW k \in Waiting PROVE NewSets(k, s) <=> Sets(k, s)
    BY <1>3 DEF Sets
  <2>0b. ASSUME NEW s, NEW k \in 1..n \ Waiting PROVE NewSets(k, s) <=> s \in M
    BY <1>4
  <2>0c. ASSUME NEW s \in M PROVE n \in 1..n \ Waiting
    BY <1>1, <1>2 DEF Extended, Waiting
  <2>0d. ASSUME NEW s, s \in M PROVE NewSets(n, s)
    BY <2>0b, <2>0c, <2>0d
  <2> HIDE DEF NewSets, M
  <2>1. ASSUME NEW s \in C \ odd', NEW k \in 1..n, NewSets(k, s),
               \A l \in 1..n : l > k => ~NewSets(l, s)
        PROVE  fwork'[k].ask[s] = fdict.ext'[s]
    <3>1. CASE k \notin Waiting
      <4>1. s \in M
        BY <2>0b, <2>1, <3>1
      <4> QED BY <1>4, <2>0, <3>1, <4>1
    <3>2. CASE k \in Waiting
      <4>1. s \notin M
        <5>1. ASSUME s \in M PROVE FALSE
          <6>1. n \in 1..n /\ n \notin Waiting /\ NewSets(n, s)
            BY <2>0c, <2>0d, <5>1
          <6>2. n > k
            BY <1>2, <3>2, <6>1 DEF Waiting
          <6> QED BY <2>1, <6>1, <6>2
        <5> QED BY <5>1
      <4>2. s \in B \ odd
        BY <2>0, <4>1
      <4>3. Sets(k, s) /\ \A l \in Waiting : l > k => ~Sets(l, s)
        BY <1>2, <2>0a, <2>1, <3>2
      <4>4. fwork[k].ask[s] = fdict.ext[s]
        BY <3>2, <4>2, <4>3 DEF FenceInv, LastMask
      <4> QED BY <1>3, <2>0, <3>2, <4>1, <4>4
    <3> QED BY <3>1, <3>2
  <2>2. ASSUME NEW s \in C \ odd', \A k \in 1..n : ~NewSets(k, s), s \in DOMAIN fences
        PROVE  fences[s].mask = fdict.ext'[s]
    <3>1. s \notin M
      BY <2>0c, <2>0d, <2>2
    <3>2. s \in B \ odd
      BY <2>0, <3>1
    <3>3. \A k \in Waiting : ~Sets(k, s)
      BY <1>2, <2>0a, <2>2
    <3>4. fences[s].mask = fdict.ext[s]
      BY <2>2, <3>2, <3>3 DEF FenceInv, LastMask
    <3> QED BY <2>0, <3>1, <3>4
  <2> QED BY <1>5, <2>1, <2>2 DEF LastMask, Sets, NewSets, Waiting
<1> QED BY <1>6, <1>8, <1>10, <1>11, <1>12 DEF FenceInv

-----------------------------------------------------------------------------
(* The calls: what each makes of the dictionary and asks of the interface.     *)
LEMMA SetAllIs ==
  ASSUME NEW f, NEW g
  PROVE  /\ DOMAIN SetAll(f, g) = DOMAIN f \union DOMAIN g
         /\ \A x \in DOMAIN g : SetAll(f, g)[x] = g[x]
         /\ \A x \in DOMAIN f \ DOMAIN g : SetAll(f, g)[x] = f[x]
BY DEF SetAll

\* the sessions of some ids
LEMMA SessionsIn ==
  ASSUME FenceDict, made \in Nat, NEW S
  PROVE  \A s \in SessionsOf(S) :
           /\ s \in DOMAIN fdict.back /\ fdict.back[s] \in S \intersect DOMAIN fdict.fwd
           /\ fdict.fwd[fdict.back[s]] = s
<1>1. ASSUME NEW s \in SessionsOf(S)
      PROVE  /\ s \in DOMAIN fdict.back /\ fdict.back[s] \in S \intersect DOMAIN fdict.fwd
             /\ fdict.fwd[fdict.back[s]] = s
  <2>1. PICK id \in S : s = ForwardOf(fdict, id) /\ s # 0
    BY DEF SessionsOf, SessionOf
  <2>2. id \in DOMAIN fdict.fwd /\ s = fdict.fwd[id]
    BY <2>1 DEF ForwardOf, HasId
  <2> QED BY <2>2 DEF FenceDict
<1> QED BY <1>1

LEMMA RemoveMay ==
  ASSUME FenceInv, NEW S, ClientOfFences, RemoveFences(S)
  PROVE  FenceInv'
<1> DEFINE gone == SessionsOf(S)
<1>0. FenceDict /\ FenceCalls
  BY DEF FenceInv
<1>1. PICK f : f = [id \in DOMAIN fdict.fwd \ {BackwardOf(fdict, s) : s \in gone} |-> fdict.fwd[id]]
  OBVIOUS
<1>2. PICK b : b = [s \in DOMAIN fdict.back \ gone |-> fdict.back[s]]
  OBVIOUS
<1>3. PICK e : e = [s \in DOMAIN fdict.ext \ gone |-> fdict.ext[s]]
  OBVIOUS
<1>4. fdict' = [fwd |-> f, back |-> b, ext |-> e] /\ UNCHANGED <<made, odd>>
  BY <1>1, <1>2, <1>3 DEF RemoveFences
<1>5. fdict.fwd' = f /\ fdict.back' = b /\ fdict.ext' = e
  BY <1>4
<1>6. \A s \in gone : s \in DOMAIN fdict.back /\ fdict.back[s] \in DOMAIN fdict.fwd /\ fdict.fwd[fdict.back[s]] = s
  BY <1>0, SessionsIn DEF FenceCalls
<1>7. \A s \in gone : BackwardOf(fdict, s) = fdict.back[s]
  BY <1>6 DEF BackwardOf, HasSession
<1> HIDE DEF gone
<1>8. /\ DOMAIN f = DOMAIN fdict.fwd \ {fdict.back[s] : s \in gone}
      /\ \A id \in DOMAIN f : f[id] = fdict.fwd[id]
  BY <1>1, <1>7
<1>9. /\ DOMAIN b = DOMAIN fdict.back \ gone /\ \A s \in DOMAIN b : b[s] = fdict.back[s]
      /\ DOMAIN e = DOMAIN fdict.ext \ gone /\ \A s \in DOMAIN e : e[s] = fdict.ext[s]
  BY <1>2, <1>3
<1>10. made' = made /\ odd' = odd /\ fences' = fences /\ setup' = setup
  BY <1>4 DEF ClientOfFences
<1>11. FenceDict'
  <2>1. \A id \in DOMAIN f : f[id] \in DOMAIN b /\ b[f[id]] = id
    BY <1>0, <1>8, <1>9 DEF FenceDict
  <2>2. ASSUME NEW s \in DOMAIN b \ odd PROVE b[s] \in DOMAIN f /\ f[b[s]] = s
    <3>1. fdict.back[s] \in DOMAIN fdict.fwd /\ fdict.fwd[fdict.back[s]] = s /\ s \notin gone
      BY <1>0, <1>9, <2>2 DEF FenceDict
    <3>2. \A t \in gone : fdict.back[t] # fdict.back[s]
      BY <1>6, <3>1
    <3> QED BY <1>8, <1>9, <3>1, <3>2
  <2>3. /\ DOMAIN b \subseteq 1..made /\ DOMAIN e = DOMAIN b
        /\ \A s \in DOMAIN b : b[s] \in setup.ids
    BY <1>0, <1>9 DEF FenceDict
  <2> QED BY <1>4, <1>5, <1>10, <2>1, <2>2, <2>3 DEF FenceDict
<1>12. PICK ask : ask = NoMasks(gone)
  OBVIOUS
<1>13. DOMAIN ask = gone
  BY <1>12 DEF NoMasks
<1>14. Asks("remove", ask)
  BY <1>12 DEF RemoveFences, RemoveCall, Asks, gone
<1>15. MayAsk("remove", ask)
  <2>1. made \in Nat /\ gone \subseteq 1..made /\ DOMAIN fdict.ext = DOMAIN fdict.back
    BY <1>0, <1>6 DEF FenceDict, FenceCalls
  <2> QED BY <1>5, <1>9, <1>10, <1>13, <1>14, <2>1 DEF MayAsk
<1> QED BY <1>11, <1>15, AskedInv

(* Only the masks change: a call that is not an add or a remove.              *)
LEMMA MasksMay ==
  ASSUME FenceInv, NEW op \in {"modify", "pause", "resume"}, NEW ask, Asks(op, ask),
         NEW S, DOMAIN ask = SessionsOf(S), NEW new, DOMAIN new \subseteq SessionsOf(S),
         fdict' = [fdict EXCEPT !.ext = SetAll(fdict.ext, new)],
         made' = made, odd \subseteq odd', fences' = fences, setup' = setup,
         \A s \in SessionsOf(S) \ odd' :
           /\ op = "modify" => s \in DOMAIN new /\ ask[s] = new[s]
           /\ op # "modify" /\ s \in DOMAIN new => new[s] = fdict.ext[s]
  PROVE  FenceInv'
<1> DEFINE gone == SessionsOf(S)
<1>0. FenceDict /\ FenceCalls /\ made \in Nat
  BY DEF FenceInv, FenceCalls
<1>1. gone \subseteq DOMAIN fdict.back
  BY <1>0, SessionsIn
<1>2. PICK e : e = SetAll(fdict.ext, new)
  OBVIOUS
<1>3. fdict' = [fwd |-> fdict.fwd, back |-> fdict.back, ext |-> e]
  BY <1>0, <1>2 DEF FenceDict
<1>4. fdict.fwd' = fdict.fwd /\ fdict.back' = fdict.back /\ fdict.ext' = e
  BY <1>3
<1>5. DOMAIN fdict.ext = DOMAIN fdict.back /\ DOMAIN fdict.back \subseteq 1..made
  BY <1>0 DEF FenceDict
<1>6. /\ DOMAIN e = DOMAIN fdict.back
      /\ \A s \in DOMAIN new : e[s] = new[s]
      /\ \A s \in DOMAIN fdict.back \ DOMAIN new : e[s] = fdict.ext[s]
  <2>1. PICK old : old = fdict.ext
    OBVIOUS
  <2>2. /\ DOMAIN SetAll(old, new) = DOMAIN old \union DOMAIN new
        /\ \A x \in DOMAIN new : SetAll(old, new)[x] = new[x]
        /\ \A x \in DOMAIN old \ DOMAIN new : SetAll(old, new)[x] = old[x]
    BY SetAllIs
  <2> QED BY <1>1, <1>2, <1>5, <2>1, <2>2
<1>7. FenceDict'
  BY <1>0, <1>3, <1>4, <1>5, <1>6 DEF FenceDict
<1>8. MayAsk(op, ask)
  <2>1. ASSUME NEW s \in DOMAIN fdict.back \ odd'
        PROVE  /\ op \in {"add", "modify"} /\ s \in DOMAIN ask => ask[s] = e[s]
               /\ ~(op \in {"add", "modify"} /\ s \in DOMAIN ask) => e[s] = fdict.ext[s]
    BY <1>6, <2>1
  <2> QED BY <1>0, <1>1, <1>4, <1>5, <2>1 DEF MayAsk
<1> QED BY <1>7, <1>8, AskedInv

LEMMA ModifyInv ==
  ASSUME FenceInv, NEW l, NEW masks, ModifyGeofences(l, masks)
  PROVE  FenceInv'
<1> DEFINE S == Elements(l)
<1>1. PICK ask : ask = Paired(l, masks)
  OBVIOUS
<1>2. PICK new : new = [s \in SessionsOf(S) |-> masks[Place(l, s)]]
  OBVIOUS
<1>3. DOMAIN ask = SessionsOf(S) /\ DOMAIN new = SessionsOf(S)
  BY <1>1, <1>2 DEF Paired
<1>4. NewMasks(l, masks) = SetAll(fdict.ext, new)
  BY <1>2 DEF NewMasks
<1>5. \A s \in SessionsOf(S) : NewMasks(l, masks)[s] = new[s]
  BY <1>3, <1>4 DEF SetAll
<1>6. /\ Asks("modify", ask) /\ made' = made /\ fences' = fences /\ setup' = setup
      /\ fdict' = [fdict EXCEPT !.ext = SetAll(fdict.ext, new)]
      /\ odd' = odd \union {s \in SessionsOf(S) : NewMasks(l, masks)[s] # ask[s]}
  BY <1>1, <1>4 DEF ModifyGeofences, ClientOfFences, Asks
<1>7. \A s \in SessionsOf(S) \ odd' : ask[s] = new[s]
  BY <1>5, <1>6
<1> HIDE DEF S
<1> QED BY <1>3, <1>6, <1>7, MasksMay

LEMMA ResumeInv ==
  ASSUME FenceInv, NEW l, NEW masks, ResumeGeofences(l, masks)
  PROVE  FenceInv'
<1> DEFINE S == Elements(l)
<1>1. PICK ask : ask = NoMasks(SessionsOf(S))
  OBVIOUS
<1>2. PICK new : new = [s \in SessionsOf(S) |-> masks[Place(l, s)]]
  OBVIOUS
<1>3. DOMAIN ask = SessionsOf(S) /\ DOMAIN new = SessionsOf(S)
  BY <1>1, <1>2 DEF NoMasks
<1>4. NewMasks(l, masks) = SetAll(fdict.ext, new)
  BY <1>2 DEF NewMasks
<1>5. \A s \in SessionsOf(S) : NewMasks(l, masks)[s] = new[s]
  BY <1>3, <1>4 DEF SetAll
<1>6. /\ Asks("resume", ask) /\ made' = made /\ fences' = fences /\ setup' = setup
      /\ fdict' = [fdict EXCEPT !.ext = SetAll(fdict.ext, new)]
      /\ odd' = odd \union {s \in SessionsOf(S) : NewMasks(l, masks)[s] # fdict.ext[s]}
  BY <1>1, <1>4 DEF ResumeGeofences, ClientOfFences, Asks
<1>7. \A s \in SessionsOf(S) \ odd' : new[s] = fdict.ext[s]
  BY <1>5, <1>6
<1> HIDE DEF S
<1> QED BY <1>3, <1>6, <1>7, MasksMay

LEMMA PauseInv ==
  ASSUME FenceInv, NEW l, PauseGeofences(l)
  PROVE  FenceInv'
<1>1. PICK ask : ask = NoMasks(SessionsOf(Elements(l)))
  OBVIOUS
<1>2. DOMAIN ask = SessionsOf(Elements(l))
  BY <1>1 DEF NoMasks
<1>5. FenceDict /\ FenceCalls
  BY DEF FenceInv
<1>6. /\ Asks("pause", ask) /\ made' = made /\ fences' = fences /\ setup' = setup
      /\ odd' = odd /\ fdict' = fdict
  BY <1>1 DEF PauseGeofences, ClientOfFences, Asks
<1>7. MayAsk("pause", ask)
  <2>1. SessionsOf(Elements(l)) \subseteq DOMAIN fdict.back
    BY <1>5, SessionsIn DEF FenceCalls
  <2>2. made \in Nat /\ DOMAIN fdict.back \subseteq 1..made
    BY <1>5 DEF FenceDict, FenceCalls
  <2> QED BY <1>2, <1>6, <2>1, <2>2 DEF MayAsk
<1>8. FenceDict'
  BY <1>5, <1>6 DEF FenceDict
<1> QED BY <1>7, <1>8, AskedInv

LEMMA ListsAre ==
  ASSUME NEW ids, NEW l \in Lists(ids)
  PROVE  /\ Len(l) \in Nat /\ DOMAIN l = 1..Len(l)
         /\ \A k \in DOMAIN l : l[k] \in ids
         /\ \A j, k \in DOMAIN l : l[j] = l[k] => j = k
<1>1. CASE l \in {<<id>> : id \in ids}
  <2>1. PICK id \in ids : l = <<id>>
    BY <1>1
  <2> QED BY <2>1
<1>2. CASE l \in {m \in ids \X ids : m[1] # m[2]}
  <2>1. PICK a \in ids, b \in ids : l = <<a, b>> /\ a # b
    BY <1>2
  <2> QED BY <2>1
<1> QED BY <1>1, <1>2 DEF Lists

LEMMA AddInv ==
  ASSUME FenceInv, NEW l \in Lists(setup.ids), NEW mask, AddGeofences(l, mask)
  PROVE  FenceInv'
<1> DEFINE new == made+1..made+Len(l)
           Index(id) == CHOOSE k \in DOMAIN l : l[k] = id
<1>0. FenceDict /\ FenceCalls /\ made \in Nat
  BY DEF FenceInv, FenceCalls
<1>1. /\ Len(l) \in Nat /\ DOMAIN l = 1..Len(l)
      /\ \A k \in DOMAIN l : l[k] \in setup.ids
      /\ \A j, k \in DOMAIN l : l[j] = l[k] => j = k
  BY ListsAre
<1>2. fences' = fences /\ setup' = setup
  BY DEF AddGeofences, ClientOfFences
<1>3. CASE NoFenceCall /\ UNCHANGED <<fdict, made, odd>>
  <2>1. PICK ask : ask = NoMasks({})
    OBVIOUS
  <2>2. DOMAIN ask = {}
    BY <2>1 DEF NoMasks
  <2>3. Asks("pause", ask)
    BY <1>3, <2>2 DEF Asks, CallFor
  <2>4. FenceDict'
    BY <1>0, <1>2, <1>3 DEF FenceDict
  <2>5. MayAsk("pause", ask)
    BY <1>0, <1>2, <1>3, <2>2, <2>3 DEF MayAsk
  <2> QED BY <2>4, <2>5, AskedInv
<1>4. ASSUME NEW ask, ask = [s \in new |-> mask], FenceCall("add", ask),
             NEW f, f = SetAll(fdict.fwd, [id \in Elements(l) |-> made + Index(id)]),
             NEW b, b = SetAll(fdict.back, [s \in new |-> l[s - made]]),
             NEW e, e = SetAll(fdict.ext, [s \in new |-> mask]),
             fdict' = [fwd |-> f, back |-> b, ext |-> e],
             made' = made + Len(l), odd' = odd \union SessionsOf(Elements(l))
      PROVE  FenceInv'
  <2>1. fdict.fwd' = f /\ fdict.back' = b /\ fdict.ext' = e
    BY <1>4
  <2>2. /\ DOMAIN f = DOMAIN fdict.fwd \union Elements(l)
        /\ \A id \in Elements(l) : f[id] = made + Index(id)
        /\ \A id \in DOMAIN fdict.fwd \ Elements(l) : f[id] = fdict.fwd[id]
    BY <1>4 DEF SetAll
  <2>3. /\ DOMAIN b = DOMAIN fdict.back \union new
        /\ \A s \in new : b[s] = l[s - made]
        /\ \A s \in DOMAIN fdict.back \ new : b[s] = fdict.back[s]
    BY <1>4 DEF SetAll
  <2>4. /\ DOMAIN e = DOMAIN fdict.ext \union new
        /\ \A s \in new : e[s] = mask
        /\ \A s \in DOMAIN fdict.ext \ new : e[s] = fdict.ext[s]
    BY <1>4 DEF SetAll
  <2>5. /\ DOMAIN fdict.back \subseteq 1..made /\ DOMAIN fdict.ext = DOMAIN fdict.back
        /\ \A s \in DOMAIN fdict.back : fdict.back[s] \in setup.ids
        /\ \A id \in DOMAIN fdict.fwd :
             fdict.fwd[id] \in DOMAIN fdict.back /\ fdict.back[fdict.fwd[id]] = id
        /\ \A s \in DOMAIN fdict.back \ odd :
             fdict.back[s] \in DOMAIN fdict.fwd /\ fdict.fwd[fdict.back[s]] = s
    BY <1>0 DEF FenceDict
  <2>6. 1..made \subseteq 1..made' /\ new \subseteq 1..made' /\ new \intersect 1..made = {} /\ made' \in Nat /\ made <= made'
    BY <1>0, <1>1, <1>4
  <2>7. \A id \in Elements(l) : Index(id) \in DOMAIN l /\ l[Index(id)] = id
    BY DEF Elements
  <2>8. ASSUME NEW k \in DOMAIN l PROVE Index(l[k]) = k /\ l[k] \in Elements(l) /\ made + k \in new
    BY <1>0, <1>1, <2>7, <2>8 DEF Elements
  <2>9. ASSUME NEW s \in new PROVE s - made \in DOMAIN l
    BY <1>0, <1>1, <2>9
  <2> HIDE DEF new, Index
  <2>10. ASSUME NEW id \in DOMAIN f PROVE f[id] \in DOMAIN b /\ b[f[id]] = id
    <3>1. CASE id \in Elements(l)
      <4>1. PICK k \in DOMAIN l : k = Index(id) /\ l[k] = id
        BY <2>7, <3>1
      <4>2. PICK s : s = made + k
        OBVIOUS
      <4>3. k \in Nat /\ s - made = k
        BY <1>0, <1>1, <4>1, <4>2
      <4>4. f[id] = s
        BY <2>2, <3>1, <4>1, <4>2
      <4>5. s \in new
        BY <2>8, <4>1, <4>2
      <4>6. b[s] = l[k]
        BY <2>3, <4>3, <4>5
      <4>7. s \in DOMAIN b
        BY <2>3, <4>5
      <4> QED BY <4>1, <4>4, <4>6, <4>7
    <3>2. CASE id \notin Elements(l)
      BY <2>2, <2>3, <2>5, <2>6, <3>2
    <3> QED BY <3>1, <3>2
  <2>11. ASSUME NEW s \in DOMAIN b \ odd' PROVE b[s] \in DOMAIN f /\ f[b[s]] = s
    <3>1. CASE s \in new
      <4>1. PICK k : k = s - made
        OBVIOUS
      <4>2. k \in DOMAIN l /\ b[s] = l[k]
        BY <2>3, <2>9, <3>1, <4>1
      <4>3. Index(l[k]) = k /\ l[k] \in Elements(l)
        BY <2>8, <4>2
      <4>4. made + k = s
        BY <1>0, <1>1, <2>6, <3>1, <4>1, <4>2
      <4> QED BY <2>2, <4>2, <4>3, <4>4
    <3>2. CASE s \notin new
      <4>1. s \in DOMAIN fdict.back \ odd /\ b[s] = fdict.back[s]
        BY <1>4, <2>3, <2>11, <3>2
      <4>2. fdict.back[s] \in DOMAIN fdict.fwd /\ fdict.fwd[fdict.back[s]] = s
        BY <2>5, <4>1
      <4>3. fdict.back[s] \notin Elements(l)
        <5>1. ASSUME fdict.back[s] \in Elements(l) PROVE FALSE
          <6>1. SessionOf(fdict.back[s]) = s
            BY <4>2 DEF SessionOf, ForwardOf, HasId
          <6>2. s # 0
            BY <1>0, <2>5, <4>1
          <6>3. s \in SessionsOf(Elements(l))
            BY <5>1, <6>1, <6>2 DEF SessionsOf
          <6> QED BY <1>4, <2>11, <6>3
        <5> QED BY <5>1
      <4> QED BY <2>2, <4>1, <4>2, <4>3
    <3> QED BY <3>1, <3>2
  <2>12. \A s \in DOMAIN b : b[s] \in setup.ids
    BY <1>1, <2>3, <2>5, <2>9
  <2>13. FenceDict'
    BY <1>2, <1>4, <2>1, <2>3, <2>4, <2>5, <2>6, <2>10, <2>11, <2>12 DEF FenceDict
  <2>14. DOMAIN ask = new /\ \A s \in new : ask[s] = mask
    BY <1>4
  <2>15. MayAsk("add", ask)
    <3>1. odd \subseteq odd' /\ Asks("add", ask)
      BY <1>4 DEF Asks
    <3> QED BY <1>2, <2>1, <2>3, <2>4, <2>5, <2>6, <2>14, <3>1 DEF MayAsk
  <2> QED BY <2>13, <2>15, AskedInv
<1> QED BY <1>3, <1>4 DEF AddGeofences

-----------------------------------------------------------------------------
(* The interface serves a call: every fence of it is served or refused.       *)
ServedAs(f, c, good) ==
  /\ DOMAIN f = IF c.op = "add" THEN DOMAIN fences \union good
                ELSE IF c.op = "remove" THEN DOMAIN fences \ good ELSE DOMAIN fences
  /\ \A s \in DOMAIN f : f[s] = [mask |-> f[s].mask, on |-> f[s].on]
  /\ \A s \in DOMAIN f :
       f[s].mask = IF c.op \in {"add", "modify"} /\ s \in good THEN c.ask[s] ELSE fences[s].mask

LEMMA ServedIs ==
  ASSUME FenceCalls, NEW c, NEW good \in SUBSET DOMAIN c.ask, NEW f, f = Served(c, good)
  PROVE  ServedAs(f, c, good)
<1>0. \A s \in DOMAIN fences : fences[s] = [mask |-> fences[s].mask, on |-> fences[s].on]
  BY DEF FenceCalls
<1>1. CASE c.op = "add"
  <2>1. /\ DOMAIN f = DOMAIN fences \union good
        /\ \A s \in good : f[s] = [mask |-> c.ask[s], on |-> TRUE]
        /\ \A s \in DOMAIN fences \ good : f[s] = fences[s]
    BY <1>1 DEF Served, SetAll
  <2>2. \A s \in good : f[s].mask = c.ask[s] /\ f[s].on = TRUE
    BY <2>1
  <2>3. \A s \in DOMAIN f : f[s] = [mask |-> f[s].mask, on |-> f[s].on]
    BY <1>0, <2>1, <2>2
  <2> QED BY <1>1, <2>1, <2>2, <2>3 DEF ServedAs
<1>2. CASE c.op = "remove"
  <2>1. f = [s \in DOMAIN fences \ good |-> fences[s]]
    BY <1>2 DEF Served
  <2> QED BY <1>0, <1>2, <2>1 DEF ServedAs
<1>3. CASE c.op = "modify"
  <2>1. f = [s \in DOMAIN fences |-> IF s \in good THEN [fences[s] EXCEPT !.mask = c.ask[s]] ELSE fences[s]]
    BY <1>3 DEF Served
  <2>2. ASSUME NEW s \in DOMAIN fences
        PROVE  /\ f[s] = [mask |-> f[s].mask, on |-> f[s].on]
               /\ f[s].mask = IF s \in good THEN c.ask[s] ELSE fences[s].mask
    <3>1. fences[s] = [mask |-> fences[s].mask, on |-> fences[s].on]
      BY <1>0
    <3>2. f[s] = IF s \in good THEN [fences[s] EXCEPT !.mask = c.ask[s]] ELSE fences[s]
      BY <2>1
    <3> QED BY <3>1, <3>2
  <2>3. DOMAIN f = DOMAIN fences
    BY <2>1
  <2> QED BY <1>3, <2>2, <2>3 DEF ServedAs
<1>4. CASE c.op \notin {"add", "remove", "modify"}
  <2>1. f = [s \in DOMAIN fences |->
               IF s \in good THEN [fences[s] EXCEPT !.on = (c.op = "resume")] ELSE fences[s]]
    BY <1>4 DEF Served
  <2>2. ASSUME NEW s \in DOMAIN fences
        PROVE  f[s] = [mask |-> f[s].mask, on |-> f[s].on] /\ f[s].mask = fences[s].mask
    <3>1. fences[s] = [mask |-> fences[s].mask, on |-> fences[s].on]
      BY <1>0
    <3>2. PICK v : v = (c.op = "resume")
      OBVIOUS
    <3>3. f[s] = IF s \in good THEN [fences[s] EXCEPT !.on = v] ELSE fences[s]
      BY <2>1, <3>2
    <3> QED BY <3>1, <3>3
  <2>3. DOMAIN f = DOMAIN fences
    BY <2>1
  <2> QED BY <1>4, <2>2, <2>3 DEF ServedAs
<1> QED BY <1>1, <1>2, <1>3, <1>4

LEMMA ServeInv ==
  ASSUME FenceInv, ServeFences
  PROVE  FenceInv'
<1> DEFINE n == Len(fwork')
           B == DOMAIN fdict.back
<1>0. FenceDict /\ FenceCalls
  BY DEF FenceInv
<1>1. /\ Sequence(fwork) /\ fwork # <<>> /\ Sequence(freqs) /\ Len(freqs) = Len(fwork)
      /\ \A k \in Waiting : freqs[k] = fwork[k].op
  BY <1>0 DEF ServeFences, FenceCalls
<1>2. PICK c : c = fwork[1]
  OBVIOUS
<1>3. /\ Sequence(fwork') /\ n \in Nat /\ Len(fwork) = n + 1 /\ Head(fwork) = c
      /\ \A k \in 1..n : fwork'[k] = fwork[k + 1]
  BY <1>1, <1>2, SequenceLen, Shrunk DEF ServeFences
<1>4. /\ Sequence(freqs') /\ Len(freqs') = n /\ \A k \in 1..n : freqs'[k] = fwork'[k].op
  <2>1. freqs # <<>>
    BY <1>1, <1>3
  <2>2. /\ Sequence(freqs') /\ Len(freqs') = n /\ \A k \in 1..n : freqs'[k] = freqs[k + 1]
    BY <1>1, <1>3, <2>1, SequenceLen, Shrunk DEF ServeFences
  <2>3. \A k \in 1..n : k + 1 \in Waiting
    BY <1>3 DEF Waiting
  <2> QED BY <1>1, <1>3, <2>2, <2>3
<1>5. PICK good \in SUBSET DOMAIN c.ask :
        /\ fences' = Served(c, good)
        /\ odd' = odd \union (IF c.op = "add" THEN {} ELSE DOMAIN c.ask \ good)
  <2>1. \E x \in SUBSET DOMAIN c.ask :
          /\ fences' = Served(c, x)
          /\ odd' = odd \union (IF c.op = "add" THEN {} ELSE DOMAIN c.ask \ x)
    BY <1>3 DEF ServeFences
  <2> QED BY <2>1
<1>6. setup' = setup /\ fdict' = fdict /\ made' = made /\ odd \subseteq odd'
  BY <1>5 DEF ServeFences, apiVars
<1>7. PICK f : f = fences'
  OBVIOUS
<1>7a. f = Served(c, good)
  BY <1>5, <1>7
<1>8. /\ DOMAIN f = IF c.op = "add" THEN DOMAIN fences \union good
                    ELSE IF c.op = "remove" THEN DOMAIN fences \ good ELSE DOMAIN fences
      /\ \A s \in DOMAIN f : f[s] = [mask |-> f[s].mask, on |-> f[s].on]
      /\ \A s \in DOMAIN f :
           f[s].mask = IF c.op \in {"add", "modify"} /\ s \in good THEN c.ask[s] ELSE fences[s].mask
  <2>1. ServedAs(f, c, good)
    BY <1>0, <1>7a, ServedIs
  <2> QED BY <2>1 DEF ServedAs
<1>9. 1 \in Waiting
  BY <1>3 DEF Waiting
<1>10. \A k \in 1..n : k + 1 \in Waiting /\ fwork'[k] = fwork[k + 1] /\ k + 1 > 1
  BY <1>3 DEF Waiting
<1>11. \A l \in Waiting : l = 1 \/ (l - 1 \in 1..n /\ fwork'[l - 1] = fwork[l] /\ l \in Nat)
  BY <1>3 DEF Waiting
<1>12. FenceDict'
  BY <1>0, <1>6 DEF FenceDict
<1>13. FenceCalls'
  <2>1. \A k \in 1..n : DOMAIN fwork'[k].ask \subseteq 1..made
    BY <1>0, <1>10 DEF FenceCalls
  <2>2. DOMAIN c.ask \subseteq 1..made /\ DOMAIN fences \subseteq 1..made
    BY <1>0, <1>2, <1>9 DEF FenceCalls
  <2>3. DOMAIN f \subseteq 1..made
    BY <1>8, <2>2
  <2>4. setup \in ApiSetups /\ made \in Nat
    BY <1>0 DEF FenceCalls
  <2> QED BY <1>3, <1>4, <1>6, <1>7, <1>8, <2>1, <2>3, <2>4 DEF FenceCalls, Waiting
<1>14. AddedOnce'
  <2>1. ASSUME NEW k \in 1..n, NEW s \in DOMAIN fwork'[k].ask, fwork'[k].op = "add"
        PROVE  /\ s \notin DOMAIN f
               /\ \A l \in 1..n : fwork'[l].op = "add" /\ s \in DOMAIN fwork'[l].ask => l = k
    <3>1. k + 1 \in Waiting /\ Adds(k + 1, s) /\ s \in DOMAIN fwork[k + 1].ask
      BY <1>10, <2>1 DEF Adds
    <3>2. s \notin DOMAIN fences /\ \A l \in Waiting : Adds(l, s) => l = k + 1
      BY <3>1 DEF FenceInv, AddedOnce
    <3>3. ~Adds(1, s)
      BY <1>3, <1>9, <3>2
    <3>4. s \notin DOMAIN f
      BY <1>2, <1>5, <1>8, <3>2, <3>3 DEF Adds
    <3>5. ASSUME NEW l \in 1..n, fwork'[l].op = "add", s \in DOMAIN fwork'[l].ask PROVE l = k
      <4>1. l + 1 \in Waiting /\ Adds(l + 1, s)
        BY <1>10, <3>5 DEF Adds
      <4>2. l + 1 = k + 1
        BY <3>2, <4>1
      <4> QED BY <4>2
    <3> QED BY <3>4, <3>5
  <2> QED BY <1>7, <2>1 DEF AddedOnce, Adds, Waiting
<1>15. WatchedKnown'
  <2>1. ASSUME NEW s \in DOMAIN f \ odd', s \notin B
        PROVE  \E k \in 1..n : fwork'[k].op = "remove" /\ s \in DOMAIN fwork'[k].ask
    <3>1. PICK l \in Waiting : Takes(l, s) /\ l # 1
      <4>1. CASE s \in DOMAIN fences
        <5>1. PICK l \in Waiting : Takes(l, s)
          BY <1>6, <2>1, <4>1 DEF FenceInv, WatchedKnown
        <5>2. ~Takes(1, s)
          <6>1. ASSUME Takes(1, s) PROVE FALSE
            <7>1. c.op = "remove" /\ s \in DOMAIN c.ask
              BY <1>2, <6>1 DEF Takes
            <7>2. s \in good
              BY <1>5, <2>1, <7>1
            <7> QED BY <1>8, <2>1, <7>1, <7>2
          <6> QED BY <6>1
        <5> QED BY <5>1, <5>2
      <4>2. CASE s \notin DOMAIN fences
        <5>1. c.op = "add" /\ s \in good /\ s \in DOMAIN c.ask
          BY <1>5, <1>8, <2>1, <4>2
        <5>2. Adds(1, s) /\ s \in DOMAIN fwork[1].ask \ odd
          BY <1>2, <1>6, <2>1, <5>1 DEF Adds
        <5>3. PICK l \in Waiting : l > 1 /\ Takes(l, s)
          BY <1>9, <2>1, <5>2 DEF FenceInv, AddedKnown
        <5>4. l \in Nat
          BY DEF Waiting
        <5> QED BY <5>3, <5>4
      <4> QED BY <4>1, <4>2
    <3>2. l - 1 \in 1..n /\ fwork'[l - 1] = fwork[l]
      BY <1>11, <3>1
    <3> QED BY <3>1, <3>2 DEF Takes
  <2> QED BY <1>6, <1>7, <2>1 DEF WatchedKnown, Takes, Waiting
<1>16. AddedKnown'
  <2>1. ASSUME NEW k \in 1..n, NEW s \in DOMAIN fwork'[k].ask \ odd', fwork'[k].op = "add", s \notin B
        PROVE  \E l \in 1..n : l > k /\ fwork'[l].op = "remove" /\ s \in DOMAIN fwork'[l].ask
    <3>1. k + 1 \in Waiting /\ Adds(k + 1, s) /\ s \in DOMAIN fwork[k + 1].ask \ odd
      BY <1>6, <1>10, <2>1 DEF Adds
    <3>2. PICK l \in Waiting : l > k + 1 /\ Takes(l, s)
      BY <2>1, <3>1 DEF FenceInv, AddedKnown
    <3>3. l \in Nat /\ l # 1
      BY <3>2 DEF Waiting
    <3>4. l - 1 \in 1..n /\ fwork'[l - 1] = fwork[l] /\ l - 1 > k
      BY <1>11, <3>2, <3>3
    <3> QED BY <3>2, <3>4 DEF Takes
  <2> QED BY <1>6, <2>1 DEF AddedKnown, Adds, Takes, Waiting
<1>17. LastMask'
  <2> DEFINE NewSets(k, s) == fwork'[k].op \in {"add", "modify"} /\ s \in DOMAIN fwork'[k].ask
  <2>0. ASSUME NEW s, NEW k \in 1..n PROVE NewSets(k, s) <=> Sets(k + 1, s)
    BY <1>10 DEF Sets
  <2>0a. ASSUME NEW s, NEW l \in Waiting, l # 1 PROVE l - 1 \in 1..n /\ (NewSets(l - 1, s) <=> Sets(l, s))
    <3>1. l - 1 \in 1..n /\ fwork'[l - 1] = fwork[l]
      BY <1>11, <2>0a
    <3> QED BY <3>1 DEF Sets
  <2> HIDE DEF NewSets
  <2>1. ASSUME NEW s \in B \ odd', NEW k \in 1..n, NewSets(k, s),
               \A l \in 1..n : l > k => ~NewSets(l, s)
        PROVE  fwork'[k].ask[s] = fdict.ext[s]
    <3>1. k + 1 \in Waiting /\ Sets(k + 1, s) /\ s \in B \ odd
      BY <1>6, <1>10, <2>0, <2>1
    <3>2. ASSUME NEW l \in Waiting, l > k + 1 PROVE ~Sets(l, s)
      <4>1. l \in Nat /\ l # 1 /\ l - 1 > k
        BY <3>2 DEF Waiting
      <4> QED BY <2>0a, <2>1, <4>1
    <3>3. fwork[k + 1].ask[s] = fdict.ext[s]
      BY <3>1, <3>2 DEF FenceInv, LastMask
    <3> QED BY <1>10, <3>3
  <2>2. ASSUME NEW s \in B \ odd', \A k \in 1..n : ~NewSets(k, s), s \in DOMAIN f
        PROVE  f[s].mask = fdict.ext[s]
    <3>1. \A l \in Waiting : l # 1 => ~Sets(l, s)
      BY <2>0a, <2>2
    <3>2. s \in B \ odd
      BY <1>6, <2>2
    <3>3. CASE Sets(1, s)
      <4>1. c.op \in {"add", "modify"} /\ s \in DOMAIN c.ask
        BY <1>2, <3>3 DEF Sets
      <4>2. c.ask[s] = fdict.ext[s]
        <5>1. \A l \in Waiting : l > 1 => ~Sets(l, s)
          BY <3>1
        <5> QED BY <1>2, <1>9, <3>2, <3>3, <5>1 DEF FenceInv, LastMask
      <4>3. s \in good
        <5>1. CASE c.op = "modify"
          BY <1>5, <2>2, <4>1, <5>1
        <5>2. CASE c.op = "add"
          <6>1. s \notin DOMAIN fences
            BY <1>2, <1>9, <4>1, <5>2 DEF FenceInv, AddedOnce, Adds
          <6> QED BY <1>8, <2>2, <5>2, <6>1
        <5> QED BY <4>1, <5>1, <5>2
      <4> QED BY <1>8, <2>2, <4>1, <4>2, <4>3
    <3>4. CASE ~Sets(1, s)
      <4>1. ~(c.op \in {"add", "modify"} /\ s \in good)
        BY <1>2, <1>5, <3>4 DEF Sets
      <4>2. s \in DOMAIN fences /\ f[s].mask = fences[s].mask
        BY <1>8, <2>2, <4>1
      <4>3. \A l \in Waiting : ~Sets(l, s)
        BY <3>1, <3>4
      <4>4. fences[s].mask = fdict.ext[s]
        BY <3>2, <4>2, <4>3 DEF FenceInv, LastMask
      <4> QED BY <4>2, <4>4
    <3> QED BY <3>3, <3>4
  <2> QED BY <1>6, <1>7, <2>1, <2>2 DEF LastMask, Sets, NewSets, Waiting
<1> QED BY <1>12, <1>13, <1>14, <1>15, <1>16, <1>17 DEF FenceInv

-----------------------------------------------------------------------------
(* The invariant. *)

\* what is not about fences leaves them and the setup alone
LEMMA OthersKeepFences ==
  ASSUME FenceInv, UNCHANGED <<setup, fenceVars>>
  PROVE  FenceInv'
<1>1. /\ setup' = setup /\ fdict' = fdict /\ freqs' = freqs /\ fwork' = fwork
      /\ fences' = fences /\ made' = made /\ odd' = odd
  BY DEF fenceVars
<1>2. FenceDict'
  BY <1>1 DEF FenceInv, FenceDict
<1>3. FenceCalls'
  BY <1>1 DEF FenceInv, FenceCalls, Waiting
<1>4. AddedOnce' /\ WatchedKnown' /\ AddedKnown'
  BY <1>1 DEF FenceInv, AddedOnce, WatchedKnown, AddedKnown, Adds, Takes, Waiting
<1>5. LastMask'
  BY <1>1 DEF FenceInv, LastMask, Sets, Waiting
<1> QED BY <1>2, <1>3, <1>4, <1>5 DEF FenceInv

LEMMA SetupKept == ASSUME ClientNext PROVE setup' = setup
<1>1. CASE TrackingCall \/ SessionCall
  <2>1. CallFrame
    BY <1>1, Zenon DEF TrackingCall, SessionCall, locAPIStartTracking, locAPIStopTracking,
                       locAPIUpdateTrackingOptions, locAPIGnssNiResponse, locAPIStartSession,
                       locAPIStopSession, locAPIUpdateSessionOptions, locAPIGetBatchedLocations
  <2> QED BY <2>1 DEF CallFrame
<1>2. ASSUME NEW c, locAPISetCallbacks(c) PROVE setup' = setup
  BY <1>2 DEF locAPISetCallbacks, createInstance, updateCallbacks, AddClient
<1>3. CASE DestroyClient
  BY <1>3 DEF DestroyClient, Destroy
<1>4. ASSUME NEW i, Answer(i) \/ onResponse(i) PROVE setup' = setup
  BY <1>4 DEF Answer, Serve, onResponse, apiVars
<1>5. ASSUME NEW s, TripCompleted(s) PROVE setup' = setup
  BY <1>5 DEF TripCompleted
<1>6. ASSUME NEW id, Overtaken(id) PROVE setup' = setup
  BY <1>6, OvertakenAsks
<1> QED BY <1>1, <1>2, <1>3, <1>4, <1>5, <1>6 DEF ClientNext

LEMMA FenceInitial == AllInit => FenceInv
<1> SUFFICES ASSUME AllInit PROVE FenceInv
  OBVIOUS
<1>1. /\ setup \in ApiSetups /\ fdict = EmptyDict /\ freqs = <<>> /\ fwork = <<>>
      /\ fences = <<>> /\ made = 0 /\ odd = {}
  BY DEF AllInit, FenceInit, ClientInit, ApiInit
<1>2. /\ fdict.fwd = <<>> /\ fdict.back = <<>> /\ fdict.ext = <<>>
      /\ fdict = [fwd |-> fdict.fwd, back |-> fdict.back, ext |-> fdict.ext]
  BY <1>1 DEF EmptyDict
<1>3. DOMAIN <<>> = {} /\ Len(<<>>) = 0 /\ <<>> \in Seq({})
  OBVIOUS
<1>4. Sequence(fwork) /\ Sequence(freqs)
  BY <1>1, <1>3 DEF Sequence
<1>5. Len(fwork) = 0 /\ Waiting = {} /\ Len(freqs) = 0
  BY <1>1, <1>3 DEF Waiting
<1>6. FenceDict
  BY <1>1, <1>2, <1>3 DEF FenceDict
<1>7. FenceCalls
  BY <1>1, <1>3, <1>4, <1>5 DEF FenceCalls
<1>8. AddedOnce /\ WatchedKnown /\ AddedKnown /\ LastMask
  BY <1>1, <1>2, <1>3, <1>5 DEF AddedOnce, WatchedKnown, AddedKnown, LastMask
<1> QED BY <1>6, <1>7, <1>8 DEF FenceInv

LEMMA FenceStep == ASSUME FenceInv, FenceNext PROVE FenceInv'
<1>1. ASSUME NEW l \in Lists(setup.ids), NEW mask, AddGeofences(l, mask) PROVE FenceInv'
  BY <1>1, AddInv
<1>2. ASSUME NEW l, RemoveGeofences(l) PROVE FenceInv'
  <2>1. ClientOfFences /\ RemoveFences(Elements(l))
    BY <1>2 DEF RemoveGeofences
  <2> QED BY <2>1, RemoveMay
<1>3. CASE RemoveAllGeofences
  <2>1. ClientOfFences /\ RemoveFences(AllSessions)
    BY <1>3 DEF RemoveAllGeofences
  <2> QED BY <2>1, RemoveMay
<1>4. ASSUME NEW l, NEW ms, ModifyGeofences(l, ms) \/ ResumeGeofences(l, ms) PROVE FenceInv'
  BY <1>4, ModifyInv, ResumeInv
<1>5. ASSUME NEW l, PauseGeofences(l) PROVE FenceInv'
  BY <1>5, PauseInv
<1>6. CASE ServeFences
  BY <1>6, ServeInv
<1> QED BY <1>1, <1>2, <1>3, <1>4, <1>5, <1>6 DEF FenceNext

LEMMA FenceInductive == ASSUME FenceInv, [AllNext]_AllVars PROVE FenceInv'
<1>1. CASE FenceNext
  BY <1>1, FenceStep
<1>2. CASE ControlNext
  <2>1. ControlCall \/ ServeControl
    BY <1>2, Zenon DEF ControlNext, locAPIEnable, locAPIDisable, locAPIGnssDeleteAidingData,
                       locAPIGnssUpdateConfig
  <2>2. UNCHANGED <<setup, fenceVars>>
    BY <2>1 DEF ControlCall, ServeControl, apiVars
  <2> QED BY <2>2, OthersKeepFences
<1>3. CASE ClientNext /\ UNCHANGED fenceVars
  BY <1>3, SetupKept, OthersKeepFences
<1>4. CASE UNCHANGED clientAll
  <2>1. UNCHANGED <<setup, fenceVars>>
    BY <1>4 DEF clientAll, apiVars
  <2> QED BY <2>1, OthersKeepFences
<1> QED BY <1>1, <1>2, <1>3, <1>4 DEF AllNext, AllVars

LEMMA FenceImplies == FenceInv => FencesRemovable
<1> SUFFICES ASSUME FenceInv PROVE FencesRemovable
  OBVIOUS
<1>0. FenceDict /\ FenceCalls
  BY DEF FenceInv
<1>1. DOMAIN fwork = Waiting /\ DOMAIN freqs = Waiting /\ Len(fwork) \in Nat
  BY <1>0, SequenceLen, Shrunk DEF FenceCalls, Waiting
<1>2. [k \in DOMAIN fwork |-> fwork[k].op] = freqs
  <2>1. PICK X : freqs \in Seq(X)
    BY <1>0 DEF FenceCalls, Sequence
  <2>2. freqs = [k \in DOMAIN freqs |-> freqs[k]]
    BY <2>1, LenProperties
  <2>3. \A k \in Waiting : freqs[k] = fwork[k].op
    BY <1>0 DEF FenceCalls
  <2> QED BY <1>1, <2>2, <2>3
<1>3. ASSUME NEW s \in DOMAIN fences \ odd,
             \A k \in DOMAIN fwork : fwork[k].op = "remove" => s \notin DOMAIN fwork[k].ask
      PROVE  /\ HasSession(fdict, s) /\ SessionOf(fdict.back[s]) = s
             /\ fwork = <<>> => \A t \in fences[s].mask :
                                  Reported(s, t) # NoClient /\ SessionOf(Reported(s, t)) = s
  <2>1. s \in DOMAIN fdict.back
    BY <1>1, <1>3 DEF FenceInv, WatchedKnown, Takes
  <2>2. /\ fdict.back[s] \in DOMAIN fdict.fwd /\ fdict.fwd[fdict.back[s]] = s
        /\ fdict.back[s] \in setup.ids
    BY <1>0, <1>3, <2>1 DEF FenceDict
  <2>3. SessionOf(fdict.back[s]) = s
    BY <2>2 DEF SessionOf, ForwardOf, HasId
  <2>4. fdict.back[s] # NoClient
    BY <1>0, <2>2, SetupsAssumption DEF SetupsAssumption, FenceCalls
  <2>5. ASSUME fwork = <<>>, NEW t \in fences[s].mask
        PROVE  Reported(s, t) = fdict.back[s]
    <3>1. \A k \in Waiting : ~Sets(k, s)
      BY <1>1, <2>5
    <3>2. fences[s].mask = fdict.ext[s]
      BY <1>3, <2>1, <3>1 DEF FenceInv, LastMask
    <3> QED BY <2>1, <2>5, <3>2 DEF Reported, HasSession, BackwardOf
  <2> QED BY <2>1, <2>3, <2>4, <2>5 DEF HasSession
<1> QED BY <1>2, <1>3 DEF FencesRemovable

(* FencesRemovable of the runs: "mGeofenceBiDict" (LocationAPIClientBase.cpp:565). *)
(* However the client reuses ids and the interface refuses calls, a fence it  *)
(* watches is not lost: unless it is about to be removed or its id went to    *)
(* another fence, its client can remove it and hears of its transitions under *)
(* its id, and each answer goes to a request of its kind.                     *)
THEOREM FencesAlwaysRemovable == AllSpec => []FencesRemovable
<1>1. AllInit => FenceInv
  BY FenceInitial
<1>2. FenceInv /\ [AllNext]_AllVars => FenceInv'
  BY FenceInductive
<1>3. FenceInv => FencesRemovable
  BY FenceImplies
<1> QED BY <1>1, <1>2, <1>3, PTL DEF AllSpec

(***************************************************************************)
(* The answers.                                                            *)
(***************************************************************************)
\* the requests of a queue are those of the calls about S that wait in w
Awaits(m, S) == m.req # NoClient /\ m.s \in S
Counts(c, w, S) ==
  /\ c \in [0..Len(w) -> Nat] /\ c[0] = 0
  /\ \A k \in 1..Len(w) : c[k] = c[k - 1] + (IF Awaits(w[k], S) THEN 1 ELSE 0)
  /\ \A j, k \in 0..Len(w) : j <= k => c[j] <= c[k]
Match(rs, w, S) ==
  \E c : /\ Counts(c, w, S) /\ c[Len(w)] = Len(rs)
         /\ \A k \in 1..Len(w) : Awaits(w[k], S) => rs[c[k]] = w[k].req

LEMMA MatchAppend ==
  ASSUME NEW w, NEW rs, NEW S, Sequence(w), Sequence(rs), Match(rs, w, S), NEW m
  PROVE  /\ Awaits(m, S) => Match(Append(rs, m.req), Append(w, m), S)
         /\ ~Awaits(m, S) => Match(rs, Append(w, m), S)
<1>1. PICK c : /\ Counts(c, w, S) /\ c[Len(w)] = Len(rs)
               /\ \A k \in 1..Len(w) : Awaits(w[k], S) => rs[c[k]] = w[k].req
  BY DEF Match
<1> DEFINE n == Len(w)
           v == Append(w, m)
           b == IF Awaits(m, S) THEN 1 ELSE 0
           d == [k \in 0..n + 1 |-> IF k = n + 1 THEN c[n] + b ELSE c[k]]
<1>2. /\ n \in Nat /\ Len(v) = n + 1 /\ v[n + 1] = m
      /\ \A k \in 1..n : v[k] = w[k]
  BY Grown
<1>3. /\ Len(rs) \in Nat /\ Len(Append(rs, m.req)) = Len(rs) + 1
      /\ Append(rs, m.req)[Len(rs) + 1] = m.req
      /\ \A k \in 1..Len(rs) : Append(rs, m.req)[k] = rs[k]
  BY Grown
<1>4. /\ c \in [0..n -> Nat] /\ c[0] = 0
      /\ \A k \in 1..n : c[k] = c[k - 1] + (IF Awaits(w[k], S) THEN 1 ELSE 0)
      /\ \A j, k \in 0..n : j <= k => c[j] <= c[k]
  BY <1>1 DEF Counts
<1>5. b \in Nat /\ b <= 1
  OBVIOUS
<1> HIDE DEF v, b
<1>6. d \in [0..n + 1 -> Nat] /\ d[0] = 0 /\ d[n + 1] = c[n] + b /\ \A k \in 0..n : d[k] = c[k]
  BY <1>2, <1>4, <1>5
<1> HIDE DEF d, n
<1>7. Counts(d, v, S)
  <2>1. ASSUME NEW k \in 1..n + 1 PROVE d[k] = d[k - 1] + (IF Awaits(v[k], S) THEN 1 ELSE 0)
    <3>1. CASE k = n + 1
      <4>1. k - 1 = n /\ n \in 0..n /\ v[k] = m
        BY <1>2, <3>1
      <4> QED BY <1>6, <3>1, <4>1 DEF b
    <3>2. CASE k # n + 1
      <4>1. k \in 1..n /\ k \in 0..n /\ k - 1 \in 0..n /\ v[k] = w[k]
        BY <1>2, <3>2
      <4> QED BY <1>4, <1>6, <4>1
    <3> QED BY <3>1, <3>2
  <2>2. ASSUME NEW j \in 0..n + 1, NEW k \in 0..n + 1, j <= k PROVE d[j] <= d[k]
    <3>1. CASE k = n + 1 /\ j = n + 1
      BY <1>6, <3>1, <1>2
    <3>2. CASE k = n + 1 /\ j # n + 1
      <4>1. j \in 0..n /\ n \in 0..n /\ j <= n
        BY <1>2, <3>2
      <4>2. c[j] <= c[n] /\ c[j] \in Nat /\ c[n] \in Nat
        BY <1>4, <4>1
      <4> QED BY <1>5, <1>6, <3>2, <4>1, <4>2
    <3>3. CASE k # n + 1
      <4>1. j \in 0..n /\ k \in 0..n
        BY <1>2, <2>2, <3>3
      <4> QED BY <1>4, <1>6, <2>2, <4>1
    <3> QED BY <3>1, <3>2, <3>3
  <2> QED BY <1>2, <1>6, <2>1, <2>2 DEF Counts
<1>8. \A k \in 1..n : Awaits(w[k], S) => c[k] \in 1..Len(rs)
  <2> SUFFICES ASSUME NEW k \in 1..n, Awaits(w[k], S) PROVE c[k] \in 1..Len(rs)
    OBVIOUS
  <2>1. k \in 0..n /\ k - 1 \in 0..n /\ n \in 0..n /\ k <= n
    BY <1>2
  <2>2. c[k] <= c[n] /\ c[k] = c[k - 1] + 1 /\ c[k - 1] \in Nat /\ c[k] \in Nat
    BY <1>4, <2>1
  <2> QED BY <1>1, <1>3, <2>2 DEF n
<1>9. n \in 0..n /\ c[n] \in Nat /\ c[n] = Len(rs) /\ d[n + 1] = Len(rs) + b
  BY <1>1, <1>2, <1>4, <1>6 DEF n
<1>10. ASSUME Awaits(m, S) PROVE Match(Append(rs, m.req), v, S)
  <2>1. b = 1
    BY <1>10 DEF b
  <2>2. ASSUME NEW k \in 1..n + 1, Awaits(v[k], S) PROVE Append(rs, m.req)[d[k]] = v[k].req
    <3>1. CASE k = n + 1
      BY <1>2, <1>3, <1>9, <2>1, <3>1
    <3>2. CASE k # n + 1
      <4>1. k \in 1..n /\ k \in 0..n /\ v[k] = w[k]
        BY <1>2, <3>2
      <4>2. d[k] = c[k] /\ c[k] \in 1..Len(rs) /\ rs[c[k]] = w[k].req
        BY <1>1, <1>6, <1>8, <2>2, <4>1 DEF n
      <4> QED BY <1>3, <4>1, <4>2
    <3> QED BY <3>1, <3>2
  <2>3. d[Len(v)] = Len(Append(rs, m.req))
    BY <1>2, <1>3, <1>9, <2>1
  <2>4. \A k \in 1..Len(v) : Awaits(v[k], S) => Append(rs, m.req)[d[k]] = v[k].req
    BY <1>2, <2>2
  <2>5. PICK q : q = Append(rs, m.req)
    OBVIOUS
  <2> QED BY <1>7, <2>3, <2>4, <2>5 DEF Match
<1>11. ASSUME ~Awaits(m, S) PROVE Match(rs, v, S)
  <2>1. b = 0
    BY <1>11 DEF b
  <2>2. ASSUME NEW k \in 1..n + 1, Awaits(v[k], S) PROVE rs[d[k]] = v[k].req
    <3>1. k # n + 1
      BY <1>2, <1>11, <2>2
    <3>2. k \in 1..n /\ k \in 0..n /\ v[k] = w[k]
      BY <1>2, <3>1
    <3> QED BY <1>1, <1>6, <2>2, <3>2 DEF n
  <2>3. d[n + 1] = Len(rs)
    BY <1>3, <1>9, <2>1
  <2> QED BY <1>2, <1>7, <2>2, <2>3 DEF Match
<1> QED BY <1>10, <1>11 DEF v

LEMMA MatchServe ==
  ASSUME NEW w, NEW rs, NEW S, Sequence(w), Sequence(rs), Match(rs, w, S), w # <<>>
  PROVE  /\ Awaits(w[1], S) => rs # <<>> /\ rs[1] = w[1].req /\ Match(Tail(rs), Tail(w), S)
         /\ ~Awaits(w[1], S) => Match(rs, Tail(w), S)
<1>1. PICK c : /\ Counts(c, w, S) /\ c[Len(w)] = Len(rs)
               /\ \A k \in 1..Len(w) : Awaits(w[k], S) => rs[c[k]] = w[k].req
  BY DEF Match
<1> DEFINE v == Tail(w)
<1>2. PICK n : n = Len(v)
  OBVIOUS
<1>3. /\ n \in Nat /\ Len(w) = n + 1 /\ 1 \in 1..Len(w) /\ 1 \in 0..Len(w) /\ 0 \in 0..Len(w)
      /\ \A k \in 1..n : v[k] = w[k + 1]
  BY <1>2, Shrunk
<1> HIDE DEF v
<1>4. /\ c \in [0..n + 1 -> Nat] /\ c[0] = 0
      /\ \A k \in 1..n + 1 : c[k] = c[k - 1] + (IF Awaits(w[k], S) THEN 1 ELSE 0)
      /\ \A j, k \in 0..n + 1 : j <= k => c[j] <= c[k]
  BY <1>1, <1>3 DEF Counts
<1>5. PICK b : b = c[1]
  OBVIOUS
<1>6. b \in Nat /\ b = IF Awaits(w[1], S) THEN 1 ELSE 0
  BY <1>3, <1>4, <1>5
<1>7. \A k \in 0..n : k + 1 \in 0..n + 1 /\ c[k + 1] \in Nat /\ b <= c[k + 1]
  BY <1>3, <1>4, <1>5
<1>8. PICK d : d = [k \in 0..n |-> c[k + 1] - b]
  OBVIOUS
<1>9. d \in [0..n -> Nat] /\ \A k \in 0..n : d[k] = c[k + 1] - b
  BY <1>6, <1>7, <1>8
<1>a. ASSUME NEW k \in 1..n + 1 PROVE k - 1 \in 0..n /\ d[k - 1] = c[k] - b
  <2>1. PICK j : j = k - 1
    OBVIOUS
  <2>2. j \in 0..n /\ j + 1 = k
    BY <1>3, <2>1
  <2>3. d[j] = c[j + 1] - b
    BY <1>9, <2>2
  <2> QED BY <2>1, <2>2, <2>3
<1>10. Counts(d, v, S)
  <2>1. d[0] = 0
    <3>1. 1 \in 1..n + 1 /\ 1 - 1 = 0
      BY <1>3
    <3>2. d[0] = c[1] - b
      BY <1>a, <3>1
    <3>3. d[0] = b - b
      BY <1>5, <3>2
    <3>4. b \in Nat
      BY <1>6
    <3> QED BY <3>3, <3>4
  <2>2. ASSUME NEW k \in 1..n PROVE d[k] = d[k - 1] + (IF Awaits(v[k], S) THEN 1 ELSE 0)
    <3>1. k \in 0..n /\ k - 1 \in 0..n /\ k + 1 \in 1..n + 1 /\ (k - 1) + 1 = k /\ (k + 1) - 1 = k
      BY <1>3
    <3>2. v[k] = w[k + 1] /\ c[k + 1] = c[k] + (IF Awaits(w[k + 1], S) THEN 1 ELSE 0)
      BY <1>3, <1>4, <3>1
    <3>3. d[k] = c[k + 1] - b /\ d[k - 1] = c[k] - b /\ c[k] \in Nat
      <4>1. k \in 1..n + 1 /\ k \in 0..n + 1
        BY <1>3
      <4> QED BY <1>4, <1>9, <1>a, <3>1, <4>1
    <3> QED BY <1>6, <3>2, <3>3
  <2>3. ASSUME NEW j \in 0..n, NEW k \in 0..n, j <= k PROVE d[j] <= d[k]
    <3>1. j + 1 \in 0..n + 1 /\ k + 1 \in 0..n + 1 /\ j + 1 <= k + 1
      BY <1>3, <2>3
    <3>2. c[j + 1] <= c[k + 1] /\ c[j + 1] \in Nat /\ c[k + 1] \in Nat
      BY <1>4, <3>1
    <3> QED BY <1>6, <1>9, <3>2
  <2> QED BY <1>2, <1>9, <2>1, <2>2, <2>3 DEF Counts
<1>11. \A k \in 1..n : Awaits(v[k], S) => rs[c[k + 1]] = v[k].req /\ c[k + 1] = d[k] + b
  <2> SUFFICES ASSUME NEW k \in 1..n, Awaits(v[k], S)
               PROVE  rs[c[k + 1]] = v[k].req /\ c[k + 1] = d[k] + b
    OBVIOUS
  <2>1. k \in 0..n /\ k + 1 \in 1..Len(w) /\ v[k] = w[k + 1]
    BY <1>3
  <2> QED BY <1>1, <1>6, <1>7, <1>9, <2>1
<1>12. n \in 0..n /\ d[n] + b = Len(rs)
  BY <1>1, <1>3, <1>6, <1>7, <1>9
<1>13. ASSUME Awaits(w[1], S)
       PROVE  rs # <<>> /\ rs[1] = w[1].req /\ Match(Tail(rs), v, S)
  <2>1. b = 1
    BY <1>6, <1>13
  <2>2. Len(rs) \in Nat /\ Len(rs) >= 1
    BY <1>9, <1>12, <2>1
  <2>3. rs # <<>>
    BY <2>2
  <2>4. rs[1] = w[1].req
    BY <1>1, <1>3, <1>5, <1>13, <2>1
  <2>5. Len(Tail(rs)) = Len(rs) - 1 /\ \A k \in 1..Len(rs) - 1 : Tail(rs)[k] = rs[k + 1]
    BY <2>3, Shrunk
  <2>6. ASSUME NEW k \in 1..n, Awaits(v[k], S) PROVE Tail(rs)[d[k]] = v[k].req
    <3>1. k \in 0..n /\ k - 1 \in 0..n /\ d[k] \in Nat /\ d[k - 1] \in Nat /\ d[n] \in Nat
      BY <1>9, <1>12
    <3>2. d[k] = d[k - 1] + 1 /\ d[k] <= d[n]
      BY <1>2, <1>10, <1>12, <2>6, <3>1 DEF Counts
    <3>3. d[k] \in 1..Len(rs) - 1
      BY <1>12, <2>1, <2>2, <3>1, <3>2
    <3> QED BY <1>11, <2>1, <2>5, <2>6, <3>3
  <2>7. d[n] = Len(Tail(rs))
    <3>1. d[n] \in Nat /\ d[n] + 1 = Len(rs)
      BY <1>9, <1>12, <2>1
    <3> QED BY <2>2, <2>5, <3>1
  <2> QED BY <1>2, <1>10, <2>3, <2>4, <2>6, <2>7 DEF Match
<1>14. ASSUME ~Awaits(w[1], S) PROVE Match(rs, v, S)
  <2>1. b = 0
    BY <1>6, <1>14
  <2>2. \A k \in 1..n : Awaits(v[k], S) => rs[d[k]] = v[k].req
    <3> SUFFICES ASSUME NEW k \in 1..n, Awaits(v[k], S) PROVE rs[d[k]] = v[k].req
      OBVIOUS
    <3>1. d[k] \in Nat /\ k \in 0..n
      BY <1>9
    <3> QED BY <1>11, <2>1, <3>1
  <2>3. d[n] = Len(rs)
    BY <1>9, <1>12, <2>1
  <2> QED BY <1>2, <1>10, <2>2, <2>3 DEF Match
<1> QED BY <1>13, <1>14 DEF v

LEMMA MatchNothing ==
  ASSUME NEW w, NEW S, Sequence(w), \A k \in 1..Len(w) : ~Awaits(w[k], S)
  PROVE  Match(<<>>, w, S)
<1>1. PICK c : c = [k \in 0..Len(w) |-> 0]
  OBVIOUS
<1>2. Len(w) \in Nat /\ Len(<<>>) = 0
  BY SequenceLen
<1>3. c \in [0..Len(w) -> Nat] /\ \A k \in 0..Len(w) : c[k] = 0
  BY <1>1
<1>4. \A k \in 1..Len(w) : k \in 0..Len(w) /\ k - 1 \in 0..Len(w)
  BY <1>2
<1>5. 0 \in 0..Len(w) /\ Len(w) \in 0..Len(w)
  BY <1>2
<1>6. \A k \in 1..Len(w) : c[k] = c[k - 1] + (IF Awaits(w[k], S) THEN 1 ELSE 0)
  BY <1>3, <1>4
<1>7. Counts(c, w, S)
  BY <1>3, <1>5, <1>6 DEF Counts
<1>8. c[Len(w)] = Len(<<>>)
  BY <1>2, <1>3, <1>5
<1> QED BY <1>7, <1>8 DEF Match

-----------------------------------------------------------------------------
(* The sessions of the dictionary d: the calls w that wait for an interface,  *)
(* the sessions lv it runs, the answer a it has given, the requests rs of the *)
(* queue, and the last id n.                                                  *)
Names(d) == DOMAIN d.back
ModeOf(d, s) == d.ext[s].mode
\* x: what the dictionary says of session s
EntryOf(x, s) ==
  x = Entity(x.mode, x.t, x.b) /\ IF OnFix(x.mode) THEN x.t = s /\ x.b = 0 ELSE x.b = s
Runs(s, lv, d) == s \in DOMAIN lv /\ lv[s] = ModeOf(d, s)

DictOK(d, n) ==
  /\ DOMAIN d.ext = Names(d) /\ Names(d) \subseteq 2..n
  /\ \A s \in Names(d) : /\ d.back[s] \in DOMAIN d.fwd /\ d.fwd[d.back[s]] = s
                         /\ EntryOf(d.ext[s], s)
  /\ \A id \in DOMAIN d.fwd : d.fwd[id] \in Names(d) /\ d.back[d.fwd[id]] = id

(* A call is about a session of the dictionary as it runs or is to run, or   *)
(* stops one that a change of mode took out of it, without a request.        *)
Serves(m, lv, d) ==
  /\ m.s \in Names(d)
  /\ \/ m.op = "start" /\ m.req \in {Req("start", m.s), Req("update", m.s)}
          /\ m.s \notin DOMAIN lv /\ m.mode = ModeOf(d, m.s)
     \/ m.op = "update" /\ m.req = Req("update", m.s)
          /\ m.s \in DOMAIN lv /\ m.mode = ModeOf(d, m.s)
     \/ m.op \in {"stop", "get"} /\ m.req = Req(m.op, m.s) /\ Runs(m.s, lv, d)
DictCall(m, lv, d, n) ==
  \/ m.op = "add" /\ m.req = NoClient
  \/ m.op = "stop" /\ m.req = NoClient /\ m.s \in (2..n) \ Names(d)
  \/ Serves(m, lv, d)

About(w, s) == \E k \in 1..Len(w) : w[k].req # NoClient /\ w[k].s = s
StopWaits(w, s) == \E k \in 1..Len(w) : w[k].op = "stop" /\ w[k].s = s
Answered(a, s) == a # NoClient /\ a.s = s

Talk(w, lv, d, rs, a, n) ==
  /\ Sequence(w) /\ Sequence(rs) /\ n \in Nat \ {0} /\ DictOK(d, n)
  /\ \A k \in 1..Len(w) : DictCall(w[k], lv, d, n)
  /\ \A j, k \in 1..Len(w) :
       w[j].req # NoClient /\ w[k].req # NoClient /\ w[j].s = w[k].s => j = k
  /\ a # NoClient => /\ a.s \in Names(d) /\ ~About(w, a.s)
                     /\ Removes(a) => a.s \notin DOMAIN lv
                     /\ ~Removes(a) => Runs(a.s, lv, d)
  /\ \A s \in Names(d) : About(w, s) \/ Answered(a, s) \/ Runs(s, lv, d)
  /\ \A s \in DOMAIN lv : s \in 2..n /\ (s \in Names(d) \/ StopWaits(w, s))
  /\ Match(rs, w, Nat)

\* the sessions but x are the same in d and e
SameBut(d, e, x) ==
  /\ Names(e) \ {x} = Names(d) \ {x}
  /\ \A s \in Names(d) \ {x} : ModeOf(e, s) = ModeOf(d, s)

LEMMA DictRemove ==
  ASSUME NEW d, NEW n, DictOK(d, n), NEW s \in Names(d), NEW e, e = RmBySession(d, s)
  PROVE  DictOK(e, n) /\ Names(e) = Names(d) \ {s} /\ SameBut(d, e, s)
<1>1. /\ DOMAIN d.ext = Names(d) /\ Names(d) \subseteq 2..n
      /\ \A t \in Names(d) : /\ d.back[t] \in DOMAIN d.fwd /\ d.fwd[d.back[t]] = t
                             /\ EntryOf(d.ext[t], t)
      /\ \A id \in DOMAIN d.fwd : d.fwd[id] \in Names(d) /\ d.back[d.fwd[id]] = id
  BY DEF DictOK
<1>2. PICK i : i = d.back[s]
  OBVIOUS
<1>3. BackwardOf(d, s) = i
  BY <1>2 DEF BackwardOf, HasSession, Names
<1>4. e = [fwd |-> Without(d.fwd, i), back |-> Without(d.back, s), ext |-> Without(d.ext, s)]
  BY <1>3 DEF RmBySession
<1>5. e.fwd = Without(d.fwd, i) /\ e.back = Without(d.back, s) /\ e.ext = Without(d.ext, s)
  BY <1>4
<1>6. /\ DOMAIN e.fwd = DOMAIN d.fwd \ {i} /\ \A id \in DOMAIN e.fwd : e.fwd[id] = d.fwd[id]
      /\ Names(e) = Names(d) \ {s} /\ \A t \in Names(e) : e.back[t] = d.back[t]
      /\ DOMAIN e.ext = Names(e) /\ \A t \in Names(e) : e.ext[t] = d.ext[t]
  BY <1>1, <1>5 DEF Without, Names
<1>7. \A t \in Names(e) : d.back[t] # i
  BY <1>1, <1>2, <1>6
<1>8. \A id \in DOMAIN e.fwd : d.fwd[id] # s
  BY <1>1, <1>2, <1>6
<1>9. DictOK(e, n)
  BY <1>1, <1>6, <1>7, <1>8 DEF DictOK
<1>10. SameBut(d, e, s)
  BY <1>6 DEF SameBut, ModeOf
<1> QED BY <1>6, <1>9, <1>10

LEMMA DictForget ==
  ASSUME NEW d, NEW n, DictOK(d, n), NEW id, HasId(d, id)
  PROVE  /\ d.fwd[id] \in Names(d) /\ ExtById(d, id) = d.ext[d.fwd[id]]
         /\ EntryOf(d.ext[d.fwd[id]], d.fwd[id])
         /\ RmById(d, id) = RmBySession(d, d.fwd[id])
<1>1. /\ d.fwd[id] \in Names(d) /\ d.back[d.fwd[id]] = id
      /\ EntryOf(d.ext[d.fwd[id]], d.fwd[id])
      /\ DOMAIN d.ext = Names(d) /\ Names(d) \subseteq 2..n
  BY DEF DictOK, HasId
<1>2. ForwardOf(d, id) = d.fwd[id]
  BY DEF ForwardOf
<1>3. BackwardOf(d, d.fwd[id]) = id
  BY <1>1 DEF BackwardOf, HasSession, Names
<1>4. RmById(d, id) = RmBySession(d, d.fwd[id])
  BY <1>2, <1>3 DEF RmById, RmBySession
<1>5. d.fwd[id] > 0 /\ d.fwd[id] \in DOMAIN d.ext
  BY <1>1
<1> QED BY <1>1, <1>4, <1>5 DEF ExtById

LEMMA DictAdd ==
  ASSUME NEW d, NEW n, DictOK(d, n), NEW id, ~HasId(d, id), NEW k, k \in Nat, n \in Nat, k >= n,
         NEW s \in 2..k, s \notin Names(d), NEW x, EntryOf(x, s),
         NEW e, e = DictSet(d, id, s, x)
  PROVE  DictOK(e, k) /\ Names(e) = Names(d) \union {s} /\ SameBut(d, e, s) /\ ModeOf(e, s) = x.mode
<1>1. /\ DOMAIN d.ext = Names(d) /\ Names(d) \subseteq 2..n
      /\ \A t \in Names(d) : /\ d.back[t] \in DOMAIN d.fwd /\ d.fwd[d.back[t]] = t
                             /\ EntryOf(d.ext[t], t)
      /\ \A i \in DOMAIN d.fwd : d.fwd[i] \in Names(d) /\ d.back[d.fwd[i]] = i
  BY DEF DictOK
<1>2. e.fwd = With(d.fwd, id, s) /\ e.back = With(d.back, s, id) /\ e.ext = With(d.ext, s, x)
  BY DEF DictSet
<1>3. /\ DOMAIN e.fwd = DOMAIN d.fwd \union {id} /\ e.fwd[id] = s
      /\ \A i \in DOMAIN d.fwd : i # id => e.fwd[i] = d.fwd[i]
  BY <1>2 DEF With
<1>4. /\ Names(e) = Names(d) \union {s} /\ e.back[s] = id
      /\ \A t \in Names(d) : t # s => e.back[t] = d.back[t]
  BY <1>2 DEF With, Names
<1>5. /\ DOMAIN e.ext = Names(e) /\ e.ext[s] = x
      /\ \A t \in Names(d) : t # s => e.ext[t] = d.ext[t]
  BY <1>1, <1>2, <1>4 DEF With
<1>6. id \notin DOMAIN d.fwd
  BY DEF HasId
<1>7. \A t \in Names(d) : t # s /\ d.back[t] # id
  BY <1>1, <1>6
<1>8. Names(e) \subseteq 2..k
  BY <1>1, <1>4
<1>9. \A t \in Names(e) : /\ e.back[t] \in DOMAIN e.fwd /\ e.fwd[e.back[t]] = t
                          /\ EntryOf(e.ext[t], t)
  BY <1>1, <1>3, <1>4, <1>5, <1>7
<1>10. \A i \in DOMAIN e.fwd : e.fwd[i] \in Names(e) /\ e.back[e.fwd[i]] = i
  BY <1>1, <1>3, <1>4, <1>6, <1>7
<1>11. DictOK(e, k)
  BY <1>5, <1>8, <1>9, <1>10 DEF DictOK
<1>12. SameBut(d, e, s) /\ ModeOf(e, s) = x.mode
  BY <1>4, <1>5 DEF SameBut, ModeOf
<1> QED BY <1>4, <1>11, <1>12
LEMMA DictMode ==
  ASSUME NEW d, NEW n, n \in Nat, DictOK(d, n), NEW id, HasId(d, id), NEW s, s = d.fwd[id],
         NEW x, EntryOf(x, s), NEW c, c = RmBySession(d, s), NEW e, e = DictSet(c, id, s, x)
  PROVE  /\ ~HasId(c, id)
         /\ DictOK(e, n) /\ Names(e) = Names(d) /\ SameBut(d, e, s) /\ ModeOf(e, s) = x.mode
<1>1. s \in Names(d) /\ d.back[s] = id /\ Names(d) \subseteq 2..n
  BY DEF DictOK, HasId
<1>2. DictOK(c, n) /\ Names(c) = Names(d) \ {s} /\ SameBut(d, c, s)
  BY <1>1, DictRemove
<1>3. BackwardOf(d, s) = id
  BY <1>1 DEF BackwardOf, HasSession, Names
<1>4. c.fwd = Without(d.fwd, id)
  BY <1>3 DEF RmBySession
<1>5. ~HasId(c, id)
  BY <1>4 DEF HasId, Without
<1>6. s \in 2..n /\ s \notin Names(c) /\ n >= n
  BY <1>1, <1>2
<1>7. /\ DictOK(e, n) /\ Names(e) = Names(c) \union {s} /\ SameBut(c, e, s)
      /\ ModeOf(e, s) = x.mode
  BY <1>2, <1>5, <1>6, DictAdd
<1>8. Names(e) = Names(d)
  BY <1>1, <1>2, <1>7
<1>9. SameBut(d, e, s)
  BY <1>2, <1>7 DEF SameBut
<1> QED BY <1>5, <1>7, <1>8, <1>9

LEMMA RequestsAre ==
  ASSUME NEW op \in {"start", "stop", "update", "get", "ni"}, NEW s \in Nat
  PROVE  Req(op, s) \in Requests /\ Req(op, s) # NoClient
<1>1. Req(op, s) \in Requests
  BY DEF Req, Requests
<1> QED BY <1>1, RequestsAssumption DEF RequestsAssumption

LEMMA ServesAsk ==
  ASSUME NEW d, NEW n, n \in Nat, DictOK(d, n), NEW m, NEW lv, Serves(m, lv, d)
  PROVE  /\ m.req # NoClient /\ m.req \in Requests /\ m.s \in Names(d) /\ m.s \in 2..n
         /\ m.op \in {"start", "stop", "update", "get"}
<1>1. m.s \in Names(d) /\ m.s \in 2..n /\ m.s \in Nat
  BY DEF Serves, DictOK
<1>2. \E op \in {"start", "stop", "update", "get", "ni"} : m.req = Req(op, m.s)
  BY DEF Serves
<1>3. m.req # NoClient /\ m.req \in Requests
  BY <1>1, <1>2, RequestsAre
<1> QED BY <1>1, <1>3 DEF Serves

LEMMA TalkPost ==
  ASSUME NEW w, NEW lv, NEW d, NEW rs, NEW a, NEW n, Talk(w, lv, d, rs, a, n),
         NEW m, NEW e, NEW h, h \in Nat, h >= n, DictOK(e, h), SameBut(d, e, m.s), m.s \in Nat,
         ~About(w, m.s), ~Answered(a, m.s), m.s \in Names(d) \/ m.s \notin 2..n,
         DictCall(m, lv, e, h), m.s \in Names(e) => m.req # NoClient,
         m.s \in DOMAIN lv /\ m.s \notin Names(e) => m.op = "stop",
         NEW rq, rq = IF m.req # NoClient THEN Append(rs, m.req) ELSE rs
  PROVE  Talk(Append(w, m), lv, e, rq, a, h)
<1>1. /\ Sequence(w) /\ Sequence(rs) /\ n \in Nat \ {0} /\ DictOK(d, n)
      /\ \A k \in 1..Len(w) : DictCall(w[k], lv, d, n)
      /\ \A j, k \in 1..Len(w) :
           w[j].req # NoClient /\ w[k].req # NoClient /\ w[j].s = w[k].s => j = k
      /\ a # NoClient => /\ a.s \in Names(d) /\ ~About(w, a.s)
                         /\ Removes(a) => a.s \notin DOMAIN lv
                         /\ ~Removes(a) => Runs(a.s, lv, d)
      /\ \A s \in Names(d) : About(w, s) \/ Answered(a, s) \/ Runs(s, lv, d)
      /\ \A s \in DOMAIN lv : s \in 2..n /\ (s \in Names(d) \/ StopWaits(w, s))
      /\ Match(rs, w, Nat)
  BY DEF Talk
<1>2. PICK v : v = Append(w, m)
  OBVIOUS
<1>3. /\ Sequence(v) /\ Len(w) \in Nat /\ Len(v) = Len(w) + 1 /\ v[Len(v)] = m
      /\ \A k \in 1..Len(w) : v[k] = w[k]
  BY <1>1, <1>2, Grown
<1>4. /\ Len(v) \in 1..Len(v) /\ 1..Len(w) \subseteq 1..Len(v)
      /\ \A k \in 1..Len(v) : k \in 1..Len(w) \/ k = Len(v)
  BY <1>3
<1>5. Sequence(rq)
  BY <1>1, Grown
<1>6. /\ \A s : s # m.s => (s \in Names(e) <=> s \in Names(d))
      /\ \A s \in Names(d) : s # m.s => ModeOf(e, s) = ModeOf(d, s)
  BY DEF SameBut
<1>7. \A s \in Names(d) : s # m.s => (Runs(s, lv, e) <=> Runs(s, lv, d))
  BY <1>6 DEF Runs
<1>8. ASSUME NEW k \in 1..Len(w) PROVE DictCall(v[k], lv, e, h)
  <2>1. v[k] = w[k] /\ DictCall(w[k], lv, d, n)
    BY <1>1, <1>3
  <2>2. CASE w[k].op = "add" /\ w[k].req = NoClient
    BY <2>1, <2>2 DEF DictCall
  <2>3. CASE w[k].op = "stop" /\ w[k].req = NoClient /\ w[k].s \in (2..n) \ Names(d)
    <3>1. w[k].s # m.s
      BY <2>3
    <3>2. w[k].s \in (2..h) \ Names(e)
      BY <1>1, <1>6, <2>3, <3>1
    <3> QED BY <2>1, <2>3, <3>2 DEF DictCall
  <2>4. CASE Serves(w[k], lv, d)
    <3>1. w[k].req # NoClient /\ w[k].s \in Names(d)
      BY <1>1, <2>4, ServesAsk
    <3>2. w[k].s # m.s
      BY <3>1 DEF About
    <3>3. w[k].s \in Names(e) /\ ModeOf(e, w[k].s) = ModeOf(d, w[k].s)
      BY <1>6, <3>1, <3>2
    <3>4. Serves(w[k], lv, e)
      BY <2>4, <3>3 DEF Serves, Runs
    <3> QED BY <2>1, <3>4 DEF DictCall
  <2> QED BY <2>1, <2>2, <2>3, <2>4 DEF DictCall
<1>9. \A k \in 1..Len(v) : DictCall(v[k], lv, e, h)
  BY <1>3, <1>4, <1>8
<1>10. ASSUME NEW j \in 1..Len(v), NEW k \in 1..Len(v), v[j].req # NoClient, v[k].req # NoClient,
              v[j].s = v[k].s
       PROVE  j = k
  <2>1. CASE j \in 1..Len(w) /\ k \in 1..Len(w)
    BY <1>1, <1>3, <1>10, <2>1
  <2>2. ~(j \in 1..Len(w) /\ k = Len(v)) /\ ~(k \in 1..Len(w) /\ j = Len(v))
    BY <1>3, <1>10 DEF About
  <2> QED BY <1>4, <2>1, <2>2
<1>11. \A s : About(w, s) => About(v, s)
  BY <1>3, <1>4 DEF About
<1>12. \A s : s # m.s /\ About(v, s) => About(w, s)
  BY <1>3, <1>4 DEF About
<1>13. a # NoClient => /\ a.s \in Names(e) /\ ~About(v, a.s)
                       /\ Removes(a) => a.s \notin DOMAIN lv
                       /\ ~Removes(a) => Runs(a.s, lv, e)
  <2> SUFFICES ASSUME a # NoClient
               PROVE  /\ a.s \in Names(e) /\ ~About(v, a.s)
                      /\ Removes(a) => a.s \notin DOMAIN lv
                      /\ ~Removes(a) => Runs(a.s, lv, e)
    OBVIOUS
  <2>1. a.s # m.s
    BY DEF Answered
  <2> QED BY <1>1, <1>6, <1>7, <1>12, <2>1
<1>14. ASSUME NEW s \in Names(e) PROVE About(v, s) \/ Answered(a, s) \/ Runs(s, lv, e)
  <2>1. CASE s = m.s
    BY <1>3, <1>4, <2>1 DEF About
  <2>2. CASE s # m.s
    BY <1>1, <1>6, <1>7, <1>11, <2>2
  <2> QED BY <2>1, <2>2
<1>15. ASSUME NEW s \in DOMAIN lv PROVE s \in 2..h /\ (s \in Names(e) \/ StopWaits(v, s))
  <2>1. s \in 2..n /\ (s \in Names(d) \/ StopWaits(w, s))
    BY <1>1
  <2>2. s \in 2..h
    BY <1>1, <2>1
  <2>3. StopWaits(w, s) => StopWaits(v, s)
    BY <1>3, <1>4 DEF StopWaits
  <2>4. CASE s = m.s
    BY <1>3, <1>4, <2>2, <2>4 DEF StopWaits
  <2>5. CASE s # m.s
    BY <1>6, <2>1, <2>2, <2>3, <2>5
  <2> QED BY <2>4, <2>5
<1>16. Match(rq, v, Nat)
  <2>1. CASE m.req # NoClient
    <3>1. Awaits(m, Nat)
      BY <2>1 DEF Awaits
    <3> QED BY <1>1, <1>2, <2>1, <3>1, MatchAppend
  <2>2. CASE m.req = NoClient
    <3>1. ~Awaits(m, Nat)
      BY <2>2 DEF Awaits
    <3> QED BY <1>1, <1>2, <2>2, <3>1, MatchAppend
  <2> QED BY <2>1, <2>2
<1>17. h \in Nat \ {0}
  BY <1>1
<1>18. Talk(v, lv, e, rq, a, h)
  BY <1>3, <1>5, <1>9, <1>10, <1>13, <1>14, <1>15, <1>16, <1>17 DEF Talk
<1> QED BY <1>2, <1>18
\* the sessions but x run as they did
SameLive(lv, l, x) ==
  /\ DOMAIN l \ {x} = DOMAIN lv \ {x}
  /\ \A s \in DOMAIN lv \ {x} : l[s] = lv[s]

LEMMA OthersServed ==
  ASSUME NEW lv, NEW l, NEW x, SameLive(lv, l, x), NEW d, NEW e, SameBut(d, e, x)
  PROVE  /\ \A s \in Names(d) : s # x => (Runs(s, lv, d) <=> Runs(s, l, e))
         /\ \A m : m.s # x /\ Serves(m, lv, d) => Serves(m, l, e)
<1>1. \A s \in Names(d) : s # x => /\ s \in Names(e) /\ ModeOf(e, s) = ModeOf(d, s)
                                   /\ Runs(s, lv, d) <=> Runs(s, l, e)
                                   /\ s \in DOMAIN lv <=> s \in DOMAIN l
  BY DEF SameLive, SameBut, Runs
<1>2. ASSUME NEW m, m.s # x, Serves(m, lv, d) PROVE Serves(m, l, e)
  <2>1. m.s \in Names(d)
    BY <1>2 DEF Serves
  <2>2. /\ m.s \in Names(e) /\ ModeOf(e, m.s) = ModeOf(d, m.s)
        /\ Runs(m.s, lv, d) <=> Runs(m.s, l, e)
        /\ m.s \in DOMAIN lv <=> m.s \in DOMAIN l
    BY <1>1, <1>2, <2>1
  <2> QED BY <1>2, <2>2 DEF Serves
<1> QED BY <1>1, <1>2

\* v: the calls that wait behind the first one
Behind(v, w) ==
  /\ Sequence(v) /\ Len(w) \in Nat \ {0} /\ Len(v) = Len(w) - 1 /\ 1 \in 1..Len(w)
  /\ \A k \in 1..Len(v) : k + 1 \in 1..Len(w) /\ v[k] = w[k + 1]
  /\ \A j, k \in 1..Len(v) :
       v[j].req # NoClient /\ v[k].req # NoClient /\ v[j].s = v[k].s => j = k
  /\ \A s : About(v, s) => About(w, s)
  /\ \A s : About(w, s) => About(v, s) \/ (w[1].req # NoClient /\ w[1].s = s)
  /\ w[1].req # NoClient => ~About(v, w[1].s)
  /\ \A s : StopWaits(w, s) => StopWaits(v, s) \/ (w[1].op = "stop" /\ w[1].s = s)

LEMMA TalkRest ==
  ASSUME NEW w, NEW lv, NEW d, NEW rs, NEW a, NEW n, Talk(w, lv, d, rs, a, n), w # <<>>,
         NEW v, v = Tail(w)
  PROVE  Behind(v, w)
<1>1. /\ Sequence(w)
      /\ \A j, k \in 1..Len(w) :
           w[j].req # NoClient /\ w[k].req # NoClient /\ w[j].s = w[k].s => j = k
  BY DEF Talk
<1>2. /\ Sequence(v) /\ Len(w) \in Nat \ {0} /\ Len(v) = Len(w) - 1 /\ 1 \in 1..Len(w)
      /\ \A k \in 1..Len(v) : k + 1 \in 1..Len(w) /\ v[k] = w[k + 1]
  BY <1>1, Shrunk
<1>3. ASSUME NEW j \in 1..Len(v), NEW k \in 1..Len(v), v[j].req # NoClient, v[k].req # NoClient,
             v[j].s = v[k].s
      PROVE  j = k
  <2>1. j + 1 = k + 1
    BY <1>1, <1>2, <1>3
  <2> QED BY <2>1
<1>4. \A s : About(v, s) => About(w, s)
  BY <1>2 DEF About
<1>5. \A k \in 1..Len(w) : k = 1 \/ (k - 1 \in 1..Len(v) /\ v[k - 1] = w[k])
  <2> SUFFICES ASSUME NEW k \in 1..Len(w), k # 1 PROVE k - 1 \in 1..Len(v) /\ v[k - 1] = w[k]
    OBVIOUS
  <2>1. PICK j : j = k - 1
    OBVIOUS
  <2>2. j \in 1..Len(v) /\ j + 1 = k
    BY <1>2, <2>1
  <2> QED BY <1>2, <2>1, <2>2
<1>6. \A s : About(w, s) => About(v, s) \/ (w[1].req # NoClient /\ w[1].s = s)
  BY <1>5 DEF About
<1>7. ASSUME w[1].req # NoClient, About(v, w[1].s) PROVE FALSE
  <2>1. PICK k \in 1..Len(v) : v[k].req # NoClient /\ v[k].s = w[1].s
    BY <1>7 DEF About
  <2>2. k + 1 = 1
    BY <1>1, <1>2, <1>7, <2>1
  <2> QED BY <2>2
<1>8. \A s : StopWaits(w, s) => StopWaits(v, s) \/ (w[1].op = "stop" /\ w[1].s = s)
  BY <1>5 DEF StopWaits
<1> QED BY <1>2, <1>3, <1>4, <1>6, <1>7, <1>8 DEF Behind

\* an interface serves a call the client waits for the answer of
LEMMA TalkAsked ==
  ASSUME NEW w, NEW lv, NEW d, NEW rs, NEW n, Talk(w, lv, d, rs, NoClient, n), w # <<>>,
         Serves(w[1], lv, d), NEW ok \in BOOLEAN, NEW a,
         a = [req |-> w[1].req, call |-> w[1].req, s |-> w[1].s, ok |-> ok],
         NEW l, SameLive(lv, l, w[1].s),
         Removes(a) => w[1].s \notin DOMAIN l, ~Removes(a) => Runs(w[1].s, l, d)
  PROVE  rs # <<>> /\ rs[1] = w[1].req /\ Talk(Tail(w), l, d, Tail(rs), a, n)
<1>1. /\ Sequence(w) /\ Sequence(rs) /\ n \in Nat \ {0} /\ DictOK(d, n)
      /\ \A k \in 1..Len(w) : DictCall(w[k], lv, d, n)
      /\ \A s \in Names(d) : About(w, s) \/ Answered(NoClient, s) \/ Runs(s, lv, d)
      /\ \A s \in DOMAIN lv : s \in 2..n /\ (s \in Names(d) \/ StopWaits(w, s))
      /\ Match(rs, w, Nat)
  BY DEF Talk
<1>2. PICK x : x = w[1].s
  OBVIOUS
<1>3. w[1].req # NoClient /\ w[1].req \in Requests /\ x \in Names(d) /\ x \in 2..n /\ x \in Nat
  BY <1>1, <1>2, ServesAsk
<1>4. /\ a.s = x /\ a # NoClient
  <2>1. a \in [req : Requests, call : Requests, s : Nat, ok : BOOLEAN]
    BY <1>2, <1>3
  <2>2. a # NoClient
    BY <2>1, RequestsAssumption DEF RequestsAssumption
  <2> QED BY <1>2, <2>2
<1>5. PICK v : v = Tail(w)
  OBVIOUS
<1>r. Behind(v, w)
  BY <1>5, TalkRest
<1>6. /\ Sequence(v) /\ Len(w) \in Nat \ {0} /\ Len(v) = Len(w) - 1 /\ 1 \in 1..Len(w)
      /\ \A k \in 1..Len(v) : k + 1 \in 1..Len(w) /\ v[k] = w[k + 1]
      /\ \A j, k \in 1..Len(v) :
           v[j].req # NoClient /\ v[k].req # NoClient /\ v[j].s = v[k].s => j = k
      /\ \A s : About(w, s) => About(v, s) \/ s = x
      /\ ~About(v, x)
      /\ \A s : StopWaits(w, s) => StopWaits(v, s) \/ s = x
  BY <1>2, <1>3, <1>r DEF Behind
<1>7. Awaits(w[1], Nat)
  BY <1>2, <1>3 DEF Awaits
<1>8. rs # <<>> /\ rs[1] = w[1].req /\ Match(Tail(rs), v, Nat)
  BY <1>1, <1>5, <1>7, MatchServe
<1>9. Sequence(Tail(rs))
  BY <1>1, <1>8, Shrunk
<1>10. SameBut(d, d, x) /\ SameLive(lv, l, x)
  BY <1>2 DEF SameBut
<1>11. /\ \A s \in Names(d) : s # x => (Runs(s, lv, d) <=> Runs(s, l, d))
       /\ \A m : m.s # x /\ Serves(m, lv, d) => Serves(m, l, d)
  BY <1>10, OthersServed
<1>12. ASSUME NEW k \in 1..Len(v) PROVE DictCall(v[k], l, d, n)
  <2>1. DictCall(v[k], lv, d, n)
    BY <1>1, <1>6
  <2>2. CASE Serves(v[k], lv, d)
    <3>1. v[k].req # NoClient
      BY <1>1, <2>2, ServesAsk
    <3>2. v[k].s # x
      BY <1>6, <3>1 DEF About
    <3>3. Serves(v[k], l, d)
      BY <1>11, <2>2, <3>2
    <3> QED BY <3>3 DEF DictCall
  <2> QED BY <2>1, <2>2 DEF DictCall
<1>13. ASSUME NEW s \in Names(d) PROVE About(v, s) \/ Answered(a, s) \/ Runs(s, l, d)
  BY <1>1, <1>4, <1>6, <1>11 DEF Answered
<1>14. ASSUME NEW s \in DOMAIN l PROVE s \in 2..n /\ (s \in Names(d) \/ StopWaits(v, s))
  <2>1. CASE s = x
    BY <1>3, <2>1
  <2>2. CASE s # x
    <3>1. s \in DOMAIN lv
      BY <1>10, <2>2 DEF SameLive
    <3> QED BY <1>1, <1>6, <2>2, <3>1
  <2> QED BY <2>1, <2>2
<1>15. /\ a.s \in Names(d) /\ ~About(v, a.s)
       /\ Removes(a) => a.s \notin DOMAIN l
       /\ ~Removes(a) => Runs(a.s, l, d)
  BY <1>2, <1>3, <1>4, <1>6
<1>16. Talk(v, l, d, Tail(rs), a, n)
  BY <1>1, <1>6, <1>8, <1>9, <1>12, <1>13, <1>14, <1>15 DEF Talk
<1> QED BY <1>5, <1>8, <1>16

\* it serves one the client does not wait for: x is the session it stops, if any
LEMMA TalkOther ==
  ASSUME NEW w, NEW lv, NEW d, NEW rs, NEW a, NEW n, Talk(w, lv, d, rs, a, n), w # <<>>,
         w[1].req = NoClient, NEW x, x \notin Names(d), w[1].op = "stop" => w[1].s = x,
         NEW l, SameLive(lv, l, x), x \notin DOMAIN l
  PROVE  Talk(Tail(w), l, d, rs, a, n)
<1>1. /\ Sequence(w) /\ Sequence(rs) /\ n \in Nat \ {0} /\ DictOK(d, n)
      /\ \A k \in 1..Len(w) : DictCall(w[k], lv, d, n)
      /\ a # NoClient => /\ a.s \in Names(d) /\ ~About(w, a.s)
                         /\ Removes(a) => a.s \notin DOMAIN lv
                         /\ ~Removes(a) => Runs(a.s, lv, d)
      /\ \A s \in Names(d) : About(w, s) \/ Answered(a, s) \/ Runs(s, lv, d)
      /\ \A s \in DOMAIN lv : s \in 2..n /\ (s \in Names(d) \/ StopWaits(w, s))
      /\ Match(rs, w, Nat)
  BY DEF Talk
<1>2. PICK v : v = Tail(w)
  OBVIOUS
<1>r. Behind(v, w)
  BY <1>2, TalkRest
<1>3. /\ Sequence(v) /\ Len(w) \in Nat \ {0} /\ Len(v) = Len(w) - 1 /\ 1 \in 1..Len(w)
      /\ \A k \in 1..Len(v) : k + 1 \in 1..Len(w) /\ v[k] = w[k + 1]
      /\ \A j, k \in 1..Len(v) :
           v[j].req # NoClient /\ v[k].req # NoClient /\ v[j].s = v[k].s => j = k
      /\ \A s : About(w, s) <=> About(v, s)
      /\ \A s : StopWaits(w, s) => StopWaits(v, s) \/ s = x
  BY <1>r DEF Behind
<1>4. Match(rs, v, Nat)
  <2>1. ~Awaits(w[1], Nat)
    BY DEF Awaits
  <2> QED BY <1>1, <1>2, <2>1, MatchServe
<1>5. SameBut(d, d, x)
  BY DEF SameBut
<1>6. /\ \A s \in Names(d) : s # x => (Runs(s, lv, d) <=> Runs(s, l, d))
      /\ \A m : m.s # x /\ Serves(m, lv, d) => Serves(m, l, d)
  BY <1>5, OthersServed
<1>7. ASSUME NEW k \in 1..Len(v) PROVE DictCall(v[k], l, d, n)
  <2>1. DictCall(v[k], lv, d, n)
    BY <1>1, <1>3
  <2>2. CASE Serves(v[k], lv, d)
    <3>1. v[k].s # x
      BY <2>2 DEF Serves
    <3>2. Serves(v[k], l, d)
      BY <1>6, <2>2, <3>1
    <3> QED BY <3>2 DEF DictCall
  <2> QED BY <2>1, <2>2 DEF DictCall
<1>8. \A s \in DOMAIN l : s # x /\ s \in DOMAIN lv
  BY DEF SameLive
<1>9. \A s \in DOMAIN l : s \in 2..n /\ (s \in Names(d) \/ StopWaits(v, s))
  BY <1>1, <1>3, <1>8
<1>10. \A s \in Names(d) : s # x /\ (About(v, s) \/ Answered(a, s) \/ Runs(s, l, d))
  BY <1>1, <1>3, <1>6
<1>11. a # NoClient => /\ a.s \in Names(d) /\ ~About(v, a.s)
                       /\ Removes(a) => a.s \notin DOMAIN l
                       /\ ~Removes(a) => Runs(a.s, l, d)
  BY <1>1, <1>3, <1>6, <1>8
<1>12. Talk(v, l, d, rs, a, n)
  BY <1>1, <1>3, <1>4, <1>7, <1>9, <1>10, <1>11 DEF Talk
<1> QED BY <1>2, <1>12
\* session x leaves, and the dictionary with it
LEMMA TalkGone ==
  ASSUME NEW w, NEW lv, NEW d, NEW rs, NEW a, NEW n, Talk(w, lv, d, rs, a, n),
         NEW x, ~About(w, x), NEW b, b = NoClient \/ (b = a /\ ~Answered(a, x)),
         b = NoClient => a = NoClient \/ a.s = x,
         NEW l, SameLive(lv, l, x), x \notin DOMAIN l,
         NEW e, e = IF HasSession(d, x) THEN RmBySession(d, x) ELSE d
  PROVE  Talk(w, l, e, rs, b, n)
<1>1. /\ Sequence(w) /\ Sequence(rs) /\ n \in Nat \ {0} /\ DictOK(d, n)
      /\ \A k \in 1..Len(w) : DictCall(w[k], lv, d, n)
      /\ \A j, k \in 1..Len(w) :
           w[j].req # NoClient /\ w[k].req # NoClient /\ w[j].s = w[k].s => j = k
      /\ a # NoClient => /\ a.s \in Names(d) /\ ~About(w, a.s)
                         /\ Removes(a) => a.s \notin DOMAIN lv
                         /\ ~Removes(a) => Runs(a.s, lv, d)
      /\ \A s \in Names(d) : About(w, s) \/ Answered(a, s) \/ Runs(s, lv, d)
      /\ \A s \in DOMAIN lv : s \in 2..n /\ (s \in Names(d) \/ StopWaits(w, s))
      /\ Match(rs, w, Nat)
  BY DEF Talk
<1>2. DictOK(e, n) /\ Names(e) = Names(d) \ {x} /\ SameBut(d, e, x)
  <2>1. CASE x \in Names(d)
    <3>1. e = RmBySession(d, x)
      BY <2>1 DEF HasSession, Names
    <3> QED BY <1>1, <2>1, <3>1, DictRemove
  <2>2. CASE x \notin Names(d)
    <3>1. e = d
      BY <2>2 DEF HasSession, Names
    <3> QED BY <1>1, <2>2, <3>1 DEF SameBut
  <2> QED BY <2>1, <2>2
<1>3. /\ \A s \in Names(d) : s # x => (Runs(s, lv, d) <=> Runs(s, l, e))
      /\ \A m : m.s # x /\ Serves(m, lv, d) => Serves(m, l, e)
  BY <1>2, OthersServed
<1>4. ASSUME NEW k \in 1..Len(w) PROVE DictCall(w[k], l, e, n)
  <2>1. DictCall(w[k], lv, d, n)
    BY <1>1
  <2>2. CASE Serves(w[k], lv, d)
    <3>1. w[k].req # NoClient
      BY <1>1, <2>2, ServesAsk
    <3>2. w[k].s # x
      BY <3>1 DEF About
    <3>3. Serves(w[k], l, e)
      BY <1>3, <2>2, <3>2
    <3> QED BY <3>3 DEF DictCall
  <2>3. CASE w[k].op = "stop" /\ w[k].req = NoClient /\ w[k].s \in (2..n) \ Names(d)
    BY <1>2, <2>3 DEF DictCall
  <2>4. CASE w[k].op = "add" /\ w[k].req = NoClient
    BY <2>4 DEF DictCall
  <2> QED BY <2>1, <2>2, <2>3, <2>4 DEF DictCall
<1>5. \A s \in DOMAIN l : s # x /\ s \in DOMAIN lv
  BY DEF SameLive
<1>6. \A s \in DOMAIN l : s \in 2..n /\ (s \in Names(e) \/ StopWaits(w, s))
  BY <1>1, <1>2, <1>5
<1>7. b # NoClient => /\ b.s \in Names(e) /\ ~About(w, b.s)
                      /\ Removes(b) => b.s \notin DOMAIN l
                      /\ ~Removes(b) => Runs(b.s, l, e)
  BY <1>1, <1>2, <1>3, <1>5 DEF Answered
<1>8. ASSUME NEW s \in Names(e) PROVE About(w, s) \/ Answered(b, s) \/ Runs(s, l, e)
  BY <1>1, <1>2, <1>3 DEF Answered
<1> QED BY <1>1, <1>2, <1>4, <1>6, <1>7, <1>8 DEF Talk

\* the client is told of an answer that changes nothing in the dictionary
LEMMA TalkKept ==
  ASSUME NEW w, NEW lv, NEW d, NEW rs, NEW a, NEW n, Talk(w, lv, d, rs, a, n),
         a # NoClient, ~Removes(a)
  PROVE  Talk(w, lv, d, rs, NoClient, n)
BY DEF Talk, Answered

LEMMA TalkAdd ==
  ASSUME NEW w, NEW lv, NEW d, NEW rs, NEW a, NEW n, Talk(w, lv, d, rs, a, n),
         NEW m, m.op = "add", m.req = NoClient, m.s = 0
  PROVE  Talk(Append(w, m), lv, d, rs, a, n)
<1>1. /\ n \in Nat /\ DictOK(d, n)
      /\ \A k \in 1..Len(w) : DictCall(w[k], lv, d, n)
      /\ a # NoClient => a.s \in Names(d)
      /\ \A s \in DOMAIN lv : s \in 2..n
  BY DEF Talk
<1>2. /\ 0 \notin 2..n /\ 0 \notin Names(d) /\ 0 \notin DOMAIN lv /\ 0 \in Nat
      /\ \A s \in Names(d) : s \in 2..n
  BY <1>1 DEF DictOK
<1>3. ~About(w, 0)
  <2> SUFFICES ASSUME NEW k \in 1..Len(w), w[k].req # NoClient, w[k].s = 0 PROVE FALSE
    BY DEF About
  <2>1. Serves(w[k], lv, d)
    BY <1>1 DEF DictCall
  <2> QED BY <1>2, <2>1 DEF Serves
<1>4. ~Answered(a, 0)
  BY <1>1, <1>2 DEF Answered
<1>5. SameBut(d, d, 0)
  BY DEF SameBut
<1>6. DictCall(m, lv, d, n)
  BY DEF DictCall
<1>7. n >= n
  BY <1>1
<1>8. PICK rq : rq = IF m.req # NoClient THEN Append(rs, m.req) ELSE rs
  OBVIOUS
<1>9. rq = rs
  BY <1>8
<1>10. Talk(Append(w, m), lv, d, rq, a, n)
  BY <1>1, <1>2, <1>3, <1>4, <1>5, <1>6, <1>7, <1>8, TalkPost
<1> QED BY <1>9, <1>10

\* a session without a call or an answer under way runs
LEMMA TalkRuns ==
  ASSUME NEW w, NEW lv, NEW d, NEW rs, NEW a, NEW n, Talk(w, lv, d, rs, a, n),
         NEW id, HasId(d, id), NEW s, s = d.fwd[id], ~About(w, s), ~Answered(a, s)
  PROVE  /\ s \in Names(d) /\ s \in 2..n /\ s \in Nat /\ Runs(s, lv, d)
         /\ ExtById(d, id) = d.ext[s] /\ EntryOf(d.ext[s], s)
         /\ RmById(d, id) = RmBySession(d, s)
<1>1. /\ n \in Nat /\ DictOK(d, n)
      /\ \A t \in Names(d) : About(w, t) \/ Answered(a, t) \/ Runs(t, lv, d)
  BY DEF Talk
<1>2. /\ s \in Names(d) /\ ExtById(d, id) = d.ext[s]
      /\ EntryOf(d.ext[s], s)
      /\ RmById(d, id) = RmBySession(d, s)
  BY <1>1, DictForget
<1>3. s \in 2..n /\ s \in Nat
  BY <1>1, <1>2 DEF DictOK
<1> QED BY <1>1, <1>2, <1>3

\* a new session: x is its entry of the dictionary
LEMMA TalkStart ==
  ASSUME NEW w, NEW lv, NEW d, NEW rs, NEW a, NEW n, Talk(w, lv, d, rs, a, n),
         NEW id, ~HasId(d, id), NEW s, s = n + 1, NEW x, EntryOf(x, s),
         NEW op \in {"start", "update"}, NEW m, m = Msg("start", s, x.mode, Req(op, s))
  PROVE  Talk(Append(w, m), lv, DictSet(d, id, s, x), Append(rs, Req(op, s)), a, n + 1)
<1>1. /\ n \in Nat \ {0} /\ DictOK(d, n)
      /\ \A k \in 1..Len(w) : DictCall(w[k], lv, d, n)
      /\ a # NoClient => a.s \in Names(d)
      /\ \A t \in DOMAIN lv : t \in 2..n
  BY DEF Talk
<1>2. /\ s \in Nat /\ s \in 2..s /\ s >= n /\ s \notin 2..n /\ s \notin DOMAIN lv /\ n \in Nat
      /\ s \notin Names(d)
  BY <1>1 DEF DictOK
<1>3. ~About(w, s)
  <2> SUFFICES ASSUME NEW k \in 1..Len(w), w[k].req # NoClient, w[k].s = s PROVE FALSE
    BY DEF About
  <2>1. Serves(w[k], lv, d)
    BY <1>1 DEF DictCall
  <2> QED BY <1>2, <2>1 DEF Serves
<1>4. ~Answered(a, s)
  BY <1>1, <1>2 DEF Answered
<1>5. PICK e : e = DictSet(d, id, s, x)
  OBVIOUS
<1>6. DictOK(e, s) /\ Names(e) = Names(d) \union {s} /\ SameBut(d, e, s) /\ ModeOf(e, s) = x.mode
  BY <1>1, <1>2, <1>5, DictAdd
<1>7. m.op = "start" /\ m.s = s /\ m.mode = x.mode /\ m.req = Req(op, s)
  BY DEF Msg
<1>8. m.req # NoClient
  <2>1. op \in {"start", "stop", "update", "get", "ni"}
    OBVIOUS
  <2> QED BY <1>2, <1>7, <2>1, RequestsAre
<1>9. DictCall(m, lv, e, s)
  <2>1. Serves(m, lv, e)
    BY <1>2, <1>6, <1>7 DEF Serves
  <2> QED BY <2>1 DEF DictCall
<1>10. PICK rq : rq = IF m.req # NoClient THEN Append(rs, m.req) ELSE rs
  OBVIOUS
<1>11. rq = Append(rs, Req(op, s))
  BY <1>7, <1>8, <1>10
<1>12. /\ SameBut(d, e, m.s) /\ m.s \in Nat /\ ~About(w, m.s) /\ ~Answered(a, m.s)
       /\ m.s \notin 2..n /\ m.s \notin DOMAIN lv
  BY <1>2, <1>3, <1>4, <1>6, <1>7
<1>13. Talk(Append(w, m), lv, e, rq, a, s)
  BY <1>2, <1>6, <1>8, <1>9, <1>10, <1>12, TalkPost
<1> QED BY <1>5, <1>11, <1>13

\* a call about a session that runs, with a request; y is its entry from now on
LEMMA TalkAsk ==
  ASSUME NEW w, NEW lv, NEW d, NEW rs, NEW a, NEW n, Talk(w, lv, d, rs, a, n),
         NEW s \in Names(d), ~About(w, s), ~Answered(a, s), Runs(s, lv, d),
         NEW e, DictOK(e, n), SameBut(d, e, s), s \in Names(e),
         NEW m, m.s = s, m.req = Req(m.op, s),
         \/ m.op = "update" /\ m.mode = ModeOf(e, s)
         \/ m.op \in {"stop", "get"} /\ ModeOf(e, s) = ModeOf(d, s)
  PROVE  Talk(Append(w, m), lv, e, Append(rs, Req(m.op, s)), a, n)
<1>1. n \in Nat \ {0} /\ DictOK(d, n)
  BY DEF Talk
<1>2. n \in Nat /\ n >= n /\ s \in Nat
  BY <1>1 DEF DictOK
<1>3. m.req # NoClient
  BY <1>2, RequestsAre
<1>4. Serves(m, lv, e)
  BY DEF Serves, Runs
<1>5. DictCall(m, lv, e, n)
  BY <1>4 DEF DictCall
<1>6. PICK rq : rq = IF m.req # NoClient THEN Append(rs, m.req) ELSE rs
  OBVIOUS
<1>7. rq = Append(rs, Req(m.op, s))
  BY <1>3, <1>6
<1>8. Talk(Append(w, m), lv, e, rq, a, n)
  BY <1>2, <1>3, <1>5, <1>6, TalkPost
<1> QED BY <1>7, <1>8

\* a change of mode takes a session that runs out of the dictionary and stops it
LEMMA TalkDrop ==
  ASSUME NEW w, NEW lv, NEW d, NEW rs, NEW a, NEW n, Talk(w, lv, d, rs, a, n),
         NEW s \in Names(d), ~About(w, s), ~Answered(a, s),
         NEW m, m.op = "stop", m.s = s, m.req = NoClient
  PROVE  Talk(Append(w, m), lv, RmBySession(d, s), rs, a, n)
<1>1. n \in Nat \ {0} /\ DictOK(d, n)
  BY DEF Talk
<1>2. n \in Nat /\ n >= n /\ s \in Nat /\ s \in 2..n
  BY <1>1 DEF DictOK
<1>3. PICK e : e = RmBySession(d, s)
  OBVIOUS
<1>4. DictOK(e, n) /\ Names(e) = Names(d) \ {s} /\ SameBut(d, e, s)
  BY <1>1, <1>3, DictRemove
<1>5. DictCall(m, lv, e, n)
  BY <1>2, <1>4 DEF DictCall
<1>6. PICK rq : rq = IF m.req # NoClient THEN Append(rs, m.req) ELSE rs
  OBVIOUS
<1>7. rq = rs
  BY <1>6
<1>8. s \notin Names(e)
  BY <1>4
<1>9. Talk(Append(w, m), lv, e, rq, a, n)
  BY <1>2, <1>4, <1>5, <1>6, <1>8, TalkPost
<1> QED BY <1>3, <1>7, <1>9

LEMMA TalkNothing == Talk(<<>>, <<>>, EmptyDict, <<>>, NoClient, 1)
<1>1. Sequence(<<>>) /\ Len(<<>>) = 0
  BY EmptySeq DEF Sequence
<1>2. \A k : k \notin 1..Len(<<>>)
  BY <1>1
<1>3. Match(<<>>, <<>>, Nat)
  BY <1>1, <1>2, MatchNothing
<1>4. DictOK(EmptyDict, 1) /\ Names(EmptyDict) = {}
  BY DEF DictOK, EmptyDict, Names
<1>5. DOMAIN <<>> = {}
  OBVIOUS
<1>6. 1 \in Nat \ {0}
  OBVIOUS
<1> QED BY <1>1, <1>2, <1>3, <1>4, <1>5, <1>6 DEF Talk
-----------------------------------------------------------------------------
(* The client of a dictionary talks to one interface: flp, or gnss when flp   *)
(* could not be loaded.  The other one is told to stop and to update what it  *)
(* does not run.                                                              *)
Talker == IF Loaded("flp") THEN "flp" ELSE "gnss"
Silent == IF Loaded("flp") THEN "gnss" ELSE "flp"
IdleWork(w) == \A k \in 1..Len(w) : w[k].op \in {"add", "stop", "update"}

SessionAsked ==
  /\ queues["tracking"].s = 0 /\ queues["ni"].s = 0
  /\ IF cbs = NoClient
     THEN \A i \in Interfaces : work[i] = <<>> /\ live[i] = <<>> /\ answer[i] = NoClient
     ELSE loaded["flp"] # "no" /\ ~NeedsGnssTrackingInfo(cbs)
  /\ live[Silent] = <<>> /\ answer[Silent] = NoClient /\ IdleWork(work[Silent])
  /\ Talk(work[Talker], live[Talker], dict, queues["session"].reqs, answer[Talker], lastId)
  /\ Names(dict) # {} => Loaded(Talker)
  /\ ~Loaded("flp") => \A s \in Names(dict) : OnFix(ModeOf(dict, s))

\* what every client keeps, whatever it calls
Alive == cbs # NoClient \/ calls < setup.calls
ClientOK ==
  /\ ApiOK /\ QueuesOK
  /\ answer = [i \in Interfaces |-> answer[i]]
  /\ calls \in Nat /\ calls <= setup.calls

LEMMA IdlePost ==
  ASSUME NEW w, Sequence(w), IdleWork(w), NEW m, m.op \in {"add", "stop", "update"}
  PROVE  IdleWork(Append(w, m))
<1>1. /\ Len(w) \in Nat /\ Len(Append(w, m)) = Len(w) + 1 /\ Append(w, m)[Len(w) + 1] = m
      /\ \A k \in 1..Len(w) : Append(w, m)[k] = w[k]
  BY Grown
<1>2. PICK v : v = Append(w, m)
  OBVIOUS
<1>3. \A k \in 1..Len(v) : k \in 1..Len(w) \/ v[k] = m
  BY <1>1, <1>2
<1>4. IdleWork(v)
  BY <1>1, <1>2, <1>3 DEF IdleWork
<1> QED BY <1>2, <1>4

LEMMA IdleServe ==
  ASSUME NEW w, Sequence(w), IdleWork(w), w # <<>>
  PROVE  IdleWork(Tail(w)) /\ w[1].op \in {"add", "stop", "update"}
<1>1. PICK v : v = Tail(w)
  OBVIOUS
<1>2. /\ Len(w) \in Nat \ {0} /\ Len(v) = Len(w) - 1 /\ 1 \in 1..Len(w)
      /\ \A k \in 1..Len(v) : v[k] = w[k + 1] /\ k + 1 \in 1..Len(w)
  BY <1>1, Shrunk
<1>3. IdleWork(v) /\ w[1].op \in {"add", "stop", "update"}
  BY <1>2 DEF IdleWork
<1> QED BY <1>1, <1>3

\* the one interface is the other's other
LEMMA TwoInterfaces ==
  /\ Talker \in Interfaces /\ Silent \in Interfaces /\ Talker # Silent
  /\ \A i \in Interfaces : i = Talker \/ i = Silent
  /\ Loaded("flp") => Talker = "flp" /\ Silent = "gnss"
  /\ ~Loaded("flp") => Talker = "gnss" /\ Silent = "flp"
BY DEF Talker, Silent, Interfaces

\* the queue of the sessions, with its requests changed
LEMMA SessionQueue ==
  ASSUME QueuesOK, NEW rs, queues' = [queues EXCEPT !["session"].reqs = rs]
  PROVE  /\ QueuesOK' /\ queues'["session"].reqs = rs
         /\ \A q \in ClientQueues : queues'[q].s = queues[q].s
<1>1. "session" \in ClientQueues
  BY DEF ClientQueues
<1>2. QueuesOK' /\ \A q \in ClientQueues : queues'[q].s = queues[q].s
  BY <1>1, PushedQueue
<1>3. queues'["session"] = [queues["session"] EXCEPT !.reqs = rs]
  BY <1>1 DEF QueuesOK
<1>4. queues["session"] = [s |-> queues["session"].s, reqs |-> queues["session"].reqs]
  BY <1>1 DEF QueuesOK
<1>5. queues'["session"].reqs = rs
  BY <1>3, <1>4
<1> QED BY <1>2, <1>5

\* what a call about the sessions must see to
LEMMA SessionCalls ==
  ASSUME SessionAsked, cbs # NoClient,
         UNCHANGED <<loaded, cbs, live, answer>>,
         queues'["tracking"].s = 0, queues'["ni"].s = 0, IdleWork(work'[Silent]),
         Talk(work'[Talker], live[Talker], dict', queues'["session"].reqs, answer[Talker], lastId'),
         Names(dict') # {} => Loaded(Talker),
         ~Loaded("flp") => \A s \in Names(dict') : OnFix(ModeOf(dict', s))
  PROVE  SessionAsked'
BY DEF SessionAsked, Talker, Silent, Loaded

\* a call for these interfaces, and whoever talks among them
LEMMA SessionPosts ==
  ASSUME ApiOK, SessionAsked, NEW is, Talker \in is, NEW m, work' = PostAll(is, m),
         m.op \in {"stop", "update"} \/ Silent \notin is
  PROVE  work'[Talker] = Append(work[Talker], m) /\ IdleWork(work'[Silent])
<1>1. /\ work'[Talker] = Append(work[Talker], m)
      /\ work'[Silent] = IF Silent \in is THEN Append(work[Silent], m) ELSE work[Silent]
  BY TwoInterfaces DEF PostAll
<1>2. Sequence(work[Silent]) /\ IdleWork(work[Silent])
  BY TwoInterfaces DEF ApiOK, SessionAsked
<1> QED BY <1>1, <1>2, IdlePost

LEMMA SessionPost ==
  ASSUME ApiOK, SessionAsked, NEW m, work' = Post(Talker, m)
  PROVE  work'[Talker] = Append(work[Talker], m) /\ IdleWork(work'[Silent])
<1>1. work = [i \in Interfaces |-> work[i]] /\ IdleWork(work[Silent])
  BY DEF ApiOK, SessionAsked
<1>2. work'[Talker] = Append(work[Talker], m) /\ work'[Silent] = work[Silent]
  BY <1>1, TwoInterfaces DEF Post
<1> QED BY <1>1, <1>2

\* who is asked to start a session
LEMMA SessionStarter ==
  ASSUME SessionAsked, cbs # NoClient, NEW mode, Starter(mode) # NoClient
  PROVE  Starter(mode) = Talker /\ Loaded(Talker) /\ (~Loaded("flp") => OnFix(mode))
BY DEF SessionAsked, Tracker, Batcher, Talker, Starter

LEMMA NotUnderWay ==
  ASSUME ApiOK, NEW s, ~UnderWay(s), NEW i \in Interfaces
  PROVE  ~About(work[i], s) /\ ~Answered(answer[i], s)
<1>1. DOMAIN work[i] = 1..Len(work[i])
  BY SequenceLen DEF ApiOK
<1> QED BY <1>1 DEF UnderWay, About, Answered
LEMMA StartSessionAsks ==
  ASSUME ClientOK, SessionAsked, NEW id, NEW mode, locAPIStartSession(id, mode), ~astray'
  PROVE  SessionAsked'
<1>1. /\ ApiOK /\ QueuesOK /\ cbs # NoClient
      /\ UNCHANGED <<setup, loaded, cbs, live, answer>>
      /\ queues["tracking"].s = 0 /\ queues["ni"].s = 0
  BY DEF ClientOK, SessionAsked, locAPIStartSession, Call, CallFrame
<1>2. CASE HasId(dict, id)
  <2>1. UNCHANGED <<queues, dict, lastId, work>>
    BY <1>2 DEF locAPIStartSession
  <2> QED BY <1>1, <2>1 DEF SessionAsked, Talker, Silent, Loaded
<1>3. CASE ~HasId(dict, id)
  <2>1. PICK i : i = Starter(mode)
    OBVIOUS
  <2>2. PICK s : s = NewSession(i)
    OBVIOUS
  <2>3. PICK x : x = EntityOf(mode, s)
    OBVIOUS
  <2>4. /\ Start(i, mode, "start") /\ queues' = Pushed("session", Req("start", s))
        /\ dict' = DictSet(dict, id, s, x) /\ MayStray(s)
    BY <1>3, <2>1, <2>2, <2>3 DEF locAPIStartSession
  <2>5. i # NoClient
    BY <2>2, <2>4 DEF MayStray, NewSession
  <2>6. i = Talker /\ Loaded(Talker) /\ (~Loaded("flp") => OnFix(mode))
    BY <1>1, <2>1, <2>5, SessionStarter
  <2>7. s = lastId + 1 /\ lastId' = lastId + 1
        /\ work' = Post(i, Msg("start", s, mode, Req("start", s)))
    BY <2>2, <2>4, <2>5 DEF Start, NewSession
  <2>8. EntryOf(x, s) /\ x.mode = mode
    BY <2>3 DEF EntityOf, EntryOf, Entity
  <2>9. queues' = [queues EXCEPT !["session"].reqs = Append(queues["session"].reqs, Req("start", s))]
    BY <2>4 DEF Pushed
  <2>10. /\ queues'["session"].reqs = Append(queues["session"].reqs, Req("start", s))
         /\ \A q \in ClientQueues : queues'[q].s = queues[q].s
    BY <1>1, <2>9, SessionQueue
  <2>11. PICK m : m = Msg("start", s, x.mode, Req("start", s))
    OBVIOUS
  <2>12. work'[Talker] = Append(work[Talker], m) /\ IdleWork(work'[Silent])
    BY <1>1, <2>6, <2>7, <2>8, <2>11, SessionPost
  <2>13. Talk(work[Talker], live[Talker], dict, queues["session"].reqs, answer[Talker], lastId)
    BY DEF SessionAsked
  <2>14. Talk(work'[Talker], live[Talker], dict', queues'["session"].reqs, answer[Talker], lastId')
    BY <1>3, <2>4, <2>7, <2>8, <2>10, <2>11, <2>12, <2>13, TalkStart, ZenonT(40)
  <2>15. DictOK(dict, lastId) /\ lastId \in Nat /\ s \in 2..s /\ s >= lastId /\ s \notin Names(dict) /\ s \in Nat
    BY <2>7, <2>13 DEF Talk, DictOK
  <2>16. Names(dict') = Names(dict) \union {s} /\ SameBut(dict, dict', s) /\ ModeOf(dict', s) = mode
    BY <1>3, <2>4, <2>8, <2>15, DictAdd
  <2>17. ~Loaded("flp") => \A t \in Names(dict') : OnFix(ModeOf(dict', t))
    BY <2>6, <2>16 DEF SessionAsked, SameBut
  <2>18. queues'["tracking"].s = 0 /\ queues'["ni"].s = 0
    BY <1>1, <2>10 DEF ClientQueues
  <2> QED BY <1>1, <2>6, <2>12, <2>14, <2>17, <2>18, SessionCalls
<1> QED BY <1>2, <1>3

\* a session of the dictionary with nothing under way
LEMMA SessionFree ==
  ASSUME ClientOK, SessionAsked, NEW id, HasId(dict, id), NEW s, s = dict.fwd[id], ~UnderWay(s)
  PROVE  /\ s \in Names(dict) /\ s \in Nat \ {0} /\ Loaded(Talker)
         /\ ~About(work[Talker], s) /\ ~Answered(answer[Talker], s)
         /\ Runs(s, live[Talker], dict)
         /\ ExtById(dict, id) = dict.ext[s] /\ EntryOf(dict.ext[s], s)
         /\ RmById(dict, id) = RmBySession(dict, s)
         /\ ~OnFix(dict.ext[s].mode) => Loaded("flp")
<1>1. ~About(work[Talker], s) /\ ~Answered(answer[Talker], s)
  BY TwoInterfaces, NotUnderWay DEF ClientOK
<1>2. Talk(work[Talker], live[Talker], dict, queues["session"].reqs, answer[Talker], lastId)
  BY DEF SessionAsked
<1>3. /\ s \in Names(dict) /\ s \in 2..lastId /\ s \in Nat /\ Runs(s, live[Talker], dict)
      /\ ExtById(dict, id) = dict.ext[s] /\ EntryOf(dict.ext[s], s)
      /\ RmById(dict, id) = RmBySession(dict, s)
  BY <1>1, <1>2, TalkRuns
<1>4. lastId \in Nat
  BY <1>2 DEF Talk
<1>5. s \in Nat \ {0}
  BY <1>3, <1>4
<1>6. Loaded(Talker) /\ (~OnFix(dict.ext[s].mode) => Loaded("flp"))
  BY <1>3 DEF SessionAsked, ModeOf
<1> QED BY <1>1, <1>3, <1>5, <1>6

\* what the dictionary leads from an id to
LEMMA SessionEntry ==
  ASSUME SessionAsked, NEW id, HasId(dict, id), NEW e, e = ExtById(dict, id)
  PROVE  EntryOf(e, dict.fwd[id]) /\ dict.fwd[id] # 0
<1>1. DictOK(dict, lastId) /\ lastId \in Nat
  BY DEF SessionAsked, Talk
<1>2. /\ dict.fwd[id] \in Names(dict) /\ ExtById(dict, id) = dict.ext[dict.fwd[id]]
      /\ EntryOf(dict.ext[dict.fwd[id]], dict.fwd[id])
  BY <1>1, DictForget
<1>3. dict.fwd[id] \in 2..lastId
  BY <1>1, <1>2 DEF DictOK
<1> QED BY <1>1, <1>2, <1>3

\* a call about a session that runs, which keeps its entry or changes its mode
LEMMA SessionAsks ==
  ASSUME ClientOK, SessionAsked, cbs # NoClient, UNCHANGED <<loaded, cbs, live, answer, lastId>>,
         NEW id, HasId(dict, id), NEW s, s = dict.fwd[id], ~UnderWay(s),
         NEW is, Talker \in is, NEW m, work' = PostAll(is, m),
         m.op \in {"stop", "update"} \/ Silent \notin is,
         queues' = Pushed("session", Req(m.op, s)), m.s = s, m.req = Req(m.op, s),
         \/ m.op \in {"stop", "get"} /\ dict' = dict
         \/ /\ m.op = "update" /\ (OnFix(m.mode) <=> OnFix(dict.ext[s].mode))
            /\ dict' = DictSet(RmById(dict, id), id, s, [dict.ext[s] EXCEPT !.mode = m.mode])
  PROVE  SessionAsked'
<1>1. ApiOK /\ QueuesOK /\ queues["tracking"].s = 0 /\ queues["ni"].s = 0
  BY DEF ClientOK, SessionAsked
<1>2. /\ s \in Names(dict) /\ Loaded(Talker)
      /\ ~About(work[Talker], s) /\ ~Answered(answer[Talker], s) /\ Runs(s, live[Talker], dict)
      /\ EntryOf(dict.ext[s], s) /\ RmById(dict, id) = RmBySession(dict, s)
      /\ ~OnFix(dict.ext[s].mode) => Loaded("flp")
  BY SessionFree
<1>3. work'[Talker] = Append(work[Talker], m) /\ IdleWork(work'[Silent])
  BY <1>1, SessionPosts
<1>4. queues' = [queues EXCEPT !["session"].reqs = Append(queues["session"].reqs, Req(m.op, s))]
  BY DEF Pushed
<1>5. /\ queues'["session"].reqs = Append(queues["session"].reqs, Req(m.op, s))
      /\ \A q \in ClientQueues : queues'[q].s = queues[q].s
  BY <1>1, <1>4, SessionQueue
<1>6. Talk(work[Talker], live[Talker], dict, queues["session"].reqs, answer[Talker], lastId)
  BY DEF SessionAsked
<1>7. DictOK(dict, lastId) /\ lastId \in Nat
  BY <1>6 DEF Talk
<1>8. /\ DictOK(dict', lastId) /\ SameBut(dict, dict', s) /\ Names(dict') = Names(dict)
      /\ \/ m.op = "update" /\ m.mode = ModeOf(dict', s)
         \/ m.op \in {"stop", "get"} /\ ModeOf(dict', s) = ModeOf(dict, s)
      /\ OnFix(ModeOf(dict', s)) <=> OnFix(ModeOf(dict, s))
  <2>1. CASE m.op \in {"stop", "get"} /\ dict' = dict
    BY <1>7, <2>1 DEF SameBut
  <2>2. CASE /\ m.op = "update" /\ (OnFix(m.mode) <=> OnFix(dict.ext[s].mode))
             /\ dict' = DictSet(RmById(dict, id), id, s, [dict.ext[s] EXCEPT !.mode = m.mode])
    <3>1. PICK y : y = dict.ext[s]
      OBVIOUS
    <3>2. PICK x : x = [y EXCEPT !.mode = m.mode]
      OBVIOUS
    <3>3. y = Entity(y.mode, y.t, y.b) /\ IF OnFix(y.mode) THEN y.t = s /\ y.b = 0 ELSE y.b = s
      BY <1>2, <3>1 DEF EntryOf
    <3>4. x = Entity(m.mode, y.t, y.b)
      BY <3>2, <3>3 DEF Entity
    <3>5. x.mode = m.mode /\ x.t = y.t /\ x.b = y.b
      BY <3>4 DEF Entity
    <3>6. EntryOf(x, s)
      <4>1. x = Entity(x.mode, x.t, x.b)
        BY <3>4, <3>5, SMTT(30)
      <4>2. CASE OnFix(x.mode)
        <5>1. OnFix(y.mode)
          BY <2>2, <3>1, <3>5, <4>2
        <5>2. x.t = s /\ x.b = 0
          BY <3>3, <3>5, <5>1
        <5> QED BY <4>1, <4>2, <5>2 DEF EntryOf
      <4>3. CASE ~OnFix(x.mode)
        <5>1. ~OnFix(y.mode)
          BY <2>2, <3>1, <3>5, <4>3
        <5>2. x.b = s
          BY <3>3, <3>5, <5>1
        <5> QED BY <4>1, <4>3, <5>2 DEF EntryOf
      <4> QED BY <4>2, <4>3
    <3>7. PICK c : c = RmBySession(dict, s)
      OBVIOUS
    <3>8. dict' = DictSet(c, id, s, x)
      BY <1>2, <2>2, <3>1, <3>2, <3>7
    <3>9. /\ DictOK(dict', lastId) /\ Names(dict') = Names(dict) /\ SameBut(dict, dict', s)
          /\ ModeOf(dict', s) = x.mode
      BY <1>7, <3>6, <3>7, <3>8, DictMode
    <3>10. m.mode = ModeOf(dict', s)
      BY <3>5, <3>9, Zenon
    <3>11. OnFix(ModeOf(dict', s)) <=> OnFix(ModeOf(dict, s))
      BY <2>2, <3>10, ZenonT(20) DEF ModeOf, OnFix
    <3> QED BY <2>2, <3>9, <3>10, <3>11
  <2> QED BY <2>1, <2>2
<1>9. Talk(work'[Talker], live[Talker], dict', queues'["session"].reqs, answer[Talker], lastId')
  <2>1. s \in Names(dict')
    BY <1>2, <1>8
  <2>2. Talk(Append(work[Talker], m), live[Talker], dict',
             Append(queues["session"].reqs, Req(m.op, s)), answer[Talker], lastId)
    BY <1>2, <1>6, <1>8, <2>1, TalkAsk
  <2> QED BY <1>3, <1>5, <2>2
<1>10. ~Loaded("flp") => \A t \in Names(dict') : OnFix(ModeOf(dict', t))
  BY <1>2, <1>8 DEF SessionAsked, SameBut
<1>11. queues'["tracking"].s = 0 /\ queues'["ni"].s = 0
  BY <1>1, <1>5 DEF ClientQueues
<1> QED BY <1>2, <1>3, <1>9, <1>10, <1>11, SessionCalls
\* calls without a session to be about
LEMMA SessionNoCall ==
  ASSUME SessionAsked, UNCHANGED <<loaded, cbs, live, answer, queues, dict, lastId, work>>
  PROVE  SessionAsked'
BY DEF SessionAsked, Talker, Silent, Loaded

LEMMA StopSessionAsks ==
  ASSUME ClientOK, SessionAsked, NEW id, locAPIStopSession(id), ~astray'
  PROVE  SessionAsked'
<1>1. cbs # NoClient /\ UNCHANGED <<loaded, cbs, live, answer, lastId, dict>>
  BY DEF locAPIStopSession, Call, CallFrame
<1>2. CASE ~HasId(dict, id)
  <2>1. UNCHANGED <<queues, work>>
    BY <1>2 DEF locAPIStopSession
  <2> QED BY <1>1, <2>1, SessionNoCall
<1>3. CASE HasId(dict, id)
  <2>1. PICK e : e = ExtById(dict, id)
    OBVIOUS
  <2>2. PICK s : s = Running(e)
    OBVIOUS
  <2>3. /\ queues' = Pushed("session", Req("stop", s))
        /\ IF OnFix(e.mode) THEN stopTracking(s, Req("stop", s))
           ELSE stopBatching(s, e.mode, Req("stop", s))
        /\ MayStray(s)
    BY <1>3, <2>1, <2>2 DEF locAPIStopSession, StopCall
  <2>4. s = dict.fwd[id]
    BY <1>3, <2>1, <2>2, SessionEntry DEF EntryOf, Running
  <2>5. ~UnderWay(s)
    BY <2>3 DEF MayStray
  <2>6. Loaded(Talker) /\ dict.ext[s] = e /\ (~OnFix(dict.ext[s].mode) => Loaded("flp"))
    BY <1>3, <2>1, <2>4, <2>5, SessionFree
  <2>7. PICK is : is = IF OnFix(e.mode) THEN Trackers ELSE {"flp"}
    OBVIOUS
  <2>8. PICK m : m = Msg("stop", s, IF OnFix(e.mode) THEN "fix" ELSE e.mode, Req("stop", s))
    OBVIOUS
  <2>9. m.op = "stop" /\ m.s = s /\ m.req = Req("stop", s)
    BY <2>8 DEF Msg
  <2>10. work' = PostAll(is, m) /\ Talker \in is
    <3>1. CASE OnFix(e.mode)
      <4>1. work' = PostAll(is, m)
        BY <2>3, <2>7, <2>8, <3>1 DEF stopTracking
      <4> QED BY <2>6, <2>7, <3>1, <4>1, TwoInterfaces DEF Trackers
    <3>2. CASE ~OnFix(e.mode)
      <4>1. work' = Post("flp", m)
        BY <2>3, <2>6, <2>8, <3>2 DEF stopBatching, CallOne
      <4>2. work = [i \in Interfaces |-> work[i]]
        BY DEF ClientOK, ApiOK
      <4>3. Post("flp", m) = PostAll({"flp"}, m)
        BY <4>2 DEF Post, PostAll
      <4> QED BY <2>6, <2>7, <3>2, <4>1, <4>3, TwoInterfaces
    <3> QED BY <3>1, <3>2
  <2> QED BY <1>1, <1>3, <2>3, <2>4, <2>5, <2>9, <2>10, SessionAsks
<1> QED BY <1>2, <1>3

LEMMA GetLocationsAsks ==
  ASSUME ClientOK, SessionAsked, NEW id, locAPIGetBatchedLocations(id), ~astray'
  PROVE  SessionAsked'
<1>1. cbs # NoClient /\ UNCHANGED <<loaded, cbs, live, answer, lastId, dict>>
  BY DEF locAPIGetBatchedLocations, Call, CallFrame
<1>2. CASE ~HasId(dict, id)
  <2>1. UNCHANGED <<queues, work>>
    BY <1>2 DEF locAPIGetBatchedLocations
  <2> QED BY <1>1, <2>1, SessionNoCall
<1>3. CASE HasId(dict, id)
  <2>1. PICK e : e = ExtById(dict, id)
    OBVIOUS
  <2>2. PICK s : s = e.b
    OBVIOUS
  <2>3. /\ queues' = Pushed("session", Req("get", s))
        /\ getBatchedLocations(s, Req("get", s)) /\ MayStray(s)
    BY <1>3, <2>1, <2>2 DEF locAPIGetBatchedLocations, GetCall
  <2>4. s = dict.fwd[id] /\ ~OnFix(e.mode)
    BY <1>3, <2>1, <2>2, <2>3, SessionEntry DEF EntryOf, MayStray
  <2>5. ~UnderWay(s)
    BY <2>3 DEF MayStray
  <2>6. Loaded("flp")
    BY <1>3, <2>1, <2>4, <2>5, SessionFree
  <2>7. PICK m : m = Msg("get", s, "full", Req("get", s))
    OBVIOUS
  <2>8. m.op = "get" /\ m.s = s /\ m.req = Req("get", s)
    BY <2>7 DEF Msg
  <2>9. work' = Post("flp", m)
    BY <2>3, <2>6, <2>7 DEF getBatchedLocations, CallOne
  <2>10. work = [i \in Interfaces |-> work[i]]
    BY DEF ClientOK, ApiOK
  <2>11. work' = PostAll({"flp"}, m)
    BY <2>9, <2>10 DEF Post, PostAll
  <2>12. Talker \in {"flp"} /\ Silent \notin {"flp"}
    BY <2>6, TwoInterfaces
  <2> QED BY <1>1, <1>3, <2>3, <2>4, <2>5, <2>8, <2>11, <2>12, SessionAsks
<1> QED BY <1>2, <1>3

LEMMA UpdateAsks ==
  ASSUME ClientOK, SessionAsked, cbs # NoClient, UNCHANGED <<loaded, cbs, live, answer>>,
         NEW id, HasId(dict, id), NEW e, e = ExtById(dict, id), NEW mode,
         OnFix(e.mode) <=> OnFix(mode), Update(id, e, mode), ~astray'
  PROVE  SessionAsked'
<1>1. PICK s : s = IF OnFix(mode) THEN e.t ELSE e.b
  OBVIOUS
<1>2. /\ queues' = Pushed("session", Req("update", s))
      /\ IF OnFix(mode) THEN updateTrackingOptions(s, Req("update", s))
         ELSE updateBatchingOptions(s, mode, Req("update", s))
      /\ dict' = DictSet(RmById(dict, id), id, s, [e EXCEPT !.mode = mode])
      /\ MayStray(s) /\ lastId' = lastId
  BY <1>1 DEF Update, UpdateCall, Updated
<1>3. s = dict.fwd[id]
  BY <1>1, SessionEntry DEF EntryOf
<1>4. ~UnderWay(s)
  BY <1>2 DEF MayStray
<1>5. Loaded(Talker) /\ dict.ext[s] = e /\ (~OnFix(dict.ext[s].mode) => Loaded("flp"))
  BY <1>3, <1>4, SessionFree
<1>6. PICK is : is = IF OnFix(mode) THEN Trackers ELSE {"flp"}
  OBVIOUS
<1>7. PICK m : m = Msg("update", s, mode, Req("update", s))
  OBVIOUS
<1>8. m.op = "update" /\ m.s = s /\ m.req = Req("update", s) /\ m.mode = mode
  BY <1>7 DEF Msg
<1>9. work' = PostAll(is, m) /\ Talker \in is
  <2>1. CASE OnFix(mode)
    <3>1. mode = "fix"
      BY <2>1 DEF OnFix
    <3>2. work' = PostAll(is, m)
      BY <1>2, <1>6, <1>7, <2>1, <3>1 DEF updateTrackingOptions
    <3> QED BY <1>5, <1>6, <2>1, <3>2, TwoInterfaces DEF Trackers
  <2>2. CASE ~OnFix(mode)
    <3>1. work' = Post("flp", m)
      BY <1>2, <1>5, <1>7, <2>2 DEF updateBatchingOptions, CallOne
    <3>2. work = [i \in Interfaces |-> work[i]]
      BY DEF ClientOK, ApiOK
    <3>3. Post("flp", m) = PostAll({"flp"}, m)
      BY <3>2 DEF Post, PostAll
    <3> QED BY <1>5, <1>6, <2>2, <3>1, <3>3, TwoInterfaces
  <2> QED BY <2>1, <2>2
<1>10. dict' = DictSet(RmById(dict, id), id, s, [dict.ext[s] EXCEPT !.mode = m.mode])
  BY <1>2, <1>5, <1>8
<1>11. OnFix(m.mode) <=> OnFix(dict.ext[s].mode)
  BY <1>5, <1>8
<1> QED BY <1>2, <1>3, <1>4, <1>8, <1>9, <1>10, <1>11, SessionAsks
LEMMA ChangeAsks ==
  ASSUME ClientOK, SessionAsked, cbs # NoClient, UNCHANGED <<loaded, cbs, live, answer>>,
         NEW id, HasId(dict, id), NEW e, e = ExtById(dict, id), NEW mode,
         Change(id, e, mode), ~astray'
  PROVE  SessionAsked'
<1>1. /\ ApiOK /\ QueuesOK /\ queues["tracking"].s = 0 /\ queues["ni"].s = 0
  BY DEF ClientOK, SessionAsked
<1>2. PICK old : old = Running(e)
  OBVIOUS
<1>3. PICK i : i = Starter(mode)
  OBVIOUS
<1>4. PICK s : s = NewSession(i)
  OBVIOUS
<1>5. PICK stop : stop = Msg("stop", old, e.mode, NoClient)
  OBVIOUS
<1>6. PICK to : to = IF OnFix(e.mode) THEN Trackers ELSE {b \in {"flp"} : Loaded(b)}
  OBVIOUS
<1>7. PICK p : p = PostAll(to, stop)
  OBVIOUS
<1>8. PICK x : x = EntityOf(mode, s)
  OBVIOUS
<1>9. /\ queues' = Pushed("session", Req("update", s))
      /\ lastId' = lastId + (IF i = NoClient THEN 0 ELSE 1)
      /\ work' = IF i = NoClient THEN p
                 ELSE [p EXCEPT ![i] = Append(p[i], Msg("start", s, mode, Req("update", s)))]
      /\ dict' = DictSet(RmById(dict, id), id, s, x)
      /\ s # 0 /\ ~UnderWay(old)
  BY <1>2, <1>3, <1>4, <1>5, <1>6, <1>7, <1>8 DEF Change, ChangeCall, Changed
<1>10. i # NoClient
  BY <1>4, <1>9 DEF NewSession
<1>11. i = Talker /\ Loaded(Talker) /\ (~Loaded("flp") => OnFix(mode))
  BY <1>3, <1>10, SessionStarter
<1>12. old = dict.fwd[id]
  BY <1>2, SessionEntry DEF EntryOf, Running
<1>13. /\ old \in Names(dict) /\ old \in Nat \ {0} /\ dict.ext[old] = e
       /\ ~About(work[Talker], old) /\ ~Answered(answer[Talker], old)
       /\ RmById(dict, id) = RmBySession(dict, old)
       /\ ~OnFix(dict.ext[old].mode) => Loaded("flp")
  BY <1>9, <1>12, SessionFree
<1>14. Talker \in to
  BY <1>6, <1>11, <1>13, TwoInterfaces DEF Trackers
<1>15. stop.op = "stop" /\ stop.s = old /\ stop.req = NoClient
  BY <1>5 DEF Msg
<1>16. PICK m : m = Msg("start", s, x.mode, Req("update", s))
  OBVIOUS
<1>17. x.mode = mode /\ EntryOf(x, s)
  BY <1>8 DEF EntityOf, EntryOf, Entity
<1>18. s = lastId + 1 /\ lastId' = lastId + 1
  BY <1>4, <1>9, <1>10 DEF NewSession
<1>19. /\ work'[Talker] = Append(Append(work[Talker], stop), m)
       /\ work'[Silent] = work[Silent] \/ work'[Silent] = Append(work[Silent], stop)
  <2>1. /\ p = [j \in Interfaces |-> p[j]] /\ p[Talker] = Append(work[Talker], stop)
        /\ p[Silent] = work[Silent] \/ p[Silent] = Append(work[Silent], stop)
    BY <1>7, <1>14, TwoInterfaces DEF PostAll
  <2>2. work' = [p EXCEPT ![Talker] = Append(p[Talker], m)]
    BY <1>9, <1>10, <1>11, <1>16, <1>17
  <2>3. work'[Talker] = Append(p[Talker], m) /\ work'[Silent] = p[Silent]
    BY <2>1, <2>2, TwoInterfaces
  <2> QED BY <2>1, <2>3
<1>20. IdleWork(work'[Silent])
  <2>1. Sequence(work[Silent]) /\ IdleWork(work[Silent])
    BY <1>1, TwoInterfaces DEF ApiOK, SessionAsked
  <2>2. IdleWork(Append(work[Silent], stop))
    BY <1>15, <2>1, IdlePost
  <2> QED BY <1>19, <2>1, <2>2
<1>21. queues' = [queues EXCEPT !["session"].reqs = Append(queues["session"].reqs, Req("update", s))]
  BY <1>9 DEF Pushed
<1>22. /\ queues'["session"].reqs = Append(queues["session"].reqs, Req("update", s))
       /\ \A q \in ClientQueues : queues'[q].s = queues[q].s
  BY <1>1, <1>21, SessionQueue
<1>23. Talk(work[Talker], live[Talker], dict, queues["session"].reqs, answer[Talker], lastId)
  BY DEF SessionAsked
<1>24. PICK d : d = RmBySession(dict, old)
  OBVIOUS
<1>25. Talk(Append(work[Talker], stop), live[Talker], d, queues["session"].reqs, answer[Talker], lastId)
  BY <1>13, <1>15, <1>23, <1>24, TalkDrop
<1>26. DictOK(dict, lastId) /\ lastId \in Nat
  BY <1>23 DEF Talk
<1>27. /\ ~HasId(d, id) /\ DictOK(d, lastId) /\ Names(d) = Names(dict) \ {old}
       /\ SameBut(dict, d, old)
  <2>1. EntryOf(e, old)
    BY <1>12, SessionEntry
  <2>2. ~HasId(d, id)
    BY <1>12, <1>24, <1>26, <2>1, DictMode
  <2> QED BY <1>13, <1>24, <1>26, <2>2, DictRemove
<1>28. dict' = DictSet(d, id, s, x)
  BY <1>9, <1>13, <1>24
<1>29. Talk(work'[Talker], live[Talker], dict', queues'["session"].reqs, answer[Talker], lastId')
  <2>1. "update" \in {"start", "update"}
    OBVIOUS
  <2>2. Talk(Append(Append(work[Talker], stop), m), live[Talker], DictSet(d, id, s, x),
             Append(queues["session"].reqs, Req("update", s)), answer[Talker], lastId + 1)
    BY <1>16, <1>17, <1>18, <1>25, <1>27, <2>1, TalkStart
  <2> QED BY <1>18, <1>19, <1>22, <1>28, <2>2
<1>30. s \in 2..s /\ s >= lastId /\ s \in Nat /\ s \notin Names(d)
  BY <1>18, <1>23, <1>27 DEF Talk, DictOK
<1>31. Names(dict') = Names(d) \union {s} /\ SameBut(d, dict', s) /\ ModeOf(dict', s) = mode
  BY <1>17, <1>26, <1>27, <1>28, <1>30, DictAdd
<1>32. ~Loaded("flp") => \A t \in Names(dict') : OnFix(ModeOf(dict', t))
  BY <1>11, <1>27, <1>31 DEF SessionAsked, SameBut
<1>33. queues'["tracking"].s = 0 /\ queues'["ni"].s = 0
  BY <1>1, <1>22 DEF ClientQueues
<1> QED BY <1>11, <1>20, <1>29, <1>32, <1>33, SessionCalls

LEMMA SessionCallAsks ==
  ASSUME ClientOK, SessionAsked, SessionCall, ~astray'
  PROVE  SessionAsked'
<1>1. ASSUME NEW id, NEW mode, locAPIUpdateSessionOptions(id, mode) PROVE SessionAsked'
  <2>1. cbs # NoClient /\ UNCHANGED <<loaded, cbs, live, answer>>
    BY <1>1 DEF locAPIUpdateSessionOptions, Call, CallFrame
  <2>2. CASE ~HasId(dict, id)
    <3>1. UNCHANGED <<queues, dict, lastId, work>>
      BY <1>1, <2>2 DEF locAPIUpdateSessionOptions
    <3> QED BY <2>1, <3>1, SessionNoCall
  <2>3. CASE HasId(dict, id)
    <3>1. PICK e : e = ExtById(dict, id)
      OBVIOUS
    <3>2. ((OnFix(e.mode) <=> OnFix(mode)) /\ Update(id, e, mode)) \/ Change(id, e, mode)
      BY <1>1, <2>3, <3>1 DEF locAPIUpdateSessionOptions, OnFix
    <3> QED BY <2>1, <2>3, <3>1, <3>2, UpdateAsks, ChangeAsks
  <2> QED BY <2>2, <2>3
<1> QED BY <1>1, StartSessionAsks, StopSessionAsks, GetLocationsAsks DEF SessionCall

\* the callbacks are set: the library of flp is looked for the first time
LEMMA CallbacksAsk ==
  ASSUME ClientOK, setup.kind = "session", SessionAsked, NEW c \in setup.cbs,
         locAPISetCallbacks(c)
  PROVE  SessionAsked'
<1>1. setup \in ApiSetups /\ ApiOK
  BY DEF ClientOK, ApiOK
<1>2. "batching" \in c /\ ~NeedsGnssTrackingInfo(c) /\ c # NoClient
  BY <1>1, SessionsAssumption, SetupsAssumption
     DEF SessionsAssumption, SetupsAssumption, NeedsGnssTrackingInfo
<1>3. /\ loaded' = Load(c) /\ cbs' = c
      /\ UNCHANGED <<setup, known, lastId, live, tracking, queues, dict, answer, refused, astray>>
  BY DEF locAPISetCallbacks, createInstance, updateCallbacks, AddClient, clientVars
<1>4. PICK is : is = {i \in Wanted(c) : loaded'[i] = "yes"}
  OBVIOUS
<1>5. PICK m : m = Msg("add", 0, c, NoClient)
  OBVIOUS
<1>6. work' = PostAll(is, m)
  BY <1>4, <1>5 DEF locAPISetCallbacks, createInstance, updateCallbacks, AddClient
<1>7. m.op = "add" /\ m.req = NoClient /\ m.s = 0
  BY <1>5 DEF Msg
<1>8. "flp" \in Wanted(c)
  BY <1>2 DEF Wanted, Interfaces, IsFlpClient
<1>9. /\ loaded'["flp"] # "no"
      /\ loaded["flp"] # "no" => loaded'["flp"] = loaded["flp"]
      /\ \A i \in Interfaces : Loaded(i) => loaded'[i] = "yes"
  BY <1>3, <1>8 DEF Load, Loaded, Interfaces
<1>10. \A i \in Interfaces : work'[i] = work[i] \/ work'[i] = Append(work[i], m)
  BY <1>6 DEF PostAll
<1>11. PICK D : D = IF loaded'["flp"] = "yes" THEN "flp" ELSE "gnss"
  OBVIOUS
<1>12. PICK O : O = IF loaded'["flp"] = "yes" THEN "gnss" ELSE "flp"
  OBVIOUS
<1>13. D \in Interfaces /\ O \in Interfaces
  BY <1>11, <1>12 DEF Interfaces
<1>14. /\ Talk(work[D], live[D], dict, queues["session"].reqs, answer[D], lastId)
       /\ live[O] = <<>> /\ answer[O] = NoClient /\ IdleWork(work[O])
       /\ Names(dict) # {} => loaded'[D] = "yes"
       /\ loaded'["flp"] # "yes" => \A s \in Names(dict) : OnFix(ModeOf(dict, s))
  <2>1. CASE cbs = NoClient
    <3>1. \A i \in Interfaces : work[i] = <<>> /\ live[i] = <<>> /\ answer[i] = NoClient
      BY <2>1 DEF SessionAsked
    <3>2. Talk(<<>>, <<>>, dict, queues["session"].reqs, NoClient, lastId)
      BY <3>1, TwoInterfaces DEF SessionAsked
    <3>3. Len(<<>>) = 0
      OBVIOUS
    <3>4. \A k : k \notin 1..Len(<<>>)
      BY <3>3
    <3>5. Names(dict) = {}
      <4> SUFFICES ASSUME NEW s \in Names(dict) PROVE FALSE
        OBVIOUS
      <4>1. About(<<>>, s) \/ Answered(NoClient, s) \/ Runs(s, <<>>, dict)
        BY <3>2 DEF Talk
      <4> QED BY <3>4, <4>1 DEF About, Answered, Runs
    <3>6. IdleWork(<<>>)
      BY <3>4 DEF IdleWork
    <3> QED BY <1>13, <3>1, <3>2, <3>5, <3>6
  <2>2. CASE cbs # NoClient
    <3>1. loaded'["flp"] = loaded["flp"]
      BY <1>9, <2>2 DEF SessionAsked
    <3>2. D = Talker /\ O = Silent
      BY <1>11, <1>12, <3>1 DEF Talker, Silent, Loaded
    <3> QED BY <1>9, <1>13, <3>1, <3>2 DEF SessionAsked, Loaded
  <2> QED BY <2>1, <2>2
<1>15. Sequence(work[D]) /\ Sequence(work[O])
  BY <1>1, <1>13 DEF ApiOK
<1>16. Talk(work'[D], live'[D], dict', queues'["session"].reqs, answer'[D], lastId')
  <2>1. Talk(Append(work[D], m), live[D], dict, queues["session"].reqs, answer[D], lastId)
    BY <1>7, <1>14, TalkAdd
  <2> QED BY <1>3, <1>10, <1>13, <1>14, <2>1
<1>17. IdleWork(work'[O])
  <2>1. IdleWork(Append(work[O], m))
    BY <1>7, <1>14, <1>15, IdlePost
  <2> QED BY <1>10, <1>13, <1>14, <2>1
<1>18. queues["tracking"].s = 0 /\ queues["ni"].s = 0
  BY DEF SessionAsked
<1> QED BY <1>2, <1>3, <1>9, <1>11, <1>12, <1>14, <1>16, <1>17, <1>18
        DEF SessionAsked, Talker, Silent, Loaded
-----------------------------------------------------------------------------
(* The answers to a client of sessions.                                       *)
LEMMA ServedWell ==
  ASSUME NEW i, NEW d, NEW m, Serves(m, live[i], d), NEW r \in Results(i, m),
         r.ok \/ ~AssumedBefore(i, m),
         NEW a, a = [req |-> m.req, call |-> m.req, s |-> m.s, ok |-> r.ok]
  PROVE  /\ r.told /\ r.ok \in BOOLEAN /\ SameLive(live[i], r.live, m.s)
         /\ Removes(a) => m.s \notin DOMAIN r.live
         /\ ~Removes(a) => Runs(m.s, r.live, d)
<1>1. PICK lv : lv = live[i]
  OBVIOUS
<1>2. PICK s : s = m.s
  OBVIOUS
<1>3. PICK l : l = r.live
  OBVIOUS
<1>4. SameLive(lv, lv, s) /\ SameLive(lv, Without(lv, s), s)
      /\ \A v : SameLive(lv, With(lv, s, v), s)
  BY DEF SameLive, Without, With
<1>5. a.req = m.req /\ a.ok = r.ok
  OBVIOUS
<1>6. CASE m.op = "start" /\ m.req \in {Req("start", s), Req("update", s)}
             /\ s \notin DOMAIN lv /\ m.mode = ModeOf(d, s)
  <2>1. r = Result(lv, TRUE, FALSE) \/ r = Result(With(lv, s, m.mode), TRUE, TRUE)
    BY <1>1, <1>2, <1>6, ResultKinds
  <2>2. CASE r = Result(lv, TRUE, FALSE)
    <3>1. r.told = TRUE /\ r.ok = FALSE /\ l = lv
      BY <1>3, <2>2 DEF Result
    <3>2. m.req.op = "start"
      BY <1>6, <3>1 DEF AssumedBefore, Req
    <3>3. Removes(a)
      BY <1>5, <3>1, <3>2 DEF Removes
    <3> QED BY <1>1, <1>2, <1>3, <1>4, <1>6, <3>1, <3>3
  <2>3. CASE r = Result(With(lv, s, m.mode), TRUE, TRUE)
    <3>1. r.told = TRUE /\ r.ok = TRUE /\ l = With(lv, s, m.mode)
      BY <1>3, <2>3 DEF Result
    <3>2. m.req.op # "stop"
      BY <1>6 DEF Req
    <3>3. ~Removes(a)
      BY <1>5, <3>1, <3>2 DEF Removes
    <3>4. Runs(s, l, d)
      BY <1>6, <3>1 DEF Runs, With
    <3> QED BY <1>1, <1>2, <1>3, <1>4, <3>1, <3>3, <3>4
  <2> QED BY <2>1, <2>2, <2>3
<1>7. CASE m.op = "update" /\ m.req = Req("update", s) /\ s \in DOMAIN lv /\ m.mode = ModeOf(d, s)
  <2>1. r = Result(lv, TRUE, FALSE) \/ r = Result([lv EXCEPT ![s] = m.mode], TRUE, TRUE)
    BY <1>1, <1>2, <1>7, ResultKinds
  <2>2. m.req.op = "update"
    BY <1>7 DEF Req
  <2>3. ~Removes(a)
    BY <1>5, <2>2 DEF Removes
  <2>4. CASE r = Result(lv, TRUE, FALSE)
    <3>1. r.told = TRUE /\ r.ok = FALSE /\ l = lv
      BY <1>3, <2>4 DEF Result
    <3>2. lv[s] = m.mode
      BY <1>1, <1>2, <1>7, <3>1 DEF AssumedBefore
    <3>3. Runs(s, l, d)
      BY <1>7, <3>1, <3>2 DEF Runs
    <3> QED BY <1>1, <1>2, <1>3, <1>4, <2>3, <3>1, <3>3
  <2>5. CASE r = Result([lv EXCEPT ![s] = m.mode], TRUE, TRUE)
    <3>1. r.told = TRUE /\ r.ok = TRUE /\ l = [lv EXCEPT ![s] = m.mode]
      BY <1>3, <2>5 DEF Result
    <3>2. DOMAIN l = DOMAIN lv /\ l[s] = m.mode /\ \A t \in DOMAIN lv \ {s} : l[t] = lv[t]
      BY <1>7, <3>1
    <3>3. Runs(s, l, d) /\ SameLive(lv, l, s)
      BY <1>7, <3>2 DEF Runs, SameLive
    <3> QED BY <1>1, <1>2, <1>3, <2>3, <3>1, <3>3
  <2> QED BY <2>1, <2>4, <2>5
<1>8. CASE m.op = "stop" /\ m.req = Req("stop", s) /\ Runs(s, lv, d)
  <2>0. s \in DOMAIN lv
    BY <1>8 DEF Runs
  <2>1. r = Result(lv, TRUE, FALSE) \/ r = Result(Without(lv, s), TRUE, TRUE)
    BY <1>1, <1>2, <1>8, <2>0, ResultKinds
  <2>2. m.req.op = "stop"
    BY <1>8 DEF Req
  <2>3. CASE r = Result(lv, TRUE, FALSE)
    <3>1. r.told = TRUE /\ r.ok = FALSE /\ l = lv
      BY <1>3, <2>3 DEF Result
    <3>2. ~Removes(a)
      BY <1>5, <2>2, <3>1 DEF Removes
    <3> QED BY <1>1, <1>2, <1>3, <1>4, <1>8, <3>1, <3>2
  <2>4. CASE r = Result(Without(lv, s), TRUE, TRUE)
    <3>1. r.told = TRUE /\ r.ok = TRUE /\ l = Without(lv, s)
      BY <1>3, <2>4 DEF Result
    <3>2. Removes(a)
      BY <1>5, <2>2, <3>1 DEF Removes
    <3>3. s \notin DOMAIN l
      BY <3>1 DEF Without
    <3> QED BY <1>1, <1>2, <1>3, <1>4, <3>1, <3>2, <3>3
  <2> QED BY <2>1, <2>3, <2>4
<1>9. CASE m.op = "get" /\ m.req = Req("get", s) /\ Runs(s, lv, d)
  <2>0. s \in DOMAIN lv
    BY <1>9 DEF Runs
  <2>1. \E ok \in BOOLEAN : r = Result(lv, TRUE, ok)
    BY <1>1, <1>2, <1>9, <2>0, ResultKinds
  <2>2. r.told = TRUE /\ r.ok \in BOOLEAN /\ l = lv
    BY <1>3, <2>1 DEF Result
  <2>3. m.req.op = "get"
    BY <1>9 DEF Req
  <2>4. ~Removes(a)
    BY <1>5, <2>3 DEF Removes
  <2> QED BY <1>1, <1>2, <1>3, <1>4, <1>9, <2>2, <2>4
<1> QED BY <1>1, <1>2, <1>6, <1>7, <1>8, <1>9 DEF Serves

\* what a call without a request leaves; x: the session it stops, if any
LEMMA ServedQuietly ==
  ASSUME NEW i, NEW m, NEW r \in Results(i, m), r.ok \/ ~AssumedBefore(i, m), m.req = NoClient,
         NEW x, \/ m.op = "add" /\ x \notin DOMAIN live[i]
                \/ m.op = "stop" /\ x = m.s
  PROVE  /\ SameLive(live[i], r.live, x) /\ x \notin DOMAIN r.live
         /\ m.op = "add" => r.told = FALSE
<1>1. PICK lv : lv = live[i]
  OBVIOUS
<1>2. PICK l : l = r.live
  OBVIOUS
<1>3. SameLive(lv, lv, x) /\ SameLive(lv, Without(lv, x), x) /\ x \notin DOMAIN Without(lv, x)
  BY DEF SameLive, Without
<1>4. CASE m.op = "add" /\ x \notin DOMAIN lv
  <2>1. r = Result(lv, FALSE, TRUE)
    BY <1>1, <1>4, ResultKinds
  <2>2. l = lv /\ r.told = FALSE
    BY <1>2, <2>1 DEF Result
  <2> QED BY <1>1, <1>2, <1>3, <1>4, <2>2
<1>5. CASE m.op = "stop" /\ x = m.s
  <2>1. r.ok
    BY <1>5 DEF AssumedBefore
  <2>2. \/ r = Result(lv, TRUE, FALSE)
        \/ r = Result(Without(lv, x), TRUE, TRUE)
        \/ r = Result(lv, FALSE, TRUE) /\ x \notin DOMAIN lv
    BY <1>1, <1>5, ResultKinds
  <2>3. r # Result(lv, TRUE, FALSE)
    BY <2>1 DEF Result
  <2>4. l = Without(lv, x) \/ (l = lv /\ x \notin DOMAIN lv)
    BY <1>2, <2>2, <2>3 DEF Result
  <2> QED BY <1>1, <1>2, <1>3, <1>5, <2>4
<1> QED BY <1>1, <1>4, <1>5

\* which of the queues an answer for a session of the dictionary comes from
LEMMA SessionSource ==
  ASSUME queues["tracking"].s = 0, queues["ni"].s = 0, NEW s, s # 0
  PROVE  /\ HasSession(dict, s) /\ queues["session"].reqs # <<>> => SourceOf(s) = "session"
         /\ ~HasSession(dict, s) => SourceOf(s) = NoClient
<1>1. NoClient \notin {"tracking", "session", "ni"}
  BY NoClientAssumption DEF NoClientAssumption
<1>2. Holder(s) = NoClient
  BY DEF Holder
<1> QED BY <1>1, <1>2 DEF SourceOf, Holds

\* what an interface's answer is made of
LEMMA AnswerParts ==
  ASSUME ApiOK, NEW i \in Interfaces, Answer(i)
  PROVE  /\ work[i] # <<>> /\ answer[i] = NoClient
         /\ \E r \in Results(i, work[i][1]) :
              /\ live' = [live EXCEPT ![i] = r.live]
              /\ TakeRequest(i, work[i][1], r)
              /\ astray' = (astray \/ (~r.ok /\ AssumedBefore(i, work[i][1])))
         /\ work' = [work EXCEPT ![i] = Tail(work[i])]
         /\ UNCHANGED <<setup, loaded, cbs, lastId, calls, tracking, dict>>
<1>1. work[i] # <<>> /\ answer[i] = NoClient /\ Sequence(work[i]) /\ UNCHANGED <<tracking, dict>>
  BY DEF Answer, ApiOK
<1>2. Head(work[i]) = work[i][1]
  BY <1>1, Shrunk
<1>3. PICK r \in Results(i, work[i][1]) :
        /\ Serve(i, r) /\ TakeRequest(i, work[i][1], r)
        /\ astray' = (astray \/ (~r.ok /\ AssumedBefore(i, work[i][1])))
  BY <1>2 DEF Answer
<1>4. /\ live' = [live EXCEPT ![i] = r.live]
      /\ work' = [work EXCEPT ![i] = Tail(work[i])]
      /\ UNCHANGED <<setup, loaded, cbs, lastId, calls>>
  BY <1>3 DEF Serve
<1> QED BY <1>1, <1>3, <1>4
\* the interface the client talks to answers it, or what it does not wait for
LEMMA TalkerAnswers ==
  ASSUME ClientOK, SessionAsked, Answer(Talker), ~astray',
         \A i \in Interfaces : answer[i] # NoClient => answer[i].req = answer[i].call
  PROVE  /\ Talk(work'[Talker], live'[Talker], dict', queues'["session"].reqs, answer'[Talker], lastId')
         /\ queues'["tracking"].s = 0 /\ queues'["ni"].s = 0
         /\ answer'[Silent] = NoClient /\ cbs # NoClient
         /\ answer'[Talker] # NoClient => answer'[Talker].req = answer'[Talker].call
<1>1. PICK D : D = Talker
  OBVIOUS
<1>2. /\ D \in Interfaces /\ Silent \in Interfaces /\ D # Silent
      /\ ApiOK /\ QueuesOK /\ answer = [i \in Interfaces |-> answer[i]]
  BY <1>1, TwoInterfaces DEF ClientOK
<1>3. PICK w : w = work[D]
  OBVIOUS
<1>4. PICK lv : lv = live[D]
  OBVIOUS
<1>5. PICK m : m = w[1]
  OBVIOUS
<1>6. /\ w # <<>> /\ answer[D] = NoClient
      /\ work' = [work EXCEPT ![D] = Tail(w)]
      /\ UNCHANGED <<setup, loaded, cbs, lastId, calls, tracking, dict>>
      /\ \E r \in Results(D, m) :
              /\ live' = [live EXCEPT ![D] = r.live]
              /\ TakeRequest(D, m, r)
              /\ astray' = (astray \/ (~r.ok /\ AssumedBefore(D, m)))
  BY <1>1, <1>2, <1>3, <1>5, AnswerParts
<1>7. PICK r \in Results(D, m) :
        /\ live' = [live EXCEPT ![D] = r.live] /\ TakeRequest(D, m, r)
        /\ r.ok \/ ~AssumedBefore(D, m)
  BY <1>6
<1>8. PICK l : l = r.live
  OBVIOUS
<1>9. /\ work = [i \in Interfaces |-> work[i]] /\ live = [i \in Interfaces |-> live[i]]
  BY <1>2 DEF ApiOK
<1>10. work'[D] = Tail(w) /\ live'[D] = l
  BY <1>2, <1>6, <1>7, <1>8, <1>9
<1>11. PICK rs : rs = queues["session"].reqs
  OBVIOUS
<1>12. /\ Talk(w, lv, dict, rs, NoClient, lastId)
       /\ queues["tracking"].s = 0 /\ queues["ni"].s = 0 /\ answer[Silent] = NoClient
  BY <1>1, <1>3, <1>4, <1>6, <1>11 DEF SessionAsked
<1>13. cbs # NoClient
  BY <1>2, <1>3, <1>6 DEF SessionAsked
<1>14. /\ Sequence(w) /\ lastId \in Nat \ {0} /\ DictOK(dict, lastId)
       /\ \A k \in 1..Len(w) : DictCall(w[k], lv, dict, lastId)
       /\ \A s \in DOMAIN lv : s \in 2..lastId
  BY <1>12 DEF Talk
<1>15. Len(w) \in Nat \ {0} /\ 1 \in 1..Len(w)
  BY <1>6, <1>14, Shrunk
<1>16. DictCall(m, lv, dict, lastId)
  BY <1>5, <1>14, <1>15
<1>17. CASE Serves(m, lv, dict)
  <2>1. PICK a : a = [req |-> m.req, call |-> m.req, s |-> m.s, ok |-> r.ok]
    OBVIOUS
  <2>2. /\ r.told /\ r.ok \in BOOLEAN /\ SameLive(lv, l, m.s)
        /\ Removes(a) => m.s \notin DOMAIN l
        /\ ~Removes(a) => Runs(m.s, l, dict)
    BY <1>4, <1>7, <1>8, <1>17, <2>1, ServedWell
  <2>3. rs # <<>> /\ rs[1] = m.req /\ Talk(Tail(w), l, dict, Tail(rs), a, lastId)
    BY <1>5, <1>6, <1>12, <1>17, <2>1, <2>2, TalkAsked
  <2>4. m.s \in Names(dict) /\ m.s \in 2..lastId /\ m.s # 0
    BY <1>14, <1>17, ServesAsk
  <2>5. SourceOf(m.s) = "session"
    BY <1>11, <1>12, <2>3, <2>4, SessionSource DEF HasSession, Names
  <2>6. "session" # NoClient
    BY NoClientAssumption DEF NoClientAssumption
  <2>7. Head(rs) = m.req
    <3>1. Sequence(rs)
      BY <1>12 DEF Talk
    <3> QED BY <2>3, <3>1, Shrunk
  <2>8. /\ answer' = [answer EXCEPT ![D] = a]
        /\ queues' = [queues EXCEPT !["session"].reqs = Tail(rs)]
    BY <1>7, <1>11, <1>13, <2>1, <2>2, <2>5, <2>6, <2>7 DEF TakeRequest
  <2>9. answer'[D] = a /\ answer'[Silent] = NoClient
    BY <1>2, <1>12, <2>8
  <2>10. /\ queues'["session"].reqs = Tail(rs)
         /\ \A q \in ClientQueues : queues'[q].s = queues[q].s
    BY <1>2, <2>8, SessionQueue
  <2>11. queues'["tracking"].s = 0 /\ queues'["ni"].s = 0
    BY <1>12, <2>10 DEF ClientQueues
  <2>12. a.req = a.call
    BY <2>1
  <2> QED BY <1>1, <1>6, <1>10, <1>13, <2>3, <2>9, <2>10, <2>11, <2>12
<1>18. ASSUME NEW x, x \notin Names(dict), m.req = NoClient, m.op = "stop" => m.s = x,
              SameLive(lv, l, x), x \notin DOMAIN l, UNCHANGED <<answer, queues>>
       PROVE  /\ Talk(work'[Talker], live'[Talker], dict', queues'["session"].reqs, answer'[Talker], lastId')
              /\ queues'["tracking"].s = 0 /\ queues'["ni"].s = 0
              /\ answer'[Silent] = NoClient /\ cbs # NoClient
              /\ answer'[Talker] # NoClient => answer'[Talker].req = answer'[Talker].call
  <2>1. Talk(Tail(w), l, dict, rs, NoClient, lastId)
    BY <1>5, <1>6, <1>12, <1>18, TalkOther
  <2> QED BY <1>1, <1>6, <1>10, <1>11, <1>12, <1>13, <1>18, <2>1
<1>19. CASE m.op = "add" /\ m.req = NoClient
  <2>1. 0 \notin Names(dict) /\ 0 \notin DOMAIN lv
    BY <1>14 DEF DictOK
  <2>2. SameLive(lv, l, 0) /\ 0 \notin DOMAIN l /\ r.told = FALSE
    BY <1>4, <1>7, <1>8, <1>19, <2>1, ServedQuietly
  <2>3. UNCHANGED <<answer, queues>>
    BY <1>7, <2>2 DEF TakeRequest
  <2> QED BY <1>18, <1>19, <2>1, <2>2, <2>3
<1>20. CASE m.op = "stop" /\ m.req = NoClient /\ m.s \in (2..lastId) \ Names(dict)
  <2>1. SameLive(lv, l, m.s) /\ m.s \notin DOMAIN l
    BY <1>4, <1>7, <1>8, <1>20, ServedQuietly
  <2>2. m.s # 0
    BY <1>14, <1>20
  <2>3. SourceOf(m.s) = NoClient
    BY <1>12, <1>20, <2>2, SessionSource DEF HasSession, Names
  <2>4. UNCHANGED <<answer, queues>>
    BY <1>7, <2>3 DEF TakeRequest
  <2> QED BY <1>18, <1>20, <2>1, <2>4
<1> QED BY <1>16, <1>17, <1>19, <1>20 DEF DictCall

LEMMA SilentAnswers ==
  ASSUME ClientOK, SessionAsked, Answer(Silent)
  PROVE  /\ UNCHANGED <<answer, queues, dict, lastId, loaded, cbs>>
         /\ work'[Talker] = work[Talker] /\ live'[Talker] = live[Talker]
         /\ live'[Silent] = <<>> /\ IdleWork(work'[Silent]) /\ cbs # NoClient
<1>1. PICK i : i = Silent
  OBVIOUS
<1>2. Talker \in Interfaces /\ i \in Interfaces /\ i # Talker /\ ApiOK
  BY <1>1, TwoInterfaces DEF ClientOK
<1>3. /\ work = [j \in Interfaces |-> work[j]] /\ live = [j \in Interfaces |-> live[j]]
      /\ Sequence(work[i]) /\ IdleWork(work[i]) /\ live[i] = <<>>
  BY <1>1, <1>2 DEF ApiOK, SessionAsked
<1>4. /\ work[i] # <<>> /\ work' = [work EXCEPT ![i] = Tail(work[i])]
      /\ UNCHANGED <<loaded, cbs, lastId, dict>>
      /\ \E r \in Results(i, work[i][1]) :
           live' = [live EXCEPT ![i] = r.live] /\ TakeRequest(i, work[i][1], r)
  BY <1>1, <1>2, AnswerParts
<1>5. PICK r \in Results(i, work[i][1]) :
        live' = [live EXCEPT ![i] = r.live] /\ TakeRequest(i, work[i][1], r)
  BY <1>4
<1>6. IdleWork(Tail(work[i])) /\ work[i][1].op \in {"add", "stop", "update"}
  BY <1>3, <1>4, IdleServe
<1>7. DOMAIN live[i] = {}
  BY <1>3
<1>8. r = Result(live[i], FALSE, TRUE)
  BY <1>6, <1>7, ResultKinds
<1>9. r.told = FALSE /\ r.live = <<>>
  BY <1>3, <1>8 DEF Result
<1>10. UNCHANGED <<answer, queues>>
  BY <1>5, <1>9 DEF TakeRequest
<1>11. /\ work'[i] = Tail(work[i]) /\ work'[Talker] = work[Talker]
       /\ live'[i] = <<>> /\ live'[Talker] = live[Talker]
  BY <1>2, <1>3, <1>4, <1>5, <1>9
<1>12. cbs # NoClient
  BY <1>2, <1>4 DEF SessionAsked
<1> QED BY <1>1, <1>4, <1>6, <1>10, <1>11, <1>12

LEMMA SessionAnswers ==
  ASSUME ClientOK, SessionAsked, NEW i \in Interfaces, Answer(i), ~astray',
         \A j \in Interfaces : answer[j] # NoClient => answer[j].req = answer[j].call
  PROVE  /\ SessionAsked'
         /\ \A j \in Interfaces : answer'[j] # NoClient => answer'[j].req = answer'[j].call
<1>1. CASE i = Talker
  <2>1. /\ Talk(work'[Talker], live'[Talker], dict', queues'["session"].reqs, answer'[Talker], lastId')
        /\ queues'["tracking"].s = 0 /\ queues'["ni"].s = 0
        /\ answer'[Silent] = NoClient /\ cbs # NoClient
        /\ answer'[Talker] # NoClient => answer'[Talker].req = answer'[Talker].call
    BY <1>1, TalkerAnswers
  <2>2. /\ Silent \in Interfaces /\ Silent # Talker /\ ApiOK
        /\ \A j \in Interfaces : j = Talker \/ j = Silent
    BY TwoInterfaces DEF ClientOK
  <2>3. /\ UNCHANGED <<loaded, cbs, dict>>
        /\ work' = [work EXCEPT ![i] = Tail(work[i])]
        /\ \E r : live' = [live EXCEPT ![i] = r.live]
    BY <2>2, AnswerParts
  <2>4. work'[Silent] = work[Silent] /\ live'[Silent] = live[Silent]
    BY <1>1, <2>2, <2>3 DEF ApiOK
  <2>5. SessionAsked'
    BY <2>1, <2>3, <2>4 DEF SessionAsked, Talker, Silent, Loaded
  <2> QED BY <2>1, <2>2, <2>5
<1>2. CASE i = Silent
  <2>1. /\ UNCHANGED <<answer, queues, dict, lastId, loaded, cbs>>
        /\ work'[Talker] = work[Talker] /\ live'[Talker] = live[Talker]
        /\ live'[Silent] = <<>> /\ IdleWork(work'[Silent]) /\ cbs # NoClient
    BY <1>2, SilentAnswers
  <2>2. SessionAsked'
    BY <2>1 DEF SessionAsked, Talker, Silent, Loaded
  <2> QED BY <2>1, <2>2
<1> QED BY <1>1, <1>2, TwoInterfaces
LEMMA DictShrinks ==
  ASSUME NEW d, NEW n, DictOK(d, n), NEW x,
         NEW e, e = IF HasSession(d, x) THEN RmBySession(d, x) ELSE d
  PROVE  Names(e) \subseteq Names(d) /\ \A s \in Names(e) : ModeOf(e, s) = ModeOf(d, s)
<1>1. CASE x \in Names(d)
  <2>1. e = RmBySession(d, x)
    BY <1>1 DEF HasSession, Names
  <2> QED BY <1>1, <2>1, DictRemove DEF SameBut
<1>2. CASE x \notin Names(d)
  BY <1>2 DEF HasSession, Names
<1> QED BY <1>1, <1>2

\* the client is told of an answer
LEMMA SessionResponse ==
  ASSUME ClientOK, SessionAsked, NEW i \in Interfaces, onResponse(i)
  PROVE  SessionAsked'
<1>1. /\ UNCHANGED <<loaded, cbs, lastId, work, live, queues>> /\ answer[i] # NoClient
      /\ answer' = [answer EXCEPT ![i] = NoClient]
      /\ answer = [j \in Interfaces |-> answer[j]]
  BY DEF onResponse, apiVars, ClientOK
<1>2. PICK D : D = Talker
  OBVIOUS
<1>3. /\ i = D /\ Silent # D /\ D \in Interfaces /\ Silent \in Interfaces
      /\ answer[Silent] = NoClient /\ cbs # NoClient
  BY <1>1, <1>2, TwoInterfaces DEF SessionAsked
<1>4. answer'[D] = NoClient /\ answer'[Silent] = NoClient
  BY <1>1, <1>3
<1>5. PICK a : a = answer[D]
  OBVIOUS
<1>6. PICK d : d = dict'
  OBVIOUS
<1>7. a # NoClient /\ d = IF Removes(a) /\ HasSession(dict, a.s) THEN RmBySession(dict, a.s) ELSE dict
  BY <1>1, <1>3, <1>5, <1>6 DEF onResponse
<1>8. PICK rs : rs = queues["session"].reqs
  OBVIOUS
<1>9. PICK w : w = work[D]
  OBVIOUS
<1>10. PICK lv : lv = live[D]
  OBVIOUS
<1>11. Talk(w, lv, dict, rs, a, lastId)
  BY <1>2, <1>5, <1>8, <1>9, <1>10 DEF SessionAsked
<1>12. DictOK(dict, lastId)
  BY <1>11 DEF Talk
<1>13. /\ Talk(w, lv, d, rs, NoClient, lastId)
       /\ Names(d) \subseteq Names(dict) /\ \A s \in Names(d) : ModeOf(d, s) = ModeOf(dict, s)
  <2>1. CASE ~Removes(a)
    <3>1. d = dict
      BY <1>7, <2>1
    <3> QED BY <1>7, <1>11, <2>1, <3>1, TalkKept
  <2>2. CASE Removes(a)
    <3>1. PICK x : x = a.s
      OBVIOUS
    <3>2. d = IF HasSession(dict, x) THEN RmBySession(dict, x) ELSE dict
      BY <1>7, <2>2, <3>1
    <3>3. ~About(w, x) /\ x \notin DOMAIN lv
      BY <1>7, <1>11, <2>2, <3>1 DEF Talk
    <3>4. SameLive(lv, lv, x)
      BY DEF SameLive
    <3>5. PICK b : b = NoClient
      OBVIOUS
    <3>6. Talk(w, lv, d, rs, b, lastId)
      BY <1>11, <3>1, <3>2, <3>3, <3>4, <3>5, TalkGone
    <3> QED BY <1>12, <3>2, <3>5, <3>6, DictShrinks
  <2> QED BY <2>1, <2>2
<1>14. /\ Talk(work'[Talker], live'[Talker], dict', queues'["session"].reqs, answer'[Talker], lastId')
       /\ Names(dict') # {} => Loaded(Talker)
       /\ ~Loaded("flp") => \A s \in Names(dict') : OnFix(ModeOf(dict', s))
  <2>1. Talk(work'[Talker], live'[Talker], dict', queues'["session"].reqs, answer'[Talker], lastId')
    BY <1>1, <1>2, <1>4, <1>6, <1>8, <1>9, <1>10, <1>13
  <2> QED BY <1>6, <1>13, <2>1 DEF SessionAsked
<1>15. /\ queues["tracking"].s = 0 /\ queues["ni"].s = 0
       /\ loaded["flp"] # "no" /\ ~NeedsGnssTrackingInfo(cbs)
       /\ live[Silent] = <<>> /\ IdleWork(work[Silent])
  BY <1>3 DEF SessionAsked
<1> QED BY <1>1, <1>3, <1>4, <1>14, <1>15 DEF SessionAsked, Talker, Silent, Loaded

\* a trip is over
LEMMA SessionTrip ==
  ASSUME ClientOK, SessionAsked, NEW s, TripCompleted(s), ~astray'
  PROVE  SessionAsked' /\ answer' = answer
<1>1. /\ UNCHANGED <<loaded, cbs, work, queues, lastId, answer>> /\ cbs # NoClient
      /\ s \in DOMAIN live["flp"] /\ live["flp"][s] = "trip" /\ ~UnderWay(s)
      /\ answer["flp"] = NoClient
      /\ live' = [live EXCEPT !["flp"] = Without(live["flp"], s)]
      /\ ApiOK /\ live = [i \in Interfaces |-> live[i]]
  BY DEF TripCompleted, TripOver, MayStray, ClientOK, ApiOK
<1>2. Talker = "flp" /\ Silent = "gnss"
  <2>1. live["flp"] # <<>>
    BY <1>1
  <2> QED BY <2>1, TwoInterfaces DEF SessionAsked
<1>3. PICK D : D = Talker
  OBVIOUS
<1>4. PICK lv : lv = live[D]
  OBVIOUS
<1>5. PICK l : l = Without(lv, s)
  OBVIOUS
<1>6. live'[D] = l /\ live'[Silent] = live[Silent] /\ D \in Interfaces
  <2>1. live' = [live EXCEPT ![D] = l]
    BY <1>1, <1>2, <1>3, <1>4, <1>5
  <2> QED BY <1>1, <1>2, <1>3, <2>1, TwoInterfaces
<1>7. PICK d : d = dict'
  OBVIOUS
<1>8. PICK rs : rs = queues["session"].reqs
  OBVIOUS
<1>9. PICK w : w = work[D]
  OBVIOUS
<1>10. PICK a : a = answer[D]
  OBVIOUS
<1>11. Talk(w, lv, dict, rs, a, lastId) /\ a = NoClient
  BY <1>1, <1>2, <1>3, <1>4, <1>8, <1>9, <1>10 DEF SessionAsked
<1>12. ~About(w, s) /\ ~Answered(a, s)
  BY <1>1, <1>6, <1>9, <1>10, NotUnderWay
<1>13. DictOK(dict, lastId)
  BY <1>11 DEF Talk
<1>14. d = IF HasSession(dict, s) THEN RmBySession(dict, s) ELSE dict
  <2>1. ASSUME HasSession(dict, s) PROVE dict.ext[s].mode = "trip"
    <3>1. s \in Names(dict)
      BY <2>1 DEF HasSession, Names
    <3>2. Runs(s, lv, dict)
      BY <1>11, <1>12, <3>1 DEF Talk
    <3> QED BY <1>1, <1>2, <1>3, <1>4, <3>2 DEF Runs, ModeOf
  <2> QED BY <1>7, <2>1 DEF TripCompleted
<1>15. Talk(w, l, d, rs, a, lastId)
  <2>1. SameLive(lv, l, s) /\ s \notin DOMAIN l
    BY <1>5 DEF SameLive, Without
  <2> QED BY <1>11, <1>12, <1>14, <2>1, TalkGone
<1>16. Names(d) \subseteq Names(dict) /\ \A t \in Names(d) : ModeOf(d, t) = ModeOf(dict, t)
  BY <1>13, <1>14, DictShrinks
<1>17. /\ Talk(work'[Talker], live'[Talker], dict', queues'["session"].reqs, answer'[Talker], lastId')
       /\ Names(dict') # {} => Loaded(Talker)
       /\ ~Loaded("flp") => \A t \in Names(dict') : OnFix(ModeOf(dict', t))
  <2>1. Talk(work'[Talker], live'[Talker], dict', queues'["session"].reqs, answer'[Talker], lastId')
    BY <1>1, <1>3, <1>6, <1>7, <1>8, <1>9, <1>10, <1>15
  <2> QED BY <1>7, <1>16, <2>1 DEF SessionAsked
<1>18. /\ queues["tracking"].s = 0 /\ queues["ni"].s = 0
       /\ loaded["flp"] # "no" /\ ~NeedsGnssTrackingInfo(cbs)
       /\ live[Silent] = <<>> /\ answer[Silent] = NoClient /\ IdleWork(work[Silent])
  BY <1>1 DEF SessionAsked
<1> QED BY <1>1, <1>6, <1>17, <1>18 DEF SessionAsked, Talker, Silent, Loaded

LEMMA SessionInitial == ASSUME ClientInit PROVE SessionAsked
<1>1. /\ cbs = NoClient /\ dict = EmptyDict /\ lastId = 1
      /\ queues = [q \in {"tracking", "session", "ni"} |-> [s |-> 0, reqs |-> <<>>]]
      /\ \A i \in Interfaces : work[i] = <<>> /\ live[i] = <<>> /\ answer[i] = NoClient
  BY DEF ClientInit, ApiInit
<1>2. queues["tracking"].s = 0 /\ queues["ni"].s = 0 /\ queues["session"].reqs = <<>>
  BY <1>1
<1>3. Talk(work[Talker], live[Talker], dict, queues["session"].reqs, answer[Talker], lastId)
  BY <1>1, <1>2, TwoInterfaces, TalkNothing
<1>4. Names(dict) = {}
  BY <1>1 DEF Names, EmptyDict
<1>5. IdleWork(work[Silent])
  <2>1. Len(<<>>) = 0
    OBVIOUS
  <2> QED BY <1>1, <2>1, TwoInterfaces DEF IdleWork
<1> QED BY <1>1, <1>2, <1>3, <1>4, <1>5, TwoInterfaces DEF SessionAsked

\* once every answer is in, the dictionary names what runs
LEMMA SessionImplies ==
  ASSUME SessionAsked
  PROVE  /\ \A id \in DOMAIN dict.fwd : BackwardOf(dict, dict.fwd[id]) = id
         /\ Quiet => {dict.fwd[id] : id \in DOMAIN dict.fwd} = UNION {DOMAIN live[i] : i \in Interfaces}
<1>1. Talk(work[Talker], live[Talker], dict, queues["session"].reqs, answer[Talker], lastId)
  BY DEF SessionAsked
<1>2. DictOK(dict, lastId)
  BY <1>1 DEF Talk
<1>3. \A id \in DOMAIN dict.fwd : BackwardOf(dict, dict.fwd[id]) = id
  BY <1>2 DEF DictOK, BackwardOf, HasSession, Names
<1>4. ASSUME Quiet
      PROVE  {dict.fwd[id] : id \in DOMAIN dict.fwd} = UNION {DOMAIN live[i] : i \in Interfaces}
  <2>1. work[Talker] = <<>> /\ answer[Talker] = NoClient /\ live[Silent] = <<>>
    BY <1>4, TwoInterfaces DEF Quiet, SessionAsked
  <2>2. \A k : k \notin 1..Len(<<>>)
    <3>1. Len(<<>>) = 0
      OBVIOUS
    <3> QED BY <3>1
  <2>3. UNION {DOMAIN live[i] : i \in Interfaces} = DOMAIN live[Talker]
    <3>1. DOMAIN live[Silent] = {}
      BY <2>1
    <3> QED BY <3>1, TwoInterfaces
  <2>4. {dict.fwd[id] : id \in DOMAIN dict.fwd} = Names(dict)
    BY <1>2 DEF DictOK
  <2>5. \A s \in Names(dict) : Runs(s, live[Talker], dict)
    BY <1>1, <2>1, <2>2 DEF Talk, About, Answered
  <2>6. \A s \in DOMAIN live[Talker] : s \in Names(dict)
    BY <1>1, <2>1, <2>2 DEF Talk, StopWaits
  <2> QED BY <2>3, <2>4, <2>5, <2>6 DEF Runs
<1> QED BY <1>3, <1>4
-----------------------------------------------------------------------------
(* The tracking client.  lv: the sessions an interface runs for it, w: the    *)
(* calls that wait for the interface, n: the last id.                         *)
FixCall(m, n) ==
  \/ m.op = "add" /\ m.s = 0 /\ m.req = NoClient
  \/ m.op = "ni" /\ m.s \in Nat \ {0} /\ m.s \notin 2..n /\ m.req = Req("ni", m.s)
  \/ m.op \in {"start", "stop", "update"} /\ m.s \in 2..n /\ m.req = Req(m.op, m.s) /\ m.mode = "fix"
Fixes(w, lv, n) ==
  /\ Sequence(w) /\ \A k \in 1..Len(w) : FixCall(w[k], n)
  /\ \A s \in DOMAIN lv : s \in 2..n /\ lv[s] = "fix"
  /\ \A k \in 1..Len(w) : w[k].op = "start" =>
       /\ w[k].s \notin DOMAIN lv
       /\ \A l \in 1..Len(w) : l < k => w[l].s # w[k].s
\* s runs, or is going to
Hot(w, lv, s) == s \in DOMAIN lv \/ \E k \in 1..Len(w) : w[k].op = "start" /\ w[k].s = s

Notices(q, n) ==
  q.s \notin 2..n /\ Sequence(q.reqs) /\ \A k \in 1..Len(q.reqs) : q.reqs[k] = Req("ni", q.s)
Tracked(i) == Hot(work[i], live[i], queues["tracking"].s)

(* At most one interface runs the session of the queue, and has a call for    *)
(* each of its requests; the requests of the other queue are all alike.       *)
TrackAsked ==
  /\ dict = EmptyDict /\ lastId \in Nat \ {0}
  /\ queues["tracking"].s \in {0} \union 2..lastId /\ Sequence(queues["tracking"].reqs)
  /\ Notices(queues["ni"], lastId)
  /\ \A i \in Interfaces : Fixes(work[i], live[i], lastId)
  /\ \A i \in Interfaces : Tracked(i) =>
       /\ Match(queues["tracking"].reqs, work[i], {queues["tracking"].s})
       /\ \A j \in Interfaces : Tracked(j) => j = i

LEMMA FixesPost ==
  ASSUME NEW w, NEW lv, NEW n, Fixes(w, lv, n), NEW m, FixCall(m, n), m.op # "start"
  PROVE  /\ Fixes(Append(w, m), lv, n)
         /\ \A s : Hot(Append(w, m), lv, s) => Hot(w, lv, s)
<1>1. PICK v : v = Append(w, m)
  OBVIOUS
<1>2. /\ Sequence(w) /\ \A k \in 1..Len(w) : FixCall(w[k], n)
      /\ \A s \in DOMAIN lv : s \in 2..n /\ lv[s] = "fix"
      /\ \A k \in 1..Len(w) : w[k].op = "start" =>
           /\ w[k].s \notin DOMAIN lv
           /\ \A l \in 1..Len(w) : l < k => w[l].s # w[k].s
  BY DEF Fixes
<1>3. /\ Sequence(v) /\ Len(w) \in Nat /\ Len(v) = Len(w) + 1 /\ v[Len(w) + 1] = m
      /\ \A k \in 1..Len(w) : v[k] = w[k]
  BY <1>1, <1>2, Grown
<1>4. \A k \in 1..Len(v) : (k \in 1..Len(w) /\ v[k] = w[k]) \/ v[k] = m
  BY <1>3
<1>5. \A k \in 1..Len(v) : FixCall(v[k], n)
  BY <1>2, <1>4
<1>6. ASSUME NEW k \in 1..Len(v), v[k].op = "start"
      PROVE  v[k].s \notin DOMAIN lv /\ \A l \in 1..Len(v) : l < k => v[l].s # v[k].s
  <2>1. k \in 1..Len(w) /\ v[k] = w[k]
    BY <1>4, <1>6
  <2>2. \A l \in 1..Len(v) : l < k => l \in 1..Len(w) /\ v[l] = w[l]
    BY <1>3, <2>1
  <2> QED BY <1>2, <1>6, <2>1, <2>2
<1>7. Fixes(v, lv, n)
  BY <1>2, <1>3, <1>5, <1>6 DEF Fixes
<1>8. \A s : Hot(v, lv, s) => Hot(w, lv, s)
  BY <1>4 DEF Hot
<1> QED BY <1>1, <1>7, <1>8

\* an id later, while nothing is under way that has it
LEMMA FixesLater ==
  ASSUME NEW w, NEW lv, NEW n, n \in Nat \ {0}, Fixes(w, lv, n), ~About(w, n + 1)
  PROVE  /\ Fixes(w, lv, n + 1) /\ ~Hot(w, lv, n + 1)
         /\ \A k \in 1..Len(w) : w[k].s # n + 1
<1>1. /\ Sequence(w) /\ \A k \in 1..Len(w) : FixCall(w[k], n)
      /\ \A s \in DOMAIN lv : s \in 2..n /\ lv[s] = "fix"
      /\ \A k \in 1..Len(w) : w[k].op = "start" =>
           /\ w[k].s \notin DOMAIN lv
           /\ \A l \in 1..Len(w) : l < k => w[l].s # w[k].s
  BY DEF Fixes
<1>2. PICK h : h = n + 1
  OBVIOUS
<1>3. /\ h \notin 2..n /\ h # 0 /\ h \in Nat
      /\ \A s \in 2..n : s \in 2..h /\ s # h
      /\ \A s : s \notin 2..n /\ s # h => s \notin 2..h
  BY <1>2
<1>4. ASSUME NEW k \in 1..Len(w) PROVE FixCall(w[k], h) /\ w[k].s # h
  <2>1. FixCall(w[k], n)
    BY <1>1
  <2>2. CASE w[k].op = "add" /\ w[k].s = 0 /\ w[k].req = NoClient
    BY <1>3, <2>2 DEF FixCall
  <2>3. CASE /\ w[k].op = "ni" /\ w[k].s \in Nat \ {0} /\ w[k].s \notin 2..n
             /\ w[k].req = Req("ni", w[k].s)
    <3>1. w[k].req # NoClient
      BY <2>3, RequestsAre
    <3>2. w[k].s # h
      BY <1>2, <3>1 DEF About
    <3>3. w[k].s \notin 2..h
      BY <1>3, <2>3, <3>2
    <3> QED BY <2>3, <3>2, <3>3 DEF FixCall
  <2>4. CASE /\ w[k].op \in {"start", "stop", "update"} /\ w[k].s \in 2..n
             /\ w[k].req = Req(w[k].op, w[k].s) /\ w[k].mode = "fix"
    BY <1>3, <2>4 DEF FixCall
  <2> QED BY <2>1, <2>2, <2>3, <2>4 DEF FixCall
<1>5. \A s \in DOMAIN lv : s \in 2..h /\ lv[s] = "fix" /\ s # h
  BY <1>1, <1>3
<1>6. Fixes(w, lv, h)
  BY <1>1, <1>4, <1>5 DEF Fixes
<1>7. ~Hot(w, lv, h)
  BY <1>4, <1>5 DEF Hot
<1> QED BY <1>2, <1>4, <1>6, <1>7

\* a start: the queue holds its request, and no interface another one for it
LEMMA FixesStart ==
  ASSUME NEW w, NEW lv, NEW n, n \in Nat \ {0}, Fixes(w, lv, n), ~About(w, n + 1),
         NEW s, s = n + 1, NEW m, m = Msg("start", s, "fix", Req("start", s))
  PROVE  Fixes(Append(w, m), lv, s) /\ Match(<<Req("start", s)>>, Append(w, m), {s})
<1>1. /\ Fixes(w, lv, s) /\ ~Hot(w, lv, s) /\ \A k \in 1..Len(w) : w[k].s # s
  BY FixesLater
<1>2. /\ Sequence(w) /\ \A k \in 1..Len(w) : FixCall(w[k], s)
      /\ \A t \in DOMAIN lv : t \in 2..s /\ lv[t] = "fix"
      /\ \A k \in 1..Len(w) : w[k].op = "start" =>
           /\ w[k].s \notin DOMAIN lv
           /\ \A l \in 1..Len(w) : l < k => w[l].s # w[k].s
  BY <1>1 DEF Fixes
<1>3. m.op = "start" /\ m.s = s /\ m.mode = "fix" /\ m.req = Req("start", s)
  BY DEF Msg
<1>4. s \in Nat /\ s \in 2..s
  OBVIOUS
<1>5. FixCall(m, s)
  BY <1>3, <1>4 DEF FixCall
<1>6. PICK v : v = Append(w, m)
  OBVIOUS
<1>7. /\ Sequence(v) /\ Len(w) \in Nat /\ Len(v) = Len(w) + 1 /\ v[Len(w) + 1] = m
      /\ \A k \in 1..Len(w) : v[k] = w[k]
  BY <1>2, <1>6, Grown
<1>8. \A k \in 1..Len(v) : (k \in 1..Len(w) /\ v[k] = w[k]) \/ (k = Len(w) + 1 /\ v[k] = m)
  BY <1>7
<1>9. s \notin DOMAIN lv
  BY <1>1 DEF Hot
<1>10. ASSUME NEW k \in 1..Len(v), v[k].op = "start"
       PROVE  v[k].s \notin DOMAIN lv /\ \A l \in 1..Len(v) : l < k => v[l].s # v[k].s
  <2>1. CASE k \in 1..Len(w) /\ v[k] = w[k]
    <3>1. \A l \in 1..Len(v) : l < k => l \in 1..Len(w) /\ v[l] = w[l]
      BY <1>7, <2>1
    <3> QED BY <1>2, <1>10, <2>1, <3>1
  <2>2. CASE k = Len(w) + 1 /\ v[k] = m
    <3>1. \A l \in 1..Len(v) : l < k => l \in 1..Len(w) /\ v[l] = w[l]
      BY <1>7, <2>2
    <3> QED BY <1>1, <1>3, <1>9, <2>2, <3>1
  <2> QED BY <1>8, <2>1, <2>2
<1>11. Fixes(v, lv, s)
  BY <1>2, <1>5, <1>7, <1>8, <1>10 DEF Fixes
<1>12. \A k \in 1..Len(w) : ~Awaits(w[k], {s})
  BY <1>1 DEF Awaits
<1>13. Match(<<>>, w, {s})
  BY <1>2, <1>12, MatchNothing
<1>14. Awaits(m, {s})
  <2>1. m.req # NoClient
    BY <1>3, <1>4, RequestsAre
  <2> QED BY <1>3, <2>1 DEF Awaits
<1>15. Sequence(<<>>)
  BY EmptySeq DEF Sequence
<1>16. PICK r : r = m.req
  OBVIOUS
<1>17. Match(Append(<<>>, r), v, {s})
  BY <1>2, <1>6, <1>13, <1>14, <1>15, <1>16, MatchAppend
<1>18. Append(<<>>, r) = <<r>>
  OBVIOUS
<1> QED BY <1>3, <1>6, <1>11, <1>16, <1>17, <1>18

\* an interface serves a call
LEMMA FixesServe ==
  ASSUME NEW w, NEW lv, NEW n, Fixes(w, lv, n), w # <<>>, NEW l,
         \A s \in DOMAIN l : /\ s \in DOMAIN lv \/ (w[1].op = "start" /\ s = w[1].s)
                             /\ l[s] = "fix"
  PROVE  /\ Fixes(Tail(w), l, n) /\ FixCall(w[1], n)
         /\ \A s : Hot(Tail(w), l, s) => /\ Hot(w, lv, s)
                                         /\ w[1].s = s => s \in DOMAIN lv \/ w[1].op = "start"
<1>1. PICK v : v = Tail(w)
  OBVIOUS
<1>2. /\ Sequence(w) /\ \A k \in 1..Len(w) : FixCall(w[k], n)
      /\ \A s \in DOMAIN lv : s \in 2..n /\ lv[s] = "fix"
      /\ \A k \in 1..Len(w) : w[k].op = "start" =>
           /\ w[k].s \notin DOMAIN lv
           /\ \A j \in 1..Len(w) : j < k => w[j].s # w[k].s
  BY DEF Fixes
<1>3. /\ Sequence(v) /\ Len(w) \in Nat \ {0} /\ Len(v) = Len(w) - 1 /\ 1 \in 1..Len(w)
      /\ \A k \in 1..Len(v) : v[k] = w[k + 1] /\ k + 1 \in 1..Len(w) /\ 1 < k + 1
  BY <1>1, <1>2, Shrunk
<1>4. FixCall(w[1], n)
  BY <1>2, <1>3
<1>5. w[1].op = "start" => w[1].s \in 2..n
  BY <1>4 DEF FixCall
<1>6. \A s \in DOMAIN l : s \in 2..n /\ l[s] = "fix"
  BY <1>2, <1>5
<1>7. ASSUME NEW k \in 1..Len(v), v[k].op = "start"
      PROVE  /\ v[k].s \notin DOMAIN lv /\ v[k].s # w[1].s
             /\ \A j \in 1..Len(v) : j < k => v[j].s # v[k].s
  <2>1. k + 1 \in 1..Len(w) /\ v[k] = w[k + 1] /\ 1 < k + 1
    BY <1>3
  <2>2. /\ w[k + 1].s \notin DOMAIN lv
        /\ \A j \in 1..Len(w) : j < k + 1 => w[j].s # w[k + 1].s
    BY <1>2, <1>7, <2>1
  <2>3. \A j \in 1..Len(v) : j < k => j + 1 < k + 1
    OBVIOUS
  <2> QED BY <1>3, <2>1, <2>2, <2>3
<1>8. Fixes(v, l, n)
  <2>1. \A k \in 1..Len(v) : FixCall(v[k], n)
    BY <1>2, <1>3
  <2>2. \A k \in 1..Len(v) : v[k].op = "start" =>
           /\ v[k].s \notin DOMAIN l
           /\ \A j \in 1..Len(v) : j < k => v[j].s # v[k].s
    BY <1>7
  <2> QED BY <1>3, <1>6, <2>1, <2>2 DEF Fixes
<1>9. ASSUME NEW s, Hot(v, l, s)
      PROVE  Hot(w, lv, s) /\ (w[1].s = s => s \in DOMAIN lv \/ w[1].op = "start")
  <2>1. CASE s \in DOMAIN l
    BY <1>3, <2>1 DEF Hot
  <2>2. CASE \E k \in 1..Len(v) : v[k].op = "start" /\ v[k].s = s
    <3>1. PICK k \in 1..Len(v) : v[k].op = "start" /\ v[k].s = s
      BY <2>2
    <3> QED BY <1>3, <1>7, <3>1 DEF Hot
  <2> QED BY <1>9, <2>1, <2>2 DEF Hot
<1> QED BY <1>1, <1>4, <1>8, <1>9
LEMMA OneRequest ==
  ASSUME NEW r PROVE Sequence(<<r>>) /\ Len(<<r>>) = 1 /\ <<r>>[1] = r
<1>1. <<r>> \in Seq({r})
  OBVIOUS
<1>2. Sequence(<<r>>)
  BY <1>1 DEF Sequence
<1> QED BY <1>2

LEMMA HotIs ==
  ASSUME NEW w, NEW lv, NEW n, Fixes(w, lv, n), NEW s, Hot(w, lv, s)
  PROVE  s \in 2..n /\ (w # <<>> \/ lv # <<>>)
<1>1. CASE s \in DOMAIN lv
  BY <1>1 DEF Fixes
<1>2. CASE \E k \in 1..Len(w) : w[k].op = "start" /\ w[k].s = s
  <2>1. PICK k \in 1..Len(w) : w[k].op = "start" /\ w[k].s = s
    BY <1>2
  <2>2. FixCall(w[k], n)
    BY DEF Fixes
  <2>3. w # <<>>
    <3>1. Len(<<>>) = 0
      OBVIOUS
    <3> QED BY <3>1
  <2> QED BY <2>1, <2>2, <2>3 DEF FixCall
<1> QED BY <1>1, <1>2 DEF Hot

\* queue q with its requests changed, or with another session and its request
LEMMA QueueReqs ==
  ASSUME QueuesOK, NEW q \in ClientQueues, NEW rs, queues' = [queues EXCEPT ![q].reqs = rs]
  PROVE  /\ queues'[q].s = queues[q].s /\ queues'[q].reqs = rs
         /\ \A x \in ClientQueues \ {q} : queues'[x] = queues[x]
<1>1. queues' = [x \in ClientQueues |-> IF x = q THEN [queues[q] EXCEPT !.reqs = rs] ELSE queues[x]]
  BY DEF QueuesOK
<1>2. queues[q] = [s |-> queues[q].s, reqs |-> queues[q].reqs]
  BY DEF QueuesOK
<1>3. [queues[q] EXCEPT !.reqs = rs] = [s |-> queues[q].s, reqs |-> rs]
  BY <1>2
<1> QED BY <1>1, <1>3

LEMMA QueueReset ==
  ASSUME QueuesOK, NEW q \in ClientQueues, NEW s, NEW r, queues' = ResetTo(q, s, r)
  PROVE  queues'[q].s = s /\ queues'[q].reqs = <<r>>
<1>1. PICK e : e = [s |-> s, reqs |-> <<r>>]
  OBVIOUS
<1>2. queues' = [queues EXCEPT ![q] = e]
  BY <1>1 DEF ResetTo
<1>3. queues'[q] = e
  BY <1>2 DEF QueuesOK
<1> QED BY <1>1, <1>3

\* a call that starts nothing
LEMMA TrackPosts ==
  ASSUME TrackAsked, UNCHANGED <<dict, lastId, live>>,
         NEW m, FixCall(m, lastId), m.op # "start",
         \A i \in Interfaces : work'[i] = work[i] \/ work'[i] = Append(work[i], m),
         queues'["tracking"].s = queues["tracking"].s, Notices(queues'["ni"], lastId),
         \/ /\ queues'["tracking"].reqs = queues["tracking"].reqs
            /\ ~Awaits(m, {queues["tracking"].s})
         \/ /\ queues'["tracking"].reqs = Append(queues["tracking"].reqs, m.req)
            /\ Awaits(m, {queues["tracking"].s})
            /\ \A i \in Interfaces : Tracked(i) => work'[i] = Append(work[i], m)
  PROVE  TrackAsked'
<1>1. PICK x : x = queues["tracking"].s
  OBVIOUS
<1>2. PICK rs : rs = queues["tracking"].reqs
  OBVIOUS
<1>3. /\ dict = EmptyDict /\ lastId \in Nat \ {0} /\ x \in {0} \union 2..lastId /\ Sequence(rs)
      /\ \A i \in Interfaces : Fixes(work[i], live[i], lastId) /\ Sequence(work[i])
      /\ \A i \in Interfaces : Hot(work[i], live[i], x) =>
           /\ Match(rs, work[i], {x})
           /\ \A j \in Interfaces : Hot(work[j], live[j], x) => j = i
  BY <1>1, <1>2 DEF TrackAsked, Tracked, Fixes
<1>4. ASSUME NEW i \in Interfaces
      PROVE  /\ Fixes(work'[i], live'[i], lastId)
             /\ Hot(work'[i], live'[i], x) => Hot(work[i], live[i], x)
  <2>1. /\ Fixes(Append(work[i], m), live[i], lastId)
        /\ \A s : Hot(Append(work[i], m), live[i], s) => Hot(work[i], live[i], s)
    BY <1>3, FixesPost
  <2> QED BY <1>3, <2>1
<1>5. PICK rq : rq = queues'["tracking"].reqs
  OBVIOUS
<1>6. Sequence(rq)
  <2>1. rq = rs \/ rq = Append(rs, m.req)
    BY <1>2, <1>5
  <2>2. Sequence(Append(rs, m.req))
    BY <1>3, Grown
  <2> QED BY <1>3, <2>1, <2>2
<1>7. ASSUME NEW i \in Interfaces, Hot(work[i], live[i], x) PROVE Match(rq, work'[i], {x})
  <2>1. /\ Awaits(m, {x}) => Match(Append(rs, m.req), Append(work[i], m), {x})
        /\ ~Awaits(m, {x}) => Match(rs, Append(work[i], m), {x})
        /\ Match(rs, work[i], {x})
    BY <1>3, <1>7, MatchAppend
  <2>2. CASE rq = rs /\ ~Awaits(m, {x})
    BY <2>1, <2>2
  <2>3. CASE rq = Append(rs, m.req) /\ Awaits(m, {x}) /\ (Tracked(i) => work'[i] = Append(work[i], m))
    BY <1>1, <1>7, <2>1, <2>3 DEF Tracked
  <2> QED BY <1>1, <1>2, <1>5, <2>2, <2>3
<1>8. \A i \in Interfaces : Tracked(i)' =>
        /\ Match(queues'["tracking"].reqs, work'[i], {queues'["tracking"].s})
        /\ \A j \in Interfaces : Tracked(j)' => j = i
  BY <1>1, <1>3, <1>4, <1>5, <1>7 DEF Tracked
<1> QED BY <1>1, <1>3, <1>4, <1>5, <1>6, <1>8 DEF TrackAsked

LEMMA TrackSame ==
  ASSUME TrackAsked, UNCHANGED <<dict, lastId, live, work, queues>> PROVE TrackAsked'
BY DEF TrackAsked, Tracked

LEMMA StartTrackingAsks ==
  ASSUME ClientOK, TrackAsked, NEW far \in BOOLEAN, locAPIStartTracking(far), ~astray'
  PROVE  TrackAsked'
<1>1. /\ ApiOK /\ QueuesOK /\ UNCHANGED <<dict, live>>
  BY DEF ClientOK, locAPIStartTracking, CallFrame
<1>2. CASE tracking
  <2>1. UNCHANGED <<tracking, queues, lastId, work>>
    BY <1>2 DEF locAPIStartTracking
  <2> QED BY <1>1, <2>1, TrackSame
<1>3. CASE ~tracking
  <2>1. PICK i : i = Tracker(far)
    OBVIOUS
  <2>2. PICK s : s = NewSession(i)
    OBVIOUS
  <2>3. /\ Start(i, "fix", "start") /\ queues' = ResetTo("tracking", s, Req("start", s))
        /\ lastId' # queues["ni"].s /\ ~UnderWay(lastId')
    BY <1>3, <2>1, <2>2 DEF locAPIStartTracking
  <2>4. /\ queues'["tracking"].s = s /\ queues'["tracking"].reqs = <<Req("start", s)>>
        /\ queues'["ni"] = queues["ni"]
    BY <1>1, <2>3, QueueReset, ResetQueue DEF ClientQueues
  <2>5. Sequence(<<Req("start", s)>>)
    BY OneRequest
  <2>6. CASE i = NoClient
    <3>1. s = 0 /\ lastId' = lastId /\ work' = work
      <4>1. lastId \in Nat
        BY DEF TrackAsked
      <4> QED BY <2>2, <2>3, <2>6, <4>1 DEF Start, NewSession
    <3>2. \A j \in Interfaces : ~Hot(work[j], live[j], 0)
      <4> SUFFICES ASSUME NEW j \in Interfaces, Hot(work[j], live[j], 0) PROVE FALSE
        OBVIOUS
      <4>1. 0 \in 2..lastId /\ lastId \in Nat
        BY HotIs DEF TrackAsked
      <4> QED BY <4>1
    <3> QED BY <1>1, <2>4, <2>5, <3>1, <3>2 DEF TrackAsked, Tracked
  <2>7. CASE i # NoClient
    <3>1. i \in Interfaces
      BY <2>1, <2>7 DEF Tracker, Interfaces
    <3>2. s = lastId + 1 /\ lastId' = s /\ work' = Post(i, Msg("start", s, "fix", Req("start", s)))
      BY <2>2, <2>3, <2>7 DEF Start, NewSession
    <3>3. PICK m : m = Msg("start", s, "fix", Req("start", s))
      OBVIOUS
    <3>4. \A j \in Interfaces : work'[j] = IF j = i THEN Append(work[j], m) ELSE work[j]
      BY <1>1, <3>1, <3>2, <3>3 DEF Post, ApiOK
    <3>5. lastId \in Nat \ {0} /\ \A j \in Interfaces : Fixes(work[j], live[j], lastId)
      BY DEF TrackAsked
    <3>6. \A j \in Interfaces : ~About(work[j], lastId + 1)
      BY <1>1, <2>3, <3>2, NotUnderWay
    <3>7. \A j \in Interfaces : Fixes(work[j], live[j], s) /\ ~Hot(work[j], live[j], s)
      BY <3>2, <3>5, <3>6, FixesLater
    <3>8. Fixes(Append(work[i], m), live[i], s) /\ Match(<<Req("start", s)>>, Append(work[i], m), {s})
      BY <3>1, <3>2, <3>3, <3>5, <3>6, FixesStart
    <3>9. \A j \in Interfaces : Fixes(work'[j], live'[j], s)
      BY <1>1, <3>4, <3>7, <3>8
    <3>10. \A j \in Interfaces : Hot(work'[j], live'[j], s) => j = i
      BY <1>1, <3>4, <3>7
    <3>11. /\ s \in 2..s /\ s \in Nat \ {0}
           /\ \A x : x \notin 2..lastId /\ x # s => x \notin 2..s
      BY <3>2, <3>5
    <3>12. Notices(queues'["ni"], s)
      <4>1. Notices(queues["ni"], lastId)
        BY DEF TrackAsked
      <4> QED BY <2>3, <2>4, <3>2, <3>11, <4>1 DEF Notices
    <3>13. dict' = EmptyDict
      BY <1>1 DEF TrackAsked
    <3>14. \A j \in Interfaces : Tracked(j)' =>
             /\ Match(queues'["tracking"].reqs, work'[j], {queues'["tracking"].s})
             /\ \A k \in Interfaces : Tracked(k)' => k = j
      BY <2>4, <3>1, <3>4, <3>8, <3>10, SMTT(30) DEF Tracked
    <3> QED BY <2>4, <2>5, <3>2, <3>9, <3>11, <3>12, <3>13, <3>14 DEF TrackAsked
  <2> QED BY <2>6, <2>7
<1> QED BY <1>2, <1>3

\* stop, update: every interface that may run the session is told
LEMMA ToldAsks ==
  ASSUME ClientOK, TrackAsked, Stopping, NEW op \in {"stop", "update"},
         NEW s, s = queues["tracking"].s, s > 0, UNCHANGED <<dict, lastId, live>>,
         queues' = Pushed("tracking", Req(op, s)),
         work' = PostAll(Trackers, Msg(op, s, "fix", Req(op, s)))
  PROVE  TrackAsked'
<1>1. QueuesOK /\ lastId \in Nat \ {0} /\ s \in 2..lastId /\ s \in Nat /\ Notices(queues["ni"], lastId)
  BY DEF ClientOK, TrackAsked
<1>2. PICK m : m = Msg(op, s, "fix", Req(op, s))
  OBVIOUS
<1>3. m.op = op /\ m.s = s /\ m.mode = "fix" /\ m.req = Req(op, s) /\ m.req # NoClient
  <2>1. Req(op, s) # NoClient
    BY <1>1, RequestsAre
  <2> QED BY <1>2, <2>1 DEF Msg
<1>4. FixCall(m, lastId) /\ m.op # "start" /\ Awaits(m, {s})
  BY <1>1, <1>3 DEF FixCall, Awaits
<1>5. \A i \in Interfaces : work'[i] = IF i \in Trackers THEN Append(work[i], m) ELSE work[i]
  BY <1>2 DEF PostAll
<1>6. \A i \in Interfaces : Tracked(i) => i \in Trackers
  <2> SUFFICES ASSUME NEW i \in Interfaces, Tracked(i) PROVE i \in Trackers
    OBVIOUS
  <2>1. work[i] # <<>> \/ live[i] # <<>>
    BY HotIs DEF Tracked, TrackAsked
  <2> QED BY <2>1 DEF Stopping, Trackers
<1>7. PICK rs : rs = Append(queues["tracking"].reqs, Req(op, s))
  OBVIOUS
<1>8. queues' = [queues EXCEPT !["tracking"].reqs = rs]
  BY <1>7 DEF Pushed
<1>9. /\ queues'["tracking"].s = s /\ queues'["tracking"].reqs = rs
      /\ queues'["ni"] = queues["ni"]
  BY <1>1, <1>8, QueueReqs DEF ClientQueues
<1> QED BY <1>1, <1>3, <1>4, <1>5, <1>6, <1>7, <1>9, TrackPosts, ZenonT(40)

LEMMA TrackingCallAsks ==
  ASSUME ClientOK, TrackAsked, Stopping, TrackingCall, ~astray'
  PROVE  TrackAsked'
<1>1. ApiOK /\ QueuesOK /\ Notices(queues["ni"], lastId)
  BY DEF ClientOK, TrackAsked
<1>2. CASE locAPIStopTracking
  <2>1. PICK s : s = queues["tracking"].s
    OBVIOUS
  <2>2. /\ UNCHANGED <<lastId, dict, live>>
        /\ IF s > 0 THEN /\ queues' = Pushed("tracking", Req("stop", s))
                         /\ stopTracking(s, Req("stop", s))
           ELSE UNCHANGED <<queues, work>>
    BY <1>2, <2>1 DEF locAPIStopTracking, CallFrame
  <2> QED BY <2>1, <2>2, ToldAsks, TrackSame DEF stopTracking
<1>3. CASE locAPIUpdateTrackingOptions
  <2>1. PICK s : s = queues["tracking"].s
    OBVIOUS
  <2>2. /\ UNCHANGED <<lastId, dict, live>>
        /\ IF s > 0 THEN /\ queues' = Pushed("tracking", Req("update", s))
                         /\ updateTrackingOptions(s, Req("update", s))
           ELSE UNCHANGED <<queues, work>>
    BY <1>3, <2>1 DEF locAPIUpdateTrackingOptions, CallFrame
  <2> QED BY <2>1, <2>2, ToldAsks, TrackSame DEF updateTrackingOptions
<1>4. ASSUME NEW id \in setup.ni, locAPIGnssNiResponse(id) PROVE TrackAsked'
  <2>1. id \in Nat \ {0}
    BY <1>1, SetupsAssumption DEF SetupsAssumption, ApiOK
  <2>2. PICK m : m = Msg("ni", id, "fix", Req("ni", id))
    OBVIOUS
  <2>3. /\ UNCHANGED <<lastId, dict, live>> /\ id \notin 2..lastId
        /\ queues' = ResetTo("ni", id, Req("ni", id))
        /\ work' = IF Loaded("gnss") THEN Post("gnss", m) ELSE work
    BY <1>4, <2>2 DEF locAPIGnssNiResponse, gnssNiResponse, CallOne, CallFrame
  <2>4. m.op = "ni" /\ m.s = id /\ m.req = Req("ni", id)
    BY <2>2 DEF Msg
  <2>5. FixCall(m, lastId)
    BY <2>1, <2>3, <2>4 DEF FixCall
  <2>6. \A i \in Interfaces : work'[i] = work[i] \/ work'[i] = Append(work[i], m)
    BY <1>1, <2>3 DEF Post, ApiOK, Interfaces
  <2>7. /\ queues'["ni"].s = id /\ queues'["ni"].reqs = <<Req("ni", id)>>
        /\ queues'["tracking"] = queues["tracking"]
    BY <1>1, <2>3, QueueReset, ResetQueue DEF ClientQueues
  <2>8. Notices(queues'["ni"], lastId)
    <3>1. PICK r : r = Req("ni", id)
      OBVIOUS
    <3>2. Sequence(<<r>>) /\ \A k \in 1..Len(<<r>>) : <<r>>[k] = r
      BY OneRequest
    <3> QED BY <2>3, <2>7, <3>1, <3>2 DEF Notices
  <2>9. ~Awaits(m, {queues["tracking"].s})
    <3>1. queues["tracking"].s # id
      BY <2>1, <2>3 DEF TrackAsked
    <3> QED BY <2>4, <3>1 DEF Awaits
  <2>10. m.op # "start"
    BY <2>4
  <2> QED BY <2>3, <2>5, <2>6, <2>7, <2>8, <2>9, <2>10, TrackPosts
<1> QED BY <1>2, <1>3, <1>4, StartTrackingAsks DEF TrackingCall

LEMMA CallbacksTrack ==
  ASSUME ClientOK, TrackAsked, NEW c, locAPISetCallbacks(c) PROVE TrackAsked'
<1>1. PICK m : m = Msg("add", 0, c, NoClient)
  OBVIOUS
<1>2. PICK is : is = {i \in Wanted(c) : loaded'[i] = "yes"}
  OBVIOUS
<1>3. /\ UNCHANGED <<lastId, live, queues, dict>> /\ work' = PostAll(is, m)
  BY <1>1, <1>2 DEF locAPISetCallbacks, createInstance, updateCallbacks, AddClient, clientVars
<1>4. m.op = "add" /\ m.s = 0 /\ m.req = NoClient
  BY <1>1 DEF Msg
<1>5. FixCall(m, lastId) /\ m.op # "start" /\ ~Awaits(m, {queues["tracking"].s})
  BY <1>4 DEF FixCall, Awaits
<1>6. \A i \in Interfaces : work'[i] = work[i] \/ work'[i] = Append(work[i], m)
  BY <1>3 DEF PostAll
<1>7. Notices(queues["ni"], lastId)
  BY DEF TrackAsked
<1> QED BY <1>3, <1>5, <1>6, <1>7, TrackPosts
\* what serving a call leaves of the sessions
LEMMA FixServed ==
  ASSUME NEW i, NEW m, NEW n, FixCall(m, n), NEW r \in Results(i, m),
         \A s \in DOMAIN live[i] : live[i][s] = "fix"
  PROVE  /\ \A s \in DOMAIN r.live : /\ s \in DOMAIN live[i] \/ (m.op = "start" /\ s = m.s)
                                     /\ r.live[s] = "fix"
         /\ r.told => \/ m.op = "ni"
                      \/ m.op \in {"start", "stop", "update"} /\ (m.op = "start" \/ m.s \in DOMAIN live[i])
<1>1. PICK lv : lv = live[i]
  OBVIOUS
<1>2. m.op \in {"add", "ni", "start", "stop", "update"} /\ (m.op \in {"start", "update"} => m.mode = "fix")
  BY DEF FixCall
<1>3. CASE r.live = lv
  <2>1. r.told => m.op \in {"ni", "start"} \/ (m.op \in {"stop", "update"} /\ m.s \in DOMAIN lv)
    BY <1>1, <1>2, ResultKinds DEF Result
  <2> QED BY <1>1, <1>3, <2>1
<1>4. CASE m.op = "start" /\ r = Result(With(lv, m.s, m.mode), TRUE, TRUE)
  <2>1. r.live = With(lv, m.s, "fix")
    BY <1>2, <1>4 DEF Result
  <2> QED BY <1>1, <1>4, <2>1 DEF With
<1>5. CASE m.op = "stop" /\ m.s \in DOMAIN lv /\ r = Result(Without(lv, m.s), TRUE, TRUE)
  <2>1. r.live = Without(lv, m.s)
    BY <1>5 DEF Result
  <2> QED BY <1>1, <1>5, <2>1 DEF Without
<1>6. CASE m.op = "update" /\ m.s \in DOMAIN lv /\ r = Result([lv EXCEPT ![m.s] = m.mode], TRUE, TRUE)
  <2>1. r.live = [lv EXCEPT ![m.s] = "fix"]
    BY <1>2, <1>6 DEF Result
  <2> QED BY <1>1, <1>6, <2>1
<1>7. r.live = lv \/ (m.op = "start" /\ r = Result(With(lv, m.s, m.mode), TRUE, TRUE))
      \/ (m.op = "stop" /\ m.s \in DOMAIN lv /\ r = Result(Without(lv, m.s), TRUE, TRUE))
      \/ (m.op = "update" /\ m.s \in DOMAIN lv /\ r = Result([lv EXCEPT ![m.s] = m.mode], TRUE, TRUE))
  BY <1>1, <1>2, ResultKinds DEF Result
<1> QED BY <1>3, <1>4, <1>5, <1>6, <1>7

\* which queue an answer takes its request from
LEMMA TrackSource ==
  ASSUME TrackAsked, NEW s, s # 0
  PROVE  /\ s = queues["tracking"].s /\ queues["tracking"].reqs # <<>> => SourceOf(s) = "tracking"
         /\ s \in 2..lastId /\ s # queues["tracking"].s => SourceOf(s) = NoClient
         /\ s \notin 2..lastId =>
              \/ SourceOf(s) = NoClient
              \/ SourceOf(s) = "ni" /\ s = queues["ni"].s /\ queues["ni"].reqs # <<>>
<1>1. "tracking" # NoClient /\ "ni" # NoClient
  BY NoClientAssumption DEF NoClientAssumption
<1>2. ~HasSession(dict, s)
  BY DEF TrackAsked, HasSession, EmptyDict
<1>3. queues["ni"].s \notin 2..lastId /\ queues["tracking"].s \in {0} \union 2..lastId
  BY DEF TrackAsked, Notices
<1> QED BY <1>1, <1>2, <1>3 DEF SourceOf, Holder, Holds

\* one request less in the queue, or none
LEMMA TrackTakes ==
  ASSUME ClientOK, TrackAsked, cbs # NoClient, NEW i \in Interfaces, work[i] # <<>>,
         NEW m, m = work[i][1], NEW r \in Results(i, m), TakeRequest(i, m, r),
         \A j \in Interfaces : answer[j] # NoClient => answer[j].req = answer[j].call
  PROVE  /\ \A j \in Interfaces : answer'[j] # NoClient => answer'[j].req = answer'[j].call
         /\ queues'["tracking"].s = queues["tracking"].s /\ Notices(queues'["ni"], lastId)
         /\ \/ /\ queues'["tracking"] = queues["tracking"]
               /\ \/ ~Awaits(m, {queues["tracking"].s})
                  \/ m.s = queues["tracking"].s /\ m.s \notin DOMAIN live[i] /\ m.op # "start"
            \/ /\ Tracked(i) /\ Awaits(m, {queues["tracking"].s}) /\ queues["tracking"].reqs # <<>>
               /\ queues'["tracking"].reqs = Tail(queues["tracking"].reqs)
<1>1. PICK x : x = queues["tracking"].s
  OBVIOUS
<1>2. PICK rs : rs = queues["tracking"].reqs
  OBVIOUS
<1>3. PICK w : w = work[i]
  OBVIOUS
<1>4. /\ QueuesOK /\ answer = [j \in Interfaces |-> answer[j]]
      /\ lastId \in Nat \ {0} /\ x \in {0} \union 2..lastId /\ Sequence(rs)
      /\ Notices(queues["ni"], lastId)
      /\ Sequence(w) /\ w # <<>> /\ \A k \in 1..Len(w) : FixCall(w[k], lastId)
      /\ \A s \in DOMAIN live[i] : live[i][s] = "fix"
      /\ Tracked(i) => Match(rs, w, {x})
  BY <1>1, <1>2, <1>3 DEF ClientOK, TrackAsked, Fixes
<1>5. Len(w) \in Nat \ {0} /\ 1 \in 1..Len(w)
  BY <1>4, Shrunk
<1>6. FixCall(m, lastId)
  BY <1>3, <1>4, <1>5
<1>7. r.told => \/ m.op = "ni"
                \/ m.op \in {"start", "stop", "update"} /\ (m.op = "start" \/ m.s \in DOMAIN live[i])
  BY <1>4, <1>6, FixServed
<1>8. /\ m.op = "ni" => m.s \in Nat \ {0} /\ m.s \notin 2..lastId /\ m.req = Req("ni", m.s)
      /\ m.op \in {"start", "stop", "update"} => m.s \in 2..lastId /\ m.s # 0
                                                 /\ m.req = Req(m.op, m.s) /\ m.req # NoClient
      /\ m.op = "add" => m.req = NoClient
      /\ m.op \in {"add", "ni", "start", "stop", "update"}
  <2>1. \A s \in 2..lastId : s \in Nat /\ s # 0
    BY <1>4
  <2> QED BY <1>6, <2>1, RequestsAre DEF FixCall
<1>9. /\ r.told /\ SourceOf(m.s) # NoClient =>
           /\ answer' = [answer EXCEPT ![i] = [req |-> Head(queues[SourceOf(m.s)].reqs), call |-> m.req,
                                               s |-> m.s, ok |-> r.ok]]
           /\ queues' = [queues EXCEPT ![SourceOf(m.s)].reqs = Tail(queues[SourceOf(m.s)].reqs)]
      /\ ~(r.told /\ SourceOf(m.s) # NoClient) => UNCHANGED <<answer, queues>>
  BY DEF TakeRequest
<1>10. ASSUME UNCHANGED <<answer, queues>>,
              \/ ~Awaits(m, {x})
              \/ m.s = x /\ m.s \notin DOMAIN live[i] /\ m.op # "start"
       PROVE  /\ \A j \in Interfaces : answer'[j] # NoClient => answer'[j].req = answer'[j].call
              /\ queues'["tracking"].s = x /\ Notices(queues'["ni"], lastId)
              /\ queues'["tracking"] = queues["tracking"]
  BY <1>1, <1>4, <1>10
<1>11. ASSUME NEW q \in ClientQueues, NEW rq, queues' = [queues EXCEPT ![q].reqs = rq],
              NEW a, answer' = [answer EXCEPT ![i] = a], a.req = a.call
       PROVE  /\ \A j \in Interfaces : answer'[j] # NoClient => answer'[j].req = answer'[j].call
              /\ queues'[q].reqs = rq /\ queues'[q].s = queues[q].s
              /\ \A y \in ClientQueues \ {q} : queues'[y] = queues[y]
  <2>1. \A j \in Interfaces : answer'[j] = a \/ answer'[j] = answer[j]
    BY <1>4, <1>11
  <2> QED BY <1>4, <1>11, <2>1, QueueReqs
<1>12. CASE m.op = "add"
  <2>1. ~r.told /\ ~Awaits(m, {x})
    BY <1>7, <1>8, <1>12 DEF Awaits
  <2> QED BY <1>1, <1>9, <1>10, <2>1
<1>13. CASE m.op = "ni"
  <2>1. m.s # x /\ ~Awaits(m, {x})
    BY <1>4, <1>8, <1>13 DEF Awaits
  <2>2. CASE SourceOf(m.s) = NoClient \/ ~r.told
    BY <1>1, <1>9, <1>10, <2>1, <2>2
  <2>3. CASE SourceOf(m.s) # NoClient /\ r.told
    <3>1. SourceOf(m.s) = "ni" /\ m.s = queues["ni"].s /\ queues["ni"].reqs # <<>>
      BY <1>8, <1>13, <2>3, TrackSource
    <3>2. PICK ns : ns = queues["ni"].reqs
      OBVIOUS
    <3>3. /\ queues["ni"].s \notin 2..lastId /\ Sequence(ns) /\ ns # <<>>
          /\ \A k \in 1..Len(ns) : ns[k] = m.req
      BY <1>4, <1>8, <1>13, <3>1, <3>2 DEF Notices
    <3>4. PICK nt : nt = Tail(ns)
      OBVIOUS
    <3>5. /\ Sequence(nt) /\ \A k \in 1..Len(nt) : nt[k] = m.req
          /\ Head(ns) = m.req
      <4>1. /\ Sequence(nt) /\ Len(ns) \in Nat \ {0} /\ Len(nt) = Len(ns) - 1
            /\ \A k \in 1..Len(ns) - 1 : nt[k] = ns[k + 1]
            /\ Head(ns) = ns[1]
        BY <3>3, <3>4, Shrunk
      <4>2. 1 \in 1..Len(ns) /\ \A k \in 1..Len(nt) : k + 1 \in 1..Len(ns) /\ k \in 1..Len(ns) - 1
        BY <4>1
      <4> QED BY <3>3, <4>1, <4>2
    <3>6. PICK a : a = [req |-> m.req, call |-> m.req, s |-> m.s, ok |-> r.ok]
      OBVIOUS
    <3>7. answer' = [answer EXCEPT ![i] = a] /\ queues' = [queues EXCEPT !["ni"].reqs = nt]
      BY <1>9, <2>3, <3>1, <3>2, <3>4, <3>5, <3>6
    <3>8. a.req = a.call
      BY <3>6
    <3>9. /\ \A j \in Interfaces : answer'[j] # NoClient => answer'[j].req = answer'[j].call
          /\ queues'["ni"].reqs = nt /\ queues'["ni"].s = queues["ni"].s
          /\ queues'["tracking"] = queues["tracking"]
      BY <1>11, <3>7, <3>8 DEF ClientQueues
    <3>10. Notices(queues'["ni"], lastId)
      BY <1>8, <1>13, <3>1, <3>3, <3>5, <3>9 DEF Notices
    <3> QED BY <1>1, <2>1, <3>9, <3>10
  <2> QED BY <2>2, <2>3
<1>14. CASE m.op \in {"start", "stop", "update"} /\ m.s # x
  <2>1. ~Awaits(m, {x}) /\ SourceOf(m.s) = NoClient
    BY <1>1, <1>8, <1>14, TrackSource DEF Awaits
  <2> QED BY <1>1, <1>9, <1>10, <2>1
<1>15. CASE m.op \in {"start", "stop", "update"} /\ m.s = x /\ ~(m.op = "start" \/ m.s \in DOMAIN live[i])
  <2>1. ~r.told
    BY <1>7, <1>15
  <2> QED BY <1>1, <1>9, <1>10, <1>15, <2>1
<1>16. CASE m.op \in {"start", "stop", "update"} /\ m.s = x /\ (m.op = "start" \/ m.s \in DOMAIN live[i])
  <2>1. Tracked(i)
    BY <1>1, <1>3, <1>5, <1>16 DEF Tracked, Hot
  <2>2. Awaits(m, {x})
    BY <1>8, <1>16 DEF Awaits
  <2>3. rs # <<>> /\ rs[1] = m.req
    BY <1>3, <1>4, <2>1, <2>2, MatchServe
  <2>4. Head(rs) = m.req
    BY <1>4, <2>3, Shrunk
  <2>5. SourceOf(m.s) = "tracking"
    BY <1>1, <1>2, <1>8, <1>16, <2>3, TrackSource
  <2>6. "tracking" # NoClient
    BY NoClientAssumption DEF NoClientAssumption
  <2>7. r.told
    BY <1>16, ResultKinds DEF Result
  <2>8. PICK a : a = [req |-> m.req, call |-> m.req, s |-> m.s, ok |-> r.ok]
    OBVIOUS
  <2>9. PICK rq : rq = Tail(rs)
    OBVIOUS
  <2>10. answer' = [answer EXCEPT ![i] = a] /\ queues' = [queues EXCEPT !["tracking"].reqs = rq]
    BY <1>2, <1>9, <2>4, <2>5, <2>6, <2>7, <2>8, <2>9
  <2>11. a.req = a.call
    BY <2>8
  <2>12. /\ \A j \in Interfaces : answer'[j] # NoClient => answer'[j].req = answer'[j].call
         /\ queues'["tracking"].reqs = rq /\ queues'["tracking"].s = x
         /\ queues'["ni"] = queues["ni"]
    BY <1>1, <1>11, <2>10, <2>11 DEF ClientQueues
  <2> QED BY <1>1, <1>2, <1>4, <2>1, <2>2, <2>3, <2>9, <2>12
<1> QED BY <1>8, <1>12, <1>13, <1>14, <1>15, <1>16

LEMMA TrackAnswers ==
  ASSUME ClientOK, TrackAsked, cbs # NoClient, NEW i \in Interfaces, Answer(i),
         \A j \in Interfaces : answer[j] # NoClient => answer[j].req = answer[j].call
  PROVE  /\ TrackAsked'
         /\ \A j \in Interfaces : answer'[j] # NoClient => answer'[j].req = answer'[j].call
<1>1. PICK x : x = queues["tracking"].s
  OBVIOUS
<1>2. PICK rs : rs = queues["tracking"].reqs
  OBVIOUS
<1>3. PICK w : w = work[i]
  OBVIOUS
<1>4. PICK m : m = w[1]
  OBVIOUS
<1>5. PICK v : v = Tail(w)
  OBVIOUS
<1>6. ApiOK
  BY DEF ClientOK
<1>7. /\ w # <<>> /\ work' = [work EXCEPT ![i] = v]
      /\ UNCHANGED <<lastId, dict>>
      /\ \E r \in Results(i, m) : live' = [live EXCEPT ![i] = r.live] /\ TakeRequest(i, m, r)
  BY <1>3, <1>4, <1>5, <1>6, AnswerParts
<1>8. PICK r \in Results(i, m) : live' = [live EXCEPT ![i] = r.live] /\ TakeRequest(i, m, r)
  BY <1>7
<1>9. PICK l : l = r.live
  OBVIOUS
<1>10. /\ work'[i] = v /\ live'[i] = l
       /\ \A j \in Interfaces : j # i => work'[j] = work[j] /\ live'[j] = live[j]
  BY <1>6, <1>7, <1>8, <1>9 DEF ApiOK
<1>11. /\ dict = EmptyDict /\ lastId \in Nat \ {0} /\ x \in {0} \union 2..lastId /\ Sequence(rs)
       /\ \A j \in Interfaces : Fixes(work[j], live[j], lastId)
       /\ \A j \in Interfaces : Tracked(j) =>
            /\ Match(rs, work[j], {x})
            /\ \A k \in Interfaces : Tracked(k) => k = j
  BY <1>1, <1>2 DEF TrackAsked
<1>12. /\ Fixes(w, live[i], lastId) /\ Sequence(w) /\ \A s \in DOMAIN live[i] : live[i][s] = "fix"
       /\ \A k \in 1..Len(w) : FixCall(w[k], lastId)
  BY <1>3, <1>11 DEF Fixes
<1>13. FixCall(m, lastId)
  <2>1. Len(w) \in Nat \ {0} /\ 1 \in 1..Len(w)
    BY <1>7, <1>12, Shrunk
  <2> QED BY <1>4, <1>12, <2>1
<1>14. \A s \in DOMAIN l : /\ s \in DOMAIN live[i] \/ (m.op = "start" /\ s = m.s)
                           /\ l[s] = "fix"
  BY <1>9, <1>12, <1>13, FixServed
<1>15. /\ Fixes(v, l, lastId)
       /\ \A s : Hot(v, l, s) => /\ Hot(w, live[i], s)
                                 /\ m.s = s => s \in DOMAIN live[i] \/ m.op = "start"
  BY <1>4, <1>5, <1>7, <1>12, <1>14, FixesServe
<1>16. /\ \A j \in Interfaces : answer'[j] # NoClient => answer'[j].req = answer'[j].call
       /\ queues'["tracking"].s = x /\ Notices(queues'["ni"], lastId)
       /\ \/ /\ queues'["tracking"] = queues["tracking"]
             /\ \/ ~Awaits(m, {x})
                \/ m.s = x /\ m.s \notin DOMAIN live[i] /\ m.op # "start"
          \/ /\ Tracked(i) /\ Awaits(m, {x}) /\ rs # <<>>
             /\ queues'["tracking"].reqs = Tail(rs)
  BY <1>1, <1>2, <1>3, <1>4, <1>7, <1>8, TrackTakes
<1>17. \A j \in Interfaces : Hot(work'[j], live'[j], x) => Tracked(j)
  BY <1>1, <1>3, <1>10, <1>15 DEF Tracked
<1>18. PICK rq : rq = queues'["tracking"].reqs
  OBVIOUS
<1>19. Sequence(rq)
  <2>1. rs # <<>> => Sequence(Tail(rs))
    BY <1>11, Shrunk
  <2> QED BY <1>2, <1>11, <1>16, <1>18, <2>1
<1>20. ASSUME NEW j \in Interfaces, Hot(work'[j], live'[j], x) PROVE Match(rq, work'[j], {x})
  <2>1. Tracked(j) /\ Match(rs, work[j], {x}) /\ \A k \in Interfaces : Tracked(k) => k = j
    BY <1>11, <1>17, <1>20
  <2>2. CASE j # i
    <3>1. rq = rs
      BY <1>2, <1>16, <1>18, <2>1, <2>2
    <3> QED BY <1>10, <2>1, <2>2, <3>1
  <2>3. CASE j = i
    <3>1. /\ Awaits(m, {x}) => Match(Tail(rs), v, {x})
          /\ ~Awaits(m, {x}) => Match(rs, v, {x})
      BY <1>3, <1>4, <1>5, <1>7, <1>11, <1>12, <2>1, <2>3, MatchServe
    <3>2. m.s = x => x \in DOMAIN live[i] \/ m.op = "start"
      BY <1>10, <1>15, <1>20, <2>3
    <3> QED BY <1>2, <1>10, <1>16, <1>18, <2>3, <3>1, <3>2
  <2> QED BY <2>2, <2>3
<1>21. \A j \in Interfaces : Fixes(work'[j], live'[j], lastId)
  BY <1>10, <1>11, <1>15
<1>22. \A j \in Interfaces : Tracked(j)' =>
         /\ Match(queues'["tracking"].reqs, work'[j], {queues'["tracking"].s})
         /\ \A k \in Interfaces : Tracked(k)' => k = j
  BY <1>11, <1>16, <1>17, <1>18, <1>20 DEF Tracked
<1> QED BY <1>7, <1>11, <1>16, <1>18, <1>19, <1>21, <1>22 DEF TrackAsked

LEMMA TrackResponse ==
  ASSUME TrackAsked, NEW i \in Interfaces, onResponse(i) PROVE TrackAsked'
<1>1. ~HasSession(dict, answer[i].s)
  BY DEF TrackAsked, HasSession, EmptyDict
<1>2. UNCHANGED <<dict, lastId, live, work, queues>>
  BY <1>1 DEF onResponse, apiVars
<1> QED BY <1>2, TrackSame

LEMMA TrackTrip == ASSUME TrackAsked, NEW s, TripCompleted(s) PROVE FALSE
<1>1. Fixes(work["flp"], live["flp"], lastId)
  BY DEF TrackAsked, Interfaces
<1> QED BY <1>1 DEF TripCompleted, TripOver, Fixes

LEMMA TrackInitial == ASSUME ClientInit PROVE TrackAsked
<1>1. /\ dict = EmptyDict /\ lastId = 1
      /\ queues = [q \in {"tracking", "session", "ni"} |-> [s |-> 0, reqs |-> <<>>]]
      /\ \A i \in Interfaces : work[i] = <<>> /\ live[i] = <<>>
  BY DEF ClientInit, ApiInit
<1>2. /\ queues["tracking"].s = 0 /\ queues["tracking"].reqs = <<>>
      /\ queues["ni"].s = 0 /\ queues["ni"].reqs = <<>>
  BY <1>1
<1>3. Sequence(<<>>) /\ Len(<<>>) = 0 /\ DOMAIN <<>> = {}
  BY EmptySeq DEF Sequence
<1>4. \A k : k \notin 1..Len(<<>>)
  BY <1>3
<1>5. 0 \notin 2..1 /\ 1 \in Nat \ {0}
  OBVIOUS
<1>6. Notices(queues["ni"], lastId)
  BY <1>1, <1>2, <1>3, <1>4, <1>5 DEF Notices
<1>7. \A i \in Interfaces : Fixes(work[i], live[i], lastId) /\ ~Tracked(i)
  BY <1>1, <1>3, <1>4 DEF Fixes, Tracked, Hot
<1> QED BY <1>1, <1>2, <1>3, <1>5, <1>6, <1>7 DEF TrackAsked
-----------------------------------------------------------------------------
(* Every step of a client, whatever its kind.                                 *)
LEMMA QueuesKept ==
  ASSUME QueuesOK,
         \/ queues' = queues
         \/ \E q \in ClientQueues : \E r : queues' = Pushed(q, r)
         \/ \E q \in ClientQueues : \E s, r : queues' = ResetTo(q, s, r)
  PROVE  QueuesOK'
<1>1. CASE queues' = queues
  BY <1>1 DEF QueuesOK
<1>2. ASSUME NEW q \in ClientQueues, NEW r, queues' = Pushed(q, r) PROVE QueuesOK'
  <2>1. PICK rs : rs = Append(queues[q].reqs, r)
    OBVIOUS
  <2>2. queues' = [queues EXCEPT ![q].reqs = rs]
    BY <1>2, <2>1 DEF Pushed
  <2> QED BY <2>2, PushedQueue
<1> QED BY <1>1, <1>2, ResetQueue

LEMMA TrackingCallKeeps ==
  ASSUME TrackingCall
  PROVE  /\ Call /\ UNCHANGED answer /\ (astray => astray')
         /\ \/ queues' = queues
            \/ \E q \in ClientQueues : \E r : queues' = Pushed(q, r)
            \/ \E q \in ClientQueues : \E s, r : queues' = ResetTo(q, s, r)
<1> "tracking" \in ClientQueues /\ "ni" \in ClientQueues
  BY DEF ClientQueues
<1>1. Call /\ CallFrame
  BY Zenon DEF TrackingCall, locAPIStartTracking, locAPIStopTracking,
               locAPIUpdateTrackingOptions, locAPIGnssNiResponse
<1>2. astray => astray'
  BY Zenon DEF TrackingCall, locAPIStartTracking, locAPIStopTracking,
               locAPIUpdateTrackingOptions, locAPIGnssNiResponse
<1>3. \/ queues' = queues
      \/ \E q \in ClientQueues : \E r : queues' = Pushed(q, r)
      \/ \E q \in ClientQueues : \E s, r : queues' = ResetTo(q, s, r)
  <2>1. ASSUME NEW far, locAPIStartTracking(far)
        PROVE  queues' = queues \/ \E s, r : queues' = ResetTo("tracking", s, r)
    BY <2>1, Zenon DEF locAPIStartTracking
  <2>2. CASE locAPIStopTracking
    BY <2>2, Zenon DEF locAPIStopTracking
  <2>3. CASE locAPIUpdateTrackingOptions
    BY <2>3, Zenon DEF locAPIUpdateTrackingOptions
  <2>4. ASSUME NEW id, locAPIGnssNiResponse(id)
        PROVE  \E s, r : queues' = ResetTo("ni", s, r)
    BY <2>4, Zenon DEF locAPIGnssNiResponse
  <2> QED BY <2>1, <2>2, <2>3, <2>4, Zenon DEF TrackingCall
<1> QED BY <1>1, <1>2, <1>3 DEF CallFrame

LEMMA SessionCallKeeps ==
  ASSUME SessionCall
  PROVE  /\ Call /\ UNCHANGED answer /\ (astray => astray')
         /\ \/ queues' = queues
            \/ \E q \in ClientQueues : \E r : queues' = Pushed(q, r)
<1> "session" \in ClientQueues
  BY DEF ClientQueues
<1>1. Call /\ CallFrame
  BY Zenon DEF SessionCall, locAPIStartSession, locAPIStopSession,
               locAPIUpdateSessionOptions, locAPIGetBatchedLocations
<1>2. ASSUME NEW id, NEW mode, locAPIStartSession(id, mode)
      PROVE  (astray => astray') /\ (queues' = queues \/ \E r : queues' = Pushed("session", r))
  BY <1>2, Zenon DEF locAPIStartSession, MayStray
<1>3. ASSUME NEW id, locAPIStopSession(id)
      PROVE  (astray => astray') /\ (queues' = queues \/ \E r : queues' = Pushed("session", r))
  BY <1>3, Zenon DEF locAPIStopSession, StopCall, MayStray
<1>4. ASSUME NEW id, NEW mode, locAPIUpdateSessionOptions(id, mode)
      PROVE  (astray => astray') /\ (queues' = queues \/ \E r : queues' = Pushed("session", r))
  <2>1. \/ queues' = queues /\ (astray => astray')
        \/ \E e : Update(id, e, mode)
        \/ \E e : Change(id, e, mode)
    BY <1>4, Zenon DEF locAPIUpdateSessionOptions
  <2>2. ASSUME NEW e, Update(id, e, mode)
        PROVE  (astray => astray') /\ \E r : queues' = Pushed("session", r)
    BY <2>2, Zenon DEF Update, UpdateCall, MayStray
  <2>3. ASSUME NEW e, Change(id, e, mode)
        PROVE  (astray => astray') /\ \E r : queues' = Pushed("session", r)
    BY <2>3, Zenon DEF Change, ChangeCall
  <2> QED BY <2>1, <2>2, <2>3
<1>5. ASSUME NEW id, locAPIGetBatchedLocations(id)
      PROVE  (astray => astray') /\ (queues' = queues \/ \E r : queues' = Pushed("session", r))
  BY <1>5, Zenon DEF locAPIGetBatchedLocations, GetCall, MayStray
<1>6. (astray => astray') /\ (queues' = queues \/ \E r : queues' = Pushed("session", r))
  BY <1>2, <1>3, <1>4, <1>5, Zenon DEF SessionCall
<1> QED BY <1>1, <1>6 DEF CallFrame

\* what an interface that answers leaves of the queues and of the answers
LEMMA AnswerKeeps ==
  ASSUME ClientOK, NEW i \in Interfaces, Answer(i)
  PROVE  /\ QueuesOK' /\ answer' = [j \in Interfaces |-> answer'[j]]
         /\ UNCHANGED <<setup, cbs, calls>> /\ (astray => astray')
         /\ cbs = NoClient => UNCHANGED <<answer, queues>>
<1>1. ApiOK /\ QueuesOK /\ answer = [j \in Interfaces |-> answer[j]]
  BY DEF ClientOK
<1>2. UNCHANGED <<setup, cbs, calls>>
  BY <1>1, AnswerParts
<1>3. PICK m, r : TakeRequest(i, m, r)
  BY DEF Answer
<1>4. astray => astray'
  BY Zenon DEF Answer
<1>5. cbs = NoClient => UNCHANGED <<answer, queues>>
  BY <1>3 DEF TakeRequest
<1>6. \/ UNCHANGED <<answer, queues>>
      \/ \E a : /\ answer' = [answer EXCEPT ![i] = a]
                /\ queues' = [queues EXCEPT ![SourceOf(m.s)].reqs = Tail(@)]
                /\ SourceOf(m.s) # NoClient
  BY <1>3, Zenon DEF TakeRequest
<1>7. CASE UNCHANGED <<answer, queues>>
  BY <1>1, <1>2, <1>4, <1>7 DEF QueuesOK
<1>8. ASSUME NEW a, answer' = [answer EXCEPT ![i] = a],
             queues' = [queues EXCEPT ![SourceOf(m.s)].reqs = Tail(@)], SourceOf(m.s) # NoClient
      PROVE  QueuesOK' /\ answer' = [j \in Interfaces |-> answer'[j]]
  <2>1. SourceOf(m.s) \in ClientQueues
    BY <1>8 DEF SourceOf, Holder, ClientQueues
  <2>2. PICK q \in ClientQueues : q = SourceOf(m.s)
    BY <2>1
  <2>3. PICK rs : rs = Tail(queues[q].reqs)
    OBVIOUS
  <2>4. queues' = [queues EXCEPT ![q].reqs = rs]
    BY <1>8, <2>2, <2>3
  <2> QED BY <1>1, <1>8, <2>4, PushedQueue
<1> QED BY <1>2, <1>4, <1>5, <1>6, <1>7, <1>8

\* a call in the middle of which its session ends
LEMMA OvertakenKeeps ==
  ASSUME ClientOK, NEW id, Overtaken(id)
  PROVE  /\ Call /\ setup' = setup /\ astray' /\ QueuesOK'
         /\ answer' = [j \in Interfaces |-> answer'[j]]
<1>1. ApiOK /\ QueuesOK /\ answer = [j \in Interfaces |-> answer[j]]
  BY DEF ClientOK
<1>2. PICK e : /\ Call /\ setup' = setup /\ astray'
               /\ SessionEnds(dict.fwd[id]) /\ AskedOf(e)
  BY OvertakenAsks, Zenon
<1>3. \E r : queues' = Pushed("session", r)
  BY <1>2, Zenon DEF AskedOf, StopCall, GetCall, UpdateCall, ChangeCall
<1>4. "session" \in ClientQueues
  BY DEF ClientQueues
<1>5. QueuesOK'
  BY <1>1, <1>3, <1>4, QueuesKept
<1>6. answer' = answer \/ \E i \in Interfaces : answer' = [answer EXCEPT ![i] = NoClient]
  BY <1>1, <1>2, EndsFacts
<1>7. answer' = [j \in Interfaces |-> answer'[j]]
  BY <1>1, <1>6
<1> QED BY <1>2, <1>5, <1>7

LEMMA ClientKeeps ==
  ASSUME ClientOK, ApiOK', ClientNext
  PROVE  ClientOK' /\ setup' = setup /\ (astray => astray')
<1>1. /\ setup \in ApiSetups /\ QueuesOK /\ answer = [i \in Interfaces |-> answer[i]]
      /\ calls \in Nat /\ calls <= setup.calls /\ ApiOK
  BY DEF ClientOK, ApiOK
<1>2. setup' = setup /\ setup.calls \in Nat
  BY <1>1, SetupKept, SetupsAssumption DEF SetupsAssumption
<1>3. CASE TrackingCall \/ SessionCall
  <2>1. /\ Call /\ UNCHANGED answer /\ (astray => astray')
        /\ \/ queues' = queues
           \/ \E q \in ClientQueues : \E r : queues' = Pushed(q, r)
           \/ \E q \in ClientQueues : \E s, r : queues' = ResetTo(q, s, r)
    BY <1>3, TrackingCallKeeps, SessionCallKeeps
  <2>2. QueuesOK'
    BY <1>1, <2>1, QueuesKept
  <2>3. calls' \in Nat /\ calls' <= setup.calls
    BY <1>1, <1>2, <2>1 DEF Call
  <2> QED BY <1>1, <1>2, <2>1, <2>2, <2>3 DEF ClientOK
<1>4. ASSUME NEW c, locAPISetCallbacks(c) PROVE ClientOK' /\ (astray => astray')
  <2>1. /\ UNCHANGED <<queues, answer, astray>> /\ calls < setup.calls /\ calls' = calls + 1
    BY <1>4 DEF locAPISetCallbacks, clientVars
  <2>2. calls' \in Nat /\ calls' <= setup.calls
    BY <1>1, <1>2, <2>1
  <2>3. QueuesOK'
    BY <1>1, <2>1 DEF QueuesOK
  <2> QED BY <1>1, <1>2, <2>1, <2>2, <2>3 DEF ClientOK
<1>5. CASE DestroyClient
  <2>1. /\ UNCHANGED <<answer, astray>> /\ calls' = setup.calls
        /\ queues' = [q \in DOMAIN queues |-> [s |-> 0, reqs |-> <<>>]]
    BY <1>5 DEF DestroyClient
  <2>2. queues' = [q \in ClientQueues |-> [s |-> 0, reqs |-> <<>>]]
    BY <1>1, <2>1 DEF QueuesOK
  <2>3. QueuesOK'
    BY <2>2 DEF QueuesOK
  <2> QED BY <1>1, <1>2, <2>1, <2>3 DEF ClientOK
<1>6. ASSUME NEW i \in Interfaces, Answer(i) PROVE ClientOK' /\ (astray => astray')
  <2>1. /\ QueuesOK' /\ answer' = [j \in Interfaces |-> answer'[j]]
        /\ UNCHANGED calls /\ (astray => astray')
    BY <1>6, AnswerKeeps
  <2> QED BY <1>1, <1>2, <2>1 DEF ClientOK
<1>7. ASSUME NEW i \in Interfaces, onResponse(i) PROVE ClientOK' /\ (astray => astray')
  <2>1. /\ UNCHANGED <<queues, calls, astray>> /\ answer' = [answer EXCEPT ![i] = NoClient]
    BY <1>7 DEF onResponse, apiVars
  <2>2. answer' = [j \in Interfaces |-> answer'[j]]
    BY <1>1, <2>1
  <2>3. QueuesOK'
    BY <1>1, <2>1 DEF QueuesOK
  <2> QED BY <1>1, <1>2, <2>1, <2>2, <2>3 DEF ClientOK
<1>8. ASSUME NEW s, TripCompleted(s) PROVE ClientOK' /\ (astray => astray')
  <2>1. UNCHANGED <<queues, calls, answer>>
    BY <1>8 DEF TripCompleted
  <2>2. astray => astray'
    BY <1>8, Zenon DEF TripCompleted, MayStray
  <2>3. QueuesOK'
    BY <1>1, <2>1 DEF QueuesOK
  <2> QED BY <1>1, <1>2, <2>1, <2>2, <2>3 DEF ClientOK
<1>9. ASSUME NEW id, Overtaken(id) PROVE ClientOK' /\ (astray => astray')
  <2>1. Call /\ astray' /\ QueuesOK' /\ answer' = [j \in Interfaces |-> answer'[j]]
    BY <1>9, OvertakenKeeps
  <2>2. calls' \in Nat /\ calls' <= setup.calls
    BY <1>1, <1>2, <2>1 DEF Call
  <2> QED BY <1>1, <1>2, <2>1, <2>2 DEF ClientOK
<1> QED BY <1>2, <1>3, <1>4, <1>5, <1>6, <1>7, <1>8, <1>9 DEF ClientNext

-----------------------------------------------------------------------------
(* A request stays with its call: as long as no call went astray, an answer   *)
(* that runs took the request its call was made for, and the queues, the      *)
(* dictionary and what waits for the interfaces keep in step.                 *)
Own == \A i \in Interfaces : answer[i] # NoClient => answer[i].req = answer[i].call
InStep ==
  /\ Own
  /\ Alive /\ setup.kind = "tracking" => TrackAsked
  /\ Alive /\ setup.kind = "session" => SessionAsked
AskInv == ClientOK /\ (~astray => InStep)

LEMMA AskInit == AllInit => AskInv
<1> SUFFICES ASSUME AllInit PROVE AskInv
  OBVIOUS
<1>1. ClientInit /\ ApiOK
  BY LeaveInit DEF LeaveInv, AllInit
<1>2. /\ setup \in ApiSetups /\ calls = 0 /\ answer = [i \in Interfaces |-> NoClient]
      /\ queues = [q \in ClientQueues |-> [s |-> 0, reqs |-> <<>>]]
  BY <1>1 DEF ClientInit, ApiInit, ClientQueues
<1>3. QueuesOK
  BY <1>2 DEF QueuesOK
<1>4. ClientOK
  BY <1>1, <1>2, <1>3, SetupsAssumption DEF ClientOK, SetupsAssumption
<1>5. Own
  BY <1>2 DEF Own
<1> QED BY <1>1, <1>4, <1>5, TrackInitial, SessionInitial DEF AskInv, InStep

\* steps that leave the client alone
LEMMA AskSame ==
  ASSUME AskInv, ApiOK', UNCHANGED <<setup, loaded, cbs, live, work, clientVars>>,
         calls' = calls \/ (calls < setup.calls /\ calls' = calls + 1),
         (calls' = calls /\ lastId' = lastId) \/ setup.kind \notin {"tracking", "session"}
  PROVE  AskInv'
<1>1. UNCHANGED <<setup, loaded, cbs, live, work, queues, dict, answer, astray>>
  BY DEF clientVars
<1>2. ClientOK'
  <2>1. QueuesOK'
    BY <1>1 DEF AskInv, ClientOK, QueuesOK
  <2>2. calls \in Nat /\ setup.calls \in Nat /\ calls <= setup.calls
    BY SetupsAssumption DEF AskInv, ClientOK, ApiOK, SetupsAssumption
  <2>3. calls' \in Nat /\ calls' <= setup'.calls
    BY <1>1, <2>2
  <2> QED BY <1>1, <2>1, <2>3 DEF AskInv, ClientOK
<1>3. Own => Own'
  BY <1>1 DEF Own
<1>4. CASE setup.kind \notin {"tracking", "session"}
  BY <1>1, <1>2, <1>3, <1>4 DEF AskInv, InStep
<1>5. CASE calls' = calls /\ lastId' = lastId
  <2>1. Alive' <=> Alive
    BY <1>1, <1>5 DEF Alive
  <2>2. TrackAsked => TrackAsked'
    BY <1>1, <1>5, TrackSame
  <2>3. SessionAsked => SessionAsked'
    BY <1>1, <1>5 DEF SessionAsked, Talker, Silent, Loaded
  <2> QED BY <1>1, <1>2, <1>3, <2>1, <2>2, <2>3 DEF AskInv, InStep
<1> QED BY <1>4, <1>5
\* no request of the client was or is going astray, and its calls go on
LEMMA AliveStep ==
  ASSUME AskInv, ApiOK', setup.kind \in {"tracking", "session"}, ClientNext,
         setup.kind = "tracking" => Stopping, ~astray, ~astray', Alive
  PROVE  Own' /\ (Alive' => /\ (setup.kind = "tracking" => TrackAsked')
                            /\ (setup.kind = "session" => SessionAsked'))
<1>1. /\ ClientOK /\ Own /\ ApiOK /\ answer = [j \in Interfaces |-> answer[j]]
      /\ setup.kind = "tracking" => TrackAsked
      /\ setup.kind = "session" => SessionAsked
      /\ \A j \in Interfaces : answer[j] # NoClient => answer[j].req = answer[j].call
  BY DEF AskInv, InStep, ClientOK, Own
<1>2. CASE setup.kind = "tracking" /\ TrackingCall
  BY <1>1, <1>2, TrackingCallAsks, TrackingCallKeeps DEF Own
<1>3. CASE setup.kind = "session" /\ SessionCall
  BY <1>1, <1>3, SessionCallAsks, SessionCallKeeps DEF Own
<1>4. ASSUME NEW c \in setup.cbs, locAPISetCallbacks(c)
      PROVE  Own' /\ (setup.kind = "tracking" => TrackAsked')
                  /\ (setup.kind = "session" => SessionAsked')
  <2>1. answer' = answer
    BY <1>4 DEF locAPISetCallbacks, clientVars
  <2> QED BY <1>1, <1>4, <2>1, CallbacksTrack, CallbacksAsk DEF Own
<1>5. CASE DestroyClient
  <2>1. answer' = answer /\ cbs' = NoClient /\ calls' = setup.calls /\ setup' = setup
    BY <1>5 DEF DestroyClient, Destroy
  <2>2. setup.calls \in Nat
    BY <1>1, SetupsAssumption DEF SetupsAssumption, ApiOK
  <2>3. ~Alive'
    BY <2>1, <2>2 DEF Alive
  <2> QED BY <1>1, <2>1, <2>3 DEF Own
<1>6. ASSUME NEW i \in Interfaces, Answer(i)
      PROVE  Own' /\ (setup.kind = "tracking" => TrackAsked')
                  /\ (setup.kind = "session" => SessionAsked')
  <2>1. work[i] # <<>>
    BY <1>1, <1>6, AnswerParts
  <2>2. CASE setup.kind = "tracking"
    <3>1. cbs # NoClient
      BY <2>1, <2>2 DEF Stopping, Alive
    <3> QED BY <1>1, <1>6, <2>2, <3>1, TrackAnswers DEF Own
  <2>3. CASE setup.kind = "session"
    BY <1>1, <1>6, <2>3, SessionAnswers DEF Own
  <2> QED BY <2>2, <2>3
<1>7. ASSUME NEW i \in Interfaces, onResponse(i)
      PROVE  Own' /\ (setup.kind = "tracking" => TrackAsked')
                  /\ (setup.kind = "session" => SessionAsked')
  <2>1. answer' = [answer EXCEPT ![i] = NoClient]
    BY <1>7 DEF onResponse
  <2>2. \A j \in Interfaces : answer'[j] = answer[j] \/ answer'[j] = NoClient
    BY <1>1, <2>1
  <2> QED BY <1>1, <1>7, <2>2, TrackResponse, SessionResponse DEF Own
<1>8. ASSUME NEW s, TripCompleted(s)
      PROVE  Own' /\ (setup.kind = "tracking" => TrackAsked')
                  /\ (setup.kind = "session" => SessionAsked')
  <2>1. answer' = answer
    BY <1>8 DEF TripCompleted
  <2> QED BY <1>1, <1>8, <2>1, TrackTrip, SessionTrip DEF Own
<1>9. \A id : ~Overtaken(id)
  BY OvertakenAsks
<1> QED BY <1>2, <1>3, <1>4, <1>5, <1>6, <1>7, <1>8, <1>9 DEF ClientNext

\* the client is gone for good: no answer reaches it
LEMMA GoneStep ==
  ASSUME ClientOK, Own, ~Alive, ClientNext PROVE Own' /\ ~Alive'
<1>1. /\ cbs = NoClient /\ ~(calls < setup.calls) /\ setup' = setup
      /\ answer = [j \in Interfaces |-> answer[j]]
  BY SetupKept DEF Alive, ClientOK
<1>2. ~TrackingCall /\ ~SessionCall /\ \A id : ~Overtaken(id)
  BY <1>1, TrackingCallKeeps, SessionCallKeeps, OvertakenAsks DEF Call
<1>3. ~DestroyClient /\ \A c : ~locAPISetCallbacks(c)
  BY <1>1 DEF DestroyClient, Destroy, locAPISetCallbacks
<1>4. \A s : ~TripCompleted(s)
  BY <1>1 DEF TripCompleted
<1>5. ASSUME NEW i \in Interfaces, Answer(i) PROVE Own' /\ ~Alive'
  <2>1. UNCHANGED <<cbs, calls, answer>>
    BY <1>1, <1>5, AnswerKeeps
  <2> QED BY <1>1, <2>1 DEF Own, Alive
<1>6. ASSUME NEW i \in Interfaces, onResponse(i) PROVE Own' /\ ~Alive'
  <2>1. UNCHANGED <<cbs, calls>> /\ answer' = [answer EXCEPT ![i] = NoClient]
    BY <1>6 DEF onResponse, apiVars
  <2>2. \A j \in Interfaces : answer'[j] = answer[j] \/ answer'[j] = NoClient
    BY <1>1, <2>1
  <2> QED BY <1>1, <2>1, <2>2 DEF Own, Alive
<1> QED BY <1>2, <1>3, <1>4, <1>5, <1>6 DEF ClientNext

LEMMA AskInductive ==
  ASSUME LeaveInv', TrackInv, AskInv, [AllNext]_AllVars PROVE AskInv'
<1>0. ApiOK' /\ ClientOK /\ (setup.kind = "tracking" => Stopping)
  BY DEF LeaveInv, TrackInv, AskInv
<1>1. CASE setup.kind \in {"tracking", "session"} /\ ClientNext
  <2>1. ClientOK' /\ setup' = setup /\ (astray => astray')
    BY <1>0, <1>1, ClientKeeps
  <2>2. ASSUME ~astray' PROVE InStep'
    <3>1. ~astray /\ Own
      BY <2>1, <2>2 DEF AskInv, InStep
    <3>2. CASE Alive
      BY <1>0, <1>1, <2>1, <2>2, <3>1, <3>2, AliveStep DEF InStep
    <3>3. CASE ~Alive
      BY <1>0, <1>1, <3>1, <3>3, GoneStep DEF InStep
    <3> QED BY <3>2, <3>3
  <2> QED BY <2>1, <2>2 DEF AskInv
<1>2. CASE setup.kind = "control" /\ ControlNext
  <2>1. ControlCall \/ ServeControl
    BY <1>2, Zenon DEF ControlNext, locAPIEnable, locAPIDisable, locAPIGnssDeleteAidingData,
                       locAPIGnssUpdateConfig
  <2>2. /\ UNCHANGED <<setup, loaded, cbs, live, work, clientVars>>
        /\ calls' = calls \/ (calls < setup.calls /\ calls' = calls + 1)
    BY <2>1 DEF ControlCall, ServeControl, apiVars
  <2> QED BY <1>0, <1>2, <2>2, AskSame
<1>3. CASE setup.kind = "fence" /\ FenceNext
  <2>1. ClientOfFences \/ ServeFences
    BY <1>3, Zenon DEF FenceNext, AddGeofences, RemoveGeofences, PauseGeofences,
                       ModifyGeofences, ResumeGeofences, RemoveAllGeofences
  <2>2. /\ UNCHANGED <<setup, loaded, cbs, live, work, clientVars>>
        /\ calls' = calls \/ (calls < setup.calls /\ calls' = calls + 1)
    BY <2>1 DEF ClientOfFences, ServeFences, apiVars
  <2> QED BY <1>0, <1>3, <2>2, AskSame
<1>4. CASE UNCHANGED clientAll
  <2>1. UNCHANGED <<setup, loaded, cbs, live, work, calls, lastId, clientVars>>
    BY <1>4 DEF clientAll, apiVars
  <2> QED BY <1>0, <2>1, AskSame
<1> QED BY <1>1, <1>2, <1>3, <1>4 DEF AllNext, AllVars

LEMMA AskImplies == AskInv => AnswersOwn /\ SessionsAgree
<1>1. AskInv => AnswersOwn
  BY DEF AskInv, InStep, Own, AnswersOwn
<1>2. ASSUME AskInv, setup.kind = "session", cbs # NoClient, ~astray PROVE SessionAsked
  BY <1>2 DEF AskInv, InStep, Alive
<1> QED BY <1>1, <1>2, SessionImplies DEF SessionsAgree

LEMMA AlwaysInStep == AllSpec => []AskInv
<1>1. AllInit => LeaveInv /\ TrackInv /\ AskInv
  BY LeaveInit, TrackInit, AskInit
<1>2. LeaveInv /\ TrackInv /\ AskInv /\ [AllNext]_AllVars => LeaveInv' /\ TrackInv' /\ AskInv'
  BY LeaveInductive, TrackInductive, AskInductive
<1> QED BY <1>1, <1>2, PTL DEF AllSpec

(* AnswersOwn of the runs: an answer only carries the id of its session       *)
(* (LocationAPIClientBase.cpp:879-925), and is given to the request at the    *)
(* head of a queue.  However the calls of the client and the answers of the   *)
(* two interfaces interleave, it is the request that call was made for, until *)
(* a call is made that the client's own bookkeeping cannot tell apart, or one *)
(* in the middle of which its session ends.                                   *)
THEOREM AnswersAlwaysOwn == AllSpec => []AnswersOwn
BY AlwaysInStep, AskImplies, PTL

(* SessionsAgree of the runs: the dictionary of a batching client             *)
(* (LocationAPIClientBase.h:212) is one to one, and names exactly the         *)
(* sessions that run whenever every answer is in, under the same condition.   *)
THEOREM SessionsAlwaysAgree == AllSpec => []SessionsAgree
BY AlwaysInStep, AskImplies, PTL

(***************************************************************************)
(* The requests of the adapter: every payload is settled at most once, and *)
(* every session has one waiter at most.                                   *)
(***************************************************************************)
IsInform(m, i) == m.type = "inform" /\ m.id = i

(* The session holds the payload of the one thread that waits for it. *)
Owned ==
  /\ \A i \in Ids : thread[i].pc \in {"start", "wait"} => rawRequest[thread[i].kind] = i
  /\ \A k \in Kinds : rawRequest[k] # 0 =>
       thread[rawRequest[k]].pc \in {"start", "wait"} /\ thread[rawRequest[k]].kind = k

(* A payload that is not settled is with its thread, which took it from the   *)
(* session and will send it, or in the one message that it has sent.          *)
Carried ==
  \A i \in Ids :
    /\ settled[i] \in {0, 1}
    /\ thread[i].pc \in {"none", "start", "wait"} => settled[i] = 0
    /\ thread[i].pc \in {"clear", "send"} /\ thread[i].out # 0
         => thread[i].out = i /\ settled[i] = 0
    /\ thread[i].pc = "send" => thread[i].out # 0
    /\ i > counter => thread[i].pc = "none"

Informed ==
  \A i \in Ids : \A n \in DOMAIN queue : IsInform(queue[n], i) =>
    /\ thread[i].pc = "done" /\ settled[i] = 0
    /\ \A m \in DOMAIN queue : IsInform(queue[m], i) => m = n

NiIInv == TypeOK /\ Owned /\ Carried /\ Informed

-----------------------------------------------------------------------------
(* The queue. *)

LEMMA NiTail ==
  ASSUME NEW q \in Seq(Messages), q # <<>>
  PROVE  /\ Tail(q) \in Seq(Messages) /\ Head(q) = q[1] /\ 1 \in DOMAIN q
         /\ \A n \in DOMAIN Tail(q) :
              n + 1 \in DOMAIN q /\ n + 1 # 1 /\ Tail(q)[n] = q[n + 1] /\ n \in Nat
<1> HIDE DEF Messages
<1>1. Len(q) \in Nat /\ Len(q) >= 1 /\ DOMAIN q = 1..Len(q)
  OBVIOUS
<1>2. Tail(q) \in Seq(Messages) /\ Len(Tail(q)) = Len(q) - 1 /\ Head(q) = q[1]
  OBVIOUS
<1>3. DOMAIN Tail(q) = 1..(Len(q) - 1)
  BY <1>2
<1>4. \A n \in 1..(Len(q) - 1) : Tail(q)[n] = q[n + 1]
  OBVIOUS
<1> QED BY <1>1, <1>2, <1>3, <1>4

LEMMA NiAppend ==
  ASSUME NEW q \in Seq(Messages), NEW m \in Messages
  PROVE  /\ Append(q, m) \in Seq(Messages)
         /\ DOMAIN Append(q, m) = DOMAIN q \union {Len(q) + 1}
         /\ Append(q, m)[Len(q) + 1] = m
         /\ \A n \in DOMAIN q : Append(q, m)[n] = q[n]
<1> HIDE DEF Messages
<1> QED OBVIOUS

\* a message that is no inform joins the queue, or the first one leaves it
LEMMA OtherMessages ==
  ASSUME NiIInv,
         queue' = queue
         \/ (\E m \in Messages : m.type # "inform" /\ queue' = Append(queue, m))
         \/ (queue # <<>> /\ queue' = Tail(queue))
  PROVE  /\ queue' \in Seq(Messages)
         /\ ( /\ UNCHANGED settled
              /\ \A i \in Ids : thread[i].pc = "done" => thread'[i].pc = "done" )
            => Informed'
<1>0. queue \in Seq(Messages) /\ Informed
  BY DEF NiIInv, TypeOK
<1>1. CASE queue' = queue
  BY <1>0, <1>1 DEF Informed
<1>2. CASE \E m \in Messages : m.type # "inform" /\ queue' = Append(queue, m)
  <2>1. PICK m \in Messages : m.type # "inform" /\ queue' = Append(queue, m)
    BY <1>2
  <2>2. \A i : \A n \in DOMAIN queue' : IsInform(queue'[n], i) =>
          n \in DOMAIN queue /\ IsInform(queue[n], i)
    BY <1>0, <2>1, NiAppend DEF IsInform
  <2> QED BY <1>0, <2>1, <2>2, NiAppend DEF Informed
<1>3. CASE queue # <<>> /\ queue' = Tail(queue)
  <2>1. /\ queue' \in Seq(Messages)
        /\ \A n \in DOMAIN queue' : n + 1 \in DOMAIN queue /\ queue'[n] = queue[n + 1]
                                   /\ n \in Nat
    BY <1>0, <1>3, NiTail
  <2>2. ASSUME UNCHANGED settled,
               \A i \in Ids : thread[i].pc = "done" => thread'[i].pc = "done",
               NEW i \in Ids, NEW n \in DOMAIN queue', IsInform(queue'[n], i)
        PROVE  /\ thread'[i].pc = "done" /\ settled'[i] = 0
               /\ \A m \in DOMAIN queue' : IsInform(queue'[m], i) => m = n
    <3>1. thread[i].pc = "done" /\ settled[i] = 0
      BY <1>0, <2>1, <2>2 DEF Informed
    <3>2. ASSUME NEW m \in DOMAIN queue', IsInform(queue'[m], i) PROVE m = n
      <4>1. m + 1 = n + 1
        BY <1>0, <2>1, <2>2, <3>2 DEF Informed
      <4> QED BY <2>1, <4>1
    <3> QED BY <2>2, <3>1, <3>2
  <2> QED BY <2>1, <2>2 DEF Informed
<1> QED BY <1>1, <1>2, <1>3

-----------------------------------------------------------------------------
(* The steps that leave threads and payloads alone. *)

LEMMA QuietStep ==
  ASSUME NiIInv, UNCHANGED <<rawRequest, counter, thread, settled>>, Informed', TypeOK'
  PROVE  NiIInv'
BY DEF NiIInv, Owned, Carried

LEMMA PostStep ==
  ASSUME NiIInv, NEW m \in Messages, m.type # "inform", queue' = Append(queue, m),
         UNCHANGED <<sessionVars, counter, thread, handling, listening, settled>>,
         given' \in [Ids -> SUBSET UserResponses]
  PROVE  NiIInv'
<1>1. queue' \in Seq(Messages) /\ Informed'
  BY OtherMessages
<1>2. TypeOK'
  BY <1>1 DEF NiIInv, TypeOK, sessionVars
<1> QED BY <1>1, <1>2, QuietStep DEF sessionVars

LEMMA EnvironmentStep ==
  ASSUME NiIInv, Environment
  PROVE  NiIInv'
<1>1. ASSUME NEW k \in Kinds, requestNiNotifyEvent(k) PROVE NiIInv'
  <2> DEFINE m == [type |-> "notify", kind |-> k]
  <2>1. m \in Messages /\ m.type # "inform" /\ queue' = Append(queue, m)
    BY <1>1 DEF requestNiNotifyEvent, Messages
  <2>2. given' \in [Ids -> SUBSET UserResponses]
    BY <1>1 DEF requestNiNotifyEvent, NiIInv, TypeOK
  <2> QED BY <1>1, <2>1, <2>2, PostStep DEF requestNiNotifyEvent
<1>2. ASSUME NEW i \in Ids, NEW r \in UserResponses, gnssNiResponseCommand(i, r)
      PROVE  NiIInv'
  <2> DEFINE m == [type |-> "response", id |-> i, resp |-> r]
  <2>1. m \in Messages /\ m.type # "inform" /\ queue' = Append(queue, m)
    BY <1>2 DEF gnssNiResponseCommand, Messages
  <2>2. given' \in [Ids -> SUBSET UserResponses]
    BY <1>2 DEF gnssNiResponseCommand, NiIInv, TypeOK
  <2> QED BY <1>2, <2>1, <2>2, PostStep DEF gnssNiResponseCommand
<1>3. CASE SetListening
  <2>1. UNCHANGED <<sessionVars, counter, thread, handling, queue, given, settled>>
        /\ listening' \in BOOLEAN
    BY <1>3 DEF SetListening
  <2>2. Informed' /\ TypeOK'
    BY <2>1, OtherMessages DEF NiIInv, TypeOK, sessionVars
  <2> QED BY <2>1, <2>2, QuietStep DEF sessionVars
<1> QED BY <1>1, <1>2, <1>3 DEF Environment

LEMMA ResponseSteps ==
  ASSUME NiIInv, ProcResponse \/ IgnoreNormal \/ SetResponse
  PROVE  NiIInv'
<1>1. CASE ProcResponse
  <2>1. /\ UNCHANGED <<sessionVars, counter, thread, listening, given, settled>>
        /\ queue # <<>> /\ queue' = Tail(queue) /\ Head(queue).type = "response"
    BY <1>1 DEF ProcResponse, Receive
  <2>2. queue' \in Seq(Messages) /\ Informed'
    BY <2>1, OtherMessages
  <2>3. Head(queue) \in Messages
    <3> HIDE DEF Messages
    <3> QED BY <2>1 DEF NiIInv, TypeOK
  <2>4. Head(queue).resp \in Responses
    BY <2>1, <2>3 DEF Messages, Responses
  <2>5. handling' \in [stage : {"idle", "ignore", "set"}, kind : Kinds, resp : Responses]
    BY <1>1, <2>4 DEF ProcResponse, Idle, Kinds, Responses
  <2>6. TypeOK'
    BY <2>1, <2>2, <2>5 DEF NiIInv, TypeOK, sessionVars
  <2> QED BY <2>1, <2>2, <2>6, QuietStep DEF sessionVars
<1>2. CASE IgnoreNormal \/ SetResponse
  <2>1. /\ UNCHANGED <<rawRequest, reqID, counter, thread, listening, queue, given, settled>>
    BY <1>2 DEF IgnoreNormal, SetResponse
  <2>2. resp' \in [Kinds -> Responses]
    BY <1>2 DEF IgnoreNormal, SetResponse, NiIInv, TypeOK, Responses
  <2>3. respRecvd' \in [Kinds -> BOOLEAN]
    BY <1>2 DEF IgnoreNormal, SetResponse, NiIInv, TypeOK
  <2>4. handling' \in [stage : {"idle", "ignore", "set"}, kind : Kinds, resp : Responses]
    BY <1>2 DEF IgnoreNormal, SetResponse, NiIInv, TypeOK, Idle, Kinds, Responses
  <2>5. Informed' /\ TypeOK'
    BY <2>1, <2>2, <2>3, <2>4, OtherMessages DEF NiIInv, TypeOK
  <2> QED BY <2>1, <2>5, QuietStep
<1> QED BY <1>1, <1>2

-----------------------------------------------------------------------------
(* A request is taken, a payload is answered. *)

LEMMA ProcNotifyStep ==
  ASSUME NiIInv, ProcNotify
  PROVE  NiIInv'
<1> DEFINE kind == Head(queue).kind
           id == counter + 1
<1>1. /\ UNCHANGED <<respRecvd, resp, handling, listening, given, settled>>
      /\ queue # <<>> /\ queue' = Tail(queue) /\ Head(queue).type = "notify"
  BY DEF ProcNotify, Receive
<1>2. queue' \in Seq(Messages)
  BY <1>1, OtherMessages
<1>3. CASE UNCHANGED <<rawRequest, reqID, counter, thread>>
  <2>1. Informed'
    BY <1>1, <1>3, OtherMessages
  <2>2. TypeOK'
    BY <1>1, <1>2, <1>3 DEF NiIInv, TypeOK
  <2> QED BY <1>1, <1>3, <2>1, <2>2, QuietStep
<1>4. CASE /\ Free(kind) /\ counter < MaxReq
           /\ rawRequest' = [rawRequest EXCEPT ![kind] = id]
           /\ reqID' = [reqID EXCEPT ![kind] = id]
           /\ counter' = id
           /\ thread' = [thread EXCEPT ![id] = [NoThread EXCEPT !.pc = "start",
                                                              !.kind = kind]]
  <2>1. Head(queue) \in Messages
    <3> HIDE DEF Messages
    <3> QED BY <1>1 DEF NiIInv, TypeOK
  <2>2. kind \in Kinds
    BY <1>1, <2>1 DEF Messages
  <2>3. id \in Ids /\ id \in 1..MaxReq /\ id # 0 /\ id > counter /\ counter \in Nat
    BY <1>4, NiAssumption DEF NiAssumption, NiIInv, TypeOK, Ids
  <2>4. rawRequest[kind] = 0
    BY <1>4, <2>2 DEF Free, Kinds
  <2>5. /\ thread'[id].pc = "start" /\ thread'[id].kind = kind
        /\ \A j \in Ids : j # id => thread'[j] = thread[j]
        /\ thread[id].pc = "none" /\ settled[id] = 0
    BY <1>4, <2>3 DEF NiIInv, TypeOK, Carried, NoThread
  <2>6. /\ rawRequest'[kind] = id
        /\ \A k \in Kinds : k # kind => rawRequest'[k] = rawRequest[k]
    BY <1>4, <2>2 DEF NiIInv, TypeOK
  <2> HIDE DEF kind, id
  <2>7. TypeOK'
    <3>0. id \in 0..MaxReq /\ 0 \in 0..MaxReq
      BY <2>3, NiAssumption DEF NiAssumption
    <3>1. rawRequest' \in [Kinds -> 0..MaxReq] /\ reqID' \in [Kinds -> 0..MaxReq]
      BY <1>4, <3>0 DEF NiIInv, TypeOK
    <3>2. counter' \in 0..MaxReq
      BY <1>4, <3>0
    <3>3. [NoThread EXCEPT !.pc = "start", !.kind = kind] \in
            [pc : {"none", "start", "wait", "clear", "send", "done"},
             kind : Kinds, out : 0..MaxReq, resp : Responses]
      BY <2>2, <3>0 DEF NoThread, Responses
    <3>4. thread' \in [Ids -> [pc : {"none", "start", "wait", "clear", "send", "done"},
                              kind : Kinds, out : 0..MaxReq, resp : Responses]]
      BY <1>4, <3>3 DEF NiIInv, TypeOK
    <3> QED BY <1>1, <1>2, <3>1, <3>2, <3>4 DEF NiIInv, TypeOK
  <2>8. Owned'
    <3>1. \A j \in Ids : j # id /\ thread[j].pc \in {"start", "wait"} => thread[j].kind # kind
      BY <2>3, <2>4 DEF NiIInv, Owned, Ids
    <3>2. \A j \in Ids : thread[j].kind \in Kinds
      BY DEF NiIInv, TypeOK
    <3>3. \A j \in Ids : thread'[j].pc \in {"start", "wait"} => rawRequest'[thread'[j].kind] = j
      BY <2>5, <2>6, <3>1, <3>2 DEF NiIInv, Owned
    <3>4. ASSUME NEW k \in Kinds, rawRequest'[k] # 0
          PROVE  thread'[rawRequest'[k]].pc \in {"start", "wait"}
                 /\ thread'[rawRequest'[k]].kind = k
      <4>1. CASE k = kind
        BY <2>5, <2>6, <4>1
      <4>2. CASE k # kind
        <5>1. rawRequest[k] \in Ids /\ thread[rawRequest[k]].pc \in {"start", "wait"}
              /\ thread[rawRequest[k]].kind = k
          BY <2>6, <3>4, <4>2 DEF NiIInv, TypeOK, Owned, Ids
        <5>2. rawRequest[k] # id
          BY <2>5, <5>1
        <5> QED BY <2>5, <2>6, <4>2, <5>1, <5>2
      <4> QED BY <4>1, <4>2
    <3> QED BY <3>3, <3>4 DEF Owned
  <2>9. Carried'
    <3>1. counter' = id
      BY <1>4
    <3> QED BY <1>1, <2>3, <2>5, <3>1 DEF NiIInv, Carried, Ids
  <2>10. Informed'
    <3>1. \A j \in Ids : thread[j].pc = "done" => thread'[j].pc = "done"
      BY <2>5
    <3> QED BY <1>1, <3>1, OtherMessages
  <2> QED BY <2>7, <2>8, <2>9, <2>10 DEF NiIInv
<1> QED BY <1>3, <1>4 DEF ProcNotify

LEMMA ProcInformStep ==
  ASSUME NiIInv, ProcInform
  PROVE  NiIInv'
<1> DEFINE i == Head(queue).id
<1>1. /\ UNCHANGED <<sessionVars, counter, thread, handling, listening, given>>
      /\ queue # <<>> /\ queue' = Tail(queue) /\ Head(queue).type = "inform"
      /\ settled' = [settled EXCEPT ![i] = @ + 1]
  BY DEF ProcInform, Receive
<1>2. queue \in Seq(Messages)
  BY DEF NiIInv, TypeOK
<1>3. Head(queue) \in Messages /\ Head(queue) = queue[1] /\ 1 \in DOMAIN queue
  <2> HIDE DEF Messages
  <2> QED BY <1>1, <1>2, NiTail
<1>4. i \in Ids /\ IsInform(queue[1], i)
  BY <1>1, <1>3 DEF Messages, IsInform
<1>5. thread[i].pc = "done" /\ settled[i] = 0
      /\ \A m \in DOMAIN queue : IsInform(queue[m], i) => m = 1
  BY <1>3, <1>4 DEF NiIInv, Informed
<1>6. settled'[i] = 1 /\ \A j \in Ids : j # i => settled'[j] = settled[j]
  BY <1>1, <1>4, <1>5 DEF NiIInv, TypeOK
<1> HIDE DEF i
<1>7. /\ queue' \in Seq(Messages)
      /\ \A n \in DOMAIN queue' : /\ n + 1 \in DOMAIN queue /\ n + 1 # 1
                                 /\ queue'[n] = queue[n + 1] /\ n \in Nat
  BY <1>1, <1>2, NiTail
<1>8. TypeOK'
  <2>1. settled' \in [Ids -> Nat]
    BY <1>1, <1>4 DEF NiIInv, TypeOK
  <2> QED BY <1>1, <1>7, <2>1 DEF NiIInv, TypeOK, sessionVars
<1>9. Owned' /\ Carried'
  BY <1>1, <1>4, <1>5, <1>6 DEF NiIInv, Owned, Carried, sessionVars
<1>10. ASSUME NEW j \in Ids, NEW n \in DOMAIN queue', IsInform(queue'[n], j)
       PROVE  /\ thread'[j].pc = "done" /\ settled'[j] = 0
              /\ \A m \in DOMAIN queue' : IsInform(queue'[m], j) => m = n
  <2>1. j # i
    BY <1>5, <1>7, <1>10
  <2>2. thread'[j].pc = "done" /\ settled'[j] = 0
    BY <1>1, <1>6, <1>7, <1>10, <2>1 DEF NiIInv, Informed
  <2>3. ASSUME NEW m \in DOMAIN queue', IsInform(queue'[m], j) PROVE m = n
    <3>1. m + 1 = n + 1
      BY <1>7, <1>10, <2>3 DEF NiIInv, Informed
    <3> QED BY <1>7, <3>1
  <2> QED BY <2>2, <2>3
<1>11. Informed'
  BY <1>10 DEF Informed
<1> QED BY <1>8, <1>9, <1>11 DEF NiIInv

-----------------------------------------------------------------------------
(* The threads. *)

ThreadRecords == [pc : {"none", "start", "wait", "clear", "send", "done"},
                  kind : Kinds, out : 0..MaxReq, resp : Responses]

\* the end of a wait: the payload the thread takes is the one it waited for
LEMMA FinishStep ==
  ASSUME NiIInv, NEW id \in Ids, NEW r \in Responses,
         thread[id].pc \in {"start", "wait"}, Finish(id, r),
         UNCHANGED <<reqID, counter, handling, listening, queue, given>>
  PROVE  NiIInv'
<1> DEFINE kind == thread[id].kind
<1>0. id \in 0..MaxReq /\ 0 \in 0..MaxReq /\ id # 0
  BY NiAssumption DEF NiAssumption, Ids
<1>1. kind \in Kinds /\ rawRequest[kind] = id /\ settled[id] = 0
      /\ thread \in [Ids -> ThreadRecords]
  BY DEF NiIInv, TypeOK, Owned, Carried, ThreadRecords
<1>2. /\ rawRequest' = [rawRequest EXCEPT ![kind] = 0]
      /\ respRecvd' = [respRecvd EXCEPT ![kind] = FALSE]
      /\ resp' = [resp EXCEPT ![kind] = r]
      /\ settled' = IF r = "IGNORE" THEN [settled EXCEPT ![id] = @ + 1] ELSE settled
      /\ thread' = [thread EXCEPT ![id].pc = "clear",
                                  ![id].out = IF r # "IGNORE" THEN id ELSE 0,
                                  ![id].resp = r]
  BY <1>0, <1>1 DEF Finish, AfterTaking
<1>3. /\ \A j \in Ids : j # id => thread'[j] = thread[j]
      /\ thread'[id].pc = "clear" /\ thread'[id].kind = kind
      /\ thread'[id].out = IF r # "IGNORE" THEN id ELSE 0
  BY <1>1, <1>2 DEF ThreadRecords
<1>4. /\ \A j \in Ids : j # id => settled'[j] = settled[j]
      /\ settled'[id] = IF r = "IGNORE" THEN 1 ELSE 0
  BY <1>1, <1>2 DEF NiIInv, TypeOK
<1>5. /\ rawRequest'[kind] = 0
      /\ \A k \in Kinds : k # kind => rawRequest'[k] = rawRequest[k]
  BY <1>1, <1>2 DEF NiIInv, TypeOK
<1> HIDE DEF kind
<1>6. TypeOK'
  <2>1. thread' \in [Ids -> ThreadRecords]
    <3> DEFINE taken == IF r # "IGNORE" THEN id ELSE 0
    <3>1. taken \in 0..MaxReq
      BY <1>0
    <3>2. thread' = [thread EXCEPT ![id].pc = "clear", ![id].out = taken, ![id].resp = r]
      BY <1>2
    <3> HIDE DEF taken
    <3>3. [thread[id] EXCEPT !.pc = "clear", !.out = taken, !.resp = r] \in ThreadRecords
      BY <1>1, <3>1, ZenonT(30) DEF ThreadRecords
    <3>4. thread' = [thread EXCEPT ![id] = [thread[id] EXCEPT !.pc = "clear", !.out = taken,
                                                              !.resp = r]]
      BY <1>1, <3>2 DEF ThreadRecords
    <3> QED BY <1>1, <3>3, <3>4
  <2>2. settled' \in [Ids -> Nat]
    BY <1>2 DEF NiIInv, TypeOK
  <2>3. rawRequest' \in [Kinds -> 0..MaxReq]
    BY <1>0, <1>2 DEF NiIInv, TypeOK
  <2>4. resp' \in [Kinds -> Responses] /\ respRecvd' \in [Kinds -> BOOLEAN]
    BY <1>2 DEF NiIInv, TypeOK
  <2> QED BY <2>1, <2>2, <2>3, <2>4 DEF NiIInv, TypeOK, ThreadRecords
<1>7. Owned'
  <2>1. ASSUME NEW j \in Ids, thread'[j].pc \in {"start", "wait"}
        PROVE  rawRequest'[thread'[j].kind] = j
    <3>1. j # id /\ thread'[j] = thread[j]
      BY <1>3, <2>1
    <3>2. rawRequest[thread[j].kind] = j /\ thread[j].kind \in Kinds
      BY <2>1, <3>1 DEF NiIInv, TypeOK, Owned
    <3>3. thread[j].kind # kind
      BY <1>1, <3>1, <3>2
    <3> QED BY <1>5, <3>1, <3>2, <3>3
  <2>2. ASSUME NEW k \in Kinds, rawRequest'[k] # 0
        PROVE  thread'[rawRequest'[k]].pc \in {"start", "wait"}
               /\ thread'[rawRequest'[k]].kind = k
    <3>1. k # kind /\ rawRequest'[k] = rawRequest[k]
      BY <1>5, <2>2
    <3>2. rawRequest[k] \in Ids /\ thread[rawRequest[k]].pc \in {"start", "wait"}
          /\ thread[rawRequest[k]].kind = k
      BY <2>2, <3>1 DEF NiIInv, TypeOK, Owned, Ids
    <3>3. rawRequest[k] # id
      BY <1>3, <3>1, <3>2 DEF kind
    <3> QED BY <1>3, <3>1, <3>2, <3>3
  <2> QED BY <2>1, <2>2 DEF Owned
<1>8. Carried'
  <2>1. id <= counter
    BY <1>0 DEF NiIInv, TypeOK, Carried, Ids
  <2> QED BY <1>0, <1>3, <1>4, <2>1 DEF NiIInv, Carried
<1>9. Informed'
  <2>1. \A j \in Ids : \A n \in DOMAIN queue : IsInform(queue[n], j) => j # id
    BY DEF NiIInv, Informed
  <2> QED BY <1>3, <1>4, <2>1 DEF NiIInv, Informed
<1> QED BY <1>6, <1>7, <1>8, <1>9 DEF NiIInv

\* a step that only moves one thread on, out of the states a payload is held in
LEMMA MoveStep ==
  ASSUME NiIInv, NEW id \in Ids, NEW p,
         \/ thread[id].pc = "start" /\ p = "wait"
         \/ thread[id].pc = "clear" /\ p = IF thread[id].out # 0 THEN "send" ELSE "done"
         \/ thread[id].pc = "send" /\ p = "done",
         thread' = [thread EXCEPT ![id].pc = p],
         UNCHANGED <<rawRequest, counter, settled>>
  PROVE  /\ thread' \in [Ids -> ThreadRecords] /\ Owned' /\ Carried'
         /\ \A j \in Ids : thread[j].pc = "done" => thread'[j].pc = "done"
<1>1. thread \in [Ids -> ThreadRecords]
  BY DEF NiIInv, TypeOK, ThreadRecords
<1>2. p \in {"wait", "send", "done"}
  OBVIOUS
<1>3. thread' \in [Ids -> ThreadRecords]
  BY <1>1, <1>2 DEF ThreadRecords
<1>4. /\ \A j \in Ids : j # id => thread'[j] = thread[j]
      /\ thread'[id].pc = p /\ thread'[id].kind = thread[id].kind
      /\ thread'[id].out = thread[id].out
  BY <1>1 DEF ThreadRecords
<1>5. thread[id].pc # "done" /\ (p = "wait" <=> thread[id].pc = "start")
  OBVIOUS
<1>6. Owned'
  <2>1. ASSUME NEW j \in Ids, thread'[j].pc \in {"start", "wait"}
        PROVE  rawRequest'[thread'[j].kind] = j
    <3>1. thread[j].pc \in {"start", "wait"} /\ thread'[j].kind = thread[j].kind
      BY <1>2, <1>4, <1>5, <2>1
    <3> QED BY <3>1 DEF NiIInv, Owned
  <2>2. ASSUME NEW k \in Kinds, rawRequest'[k] # 0
        PROVE  thread'[rawRequest'[k]].pc \in {"start", "wait"}
               /\ thread'[rawRequest'[k]].kind = k
    <3>1. rawRequest[k] \in Ids /\ thread[rawRequest[k]].pc \in {"start", "wait"}
          /\ thread[rawRequest[k]].kind = k
      BY <2>2 DEF NiIInv, TypeOK, Owned, Ids
    <3> QED BY <1>4, <1>5, <3>1
  <2> QED BY <2>1, <2>2 DEF Owned
<1>7. Carried'
  BY <1>4, <1>5 DEF NiIInv, Carried
<1> QED BY <1>3, <1>4, <1>5, <1>6, <1>7

LEMMA ThreadSteps ==
  ASSUME NiIInv, NEW id \in Ids, ThreadStep(id)
  PROVE  NiIInv'
<1>0. thread[id].kind \in Kinds /\ resp[thread[id].kind] \in Responses
  BY DEF NiIInv, TypeOK
<1>1. CASE ThreadStart(id)
  <2>1. CASE respRecvd[thread[id].kind]
    BY <1>0, <1>1, <2>1, FinishStep DEF ThreadStart
  <2>2. CASE ~respRecvd[thread[id].kind]
    <3>1. /\ thread[id].pc = "start" /\ thread' = [thread EXCEPT ![id].pc = "wait"]
          /\ UNCHANGED <<sessionVars, counter, handling, listening, queue, given, settled>>
      BY <1>1, <2>2 DEF ThreadStart, sessionVars
    <3>2. /\ thread' \in [Ids -> ThreadRecords] /\ Owned' /\ Carried'
          /\ \A j \in Ids : thread[j].pc = "done" => thread'[j].pc = "done"
      BY <3>1, MoveStep DEF sessionVars
    <3>3. Informed'
      BY <3>1, <3>2, OtherMessages
    <3>4. TypeOK'
      BY <3>1, <3>2 DEF NiIInv, TypeOK, ThreadRecords, sessionVars
    <3> QED BY <3>2, <3>3, <3>4 DEF NiIInv
  <2> QED BY <2>1, <2>2
<1>2. CASE ThreadWake(id)
  BY <1>0, <1>2, FinishStep DEF ThreadWake
<1>3. CASE ThreadTimeout(id)
  <2>1. TimeoutResponse \in Responses
    BY DEF TimeoutResponse, Responses
  <2> QED BY <1>3, <2>1, FinishStep DEF ThreadTimeout
<1>4. CASE ThreadClear(id)
  <2>1. /\ thread[id].pc = "clear"
        /\ thread' = [thread EXCEPT ![id].pc = IF thread[id].out # 0 THEN "send" ELSE "done"]
        /\ UNCHANGED <<rawRequest, respRecvd, resp, counter, handling, listening,
                       queue, given, settled>>
    BY <1>4 DEF ThreadClear
  <2>2. /\ thread' \in [Ids -> ThreadRecords] /\ Owned' /\ Carried'
        /\ \A j \in Ids : thread[j].pc = "done" => thread'[j].pc = "done"
    BY <2>1, MoveStep
  <2>3. Informed'
    BY <2>1, <2>2, OtherMessages
  <2>4. reqID' \in [Kinds -> 0..MaxReq]
    BY <1>4, NiAssumption DEF NiAssumption, ThreadClear, NiIInv, TypeOK
  <2>5. TypeOK'
    BY <2>1, <2>2, <2>4 DEF NiIInv, TypeOK, ThreadRecords
  <2> QED BY <2>2, <2>3, <2>5 DEF NiIInv
<1>5. CASE ThreadSend(id)
  <2> DEFINE m == [type |-> "inform", id |-> id]
  <2>1. thread[id].pc = "send" /\ thread[id].out = id /\ settled[id] = 0
    BY <1>5 DEF ThreadSend, NiIInv, Carried
  <2>2. /\ queue' = Append(queue, m) /\ m \in Messages
        /\ thread' = [thread EXCEPT ![id].pc = "done"]
        /\ UNCHANGED <<sessionVars, counter, handling, listening, given, settled>>
    BY <1>5, <2>1 DEF ThreadSend, Messages
  <2>3. /\ thread' \in [Ids -> ThreadRecords] /\ Owned' /\ Carried'
        /\ \A j \in Ids : thread[j].pc = "done" => thread'[j].pc = "done"
    BY <2>1, <2>2, MoveStep DEF sessionVars
  <2>4. thread'[id].pc = "done"
    BY <2>2 DEF NiIInv, TypeOK
  <2> HIDE DEF m
  <2>5. queue \in Seq(Messages)
    BY DEF NiIInv, TypeOK
  <2>6. /\ queue' \in Seq(Messages)
        /\ DOMAIN queue' = DOMAIN queue \union {Len(queue) + 1}
        /\ queue'[Len(queue) + 1] = m
        /\ \A n \in DOMAIN queue : queue'[n] = queue[n]
    BY <2>2, <2>5, NiAppend
  <2>7. TypeOK'
    BY <2>2, <2>3, <2>6 DEF NiIInv, TypeOK, ThreadRecords, sessionVars
  <2>8. \A n \in DOMAIN queue : ~IsInform(queue[n], id)
    BY <2>1 DEF NiIInv, Informed
  <2>9. \A j : IsInform(m, j) => j = id
    BY DEF m, IsInform
  <2>10. Informed'
    <3>1. ASSUME NEW j \in Ids, NEW n \in DOMAIN queue', IsInform(queue'[n], j)
          PROVE  /\ thread'[j].pc = "done" /\ settled'[j] = 0
                 /\ \A k \in DOMAIN queue' : IsInform(queue'[k], j) => k = n
      <4>1. CASE n = Len(queue) + 1
        <5>1. j = id
          BY <2>6, <2>9, <3>1, <4>1
        <5> QED BY <2>1, <2>2, <2>4, <2>6, <2>8, <4>1, <5>1
      <4>2. CASE n \in DOMAIN queue
        <5>1. IsInform(queue[n], j) /\ j # id
          BY <2>6, <2>8, <3>1, <4>2
        <5>2. \A k \in DOMAIN queue' : IsInform(queue'[k], j) => k \in DOMAIN queue
          BY <2>6, <2>9, <5>1
        <5> QED BY <2>2, <2>3, <2>6, <4>2, <5>1, <5>2 DEF NiIInv, Informed
      <4> QED BY <2>6, <3>1, <4>1, <4>2
    <3> QED BY <3>1 DEF Informed
  <2> QED BY <2>3, <2>7, <2>10 DEF NiIInv
<1> QED BY <1>1, <1>2, <1>3, <1>4, <1>5 DEF ThreadStep

-----------------------------------------------------------------------------
(* The invariant. *)

LEMMA Initial == Init => NiIInv
<1> SUFFICES ASSUME Init PROVE NiIInv
  OBVIOUS
<1>1. <<>> \in Seq(Messages) /\ DOMAIN <<>> = {}
  OBVIOUS
<1>2. NoThread \in ThreadRecords
  BY NiAssumption DEF NiAssumption, NoThread, ThreadRecords, Kinds, Responses
<1>3. Idle \in [stage : {"idle", "ignore", "set"}, kind : Kinds, resp : Responses]
  BY DEF Idle, Kinds, Responses
<1>4. TypeOK
  BY <1>1, <1>2, <1>3, NiAssumption DEF NiAssumption, Init, TypeOK, ThreadRecords, Responses
<1>5. Owned /\ Carried
  BY DEF Init, Owned, Carried, NoThread, Ids
<1>6. Informed
  BY <1>1 DEF Init, Informed
<1> QED BY <1>4, <1>5, <1>6 DEF NiIInv

LEMMA NiInductive ==
  ASSUME NiIInv, [Next]_vars
  PROVE  NiIInv'
<1>1. CASE Environment
  BY <1>1, EnvironmentStep
<1>2. CASE MsgTaskStep
  BY <1>2, ProcNotifyStep, ResponseSteps, ProcInformStep DEF MsgTaskStep
<1>3. ASSUME NEW i \in Ids, ThreadStep(i) PROVE NiIInv'
  BY <1>3, ThreadSteps
<1>4. CASE UNCHANGED vars
  BY <1>4 DEF vars, NiIInv, TypeOK, Owned, Carried, Informed
<1> QED BY <1>1, <1>2, <1>3, <1>4 DEF Next

LEMMA NiInvariant == Spec => []NiIInv
<1>1. Init => NiIInv
  BY Initial
<1>2. NiIInv /\ [Next]_vars => NiIInv'
  BY NiInductive
<1> QED BY <1>1, <1>2, PTL DEF Spec

(* The variables keep their types, for any number of requests and messages.   *)
THEOREM NiTypes == Spec => []TypeOK
<1>1. NiIInv => TypeOK
  BY DEF NiIInv
<1> QED BY <1>1, NiInvariant, PTL

(* The modem is answered at most once about each request, and a payload that  *)
(* a session holds is neither sent nor freed, however the threads' unlocked   *)
(* steps, the responses and the next requests interleave.                      *)
THEOREM PayloadSettledOnce == Spec => []SettledOnce
<1>1. NiIInv => SettledOnce
  <2> SUFFICES ASSUME NiIInv, NEW i \in Ids
               PROVE  settled[i] <= 1
                      /\ ((\E k \in Kinds : rawRequest[k] = i) => settled[i] = 0)
    BY DEF SettledOnce
  <2>1. settled[i] <= 1
    BY DEF NiIInv, Carried
  <2>2. ASSUME NEW k \in Kinds, rawRequest[k] = i PROVE settled[i] = 0
    <3>1. i # 0
      BY DEF Ids
    <3> QED BY <2>2, <3>1 DEF NiIInv, Owned, Carried
  <2> QED BY <2>1, <2>2
<1> QED BY <1>1, NiInvariant, PTL

(* No two niThreadProc threads ever wait on the same session, and the one     *)
(* that waits finds its own payload there.                                     *)
THEOREM SessionHasOneWaiter == Spec => []OneWaiter
<1>1. NiIInv => OneWaiter
  BY DEF NiIInv, Owned, OneWaiter
<1> QED BY <1>1, NiInvariant, PTL
=============================================================================
