---------------------------- MODULE ControlClient ----------------------------
(***************************************************************************)
(* LocationAPIControlClient and the commands of GnssAdapter it calls: the   *)
(* vote that keeps the modem powered, the deletion of aiding data and the   *)
(* configuration.  The calls come from Gnss.cpp (setCallback enables,       *)
(* cleanup disables); GnssAdapter serves them in order.                     *)
(***************************************************************************)
EXTENDS GeofenceClient

CONSTANTS
  GpsConf,   \* mGps_conf as gps.conf leaves it: a value for each item
  Configs,   \* the configurations with something to set: items and their values
  Compared,  \* the items sent to the modem when they differ from mGps_conf
  Ignored,   \* those left alone because AGPS_CONFIG_INJECT is 0
  NoLock     \* GNSS_CONFIG_GPS_LOCK_NONE

\* every other item is kept in mGps_conf and never sent
Sendable == Compared \union {"lock"}
ItemsAssumption ==
  /\ Sendable \subseteq DOMAIN GpsConf \ Ignored /\ "lock" \notin Compared
  /\ \A c \in Configs : DOMAIN c \subseteq DOMAIN GpsConf
ASSUME ItemsAssumption

VARIABLES
  enabled,  \* mEnabled
  config,   \* mConfig, NoClient when it is all zero
  ctrl,     \* mRequestQueues of the control client
  cwork,    \* commands GnssAdapter has not served yet
  vote,     \* mPowerVoteId
  conf,     \* mGps_conf
  modem,    \* what the modem has of the items it is sent
  told,     \* history: the request told last and the command it was told of
  declined  \* history: the items the modem was not sent yet, or declined last

controlVars == <<enabled, config, ctrl, cwork, vote, conf, modem, told, declined>>

Reset(q, s, op) == [ctrl EXCEPT ![q] = [s |-> s, reqs |-> <<op>>]]
Command(op, s, c) == [op |-> op, s |-> s, config |-> c]

ControlCall ==
  /\ setup.kind = "control" /\ calls < setup.calls /\ calls' = calls + 1
  /\ UNCHANGED <<setup, loaded, cbs, known, work, live, clientVars, fenceVars,
                 vote, conf, modem, told, declined>>

locAPIEnable ==
  /\ ControlCall
  /\ IF enabled THEN UNCHANGED <<ctrl, cwork, enabled, lastId>>
     ELSE /\ lastId' = lastId + 1 /\ enabled' = TRUE
          /\ ctrl' = Reset("control", lastId', "enable")
          /\ cwork' = Append(cwork, Command("enable", lastId', NoClient))
  /\ UNCHANGED config

locAPIDisable ==
  /\ ControlCall
  /\ LET s == ctrl["control"].s IN
       IF enabled /\ s > 0
       THEN /\ ctrl' = [ctrl EXCEPT !["control"].reqs = Append(@, "disable")]
            /\ cwork' = Append(cwork, Command("disable", s, NoClient))
            /\ enabled' = FALSE
       ELSE UNCHANGED <<ctrl, cwork, enabled>>
  /\ UNCHANGED <<config, lastId>>

locAPIGnssDeleteAidingData ==
  /\ ControlCall
  /\ lastId' = lastId + 1
  /\ ctrl' = Reset("aiding", lastId', "delete")
  /\ cwork' = Append(cwork, Command("delete", lastId', NoClient))
  /\ UNCHANGED <<enabled, config>>

(* "GnssConfig is identical to previous call": nothing is sent.  A config    *)
(* without a flag (NoClient) is remembered and gets no ids from GnssAdapter. *)
locAPIGnssUpdateConfig(c) ==
  /\ ControlCall
  /\ IF c = config THEN UNCHANGED <<ctrl, cwork, config>>
     ELSE /\ config' = c
          /\ IF c = NoClient THEN UNCHANGED <<ctrl, cwork>>
             ELSE /\ ctrl' = [ctrl EXCEPT !["config"].reqs = Append(@, "config")]
                  /\ cwork' = Append(cwork, Command("config", 0, c))
  /\ UNCHANGED <<enabled, lastId>>

-----------------------------------------------------------------------------
(* GnssAdapter *)
\* the modem takes the items it is sent, and may decline any; nobody tries again
Send(items, value) ==
  \E D \in SUBSET items :
    /\ modem' = [i \in Sendable |-> IF i \in items \ D THEN value[i] ELSE modem[i]]
    /\ declined' = (declined \ items) \union D

Enable(s) ==
  IF vote > 0 THEN UNCHANGED <<vote, modem, declined>>    \* LOCATION_ERROR_ALREADY_STARTED
  ELSE vote' = s /\ Send({"lock"}, [lock |-> NoLock])
Disable(s) ==
  IF vote # s THEN UNCHANGED <<vote, modem, declined>>    \* LOCATION_ERROR_ID_UNKNOWN
  ELSE vote' = 0 /\ Send({"lock"}, conf)

\* the lock waits for the vote to end; what mGps_conf has already is not sent
Sent_AnyVote(c) == {i \in DOMAIN c : i = "lock" \/ (i \in Compared /\ c[i] # conf[i])}  \* mutant
Sent(c) == {i \in DOMAIN c : (i = "lock" /\ vote = 0) \/ (i \in Compared /\ c[i] # conf[i])}
Configure(c) ==
  /\ conf' = [i \in DOMAIN GpsConf |-> IF i \in DOMAIN c \ Ignored THEN c[i] ELSE conf[i]]
  /\ Send(Sent(c), c)
  /\ UNCHANGED vote

\* getRequestBySession and the collective callback: whose head request is told
QueueOf(c) == IF c.op = "config" THEN "config"
              ELSE IF ctrl["aiding"].s = c.s THEN "aiding"
              ELSE IF ctrl["control"].s = c.s THEN "control" ELSE NoClient
Tell(c) ==
  LET q == QueueOf(c) IN
    IF q # NoClient /\ ctrl[q].reqs # <<>>
    THEN /\ told' = [req |-> Head(ctrl[q].reqs), op |-> c.op]
         /\ ctrl' = [ctrl EXCEPT ![q].reqs = Tail(@)]
    ELSE UNCHANGED <<told, ctrl>>

ServeControl ==
  /\ cwork # <<>>
  /\ LET c == Head(cwork) IN
       /\ \/ c.op = "enable" /\ Enable(c.s) /\ UNCHANGED conf
          \/ c.op = "disable" /\ Disable(c.s) /\ UNCHANGED conf
          \/ c.op = "config" /\ Configure(c.config)
          \/ c.op = "delete" /\ UNCHANGED <<vote, conf, modem, declined>>
       /\ Tell(c)
  /\ cwork' = Tail(cwork)
  /\ UNCHANGED <<apiVars, clientVars, fenceVars, enabled, config>>

\* setConfigCommand has sent mGps_conf, without the lock
ControlInit ==
  /\ enabled = FALSE /\ config = NoClient /\ vote = 0 /\ cwork = <<>>
  /\ conf = GpsConf /\ modem = [i \in Sendable |-> GpsConf[i]]
  /\ ctrl = [q \in {"aiding", "control", "config"} |-> [s |-> 0, reqs |-> <<>>]]
  /\ told = NoClient
  /\ \E D \in SUBSET Compared : declined = D \union {"lock"}

ControlNext ==
  \/ locAPIEnable \/ locAPIDisable \/ locAPIGnssDeleteAidingData
  \/ \E c \in Configs \union {NoClient} : locAPIGnssUpdateConfig(c)
  \/ ServeControl

\* the lock is off while somebody votes, whatever was asked; NoClient asks nothing
ModemAgrees ==
  \A i \in Sendable \ declined : modem[i] = IF i = "lock" /\ vote # 0 THEN NoLock ELSE conf[i]
Asked == IF config = NoClient THEN {} ELSE DOMAIN config \ Ignored

(* "just return success if already enabled" (LocationAPIClientBase.cpp:110):  *)
(* when GnssAdapter has caught up, the modem is voted for by the session the  *)
(* client would disable, and by nobody when it is not enabled; mGps_conf has  *)
(* the configuration the client thinks it has; at any time the modem has what *)
(* mGps_conf has, but for the lock under a vote and for the items it declined *)
(* when they were last sent, though an item is not sent twice; and no request *)
(* is told of another's command.                                              *)
ControlSettles ==
  /\ told # NoClient => told.req = told.op
  /\ ModemAgrees
  /\ cwork = <<>> =>
       /\ vote = (IF enabled THEN ctrl["control"].s ELSE 0)
       /\ \A i \in Asked : conf[i] = config[i]
=============================================================================
