---------------------------- MODULE AgpsEmergency ----------------------------
(***************************************************************************)
(* Emergency SUPL connections (class DSStateMachine and AgpsManager of     *)
(* src/gps/gnss/Agps.cpp): the modem's emergency requests go to the data   *)
(* service, with timed retries while it is busy, and fall back to the      *)
(* regular AGNSS state machine, which stands here as AtlService.           *)
(***************************************************************************)
EXTENDS Naturals, Sequences, FiniteSets

CONSTANTS EsHandles,    \* the connection handles of the modem
          MaxRetries,   \* MAX_START_DATA_CALL_RETRIES
          MaxQueue,     \* bound: messages waiting when the modem posts one
          MaxTimers     \* bound: retry timers running at once

VARIABLES
  dsState,   \* mState of the DS state machine
  list,      \* mSubscriberList, in order
  inactive,  \* the subscribers with mIsInactive
  retries,   \* mRetries
  timers,    \* retry timers that are running
  abandoned, \* the last attempt at the call failed with neither retry nor fallback
  queue,     \* messages for the MsgTask thread
  call,      \* the data call of the data service (external)
  atl,       \* the handles in the AGNSS state machine
  modem      \* what the modem believes of each handle

esVars == <<dsState, list, inactive, retries, timers, abandoned, queue, call,
            atl, modem>>

Agnss == INSTANCE AtlService WITH Handles <- EsHandles

InList(h) == \E i \in DOMAIN list : list[i] = h
Elements(l) == {l[i] : i \in DOMAIN l}

\* addSubscriber: one that is already there stays as it is
EsAdded(h) == IF InList(h) THEN list ELSE Append(list, h)

\* where the active subscribers are that anyActiveSubscribers looks for, and the
\* first of them (getFirstSubscriber(false))
Active(l, off) == {i \in DOMAIN l : l[i] \notin off}
First(l, off) == l[CHOOSE i \in Active(l, off) : \A j \in Active(l, off) : i <= j]

\* notifyAllSubscribers with deletion: what it can leave, the active ones in order
Remaining(l, off) ==
  LET Order == [1..Cardinality(Active(l, off)) -> Active(l, off)]
  IN {[k \in DOMAIN f |-> l[f[k]]] :
        f \in {g \in Order : \A i, j \in DOMAIN g : i < j => g[i] < g[j]}}

\* atlOpenStatus and atlCloseStatus: what the modem makes of the answer for S
Notified(S, answer) == [h \in EsHandles |-> IF h \in S THEN answer ELSE modem[h]]

\* notifyEventToSubscriber(DENIED): the requests of S go on to regular SUPL
Fallbacks(l) == [i \in DOMAIN l |-> <<"supl", l[i]>>]

\* is there a retry left when the data service is busy
MayRetry == retries < MaxRetries

(* requestOrReleaseDataConn(true) for the subscribers l: the call is started, *)
(* or the data service is busy and a timer will retry, or there is no call to *)
(* be had and the first active subscriber, it alone, falls back, or it fails  *)
(* and neither happens: an error the switch does not know, or the timer that  *)
(* does not start.                                                            *)
RequestCall(l, off, rest, started) ==
  LET active == Active(l, off)
      first == IF active = {} THEN <<>> ELSE <<First(l, off)>>
  IN \/ /\ started /\ active # {} /\ call = "none"
        /\ call' = "starting" /\ abandoned' = FALSE
        /\ queue' = rest /\ UNCHANGED <<retries, timers>>
     \/ /\ ~started /\ active # {} /\ MayRetry
        /\ timers < MaxTimers /\ retries' = retries + 1 /\ timers' = timers + 1
        /\ abandoned' = FALSE /\ queue' = rest /\ UNCHANGED call
     \/ /\ ~started /\ abandoned' = FALSE
        /\ retries' = IF active = {} THEN retries ELSE 0
        /\ queue' = rest \o Fallbacks(first) /\ UNCHANGED <<timers, call>>
     \/ /\ ~started /\ active # {} /\ abandoned' = TRUE
        /\ retries' = retries \/ (MayRetry /\ retries' = retries + 1)
        /\ queue' = rest /\ UNCHANGED <<timers, call>>

DsAskNothing(rest) == queue' = rest /\ UNCHANGED <<retries, timers, abandoned, call>>

\* requestOrReleaseDataConn(false)
ReleaseCall_Kept(rest) == DsAskNothing(rest)   \* mutant: the call is not stopped
ReleaseCall(rest) ==
  /\ call' = IF call = "none" THEN "none" ELSE "stopping"
  /\ queue' = rest /\ UNCHANGED <<retries, timers, abandoned>>

-----------------------------------------------------------------------------
(* The modem posts its requests. *)

requestSuplES(h) ==
  /\ modem[h] = "idle" /\ Len(queue) < MaxQueue
  /\ modem' = [modem EXCEPT ![h] = "opening"]
  /\ queue' = Append(queue, <<"es", h>>)
  /\ UNCHANGED <<dsState, list, inactive, retries, timers, abandoned, call, atl>>

releaseSuplES(h) ==
  /\ modem[h] \in {"opening", "open"} /\ Len(queue) < MaxQueue
  /\ modem' = [modem EXCEPT ![h] = "closing"]
  /\ queue' = Append(queue, <<"release", h>>)
  /\ UNCHANGED <<dsState, list, inactive, retries, timers, abandoned, call, atl>>

-----------------------------------------------------------------------------
(* The MsgTask thread handles a message. *)

(* AgpsMsgRequestATL for SUPL_ES, of the modem or of a retry timer:           *)
(* processAgpsEventSubscribe.                                                 *)
ProcRequestEs(h) ==
  LET rest == Tail(queue)
  IN /\ queue # <<>> /\ Head(queue) = <<"es", h>>
     /\ list' = EsAdded(h)
     /\ \/ \E started \in BOOLEAN :
             /\ dsState = "RELEASED"
             /\ dsState' = IF started THEN "PENDING" ELSE dsState
             /\ RequestCall(list', inactive, rest, started)
             /\ modem' = modem
        \/ /\ dsState = "ACQUIRED" /\ dsState' = dsState
           /\ modem' = Notified({h}, "open") /\ DsAskNothing(rest)
        \/ /\ dsState \in {"PENDING", "RELEASING"} /\ dsState' = dsState
           /\ modem' = modem /\ DsAskNothing(rest)
     /\ UNCHANGED <<inactive, atl>>

\* AgpsMsgRequestATL for SUPL: one that falls back goes to the AGNSS state machine
ProcRequestSupl(h) ==
  /\ queue # <<>> /\ Head(queue) = <<"supl", h>>
  /\ DsAskNothing(Tail(queue))
  /\ IF atl[h] = "idle" THEN Agnss!Request(h) ELSE atl' = atl
  /\ modem' = IF atl'[h] = "open" THEN Notified({h}, "open") ELSE modem
  /\ UNCHANGED <<dsState, list, inactive>>

(* AgpsMsgReleaseATL: AgpsManager::releaseATL looks in the AGNSS state        *)
(* machine first.                                                             *)
ReleaseInDs(h, rest) ==   \* processAgpsEventUnsubscribe of one that waits for the close
  \/ /\ dsState = "RELEASED"   \* told, and kept in the list
     /\ modem' = Notified({h}, "idle")
     /\ DsAskNothing(rest) /\ UNCHANGED <<dsState, inactive>>
  \/ /\ dsState # "RELEASED" /\ modem' = modem
     /\ inactive' = inactive \union {h}
     /\ IF dsState # "RELEASING" /\ Active(list, inactive') = {}
        THEN dsState' = "RELEASING" /\ ReleaseCall(rest)
        ELSE dsState' = dsState /\ DsAskNothing(rest)

ProcRelease(h) ==
  LET rest == Tail(queue)
  IN /\ queue # <<>> /\ Head(queue) = <<"release", h>>
     /\ \/ /\ atl[h] # "idle"
           /\ atl' = [atl EXCEPT ![h] = "idle"] /\ modem' = Notified({h}, "idle")
           /\ DsAskNothing(rest) /\ UNCHANGED <<dsState, inactive>>
        \/ atl[h] = "idle" /\ InList(h) /\ ReleaseInDs(h, rest) /\ atl' = atl
        \/ /\ atl[h] = "idle" /\ ~InList(h) /\ modem' = Notified({h}, "idle")
           /\ DsAskNothing(rest) /\ UNCHANGED <<dsState, inactive, atl>>
     /\ list' = list

\* reportDataCallOpened: processAgpsEventGranted
ProcOpened ==
  /\ queue # <<>> /\ Head(queue) = <<"opened">>
  /\ DsAskNothing(Tail(queue))
  /\ IF dsState = "PENDING"
     THEN /\ dsState' = "ACQUIRED"
          /\ modem' = Notified(Elements(list) \ inactive, "open")
     ELSE UNCHANGED <<dsState, modem>>
  /\ UNCHANGED <<list, inactive, atl>>

(* reportDataCallClosed: in PENDING the call has failed, everyone falls back  *)
(* (processAgpsEventDenied); otherwise processAgpsEventReleased.              *)
ProcClosed ==
  LET rest == Tail(queue)
      waiting == Elements(list) \ inactive
  IN /\ queue # <<>> /\ Head(queue) = <<"closed">>
     /\ \/ /\ dsState = "PENDING" /\ dsState' = "RELEASED" /\ list' = <<>>
           /\ queue' = rest \o Fallbacks(list) /\ retries' = IF list = <<>> THEN retries ELSE 0
           /\ UNCHANGED <<timers, abandoned, call, modem>>
        \/ /\ dsState = "ACQUIRED" /\ dsState' = "RELEASED" /\ list' = <<>>
           /\ modem' = Notified(Elements(list), "idle") /\ DsAskNothing(rest)
        \/ /\ dsState = "RELEASING" /\ list' \in Remaining(list, inactive)
           /\ modem' = Notified(inactive, "idle")
           /\ IF waiting # {}
              THEN /\ dsState' = "PENDING"
                   /\ \E started \in BOOLEAN : RequestCall(list', {}, rest, started)
              ELSE dsState' = "RELEASED" /\ DsAskNothing(rest)
        \/ /\ dsState = "RELEASED" /\ DsAskNothing(rest)
           /\ UNCHANGED <<dsState, list, modem>>
     /\ inactive' = inactive \intersect Elements(list')
     /\ atl' = atl

-----------------------------------------------------------------------------
(* The timer thread: retryCallback. *)
RetryTimer ==
  /\ timers > 0 /\ timers' = timers - 1
  /\ queue' = IF Active(list, inactive) = {} THEN queue
              ELSE Append(queue, <<"es", First(list, inactive)>>)
  /\ UNCHANGED <<dsState, list, inactive, retries, abandoned, call, atl, modem>>

(* The data service (external). *)
DataCallOpened ==
  /\ call = "starting" /\ call' = "up" /\ queue' = Append(queue, <<"opened">>)
  /\ UNCHANGED <<dsState, list, inactive, retries, timers, abandoned, atl, modem>>

DataCallClosed ==
  /\ call # "none" /\ call' = "none" /\ queue' = Append(queue, <<"closed">>)
  /\ UNCHANGED <<dsState, list, inactive, retries, timers, abandoned, atl, modem>>

(* The AGNSS state machine answers: opened, or refused or lost. *)
AgnssAnswers ==
  /\ \E h \in EsHandles : atl[h] # "idle"
  /\ Agnss!Granted \/ Agnss!Lost
  /\ modem' = [h \in EsHandles |-> IF atl'[h] # atl[h] THEN atl'[h] ELSE modem[h]]
  /\ UNCHANGED <<dsState, list, inactive, retries, timers, abandoned, queue, call>>

-----------------------------------------------------------------------------
EsInit ==
  /\ dsState = "RELEASED" /\ list = <<>> /\ inactive = {}
  /\ retries = 0 /\ timers = 0 /\ abandoned = FALSE /\ queue = <<>> /\ call = "none"
  /\ Agnss!Init /\ modem = [h \in EsHandles |-> "idle"]

EsModem == \E h \in EsHandles : requestSuplES(h) \/ releaseSuplES(h)
MsgTaskStep ==
  \/ \E h \in EsHandles : ProcRequestEs(h) \/ ProcRequestSupl(h) \/ ProcRelease(h)
  \/ ProcOpened \/ ProcClosed
DataService == DataCallOpened \/ DataCallClosed

EsNext == EsModem \/ MsgTaskStep \/ RetryTimer \/ DataService \/ AgnssAnswers

EsSpec == EsInit /\ [][EsNext]_esVars

(* MsgTask and the timer run, the data service answers a start and a stop,   *)
(* and the AGNSS state machine answers what waits there.                     *)
EsFair ==
  /\ EsSpec /\ WF_esVars(MsgTaskStep) /\ WF_esVars(RetryTimer)
  /\ WF_esVars(call # "up" /\ DataService)
  /\ WF_esVars((\E h \in EsHandles : atl[h] = "opening") /\ AgnssAnswers)

-----------------------------------------------------------------------------
(* The connection is asked for or held only while an active subscriber needs  *)
(* it, and is being given up only while one waits for that.                   *)
DsStateMatches ==
  /\ dsState \in {"PENDING", "ACQUIRED"} => Elements(list) \ inactive # {}
  /\ dsState = "RELEASING" => inactive # {}
  /\ dsState = "RELEASED" => inactive = {}

(* A data call that is up or starting is known to the state machine or about  *)
(* to be reported closed: no call is left running without an owner.           *)
CallHasOwner == call \in {"starting", "up"} => dsState \in {"PENDING", "ACQUIRED"}

(* Both: state, subscribers and call agree.                                   *)
CallOwned == DsStateMatches /\ CallHasOwner

(* Every request of the modem is answered, and every release, but for a       *)
(* request whose attempt at the call was abandoned, while nothing tries again. *)
EsAnswered ==
  \A h \in EsHandles :
    /\ (modem[h] = "opening") ~> (modem[h] # "opening" \/ abandoned)
    /\ (modem[h] = "closing") ~> (modem[h] # "closing")
=============================================================================
