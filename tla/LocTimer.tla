------------------------------ MODULE LocTimer ------------------------------
(***************************************************************************)
(* The timer service (src/gps/utils/LocTimer.cpp): clients start and stop  *)
(* timers from any thread, a heap of running timers that only the MsgTask  *)
(* thread touches, and a poll thread that waits for the one timerfd, armed *)
(* with the soonest timer of the heap.  One container is modelled; the     *)
(* second one (alarms) has its own heap and timerfd and shares the threads *)
(***************************************************************************)
EXTENDS Naturals, Sequences

CONSTANTS Timers,     \* LocTimer objects
          Delays,     \* the delays they are started with
          None,       \* no client
          MaxTime,    \* bound: the clock
          MaxStarts   \* bound: LocTimerDelegates created

VARIABLES
  now,        \* CLOCK_BOOTTIME
  delegates,  \* the LocTimerDelegates, in the order of their creation
  running,    \* LocTimer::mTimer as an index of delegates, 0 for NULL
  heap,       \* the delegates in the LocHeap
  queue,      \* messages for the MsgTask thread
  task,       \* what MsgTimerExpire::proc is doing
  armed,      \* time the timerfd is set to, 0 when it is disarmed
  polled,     \* is the timerfd in the epoll set
  poll        \* where the poll thread is

vars == <<now, delegates, running, heap, queue, task, armed, polled, poll>>
timerfd == <<armed, polled>>

Ids == DOMAIN delegates
Due(d) == delegates[d].due

\* LocTimerDelegate::ranks: the soonest rank highest
Tops(h) == {d \in h : \A e \in h : Due(d) <= Due(e)}

(* updateSoonestTime(NULL): an empty heap is equal to the prior top, and      *)
(* leaves the timerfd as it is.                                               *)
Rearm(h) ==
  \/ \E d \in Tops(h) : armed' = Due(d) /\ polled' = TRUE
  \/ h = {} /\ UNCHANGED timerfd

-----------------------------------------------------------------------------
(* Clients, in any thread, under the lock of the timer. *)

\* the delegate that is about to be created
NewId == Len(delegates) + 1

start(t, delay) ==
  /\ running[t] = 0
  /\ Len(delegates) < MaxStarts /\ now + delay <= MaxTime
  /\ delegates' = Append(delegates, [client |-> t, due |-> now + delay, there |-> TRUE])
  /\ running' = [running EXCEPT ![t] = NewId]
  /\ queue' = Append(queue, <<"push", NewId>>)
  /\ UNCHANGED <<now, heap, task, timerfd, poll>>

Cleared(t) == [running EXCEPT ![t] = 0]

\* LocTimer::stop when the timer runs, with destroyLocked
Stopped(t) ==
  /\ running[t] # 0
  /\ running' = Cleared(t)
  /\ delegates' = [delegates EXCEPT ![running[t]].client = None]
  /\ queue' = Append(queue, <<"remove", running[t]>>)

stop(t) == Stopped(t) /\ UNCHANGED <<now, heap, task, timerfd, poll>>

-----------------------------------------------------------------------------
(* The MsgTask thread. *)

Idle == [pc |-> "idle", client |-> None, id |-> 0, at |-> 0]

Receive(msg) ==
  /\ task.pc = "idle" /\ queue # <<>> /\ Head(queue) = msg /\ queue' = Tail(queue)

\* MsgTimerPush: the timerfd is set when the new timer is the soonest
Push(d) ==
  /\ Receive(<<"push", d>>)
  /\ heap' = heap \union {d}
  /\ IF \A e \in heap : Due(d) < Due(e)
     THEN armed' = Due(d) /\ polled' = TRUE
     ELSE UNCHANGED timerfd
  /\ UNCHANGED <<now, delegates, running, task, poll>>

\* MsgTimerRemove: between equally soon timers either one may be the top
Remove(d) ==
  /\ Receive(<<"remove", d>>)
  /\ heap' = heap \ {d}
  /\ \/ d \in Tops(heap) /\ Rearm(heap')
     \/ Tops(heap) # {d} /\ UNCHANGED timerfd
  /\ delegates' = [delegates EXCEPT ![d].there = FALSE]
  /\ UNCHANGED <<now, running, task, poll>>

(* MsgTimerExpire: the first timer is popped whatever its time is, the next   *)
(* ones while they are due.  LocTimerDelegate::expire reads mClient without   *)
(* the lock, and calls back if it is the one that stops the timer.            *)
Pop(d, at) ==
  /\ d \in Tops(heap) /\ heap' = heap \ {d}
  /\ task' = [pc |-> "popped", client |-> delegates[d].client, id |-> d, at |-> at]
  /\ UNCHANGED timerfd

EndExpire == Rearm(heap)

EndOfLoop == task' = Idle /\ heap' = heap /\ EndExpire

Expire ==
  /\ Receive(<<"expire">>)
  /\ \/ \E d \in heap : Pop(d, now)
     \/ heap = {} /\ EndOfLoop
  /\ UNCHANGED <<now, delegates, running, poll>>

ExpireNext ==
  /\ \/ task.pc = "popped" /\ task.client \notin {t \in Timers : running[t] # 0}
     \/ task.pc = "callback"   \* timeOutCallback
  /\ \/ \E d \in heap : Due(d) <= task.at /\ Pop(d, task.at)
     \/ (\A d \in heap : Due(d) > task.at) /\ EndOfLoop
  /\ UNCHANGED <<now, delegates, running, queue, poll>>

ExpireStop ==
  /\ task.pc = "popped" /\ task.client # None /\ Stopped(task.client)
  /\ task' = [task EXCEPT !.pc = "callback", !.id = running[task.client]]
  /\ UNCHANGED <<now, heap, timerfd, poll>>

-----------------------------------------------------------------------------
(* The poll thread: epoll_wait, then LocTimerContainer::expire. *)

Wake ==
  /\ poll = "wait" /\ polled /\ armed # 0 /\ armed <= now
  /\ poll' = "disarm"
  /\ UNCHANGED <<now, delegates, running, heap, queue, task, timerfd>>

Disarm ==
  /\ poll = "disarm" /\ poll' = "remove" /\ armed' = 0
  /\ UNCHANGED <<now, delegates, running, heap, queue, task, polled>>

removePoll ==
  /\ poll = "remove" /\ poll' = "send" /\ polled' = FALSE
  /\ UNCHANGED <<now, delegates, running, heap, queue, task, armed>>

SendExpire ==
  /\ poll = "send" /\ poll' = "wait" /\ queue' = Append(queue, <<"expire">>)
  /\ UNCHANGED <<now, delegates, running, heap, task, timerfd>>

Tick ==
  /\ now < MaxTime /\ now' = now + 1
  /\ UNCHANGED <<delegates, running, heap, queue, task, timerfd, poll>>

-----------------------------------------------------------------------------
Init ==
  /\ now = 1 /\ delegates = <<>> /\ running = [t \in Timers |-> 0]
  /\ heap = {} /\ queue = <<>> /\ task = Idle
  /\ armed = 0 /\ polled = FALSE /\ poll = "wait"

Client == \E t \in Timers : (\E delay \in Delays : start(t, delay)) \/ stop(t)
MsgTaskStep == (\E d \in Ids : Push(d) \/ Remove(d)) \/ Expire \/ ExpireNext \/ ExpireStop
PollStep == Wake \/ Disarm \/ removePoll \/ SendExpire

Next == Client \/ MsgTaskStep \/ PollStep \/ Tick

Spec == Init /\ [][Next]_vars

\* the two threads run and time passes; clients need not do anything
FairSpec == Spec /\ WF_vars(MsgTaskStep) /\ WF_vars(PollStep) /\ WF_vars(Tick)

-----------------------------------------------------------------------------
(* Every timer that is started is stopped or calls back.                      *)
EventuallyCalled ==
  \A t \in Timers : \A d \in 1..MaxStarts : running[t] = d ~> running[t] # d

(* "pop everything in the heap that outRanks now, i.e. has time older than    *)
(* now and then call expire() on that timer" (LocTimer.cpp:367): a timer that *)
(* its client still runs does not expire before its time.                     *)
NoEarlyExpiry ==
  (task.pc = "popped" /\ task.client # None) => Due(task.id) <= task.at
=============================================================================
