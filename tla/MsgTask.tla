------------------------------- MODULE MsgTask -------------------------------
(***************************************************************************)
(* A message task (src/gps/utils/MsgTask.cpp): any thread sends messages   *)
(* to a queue (msg_q.c, a linked list with a mutex and a condition), one   *)
(* LocThread handles them in order, and the owner may destroy the task at  *)
(* any time.  The thread deletes the MsgTask on its way out; the           *)
(* LocThreadDelegate is shared by owner and thread and counted.            *)
(***************************************************************************)
EXTENDS Naturals, Sequences

CONSTANT MaxMsg   \* bound: messages sent

ASSUME MsgTaskAssumption == MaxMsg \in Nat

VARIABLES
  joinable,   \* mJoinable, as the thread was created
  queue,      \* the messages in mQ, oldest first
  unblocked,  \* msg_q.unblocked
  accepted,   \* messages the queue accepted; they are numbered in that order
  refused,    \* messages msg_q_snd refused
  handled,    \* the messages whose proc() has returned
  flushed,    \* the messages freed with the queue
  worker,     \* where the thread is
  held,       \* the message it handles, in a sequence of at most one
  owner,      \* where MsgTask::destroy of the owner is
  mRunnable,  \* the delegate's mRunnable is not NULL
  refs,       \* mRefCount
  task,       \* the MsgTask: "alive" or "deleted"
  delegate    \* the LocThreadDelegate: "alive" or "deleted"

vars == <<joinable, queue, unblocked, accepted, refused, handled, flushed, worker,
          held, owner, mRunnable, refs, task, delegate>>

messages == <<queue, accepted, refused, handled, flushed, held>>

-----------------------------------------------------------------------------
(* Any thread: MsgTask::sendMsg, msg_q_snd under the mutex.  The queue is     *)
(* there as long as the task is.                                              *)

\* linked_list_add at the head, linked_list_remove takes from the tail
Enqueued_Newest(m) == <<m>> \o queue   \* mutant: last in, first out
Enqueued(m) == Append(queue, m)

sendMsg ==
  /\ task = "alive" /\ accepted + refused < MaxMsg
  /\ IF unblocked
     THEN refused' = refused + 1 /\ UNCHANGED <<queue, accepted>>
     ELSE accepted' = accepted + 1 /\ queue' = Enqueued(accepted + 1)
          /\ UNCHANGED refused
  /\ UNCHANGED <<joinable, unblocked, handled, flushed, worker, held, owner,
                 mRunnable, refs, task, delegate>>

-----------------------------------------------------------------------------
(* The thread: LocThreadDelegate::threadMain. *)

WorkerGoes(from, to) == worker = from /\ worker' = to

\* what reads mRunnable into the local variable
Begin ==
  /\ WorkerGoes("begin", IF mRunnable THEN "check" ELSE "unref")
  /\ UNCHANGED <<messages, joinable, unblocked, owner, mRunnable, refs, task, delegate>>

\* while isRunning()
Check ==
  /\ WorkerGoes("check", IF mRunnable THEN "receive" ELSE "exit")
  /\ UNCHANGED <<messages, joinable, unblocked, owner, mRunnable, refs, task, delegate>>

(* msg_q_rcv: refused at once when the queue is unblocked, else the thread    *)
(* waits for a message or for that, and takes the oldest message if any.      *)
Woken_IgnoresUnblock == queue # <<>>    \* mutant: only a message ends the wait
Woken == queue # <<>> \/ unblocked

Take ==
  IF queue # <<>>
  THEN worker' = "proc" /\ held' = <<Head(queue)>> /\ queue' = Tail(queue)
  ELSE worker' = "exit" /\ UNCHANGED <<held, queue>>

Receive ==
  /\ worker = "receive"
  /\ IF unblocked THEN worker' = "exit" /\ UNCHANGED <<held, queue>>
     ELSE IF queue = <<>> THEN worker' = "wait" /\ UNCHANGED <<held, queue>>
     ELSE Take
  /\ UNCHANGED <<joinable, unblocked, accepted, refused, handled, flushed, owner,
                 mRunnable, refs, task, delegate>>

Wake ==
  /\ worker = "wait" /\ Woken /\ Take
  /\ UNCHANGED <<joinable, unblocked, accepted, refused, handled, flushed, owner,
                 mRunnable, refs, task, delegate>>

\* msg->proc(), delete msg
Proc ==
  /\ WorkerGoes("proc", "check")
  /\ handled' = handled \o held /\ held' = <<>>
  /\ UNCHANGED <<joinable, queue, unblocked, accepted, refused, flushed, owner,
                 mRunnable, refs, task, delegate>>

\* after the loop: mRunnable = NULL
Exit ==
  /\ WorkerGoes("exit", "delete") /\ mRunnable' = FALSE
  /\ UNCHANGED <<messages, joinable, unblocked, owner, refs, task, delegate>>

\* delete runnable: ~MsgTask flushes and destroys the queue
DeleteRunnable ==
  /\ WorkerGoes("delete", "unref")
  /\ task' = "deleted" /\ flushed' = queue /\ queue' = <<>>
  /\ UNCHANGED <<joinable, unblocked, accepted, refused, handled, held, owner,
                 mRunnable, refs, delegate>>

(* LocThreadDelegate::destroy: the last one to go deletes it. *)
InitialRefs_One == 1     \* mutant: the thread is not counted
InitialRefs == 2

Unref == /\ refs' = refs - 1
         /\ delegate' = IF refs = 1 THEN "deleted" ELSE delegate

WorkerUnref ==
  /\ WorkerGoes("unref", "done") /\ Unref
  /\ UNCHANGED <<messages, joinable, unblocked, owner, mRunnable, task>>

-----------------------------------------------------------------------------
(* The owner: MsgTask::destroy. *)

OwnerGoes(from, to) == owner = from /\ owner' = to

\* msg_q_unblock wakes the waiting thread
Unblock ==
  /\ OwnerGoes("using", "forget") /\ unblocked' = TRUE
  /\ UNCHANGED <<messages, joinable, worker, mRunnable, refs, task, delegate>>

\* mThread = NULL, a member of the MsgTask
Forget ==
  /\ OwnerGoes("forget", IF joinable THEN "stop" ELSE "unref")
  /\ UNCHANGED <<messages, joinable, unblocked, worker, mRunnable, refs, task, delegate>>

\* delete thread: bye() of a joinable thread stops and joins it
Stop ==
  /\ OwnerGoes("stop", "join") /\ mRunnable' = FALSE
  /\ UNCHANGED <<messages, joinable, unblocked, worker, refs, task, delegate>>

Joined == worker = "done"

Join ==
  /\ OwnerGoes("join", "unref") /\ Joined
  /\ UNCHANGED <<messages, joinable, unblocked, worker, mRunnable, refs, task, delegate>>

OwnerUnref ==
  /\ OwnerGoes("unref", "done") /\ Unref
  /\ UNCHANGED <<messages, joinable, unblocked, worker, mRunnable, task>>

-----------------------------------------------------------------------------
Init ==
  /\ joinable \in BOOLEAN
  /\ queue = <<>> /\ unblocked = FALSE /\ accepted = 0 /\ refused = 0
  /\ handled = <<>> /\ flushed = <<>> /\ held = <<>>
  /\ worker = "begin" /\ owner = "using"
  /\ mRunnable = TRUE /\ refs = InitialRefs /\ task = "alive" /\ delegate = "alive"

Worker ==
  Begin \/ Check \/ Receive \/ Wake \/ Proc \/ Exit \/ DeleteRunnable \/ WorkerUnref
Destroying == Forget \/ Stop \/ Join \/ OwnerUnref

Next == sendMsg \/ Worker \/ Unblock \/ Destroying

Spec == Init /\ [][Next]_vars

(* Threads run; the owner need never call destroy(), but finishes it.         *)
FairSpec == Spec /\ WF_vars(Worker) /\ WF_vars(Destroying)

-----------------------------------------------------------------------------
Ids == 1..MaxMsg

TypeOK ==
  /\ joinable \in BOOLEAN /\ unblocked \in BOOLEAN
  /\ mRunnable \in BOOLEAN
  /\ queue \in Seq(Ids) /\ handled \in Seq(Ids) /\ flushed \in Seq(Ids) /\ held \in Seq(Ids)
  /\ accepted \in 0..MaxMsg /\ refused \in 0..MaxMsg
  /\ worker \in {"begin", "check", "receive", "wait", "proc", "exit", "delete",
                 "unref", "done"}
  /\ owner \in {"using", "forget", "stop", "join", "unref", "done"}
  /\ refs \in 0..2
  /\ task \in {"alive", "deleted"} /\ delegate \in {"alive", "deleted"}

(* Every accepted message is handled once, in the order of the queue, or is   *)
(* freed with the queue together with all that came after it.                 *)
ExactlyOnceInOrder ==
  handled \o held \o queue \o flushed = [i \in 1..accepted |-> i]

(* The delegate outlives the last use that owner and thread make of it, and   *)
(* is deleted once both are gone.                                             *)
DelegateLifetime ==
  /\ worker # "done" \/ owner # "done" => delegate = "alive"
  /\ worker = "done" /\ owner = "done" => delegate = "deleted"

(* When destroy() of a joinable task has returned, no message is being or     *)
(* will be handled.                                                           *)
NothingAfterJoin == owner = "done" /\ joinable => worker = "done"

(* A message is handled in the end unless the task is destroyed. *)
EventuallyHandled ==
  \A i \in Ids : (accepted = i) ~> (Len(handled) >= i \/ unblocked)

(* destroy() returns, and the thread ends. *)
DestroyTerminates == (owner = "forget") ~> (owner = "done" /\ worker = "done")

(* Nothing waits for ever, neither a message nor the owner (msg_q_rcv).       *)
NothingWaitsForever == EventuallyHandled /\ DestroyTerminates
=============================================================================
