---------------------------- MODULE Utils_proofs ----------------------------
(***************************************************************************)
(* Proofs about the programs of MCUtils with a thread of their own.  The   *)
(* amplifier: no update of the audio HAL is lost, for any devices and any  *)
(* number of calls and refused attempts.  The message task, for any number *)
(* of messages: each accepted message is handled once and in order, the    *)
(* delegate lives exactly as long as it is used, and nothing is handled    *)
(* after a join.                                                           *)
(***************************************************************************)
EXTENDS Amplifier, MsgTask, SequenceTheorems, TLAPS

(***************************************************************************)
(* The amplifier.                                                          *)
(***************************************************************************)
(* The copy never shows the last device enabled.                              *)
LastUnseen == ~rstate.enableds[Last]

(* With nothing posted the copy is what was asked, save in the moment before  *)
(* it is taken and when the update found by a retry is about to be given back.*)
CopyCurrent ==
  trigger_update = 0 /\ pc \in {"waiting", "looping", "sleeping", "again"}
    => rstate = Asked

(* A refused attempt is one the copy asks for.                                *)
Trying ==
  pc \in {"sleeping", "again", "changed"} =>
    /\ On(rstate, control) /\ control # "bypass"
    /\ skipped \/ amp.device = rstate.device

DeviceSet == reinitialize \/ skipped \/ amp.device = rstate.device

AmpCurrent == trigger_update = 0 /\ pc \in {"waiting", "looping"} => Matches(rstate)

AmpIInv ==
  AmpTypeOK /\ LastUnseen /\ CopyCurrent /\ Trying /\ DeviceSet /\ AmpCurrent

-----------------------------------------------------------------------------
(* A call leaves a state of the right type and a post (sem_post).             *)
LEMMA CallKeeps ==
  ASSUME NEW s \in States, AmpIInv, Call(s)
  PROVE  AmpIInv'
<1> USE DEF Call, thread
<1>1. AmpTypeOK'
  BY DEF AmpIInv, AmpTypeOK
<1>2. trigger_update' > 0
  BY DEF AmpIInv, AmpTypeOK
<1>3. LastUnseen' /\ CopyCurrent' /\ Trying' /\ DeviceSet' /\ AmpCurrent'
  BY <1>2 DEF AmpIInv, LastUnseen, CopyCurrent, Trying, DeviceSet, AmpCurrent, On
<1> QED BY <1>1, <1>3 DEF AmpIInv

LEMMA CallsKeep ==
  ASSUME AmpIInv, Calls
  PROVE  AmpIInv'
<1> USE AmplifierAssumption DEF AmpIInv, AmplifierAssumption
<1>1. state \in States
  BY DEF AmpIInv, AmpTypeOK
<1>2. CASE set_output_devices
  <2>1. PICK d \in Devices \ {NoDevice} :
          Call([state EXCEPT
            !.device = IF Routing[d] = "default" THEN "stereo" ELSE Routing[d],
            !.in_device = d, !.reversed = (d = Reverse)])
    BY <1>2 DEF set_output_devices
  <2>2. (IF Routing[d] = "default" THEN "stereo" ELSE Routing[d]) \in AmpDevices
    BY DEF AmpDevices
  <2>3. [state EXCEPT
            !.device = IF Routing[d] = "default" THEN "stereo" ELSE Routing[d],
            !.in_device = d, !.reversed = (d = Reverse)] \in States
    BY <1>1, <2>2 DEF States
  <2> QED BY <2>1, <2>3, CallKeeps
<1>3. CASE enable_output_devices
  <2>1. PICK d \in Devices, enable \in BOOLEAN :
          Call([state EXCEPT !.in_call = enable /\ d \in CallDevices,
                             !.enableds[d] = enable])
    BY <1>3 DEF enable_output_devices
  <2>2. [state EXCEPT !.in_call = enable /\ d \in CallDevices,
                      !.enableds[d] = enable] \in States
    BY <1>1 DEF States
  <2> QED BY <2>1, <2>2, CallKeeps
<1>4. CASE set_mode
  <2>1. PICK m \in {"music", "voice"} : Call([state EXCEPT !.mode = m])
    BY <1>4 DEF set_mode
  <2>2. [state EXCEPT !.mode = m] \in States
    BY <1>1 DEF States
  <2> QED BY <2>1, <2>2, CallKeeps
<1>5. CASE output_stream_start
  <2>1. [state EXCEPT !.streams = @ + 1] \in States
    BY <1>1 DEF States
  <2> QED BY <1>5, <2>1, CallKeeps DEF output_stream_start
<1>6. CASE output_stream_standby
  <2>1. [state EXCEPT !.streams = @ - 1] \in States
    BY <1>1, <1>6 DEF States, output_stream_standby
  <2> QED BY <1>6, <2>1, CallKeeps DEF output_stream_standby
<1> QED BY <1>2, <1>3, <1>4, <1>5, <1>6 DEF Calls

-----------------------------------------------------------------------------
(* What is copied is what was asked (tfa9890_update_amp).                     *)
LEMMA CopyIsAsked ==
  ASSUME AmpIInv
  PROVE  Copy = Asked /\ Copy \in States /\ ~Copy.enableds[Last]
<1> USE AmplifierAssumption DEF AmpIInv, AmplifierAssumption
<1>1. rstate \in States /\ state \in States /\ rstate.enableds[Last] = FALSE
  BY DEF AmpIInv, AmpTypeOK, LastUnseen, States
<1>2. Copy = Asked
  BY <1>1 DEF Copy, Asked
<1>3. Asked \in States /\ ~Asked.enableds[Last]
  BY <1>1 DEF Asked, States
<1> QED BY <1>2, <1>3

(* Taking the state and switching the amplifier for the first time.           *)
LEMMA RefreshKeeps ==
  ASSUME AmpIInv, Refresh
  PROVE  AmpIInv'
<1> USE DEF Refresh
<1> DEFINE fresh == \/ reinitialize \/ state.device # rstate.device
                    \/ state.reversed # rstate.reversed
           a == IF fresh /\ control # "bypass" THEN Reset(amp, Copy) ELSE amp
<1>1. Copy = Asked /\ Copy \in States /\ ~Copy.enableds[Last]
  BY CopyIsAsked
<1>2. /\ amp \in [on : BOOLEAN, mode : {"music", "voice"}, device : AmpDevices]
      /\ a \in [on : BOOLEAN, mode : {"music", "voice"}, device : AmpDevices]
  BY <1>1 DEF AmpIInv, AmpTypeOK, Reset, States
<1>3. skipped' \/ a.device = Copy.device
  <2>1. CASE fresh /\ control # "bypass"
    BY <1>2, <2>1 DEF Reset
  <2>2. CASE fresh /\ control = "bypass"
    BY <2>2
  <2>3. CASE ~fresh
    BY <2>3, <1>1 DEF AmpIInv, DeviceSet, Asked
  <2> QED BY <2>1, <2>2, <2>3
<1>4. Asked' = rstate' /\ rstate' = Copy
  BY <1>1 DEF Asked
<1>5. CASE /\ On(Copy, control)
           /\ amp' = IF control = "bypass" THEN [a EXCEPT !.on = TRUE]
                                           ELSE Ready(a, Copy)
           /\ Shown(Copy) /\ UNCHANGED fails
  <2>1. control' = control /\ pc' = "looping" /\ reinitialize' = FALSE
    BY <1>5 DEF Shown, On
  <2>2. amp' \in [on : BOOLEAN, mode : {"music", "voice"}, device : AmpDevices]
    BY <1>1, <1>2, <1>5 DEF Ready, States
  <2>3. /\ amp'.on = TRUE /\ amp'.device = a.device
        /\ control # "bypass" => amp'.mode = Copy.mode
    BY <1>2, <1>5 DEF Ready
  <2>4. AmpTypeOK'
    BY <1>1, <1>5, <2>1, <2>2 DEF AmpIInv, AmpTypeOK
  <2>5. Matches(rstate)'
    BY <1>3, <1>4, <1>5, <2>1, <2>3 DEF Matches, On
  <2>6. LastUnseen' /\ CopyCurrent' /\ Trying' /\ DeviceSet' /\ AmpCurrent'
    BY <1>1, <1>3, <1>4, <2>1, <2>3, <2>5
    DEF LastUnseen, CopyCurrent, Trying, DeviceSet, AmpCurrent
  <2> QED BY <2>4, <2>6 DEF AmpIInv
<1>6. CASE On(Copy, control) /\ amp' = a /\ Refused(Copy)
  <2>1. /\ control' = control /\ pc' = "sleeping" /\ control # "bypass"
        /\ reinitialize' = reinitialize /\ fails' = fails + 1
    BY <1>6 DEF Refused, MayFail
  <2>2. reinitialize' \in BOOLEAN /\ skipped' \in BOOLEAN
    BY <2>1 DEF AmpIInv, AmpTypeOK
  <2>3. AmpTypeOK'
    BY <1>1, <1>2, <1>6, <2>1, <2>2 DEF AmpIInv, AmpTypeOK
  <2>4. LastUnseen' /\ CopyCurrent' /\ Trying' /\ DeviceSet' /\ AmpCurrent'
    BY <1>1, <1>3, <1>4, <1>6, <2>1
    DEF LastUnseen, CopyCurrent, Trying, DeviceSet, AmpCurrent, On
  <2> QED BY <2>3, <2>4 DEF AmpIInv
<1>7. CASE ~On(Copy, control) /\ amp' = Off(a) /\ Shown(Copy) /\ UNCHANGED fails
  <2>1. pc' = "looping" /\ reinitialize' = FALSE /\ ~On(Copy, control')
    BY <1>7 DEF Shown, On
  <2>2. control' \in Controls
    BY <1>7 DEF Shown, AmpIInv, AmpTypeOK
  <2>3. /\ amp' \in [on : BOOLEAN, mode : {"music", "voice"}, device : AmpDevices]
        /\ amp'.on = FALSE /\ amp'.device = a.device
    BY <1>2, <1>7 DEF Off
  <2>4. AmpTypeOK'
    BY <1>1, <1>7, <2>1, <2>2, <2>3 DEF AmpIInv, AmpTypeOK
  <2>5. Matches(rstate)'
    BY <1>1, <1>4, <2>1, <2>3 DEF Matches, On, States
  <2>6. LastUnseen' /\ CopyCurrent' /\ Trying' /\ DeviceSet' /\ AmpCurrent'
    BY <1>1, <1>3, <1>4, <2>1, <2>3, <2>5
    DEF LastUnseen, CopyCurrent, Trying, DeviceSet, AmpCurrent
  <2> QED BY <2>4, <2>6 DEF AmpIInv
<1> QED BY <1>5, <1>6, <1>7 DEF Show

-----------------------------------------------------------------------------
(* The other steps of the thread.                                             *)
LEMMA TakePostKeeps ==
  ASSUME AmpIInv, TakePost
  PROVE  AmpIInv'
BY DEF TakePost, AmpIInv, AmpTypeOK, LastUnseen, CopyCurrent, Trying, DeviceSet, AmpCurrent, On

LEMMA PeekKeeps ==
  ASSUME AmpIInv, Peek
  PROVE  AmpIInv'
BY DEF Peek, AmpIInv, AmpTypeOK, LastUnseen, CopyCurrent, Trying, DeviceSet, AmpCurrent,
       On, Asked

LEMMA LoopKeeps ==
  ASSUME AmpIInv, Loop
  PROVE  AmpIInv'
<1>1. AmpTypeOK'
  BY DEF Loop, AmpIInv, AmpTypeOK
<1>2. LastUnseen' /\ CopyCurrent' /\ Trying' /\ DeviceSet' /\ AmpCurrent'
  BY DEF Loop, AmpIInv, LastUnseen, CopyCurrent, Trying, DeviceSet, AmpCurrent,
         Asked, Matches, On
<1> QED BY <1>1, <1>2 DEF AmpIInv

LEMMA ChangedKeeps ==
  ASSUME AmpIInv, Changed
  PROVE  AmpIInv'
<1>1. control' = control /\ trigger_update' > 0 /\ pc' = "looping"
  BY DEF Changed, Shown, Reposted, AmpIInv, Trying, On, AmpTypeOK
<1>2. AmpTypeOK'
  <2>1. reinitialize' \in BOOLEAN /\ skipped' \in BOOLEAN
    BY DEF Changed, Shown, AmpIInv, AmpTypeOK
  <2>2. trigger_update' \in Nat
    BY DEF Changed, Reposted, AmpIInv, AmpTypeOK
  <2>3. UNCHANGED <<state, rstate, trigger_exit, control, wanted, amp, user, calls, fails>>
    BY <1>1 DEF Changed
  <2> QED BY <1>1, <2>1, <2>2, <2>3 DEF AmpIInv, AmpTypeOK
<1>3. LastUnseen' /\ CopyCurrent' /\ Trying' /\ DeviceSet' /\ AmpCurrent'
  BY <1>1 DEF Changed, AmpIInv, LastUnseen, CopyCurrent, Trying, DeviceSet, AmpCurrent
<1> QED BY <1>2, <1>3 DEF AmpIInv

LEMMA RetryKeeps ==
  ASSUME AmpIInv, Retry
  PROVE  AmpIInv'
<1> USE DEF Retry
<1>1. On(rstate, control) /\ control # "bypass" /\ (skipped \/ amp.device = rstate.device)
  BY DEF AmpIInv, Trying
<1>2. CASE amp' = Ready(amp, rstate) /\ Shown(rstate) /\ UNCHANGED fails
  <2>1. control' = control /\ pc' = "looping"
    BY <1>1, <1>2 DEF Shown, On
  <2>2. /\ amp' \in [on : BOOLEAN, mode : {"music", "voice"}, device : AmpDevices]
        /\ amp'.on = TRUE /\ amp'.mode = rstate.mode /\ amp'.device = amp.device
    BY <1>2 DEF Ready, AmpIInv, AmpTypeOK, States
  <2>3. AmpTypeOK'
    BY <1>2, <2>1, <2>2 DEF Shown, AmpIInv, AmpTypeOK
  <2>4. Matches(rstate)'
    BY <1>1, <2>1, <2>2 DEF Matches, On
  <2>5. LastUnseen' /\ CopyCurrent' /\ Trying' /\ DeviceSet' /\ AmpCurrent'
    BY <1>1, <2>1, <2>2, <2>4
    DEF AmpIInv, LastUnseen, CopyCurrent, Trying, DeviceSet, AmpCurrent, Asked
  <2> QED BY <2>3, <2>5 DEF AmpIInv
<1>3. CASE Refused(rstate) /\ UNCHANGED amp
  BY <1>1, <1>3 DEF Refused, AmpIInv, AmpTypeOK, LastUnseen, CopyCurrent, Trying,
                    DeviceSet, AmpCurrent, On, Asked
<1> QED BY <1>2, <1>3

(* Closing (tfa9890_dev_close) only posts.                                    *)
LEMMA ClosingKeeps ==
  ASSUME AmpIInv, PostExit \/ Closing
  PROVE  AmpIInv'
<1> USE DEF PostExit, PostUpdate, JoinThread, Closing, thread
<1>1. AmpTypeOK'
  BY DEF AmpIInv, AmpTypeOK
<1>2. LastUnseen' /\ Trying' /\ DeviceSet' /\ CopyCurrent' /\ AmpCurrent'
  BY DEF AmpIInv, AmpTypeOK, LastUnseen, Trying, DeviceSet, CopyCurrent, AmpCurrent, On,
         Asked, Matches
<1> QED BY <1>1, <1>2 DEF AmpIInv

-----------------------------------------------------------------------------
LEMMA AmpInvariant == AmpSpec => []AmpIInv
<1>1. AmpInit => AmpIInv
  <2> SUFFICES ASSUME AmpInit PROVE AmpIInv
    OBVIOUS
  <2>1. Zeroed \in States
    BY AmplifierAssumption DEF Zeroed, States, AmpDevices, AmplifierAssumption
  <2>2. AmpTypeOK
    BY <2>1 DEF AmpInit, AmpTypeOK, Controls
  <2>3. ~On(Zeroed, control) /\ Zeroed.enableds[Last] = FALSE
    BY AmplifierAssumption DEF Zeroed, On, AmplifierAssumption
  <2>4. Asked = Zeroed
    BY <2>1, <2>3 DEF AmpInit, Asked, States
  <2>5. Matches(rstate)
    <3>1. amp.on = FALSE /\ On(rstate, control) = FALSE
      BY <2>3 DEF AmpInit, On, Zeroed
    <3> QED BY <3>1 DEF Matches
  <2>6. LastUnseen /\ CopyCurrent /\ Trying /\ DeviceSet /\ AmpCurrent
    BY <2>3, <2>4, <2>5
    DEF AmpInit, LastUnseen, CopyCurrent, Trying, DeviceSet, AmpCurrent
  <2> QED BY <2>2, <2>6 DEF AmpIInv
<1>2. AmpIInv /\ [AmpNext]_ampVars => AmpIInv'
  <2> SUFFICES ASSUME AmpIInv, [AmpNext]_ampVars PROVE AmpIInv'
    OBVIOUS
  <2>1. CASE Calls
    BY <2>1, CallsKeep
  <2>2. CASE SetProperty
    <3>1. wanted' \in Controls
      BY <2>2 DEF SetProperty
    <3> QED BY <2>2, <3>1 DEF SetProperty, thread, AmpIInv, AmpTypeOK, LastUnseen,
              CopyCurrent, Trying, DeviceSet, AmpCurrent, On, Asked, Matches
  <2>3. CASE Thread
    BY <2>3, TakePostKeeps, RefreshKeeps, PeekKeeps, RetryKeeps, ChangedKeeps, LoopKeeps
    DEF Thread
  <2>4. CASE PostExit \/ Closing
    BY <2>4, ClosingKeeps
  <2>5. CASE UNCHANGED ampVars
    BY <2>5 DEF ampVars, thread, AmpIInv, AmpTypeOK, LastUnseen, CopyCurrent, Trying,
              DeviceSet, AmpCurrent, On, Asked, Matches
  <2> QED BY <2>1, <2>2, <2>3, <2>4, <2>5 DEF AmpNext
<1> QED BY <1>1, <1>2, PTL DEF AmpSpec

(* The type invariant of the amplifier's thread and of what it drives         *)
(* (tfa9890_update_amp), for any devices.                                     *)
THEOREM AmpTypeCorrect ==
  AmpSpec => []AmpTypeOK
<1>1. AmpIInv => AmpTypeOK
  BY DEF AmpIInv
<1> QED BY <1>1, AmpInvariant, PTL

(* Whenever the thread waits with nothing posted, the amplifier is as the     *)
(* calls last asked (tfa9890_update_amp, tfa9890_set_amp_state).              *)
THEOREM NoUpdateEverLost ==
  AmpSpec => []NoUpdateLost
<1>1. AmpIInv => NoUpdateLost
  BY DEF AmpIInv, CopyCurrent, AmpCurrent, NoUpdateLost
<1> QED BY <1>1, AmpInvariant, PTL

(***************************************************************************)
(* The message task.                                                       *)
(***************************************************************************)
(* The counting of the delegate's users. *)

Users == (IF worker = "done" THEN 0 ELSE 1) + (IF owner = "done" THEN 0 ELSE 1)

Counted ==
  /\ refs = Users
  /\ delegate = IF refs = 0 THEN "deleted" ELSE "alive"
  /\ joinable /\ owner \in {"unref", "done"} => worker = "done"

(* Where the messages are. *)
Placed ==
  /\ worker # "proc" => held = <<>>
  /\ task = "alive" => flushed = <<>>
  /\ worker \notin {"unref", "done"} => task = "alive"

IInv == TypeOK /\ Counted /\ Placed /\ ExactlyOnceInOrder

USE DEF Ids

LEMMA TypeInit == Init => TypeOK
<1> SUFFICES ASSUME Init PROVE TypeOK
  OBVIOUS
<1>1. <<>> \in Seq(Ids)
  OBVIOUS
<1>2. 0 \in 0..MaxMsg
  BY MsgTaskAssumption DEF MsgTaskAssumption
<1>3. refs \in 0..2
  BY DEF Init, InitialRefs
<1>4. joinable \in BOOLEAN /\ unblocked \in BOOLEAN /\ mRunnable \in BOOLEAN
  BY DEF Init
<1> QED BY <1>1, <1>2, <1>3, <1>4 DEF Init, TypeOK

-----------------------------------------------------------------------------
(* The steps that move messages. *)

LEMMA SendStep == ASSUME IInv, sendMsg PROVE IInv'
<1>1. /\ UNCHANGED <<joinable, unblocked, handled, flushed, worker, held, owner,
                     mRunnable, refs, task, delegate>>
      /\ task = "alive" /\ accepted + refused < MaxMsg
      /\ \/ refused' = refused + 1 /\ UNCHANGED <<queue, accepted>>
         \/ /\ accepted' = accepted + 1 /\ queue' = Append(queue, accepted + 1)
            /\ UNCHANGED refused
  BY DEF sendMsg, Enqueued
<1>2. /\ accepted + 1 \in Ids /\ accepted \in Nat /\ refused + 1 \in 0..MaxMsg
      /\ accepted + 1 \in 0..MaxMsg
  <2>1. accepted \in Nat /\ refused \in Nat /\ MaxMsg \in Nat
    BY MsgTaskAssumption DEF MsgTaskAssumption, IInv, TypeOK
  <2>2. accepted + refused < MaxMsg
    BY <1>1
  <2> QED BY <2>1, <2>2
<1>3. queue' \in Seq(Ids)
  <2>1. queue \in Seq(Ids) /\ accepted + 1 \in Ids
    BY <1>2 DEF IInv, TypeOK
  <2>2. Append(queue, accepted + 1) \in Seq(Ids)
    <3> HIDE DEF Ids
    <3> QED BY <2>1, AppendProperties
  <2> QED BY <1>1, <2>1, <2>2
<1>4. accepted' \in 0..MaxMsg /\ refused' \in 0..MaxMsg
  BY <1>1, <1>2 DEF IInv, TypeOK
<1>5. TypeOK'
  BY <1>1, <1>3, <1>4 DEF IInv, TypeOK
<1>6. Counted' /\ Placed'
  BY <1>1 DEF IInv, Counted, Placed, Users
<1>7. ExactlyOnceInOrder'
  <2>1. CASE UNCHANGED <<queue, accepted>>
    BY <1>1, <2>1 DEF IInv, ExactlyOnceInOrder
  <2>2. CASE accepted' = accepted + 1 /\ queue' = Append(queue, accepted + 1)
    <3> DEFINE m == accepted + 1
               first == handled \o held
               all == [i \in 1..accepted |-> i]
    <3>1. flushed = <<>> /\ first \in Seq(Ids) /\ queue \in Seq(Ids)
      BY <1>1, ConcatProperties DEF IInv, Placed, TypeOK
    <3>2. first \o queue = all /\ first \o queue \in Seq(Ids)
      BY <3>1, ConcatProperties, ConcatEmptySeq DEF IInv, ExactlyOnceInOrder
    <3>3. first \o Append(queue, m) = Append(first \o queue, m)
      <4>1. Append(queue, m) = queue \o <<m>> /\ <<m>> \in Seq(Ids)
        BY <1>2, <3>1, AppendIsConcat
      <4>2. Append(first \o queue, m) = (first \o queue) \o <<m>>
        BY <1>2, <3>2, AppendIsConcat
      <4> QED BY <3>1, <4>1, <4>2, ConcatAssociative
    <3>4. Append(all, m) = [i \in 1..m |-> i]
      <4>1. all \in Seq(Ids) /\ Len(all) = accepted
        BY <1>2, <3>2
      <4>2. /\ Append(all, m) \in Seq(Ids) /\ Len(Append(all, m)) = m
            /\ \A i \in 1..accepted : Append(all, m)[i] = i
            /\ Append(all, m)[m] = m
        BY <1>2, <4>1, AppendProperties
      <4>3. [i \in 1..m |-> i] \in Seq(Ids) /\ Len([i \in 1..m |-> i]) = m
        BY <1>2, MsgTaskAssumption DEF MsgTaskAssumption
      <4>4. \A i \in 1..m : Append(all, m)[i] = [j \in 1..m |-> j][i]
        BY <1>2, <4>2
      <4> QED BY <4>2, <4>3, <4>4, SeqEqual
    <3>5. (first \o queue') \o flushed' = Append(all, m)
      <4>1. first \o queue' \in Seq(Ids)
        BY <1>3, <3>1, ConcatProperties
      <4> QED BY <1>1, <2>2, <3>1, <3>2, <3>3, <4>1, ConcatEmptySeq
    <3> QED BY <1>1, <2>2, <3>4, <3>5 DEF ExactlyOnceInOrder
  <2> QED BY <1>1, <2>1, <2>2
<1> QED BY <1>5, <1>6, <1>7 DEF IInv

(* linked_list_remove takes the oldest message and leaves the rest. *)
LEMMA HeadAndTail ==
  ASSUME NEW T, NEW s \in Seq(T), s # <<>>
  PROVE  Head(s) \in T /\ Tail(s) \in Seq(T) /\ s = <<Head(s)>> \o Tail(s)
<1>1. /\ Head(s) \in T /\ Tail(s) \in Seq(T) /\ Head(s) = s[1]
      /\ Len(Tail(s)) = Len(s) - 1 /\ Len(s) \in Nat \ {0}
      /\ \A i \in 1..Len(Tail(s)) : Tail(s)[i] = s[i+1]
  BY HeadTailProperties, EmptySeq
<1> DEFINE h == <<Head(s)>>
           t == Tail(s)
<1>2. h \in Seq(T) /\ Len(h) = 1 /\ h[1] = s[1]
  BY <1>1
<1> HIDE DEF h, t
<1>3. /\ h \o t \in Seq(T) /\ Len(h \o t) = 1 + Len(t)
      /\ \A i \in 1..1 + Len(t) : (h \o t)[i] = IF i <= 1 THEN h[i] ELSE t[i - 1]
  <2>1. t \in Seq(T)
    BY <1>1 DEF t
  <2>2. /\ h \o t \in Seq(T) /\ Len(h \o t) = Len(h) + Len(t)
        /\ \A i \in 1..Len(h) + Len(t) :
             (h \o t)[i] = IF i <= Len(h) THEN h[i] ELSE t[i - Len(h)]
    BY <1>2, <2>1, ConcatProperties
  <2> QED BY <1>2, <2>2
<1>4. \A i \in 1..Len(s) : s[i] = (h \o t)[i]
  <2>1. ASSUME NEW i \in 1..Len(s) PROVE s[i] = (h \o t)[i]
    <3>1. CASE i = 1
      BY <1>1, <1>2, <1>3, <3>1 DEF t
    <3>2. CASE i # 1
      <4>1. i - 1 \in 1..Len(Tail(s)) /\ (i - 1) + 1 = i
        BY <1>1, <3>2
      <4>2. Tail(s)[i - 1] = s[i]
        BY <1>1, <4>1
      <4>3. (h \o t)[i] = t[i - 1]
        BY <1>1, <1>3, <3>2 DEF t
      <4> QED BY <4>2, <4>3 DEF t
    <3> QED BY <3>1, <3>2
  <2> QED BY <2>1
<1>5. s = h \o t
  <2>1. Len(s) = Len(h \o t)
    BY <1>1, <1>3 DEF t
  <2> QED BY <1>3, <1>4, <2>1, SeqEqual
<1> QED BY <1>1, <1>5 DEF h, t

LEMMA TakeStep == ASSUME IInv, Receive \/ Wake PROVE IInv'
<1>1. /\ UNCHANGED <<joinable, unblocked, accepted, refused, handled, flushed, owner,
                     mRunnable, refs, task, delegate>>
      /\ worker \in {"receive", "wait"}
      /\ \/ worker' \in {"exit", "wait"} /\ UNCHANGED <<held, queue>>
         \/ /\ queue # <<>> /\ worker' = "proc"
            /\ held' = <<Head(queue)>> /\ queue' = Tail(queue)
  BY DEF Receive, Wake, Take
<1>2. held = <<>>
  BY <1>1 DEF IInv, Placed
<1>3. queue # <<>> => /\ Head(queue) \in Ids /\ Tail(queue) \in Seq(Ids)
                      /\ queue = <<Head(queue)>> \o Tail(queue)
  BY HeadAndTail DEF IInv, TypeOK
<1>4. queue' \in Seq(Ids) /\ held' \in Seq(Ids)
  <2>1. Head(queue) \in Ids => <<Head(queue)>> \in Seq(Ids)
    OBVIOUS
  <2> QED BY <1>1, <1>3, <2>1 DEF IInv, TypeOK
<1>5. TypeOK'
  BY <1>1, <1>4 DEF IInv, TypeOK
<1>6. Counted' /\ Placed'
  BY <1>1, <1>2 DEF IInv, Counted, Placed, Users
<1>7. (handled \o held') \o queue' = (handled \o held) \o queue
  <2>1. CASE UNCHANGED <<held, queue>>
    BY <2>1
  <2>2. CASE queue # <<>> /\ held' = <<Head(queue)>> /\ queue' = Tail(queue)
    <3>1. handled \in Seq(Ids) /\ <<Head(queue)>> \in Seq(Ids) /\ Tail(queue) \in Seq(Ids)
      BY <1>3, <2>2 DEF IInv, TypeOK
    <3>2. (handled \o <<Head(queue)>>) \o Tail(queue) = handled \o queue
      BY <1>3, <2>2, <3>1, ConcatAssociative
    <3>3. handled \o held = handled
      BY <1>2, <3>1, ConcatEmptySeq
    <3> QED BY <2>2, <3>2, <3>3
  <2> QED BY <1>1, <2>1, <2>2
<1>8. ExactlyOnceInOrder'
  BY <1>1, <1>7 DEF IInv, ExactlyOnceInOrder
<1> QED BY <1>5, <1>6, <1>8 DEF IInv

LEMMA ProcStep == ASSUME IInv, Proc PROVE IInv'
<1>1. /\ UNCHANGED <<joinable, queue, unblocked, accepted, refused, flushed, owner,
                     mRunnable, refs, task, delegate>>
      /\ worker = "proc" /\ worker' = "check"
      /\ handled' = handled \o held /\ held' = <<>>
  BY DEF Proc, WorkerGoes
<1>2. handled' \in Seq(Ids) /\ held' \in Seq(Ids) /\ handled' \o held' = handled \o held
  BY <1>1, ConcatProperties, ConcatEmptySeq DEF IInv, TypeOK
<1>3. TypeOK'
  BY <1>1, <1>2 DEF IInv, TypeOK
<1>4. Counted' /\ Placed'
  BY <1>1 DEF IInv, Counted, Placed, Users
<1>5. ExactlyOnceInOrder'
  BY <1>1, <1>2 DEF IInv, ExactlyOnceInOrder
<1> QED BY <1>3, <1>4, <1>5 DEF IInv

LEMMA DeleteStep == ASSUME IInv, DeleteRunnable PROVE IInv'
<1>1. /\ UNCHANGED <<joinable, unblocked, accepted, refused, handled, held, owner,
                     mRunnable, refs, delegate>>
      /\ worker = "delete" /\ worker' = "unref"
      /\ task' = "deleted" /\ flushed' = queue /\ queue' = <<>>
  BY DEF DeleteRunnable, WorkerGoes
<1>2. TypeOK'
  BY <1>1 DEF IInv, TypeOK
<1>3. Counted' /\ Placed'
  BY <1>1 DEF IInv, Counted, Placed, Users
<1>4. ExactlyOnceInOrder'
  <2>1. flushed = <<>> /\ handled \o held \in Seq(Ids) /\ queue \in Seq(Ids)
    BY <1>1, ConcatProperties DEF IInv, Placed, TypeOK
  <2>2. (handled \o held) \o queue \in Seq(Ids)
    BY <2>1, ConcatProperties
  <2>3. ((handled \o held) \o <<>>) \o queue = ((handled \o held) \o queue) \o <<>>
    BY <2>1, <2>2, ConcatEmptySeq
  <2> QED BY <1>1, <2>1, <2>3 DEF IInv, ExactlyOnceInOrder
<1> QED BY <1>2, <1>3, <1>4 DEF IInv

-----------------------------------------------------------------------------
(* The steps that leave the messages where they are. *)

LEMMA StillPlaced ==
  ASSUME IInv, UNCHANGED messages, UNCHANGED task,
         worker' = "proc" => worker = "proc",
         worker' \notin {"unref", "done"} => worker \notin {"unref", "done"},
         held = <<>> \/ worker' = worker
  PROVE  Placed' /\ ExactlyOnceInOrder'
BY DEF IInv, messages, Placed, ExactlyOnceInOrder

LEMMA WorkerMoves ==
  ASSUME IInv, Begin \/ Check \/ Exit
  PROVE  IInv'
<1>1. /\ UNCHANGED messages /\ UNCHANGED <<joinable, unblocked, owner, refs, task, delegate>>
      /\ worker \in {"begin", "check", "exit"}
      /\ worker' \in {"check", "receive", "exit", "delete", "unref"}
      /\ mRunnable' \in {mRunnable, FALSE}
  BY DEF Begin, Check, Exit, WorkerGoes
<1>2. mRunnable' \in BOOLEAN
  BY <1>1 DEF IInv, TypeOK
<1>3. TypeOK'
  BY <1>1, <1>2 DEF IInv, TypeOK, messages
<1>4. Counted'
  BY <1>1 DEF IInv, Counted, Users
<1>5. Placed' /\ ExactlyOnceInOrder'
  BY <1>1, StillPlaced DEF IInv, Placed
<1> QED BY <1>3, <1>4, <1>5 DEF IInv

LEMMA OwnerMoves ==
  ASSUME IInv, Unblock \/ Forget \/ Stop \/ Join
  PROVE  IInv'
<1>1. /\ UNCHANGED messages /\ UNCHANGED <<joinable, worker, refs, task, delegate>>
      /\ owner \in {"using", "forget", "stop", "join"}
      /\ owner' \in {"forget", "stop", "join", "unref"}
      /\ owner' = "unref" => worker = "done" \/ ~joinable
  BY DEF Unblock, Forget, Stop, Join, OwnerGoes, Joined
<1>2. mRunnable' \in BOOLEAN /\ unblocked' \in BOOLEAN
  BY DEF Unblock, Forget, Stop, Join, IInv, TypeOK
<1>3. TypeOK'
  BY <1>1, <1>2 DEF IInv, TypeOK, messages
<1>4. Counted'
  BY <1>1 DEF IInv, Counted, Users
<1>5. Placed' /\ ExactlyOnceInOrder'
  BY <1>1 DEF IInv, Placed, ExactlyOnceInOrder, messages
<1> QED BY <1>3, <1>4, <1>5 DEF IInv

LEMMA UnrefMoves ==
  ASSUME IInv, WorkerUnref \/ OwnerUnref
  PROVE  IInv'
<1>1. /\ UNCHANGED messages /\ UNCHANGED <<joinable, unblocked, task, mRunnable>>
      /\ refs' = refs - 1 /\ delegate' = IF refs = 1 THEN "deleted" ELSE delegate
      /\ \/ worker = "unref" /\ worker' = "done" /\ owner' = owner
         \/ owner = "unref" /\ owner' = "done" /\ worker' = worker
  BY DEF WorkerUnref, OwnerUnref, WorkerGoes, OwnerGoes, Unref
<1>2. /\ refs \in 1..2 /\ refs = Users /\ refs' = Users' /\ refs' \in 0..1
  BY <1>1 DEF IInv, Counted, Users
<1>3. delegate' = (IF refs' = 0 THEN "deleted" ELSE "alive") /\ delegate' \in {"alive", "deleted"}
  BY <1>1, <1>2 DEF IInv, Counted
<1>4. refs' \in 0..2
  BY <1>2
<1>5. TypeOK'
  BY <1>1, <1>3, <1>4 DEF IInv, TypeOK, messages
<1>6. Counted'
  BY <1>1, <1>2, <1>3 DEF IInv, Counted
<1>7. Placed' /\ ExactlyOnceInOrder'
  BY <1>1 DEF IInv, Placed, ExactlyOnceInOrder, messages
<1> QED BY <1>5, <1>6, <1>7 DEF IInv

-----------------------------------------------------------------------------
LEMMA InitInv == Init => IInv
<1> SUFFICES ASSUME Init PROVE IInv
  OBVIOUS
<1>1. Counted /\ Placed
  BY DEF Init, InitialRefs, Counted, Placed, Users
<1>2. ExactlyOnceInOrder
  <2>1. <<>> \o <<>> = <<>>
    OBVIOUS
  <2>2. [i \in 1..0 |-> i] = <<>>
    OBVIOUS
  <2> QED BY <2>1, <2>2 DEF Init, ExactlyOnceInOrder
<1> QED BY <1>1, <1>2, TypeInit DEF IInv

LEMMA NextInv == IInv /\ [Next]_vars => IInv'
<1> SUFFICES ASSUME IInv, [Next]_vars PROVE IInv'
  OBVIOUS
<1>1. CASE UNCHANGED vars
  BY <1>1 DEF vars, IInv, TypeOK, Counted, Users, Placed, ExactlyOnceInOrder
<1> QED BY <1>1, SendStep, TakeStep, ProcStep, DeleteStep, WorkerMoves, OwnerMoves, UnrefMoves
        DEF Next, Worker, Destroying

(* The inductive invariant: the type, the delegate's users counted, and the   *)
(* messages where they belong.                                                *)
LEMMA Invariant == Spec => []IInv
BY InitInv, NextInv, PTL DEF Spec

(* Every variable keeps its type, with any number of messages. *)
THEOREM TypeCorrect == Spec => []TypeOK
BY Invariant, PTL DEF IInv

(* Every message msg_q_snd accepted is handled once, in the order it was      *)
(* accepted, or freed by ~MsgTask together with all that came after it.       *)
THEOREM HandledExactlyOnceInOrder == Spec => []ExactlyOnceInOrder
<1>1. IInv => ExactlyOnceInOrder
  BY DEF IInv
<1> QED BY Invariant, <1>1, PTL

(* LocThreadDelegate is deleted by the last of owner and thread to leave it,  *)
(* and never before.                                                          *)
THEOREM DelegateDeletedByTheLast == Spec => []DelegateLifetime
<1>1. IInv => DelegateLifetime
  BY DEF IInv, Counted, Users, DelegateLifetime
<1> QED BY Invariant, <1>1, PTL

(* When destroy() of a joinable MsgTask returns, its thread has ended. *)
THEOREM NothingHandledAfterJoin == Spec => []NothingAfterJoin
<1>1. IInv => NothingAfterJoin
  BY DEF IInv, Counted, NothingAfterJoin
<1> QED BY Invariant, <1>1, PTL
=============================================================================
