----------------------------- MODULE Amplifier ------------------------------
(***************************************************************************)
(* The speaker amplifier (audio_amplifier.c).  The audio HAL calls under   *)
(* one lock and leaves a state behind; a thread is woken by a semaphore,   *)
(* takes the latest state and switches the amplifier.  While the           *)
(* amplifier refuses to come up the thread lets go of the lock, sleeps     *)
(* and tries again, unless the state has changed meanwhile.  The library   *)
(* that drives the amplifier is external.                                  *)
(***************************************************************************)
EXTENDS Naturals

CONSTANTS Devices, Routing, CallDevices, NoDevice, Reverse, Last,
          MaxCalls, MaxFail

(* Routing is device_to_amp_device; Last has no place in the array enableds.  *)
ASSUME AmplifierAssumption ==
  /\ {NoDevice, Reverse, Last} \subseteq Devices
  /\ Routing \in [Devices -> {"default", "stereo", "mono"}]
  /\ CallDevices \subseteq Devices
  /\ MaxCalls \in Nat /\ MaxFail \in Nat

VARIABLES
  state,           \* what the calls asked for
  trigger_update, trigger_exit,   \* the two semaphores
  pc, rstate, reinitialize,       \* the thread, its copy of the state
  control, wanted, \* set_amp_state; the property that selects it
  amp,             \* the amplifier itself
  user,            \* how far the audio HAL is with closing
  skipped,         \* history: a change of device was shown to bypass mode only
  calls, fails     \* counters for the bounds

thread == <<pc, rstate, reinitialize, control, amp, skipped, fails>>
ampVars == <<state, trigger_update, trigger_exit, wanted, user, calls, thread>>

Controls == {"normal", "legacy", "bypass"}
AmpDevices == {"stereo", "mono"}
States == [streams : Nat, in_call : BOOLEAN, device : AmpDevices,
           in_device : Devices, mode : {"music", "voice"}, reversed : BOOLEAN,
           enableds : [Devices -> BOOLEAN]]

Zeroed == [streams |-> 0, in_call |-> FALSE, device |-> "stereo",
           in_device |-> NoDevice, mode |-> "music", reversed |-> FALSE,
           enableds |-> [d \in Devices |-> FALSE]]

-----------------------------------------------------------------------------
(* The calls of the audio HAL, each under the lock.                           *)

Call(s) ==
  /\ user = "open" /\ calls < MaxCalls
  /\ state' = s
  /\ trigger_update' = trigger_update + 1
  /\ calls' = calls + 1
  /\ UNCHANGED <<trigger_exit, wanted, user, thread>>

(* A device out of range is taken for the speaker.                            *)
set_output_devices ==
  \E d \in Devices \ {NoDevice} :
    Call([state EXCEPT
            !.device = IF Routing[d] = "default" THEN "stereo" ELSE Routing[d],
            !.in_device = d, !.reversed = (d = Reverse)])

enable_output_devices ==
  \E d \in Devices, enable \in BOOLEAN :
    /\ Routing[d] # "default"
    /\ Call([state EXCEPT !.in_call = enable /\ d \in CallDevices,
                          !.enableds[d] = enable])

set_mode == \E m \in {"music", "voice"} : Call([state EXCEPT !.mode = m])
output_stream_start == Call([state EXCEPT !.streams = @ + 1])
output_stream_standby ==
  state.streams > 0 /\ Call([state EXCEPT !.streams = @ - 1])

(* The user of the phone sets persist.axon7.amp_hal_control.                  *)
SetProperty ==
  \E c \in Controls \ {wanted} :
    /\ calls < MaxCalls /\ calls' = calls + 1
    /\ wanted' = c
    /\ UNCHANGED <<state, trigger_update, trigger_exit, user, thread>>

-----------------------------------------------------------------------------
(* The thread.                                                                *)

(* set_amp_state_bypass does not look at the streams.                         *)
On(r, c) ==
  r.enableds[r.in_device] /\ (c = "bypass" \/ r.streams > 0 \/ r.in_call)

(* What is read of the state: the loop over enableds ends before Last.        *)
Copy == [state EXCEPT !.enableds[Last] = rstate.enableds[Last]]

Off(a) == [a EXCEPT !.on = FALSE]
Reset(a, r) == [a EXCEPT !.on = FALSE, !.device = r.device]
Ready(a, r) == [a EXCEPT !.on = TRUE, !.mode = r.mode]

(* The amplifier may refuse (ex_speaker_on) until the modem gives a clock;    *)
(* set_amp_state_legacy asks it that way during a call only.                  *)
MayFail(r, c) == c = "normal" \/ (c = "legacy" /\ r.in_call)

TakePost ==
  /\ pc = "waiting" /\ trigger_update > 0
  /\ trigger_update' = trigger_update - 1
  /\ pc' = "woken"
  /\ UNCHANGED <<state, trigger_exit, rstate, reinitialize, control, wanted,
                 amp, user, skipped, calls, fails>>

(* The end of set_amp_state: another control mode is taken while off.         *)
Shown(r) ==
  /\ control' = IF r.enableds[r.in_device] THEN control ELSE wanted
  /\ reinitialize' = FALSE
  /\ pc' = "looping"

Refused(r) ==
  /\ MayFail(r, control) /\ fails < MaxFail /\ fails' = fails + 1
  /\ pc' = "sleeping"
  /\ UNCHANGED <<reinitialize, control>>

(* One of the three set_amp_state functions, up to the first refusal.         *)
Show(r, fresh) ==
  LET a == IF fresh /\ control # "bypass" THEN Reset(amp, r) ELSE amp IN
  \/ /\ On(r, control)
     /\ amp' = IF control = "bypass" THEN [a EXCEPT !.on = TRUE] ELSE Ready(a, r)
     /\ Shown(r) /\ UNCHANGED fails
  \/ On(r, control) /\ amp' = a /\ Refused(r)
  \/ ~On(r, control) /\ amp' = Off(a) /\ Shown(r) /\ UNCHANGED fails

Refresh ==
  /\ pc = "woken"
  /\ trigger_update' = 0
  /\ rstate' = Copy
  /\ LET fresh == \/ reinitialize \/ state.device # rstate.device
                  \/ state.reversed # rstate.reversed
     IN /\ Show(Copy, fresh)
        /\ skipped' = IF fresh THEN control = "bypass" ELSE skipped
  /\ UNCHANGED <<state, trigger_exit, wanted, user, calls>>

(* After the sleep, still without the lock.                                   *)
Peek ==
  /\ pc = "sleeping"
  /\ IF trigger_update > 0
     THEN trigger_update' = trigger_update - 1 /\ pc' = "changed"
     ELSE UNCHANGED trigger_update /\ pc' = "again"
  /\ UNCHANGED <<state, trigger_exit, rstate, reinitialize, control, wanted,
                 amp, user, skipped, calls, fails>>

Retry ==
  /\ pc = "again"
  /\ \/ amp' = Ready(amp, rstate) /\ Shown(rstate) /\ UNCHANGED fails
     \/ Refused(rstate) /\ UNCHANGED amp
  /\ UNCHANGED <<state, trigger_update, trigger_exit, rstate, wanted, user,
                 skipped, calls>>

Reposted_Forgotten == trigger_update    \* mutant: the taken post is not given back
Reposted == trigger_update + 1

(* The update taken in Peek is handed on to the outer loop.                   *)
Changed ==
  /\ pc = "changed"
  /\ trigger_update' = Reposted
  /\ Shown(rstate)
  /\ UNCHANGED <<state, trigger_exit, rstate, wanted, amp, user, skipped,
                 calls, fails>>

Loop ==
  /\ pc = "looping"
  /\ IF trigger_exit > 0
     THEN trigger_exit' = trigger_exit - 1 /\ pc' = "done"
     ELSE UNCHANGED trigger_exit /\ pc' = "waiting"
  /\ UNCHANGED <<state, trigger_update, rstate, reinitialize, control, wanted,
                 amp, user, skipped, calls, fails>>

Thread == TakePost \/ Refresh \/ Peek \/ Retry \/ Changed \/ Loop

-----------------------------------------------------------------------------
(* dev_close posts without the lock and joins the thread.                     *)
PostExit ==
  /\ user = "open" /\ user' = "exiting"
  /\ trigger_exit' = trigger_exit + 1
  /\ UNCHANGED <<state, trigger_update, wanted, calls, thread>>

PostUpdate ==
  /\ user = "exiting" /\ user' = "joining"
  /\ trigger_update' = trigger_update + 1
  /\ UNCHANGED <<state, trigger_exit, wanted, calls, thread>>

JoinThread ==
  /\ user = "joining" /\ pc = "done"
  /\ user' = "closed"
  /\ UNCHANGED <<state, trigger_update, trigger_exit, wanted, calls, thread>>

Closing == PostUpdate \/ JoinThread

AmpInit ==
  /\ state = Zeroed /\ rstate = Zeroed
  /\ trigger_update = 0 /\ trigger_exit = 0
  /\ pc = "waiting" /\ reinitialize = TRUE
  /\ wanted \in Controls /\ control = wanted
  /\ amp \in [on : {FALSE}, mode : {"music"}, device : AmpDevices]
  /\ user = "open" /\ skipped = FALSE
  /\ calls = 0 /\ fails = 0

Calls == \/ set_output_devices \/ enable_output_devices \/ set_mode
         \/ output_stream_start \/ output_stream_standby

AmpNext == Calls \/ SetProperty \/ Thread \/ PostExit \/ Closing

AmpSpec == AmpInit /\ [][AmpNext]_ampVars

(* The thread runs; dev_close goes on once it has begun.                      *)
AmpFair == AmpSpec /\ WF_ampVars(Thread) /\ WF_ampVars(Closing)

-----------------------------------------------------------------------------
AmpTypeOK ==
  /\ state \in States /\ rstate \in States
  /\ trigger_update \in Nat /\ trigger_exit \in Nat
  /\ pc \in {"waiting", "woken", "sleeping", "again", "changed", "looping", "done"}
  /\ reinitialize \in BOOLEAN /\ skipped \in BOOLEAN
  /\ control \in Controls /\ wanted \in Controls
  /\ amp \in [on : BOOLEAN, mode : {"music", "voice"}, device : AmpDevices]
  /\ user \in {"open", "exiting", "joining", "closed"}
  /\ calls \in Nat /\ fails \in Nat

(* What the calls asked for, as far as the thread can see it: the last device *)
(* is never seen enabled.                                                     *)
Asked == [state EXCEPT !.enableds[Last] = FALSE]

Matches(r) ==
  /\ amp.on = On(r, control)
  /\ amp.on /\ control # "bypass" =>
       amp.mode = r.mode /\ (skipped \/ amp.device = r.device)

(* No update is lost: when the thread waits with nothing posted (sem_wait,    *)
(* the drain and the retries of set_amp_state), the amplifier is on or off,   *)
(* in the mode and on the device, as the calls last asked.                    *)
NoUpdateLost == pc = "waiting" /\ trigger_update = 0 => Matches(Asked)

(* Once the calls have ended the amplifier comes to what they asked, refused  *)
(* attempts and retries included; and tfa9890_dev_close returns.              *)
AmpSettles == <>[](user # "open" \/ Matches(Asked))
CloseReturns == user = "exiting" ~> user = "closed"
=============================================================================
