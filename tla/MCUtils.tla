------------------------------ MODULE MCUtils -------------------------------
(***************************************************************************)
(* Small instances of the three programs with threads of their own: the    *)
(* message task and the timer service that the location stack shares, and  *)
(* the speaker amplifier.  A behaviour is one of the task, torn down at    *)
(* any moment, of the timers, whose task is never destroyed, or of the     *)
(* amplifier.                                                              *)
(***************************************************************************)
EXTENDS MsgTask, Amplifier

CONSTANTS Timers, Delays, None, MaxTime, MaxStarts

VARIABLES part, now, delegates, running, heap, timerQueue, expiring, armed, polled, poll

Timer == INSTANCE LocTimer WITH queue <- timerQueue, task <- expiring

SpeakerInStereo == [d \in Devices |-> IF d = NoDevice THEN "default"
                                      ELSE IF d = Reverse THEN "stereo" ELSE "mono"]

timerVars == <<now, delegates, running, heap, timerQueue, expiring, armed, polled, poll>>
AllVars == <<part, vars, timerVars, ampVars>>

(* The parts at rest have one initial state each.                             *)
AllInit ==
  /\ part \in {"task", "timer", "amp"} /\ Init /\ Timer!Init /\ AmpInit
  /\ part # "task" => joinable
  /\ amp.device = "stereo" /\ (part # "amp" => wanted = "normal")
AllNext ==
  /\ part' = part
  /\ \/ part = "task" /\ Next /\ UNCHANGED <<timerVars, ampVars>>
     \/ part = "timer" /\ Timer!Next /\ UNCHANGED <<vars, ampVars>>
     \/ part = "amp" /\ AmpNext /\ UNCHANGED <<vars, timerVars>>

(* The threads of each part run, time passes, and what was begun goes on.     *)
Step(p, A, others) == part = p /\ A /\ UNCHANGED <<part, others>>
AllSpec ==
  /\ AllInit /\ [][AllNext]_AllVars
  /\ WF_AllVars(Step("task", Worker, <<timerVars, ampVars>>))
  /\ WF_AllVars(Step("task", Destroying, <<timerVars, ampVars>>))
  /\ WF_AllVars(Step("timer", Timer!MsgTaskStep, <<vars, ampVars>>))
  /\ WF_AllVars(Step("timer", Timer!PollStep, <<vars, ampVars>>))
  /\ WF_AllVars(Step("timer", Timer!Tick, <<vars, ampVars>>))
  /\ WF_AllVars(Step("amp", Thread, <<vars, timerVars>>))
  /\ WF_AllVars(Step("amp", Closing, <<vars, timerVars>>))

-----------------------------------------------------------------------------
(* Every thread gets its work done: messages are handled and destroy()        *)
(* returns (MsgTask), started timers are stopped or call back (LocTimer), the *)
(* amplifier comes to what was asked and its close returns (Amplifier).       *)
EverythingServed ==
  NothingWaitsForever /\ Timer!EventuallyCalled /\ AmpSettles /\ CloseReturns
=============================================================================
