------------------------------- MODULE MCAgps -------------------------------
(***************************************************************************)
(* Small instances of the AGPS state machines.  A behaviour is one of the  *)
(* regular state machine, or of the emergency data call with one handle or *)
(* with two: requests reach the one or the other by their type, and what   *)
(* the second asks of the first stands in it as AtlService.                *)
(***************************************************************************)
EXTENDS AgpsStateMachine, AgpsEmergency

CONSTANT OneHandle   \* bound: of EsHandles, the one that asks in the part "one"

VARIABLE part        \* which does not change

AllVars == <<part, vars, esVars>>

AllInit == Init /\ EsInit /\ part \in {"agnss", "one", "two"}

(* Requests of one handle have all the retries, requests of two one less.     *)
WithinBounds ==
  /\ part = "one" => \A h \in EsHandles \ OneHandle : modem'[h] = "idle"
  /\ part = "two" => retries' < MaxRetries

AllNext ==
  /\ part' = part
  /\ \/ part = "agnss" /\ Next /\ UNCHANGED esVars
     \/ part \in {"one", "two"} /\ EsNext /\ WithinBounds /\ UNCHANGED vars

(* The fairness of the parts; two handles are checked for safety alone, the  *)
(* pending call that nobody retries being theirs.                            *)
EsStep(A) == part = "one" /\ A /\ UNCHANGED <<part, vars>>
AllSpec ==
  /\ AllInit /\ [][AllNext]_AllVars
  /\ WF_vars(Reports) /\ WF_vars(Framework)
  /\ WF_AllVars(EsStep(MsgTaskStep)) /\ WF_AllVars(EsStep(RetryTimer))
  /\ WF_AllVars(EsStep(call # "up" /\ DataService))
  /\ WF_AllVars(EsStep((\E h \in EsHandles : atl[h] = "opening") /\ AgnssAnswers))

-----------------------------------------------------------------------------
(* The connections are held by whom the state machines think: with nothing    *)
(* under way the framework's is there exactly in ACQUIRED, and no data call   *)
(* of an emergency is left without an owner (Agps.cpp, requestOrReleaseDataConn). *)
ConnectionsOwned == ConnectionAgrees /\ CallOwned

(* Every request of the modem is answered, and every release, through either  *)
(* state machine; requestOrReleaseDataConn of the emergency one may leave a   *)
(* request unanswered only by an error it does not know or a timer that does  *)
(* not start.                                                                 *)
AllAnswered == EveryRequestAnswered /\ (part = "one" => EsAnswered)
=============================================================================
