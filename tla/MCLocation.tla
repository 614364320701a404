----------------------------- MODULE MCLocation -----------------------------
(***************************************************************************)
(* Small instances of the clients of the location API, one kind of client  *)
(* per behaviour, and, in behaviours of their own, of what stands behind   *)
(* a network initiated response: the requests of the adapter.              *)
(***************************************************************************)
EXTENDS ControlClient, GnssNi

ASetup(kind, cs, inst, pre, ids, modes, ni, n, d) ==
  [kind |-> kind, cbs |-> cs, installed |-> inst, preloaded |-> pre, ids |-> ids,
   modes |-> modes, ni |-> ni, calls |-> n, destroy |-> d]
Gnss  == {"tracking", "sv", "nmea", "ni"}
Both  == {"gnss", "flp"}
Masks == {{"enter"}, {"enter", "exit"}}
SmallSetups ==
  {ASetup("ni", {}, {}, {}, {}, {}, {}, 0, FALSE),
   \* GnssAPIClient; 2 may be a tracking session's id as well, 9 is none
   ASetup("tracking", {Gnss}, Both, {}, {}, {}, {9}, 5, FALSE),
   ASetup("tracking", {Gnss}, Both, {}, {}, {}, {2}, 4, TRUE),
   ASetup("tracking", {Gnss, {"ni"}}, Both, {}, {}, {}, {}, 4, TRUE),
   \* MeasurementAPIClient
   ASetup("tracking", {{"meas"}}, {"gnss"}, {}, {}, {}, {}, 5, FALSE),
   \* BatchingAPIClient, with another client's gnss, and without a library
   ASetup("session", {{"batching"}}, Both, {"gnss"}, {1}, {"none", "full"}, {}, 5, TRUE),
   ASetup("session", {{"batching"}}, {}, {}, {1, 2}, {"full"}, {}, 4, FALSE),
   \* every mode the base class knows
   ASetup("session", {{"batching", "tracking"}}, {"flp"}, {}, {1, 2}, {"full", "fix", "trip"},
          {}, 4, FALSE),
   ASetup("session", {{"batching"}}, {"flp"}, {}, {1}, {"full", "trip"}, {}, 5, FALSE),
   ASetup("fence", {}, {}, {}, {1, 2}, Masks, {}, 3, FALSE),
   ASetup("fence", {}, {}, {}, {1}, Masks, {}, 4, FALSE),
   ASetup("control", {}, {}, {}, {}, {}, {}, 5, FALSE)}

\* one item of each sort, in the part of gps.conf that LocationControlAPI may set;
\* AGPS_CONFIG_INJECT is 0, so the version is left alone
SmallGpsConf == [lock |-> "ni", lppe |-> "up", version |-> "1.0", pdn |-> "no"]
SmallConfigs ==
  {[lock |-> "mo"], [lock |-> "ni", lppe |-> "cp"],
   [lppe |-> "up", version |-> "2.0", pdn |-> "yes"]}

clientAll == <<apiVars, clientVars, fenceVars, controlVars>>
AllVars == <<clientAll, vars>>

AllInit == ClientInit /\ FenceInit /\ ControlInit /\ Init
AllNext ==
  \/ setup.kind = "ni" /\ Next /\ UNCHANGED clientAll
  \/ setup.kind \in {"tracking", "session"} /\ ClientNext
     /\ UNCHANGED <<fenceVars, controlVars, vars>>
  \/ setup.kind = "fence" /\ FenceNext /\ UNCHANGED <<controlVars, vars>>
  \/ setup.kind = "control" /\ ControlNext /\ UNCHANGED vars

\* the threads of the network initiated requests run
NiStep(A) == setup.kind = "ni" /\ A /\ UNCHANGED clientAll
AllSpec ==
  /\ AllInit /\ [][AllNext]_AllVars
  /\ WF_AllVars(NiStep(MsgTaskStep))
  /\ \A i \in Ids : WF_AllVars(NiStep(ThreadStep(i)))
=============================================================================
