------------------------------ MODULE WanState ------------------------------
(***************************************************************************)
(* One IP family of the WAN as the tethered interfaces of IPACM see it,    *)
(* and what the handlers of IPACM_Wan may do to it: the promise WanSignal  *)
(* states over time, and the surroundings LanUplink lives in.              *)
(***************************************************************************)

(* up is wan_up; hollow: announced, but the flag has not followed; via: the   *)
(* kind of WAN that last claimed the family.                                  *)
WanKinds == {"lte", "sta"}
NoWanYet == [up |-> FALSE, hollow |-> FALSE, via |-> "none"]

\* a route of the upstream, also for a family that is up already: the flag
\* follows if the driver takes the route and a station knows its gateway
Added(w, m, taken) == [up |-> taken, hollow |-> ~taken, via |-> m]

\* the gateway of a station is known at last; meanwhile another WAN may have
\* said that it went down
MayComplete(w) == ~w.up /\ w.via = "sta"
Completed(w) == [w EXCEPT !.up = TRUE, !.hollow = FALSE]

\* the route is deleted or the link goes down; the modem may say so of a family
\* it never had, or that a station has by now (handle_down_evt_ex, which goes
\* by is_default_gateway)
MayEnd(w, m) == m = "lte" \/ (w.up /\ m = w.via)
Ended(w) == [w EXCEPT !.up = FALSE, !.hollow = FALSE]
=============================================================================
