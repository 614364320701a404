------------------------------ MODULE WanSignal ------------------------------
(***************************************************************************)
(* What the WAN promises the tethered interfaces of IPACM, for each IP     *)
(* family: IPACM_Wan::wan_up, which they may read at any moment, and the   *)
(* tether events, which do not always agree with it.                       *)
(***************************************************************************)
EXTENDS Integers, WanState

CONSTANT WanFamilies

VARIABLES
  wan,   \* the families, as in WanState
  said,  \* the last tether event of each, with a bit n that tells it from the
         \* one before
  sta    \* IPACM_Wan::backhaul_is_sta_mode

Silence == [ev |-> "none", n |-> 0]
Say(s, e) == [ev |-> e, n |-> 1 - s.n]

\* the event is posted whether or not the flag followed
RouteAdded(f, m, taken) ==
  /\ wan' = [wan EXCEPT ![f] = Added(@, m, taken)]
  /\ said' = [said EXCEPT ![f] = Say(@, "up")]
  /\ sta' = (m = "sta")

\* nobody is told
HeaderAdded(f) ==
  /\ MayComplete(wan[f])
  /\ wan' = [wan EXCEPT ![f] = Completed(@)]
  /\ said' = said
  /\ sta' = TRUE

WentDown(f, m) ==
  /\ MayEnd(wan[f], m)
  /\ wan' = [wan EXCEPT ![f] = Ended(@)]
  /\ said' = [said EXCEPT ![f] = Say(@, "down")]
  /\ sta' = sta

\* another family has a route added
ModeChanged(m) == sta' = (m = "sta") /\ UNCHANGED <<wan, said>>

WanInit ==
  /\ wan = [f \in WanFamilies |-> NoWanYet]
  /\ said = [f \in WanFamilies |-> Silence]
  /\ sta = FALSE
WanNext ==
  \/ \E f \in WanFamilies :
       \/ \E m \in WanKinds, taken \in BOOLEAN : RouteAdded(f, m, taken)
       \/ HeaderAdded(f)
       \/ \E m \in WanKinds : WentDown(f, m)
  \/ \E m \in WanKinds : ModeChanged(m)
WanSpec == WanInit /\ [][WanNext]_<<wan, said, sta>>
=============================================================================
