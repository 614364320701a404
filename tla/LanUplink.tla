------------------------------ MODULE LanUplink ------------------------------
(***************************************************************************)
(* The uplink filter rules of a tethered interface of IPACM (IPACM_Lan and *)
(* IPACM_Iface of src/data-ipa-cfg-mgr/ipacm/src): they follow the WAN,    *)
(* whose flags and events do not always agree, the offload of the          *)
(* interface, its addresses and its coming and going.  The command thread  *)
(* takes an event of the network only when no internal event waits.        *)
(***************************************************************************)
EXTENDS Integers, Sequences, FiniteSets, WanState

CONSTANTS FamilySets,    \* bound: the families a device tethers are one of these
          UlRules,       \* rules the modem gives for the uplink, num_ext_props
          MaxUlRules,    \* MAX_WAN_UL_FILTER_RULES
          MaxDftV6,      \* MAX_DEFAULT_v6_ROUTE_RULES
          MaxInstances,  \* bound: times the interface comes up,
          MaxTroubled,   \* once something odd has happened
          HalfRouting    \* bound: the devices that refuse half of software routing

Families == {"v4", "v6"}

ASSUME LanUplinkAssumption ==
  /\ FamilySets \subseteq SUBSET Families
  /\ {UlRules, MaxUlRules, MaxDftV6, MaxInstances, MaxTroubled} \subseteq Nat

VARIABLES
  fams,    \* the families of this device, which do not change
  wan,     \* the families of the WAN, as in WanState
  sta,     \* IPACM_Wan::backhaul_is_sta_mode
  queue,   \* tether events and DELETE_SELF in the internal queue
  phase,   \* "none", "active" (is_active) or "down"
  born,    \* interfaces created so far
  nat,     \* families for which the interface is a NAT interface
  ipType,  \* ip_type, as a set
  up,      \* is_upstream_set
  down,    \* is_downstream_set
  dft,     \* num_dft_rt_v6
  sw,      \* softwarerouting_act
  flt      \* the filter rules of each family, and their handles

wanVars == <<fams, wan, sta>>
ifaceVars == <<phase, born, nat, ipType, up, down, dft, sw>>
vars == <<wanVars, queue, ifaceVars, flt>>

(* What the interface knows of the filter rules of a family: base are the     *)
(* ICMP, default and private subnet rules that are in, those of one call as   *)
(* one rule; modem is modem_ul_set, num the rules it counts; sta is           *)
(* sta_ul_set; a handle is unset, live or stale.  count is FltRuleCount of    *)
(* the pipe.  History: left are rules without a handle any more, odd what     *)
(* happened: the driver refused a rule; one that never was was counted or     *)
(* deleted (blind); rules were not deleted because the mode had changed       *)
(* (missed), or because their WAN never had its flag (hollow); or the end of  *)
(* the WAN came before the address (early).                                   *)
Handles == {"unset", "live", "stale"}
One(b) == IF b THEN 1 ELSE 0
Uplinked(s) == s.num + One(s.staHdl = "live") + One(s.pfxHdl = "live")
BaseOf(f) == IF f = "v4" THEN {"icmp", "init", "subnets"} ELSE {"icmp", "init"}
Size(base) == One("icmp" \in base) + One("init" \in base) + One("subnets" \in base)
Installed(s) == Size(s.base) + Uplinked(s)

\* what the next interface starts with; the history ends with a clean end
Renewed(s, left, seen) ==
  [s EXCEPT !.base = {}, !.modem = FALSE, !.num = 0, !.sta = FALSE,
            !.staHdl = "unset", !.pfxHdl = "unset", !.left = left,
            !.odd = @ \intersect seen]
Note(s, what) == [s EXCEPT !.odd = @ \union {what}]

\* deleting a handle that never was: refused, or 0 and counted (bound: once)
NeverWas(s) == IF "blind" \in s.odd THEN s ELSE [Note(s, "blind") EXCEPT !.count = @ - 1]
Unset(s) == {s, NeverWas(s)}

-----------------------------------------------------------------------------
(* The rules.  Each operator gives the outcomes the driver allows: a rule may *)
(* be refused, and the handle of a rule that never was may happen to be 0,    *)
(* which counts as deleted, or not, which is refused.                         *)

\* handle_wan_up_ex and handle_uplink_filter_rule: refused or not, once
UlRefused(s) == [Note(s, "refused") EXCEPT !.modem = TRUE]
UlAdded(s) ==
  IF UlRules > MaxUlRules THEN {}
  ELSE {[s EXCEPT !.modem = TRUE, !.num = UlRules, !.count = @ + UlRules]}
UplinkEx(s) == IF s.modem THEN {s} ELSE {s, UlRefused(s)} \union UlAdded(s)

\* handle_wan_up
UplinkSta(s) ==
  IF s.sta THEN {s}
  ELSE {s, [s EXCEPT !.sta = TRUE, !.staHdl = "live", !.count = @ + 1]}

\* install_ipv6_prefix_flt_rule, delete_ipv6_prefix_flt_rule
InstallPrefix(s) ==
  {s, [s EXCEPT !.pfxHdl = "live", !.count = @ + 1, !.left = @ + One(s.pfxHdl = "live")]}
DeletePrefix(s) ==
  CASE s.pfxHdl = "live" -> {[s EXCEPT !.pfxHdl = "stale", !.count = @ - 1]}
    [] s.pfxHdl = "stale" -> {s}
    [] OTHER -> Unset(s)

Install(f, s, isSta) ==
  UNION {IF isSta THEN UplinkSta(t) ELSE UplinkEx(t) :
           t \in IF f = "v6" THEN InstallPrefix(s) ELSE {s}}

\* the tail of handle_wan_down and handle_wan_down_v6
UplinkGone_NotCounted(s, isSta) ==   \* mutant: the rules stay counted
  {[s EXCEPT !.num = 0, !.modem = FALSE, !.sta = FALSE,
             !.staHdl = IF s.staHdl = "live" THEN "stale" ELSE @]}
UplinkGone(s, isSta) ==
  IF ~isSta /\ s.modem
  THEN LET t == IF s.staHdl = "live" THEN Note(s, "missed") ELSE s
       IN IF s.num = 0 THEN {t}
          ELSE {[t EXCEPT !.num = 0, !.modem = FALSE, !.count = @ - s.num]}
  ELSE LET t == IF s.num > 0 THEN Note(s, "missed") ELSE s
       IN CASE s.staHdl = "live" ->
                 {[t EXCEPT !.staHdl = "stale", !.sta = FALSE, !.count = @ - 1]}
            [] s.staHdl = "stale" -> {t}
            [] OTHER -> Unset(t)

Remove(f, s, isSta) ==
  UNION {UplinkGone(t, isSta) : t \in IF f = "v6" THEN DeletePrefix(s) ELSE {s}}

\* init_fl_rule, install_ipv4/6_icmp_flt_rule, add_dummy_private_subnet_flt_rule:
\* base are those that come in; one that the driver takes but does not install
\* is counted, too (bound: once, and when none comes in)
BaseSet(f, s, base) ==
  LET t == IF base = BaseOf(f) THEN s ELSE Note(s, "refused")
      in == [t EXCEPT !.base = base, !.count = @ + Size(base)]
  IN {in} \union (IF base # {} \/ "blind" \in s.odd THEN {}
                  ELSE {[Note(in, "blind") EXCEPT !.count = @ + 1]})
InstallBaseV4(s) == UNION {BaseSet("v4", s, base) : base \in SUBSET BaseOf("v4")}
InstallBaseV6(s) == UNION {BaseSet("v6", s, base) : base \in SUBSET BaseOf("v6")}

-----------------------------------------------------------------------------
(* The WAN, which does what WanState lets it do and posts a tether event.     *)

WanUp == {f \in Families : wan[f].up}
Hollow == {f \in Families : wan[f].hollow}
Post(isUp, f, m) == Append(queue, [ev |-> IF isUp THEN "up" ELSE "down", fam |-> f, sta |-> m = "sta"])
Quiet == queue = <<>>   \* the external queue has its turn

WanRouteAdd(f, m, taken) ==
  /\ Quiet
  /\ wan' = [wan EXCEPT ![f] = Added(@, m, taken)]
  /\ sta' = (m = "sta")
  /\ queue' = Post(TRUE, f, m)
  /\ UNCHANGED <<fams, ifaceVars, flt>>

WanHeaderAdd(f) ==
  /\ Quiet /\ MayComplete(wan[f])
  /\ wan' = [wan EXCEPT ![f] = Completed(@)]
  /\ sta' = TRUE
  /\ UNCHANGED <<fams, queue, ifaceVars, flt>>

WanDown(f, m) ==
  /\ Quiet /\ MayEnd(wan[f], m)
  /\ wan' = [wan EXCEPT ![f] = Ended(@)]
  /\ queue' = Post(FALSE, f, m)
  /\ UNCHANGED <<fams, sta, ifaceVars, flt>>

\* the route of a family this device does not tether
WanOtherFamily(m) ==
  /\ Quiet /\ fams # Families
  /\ sta' = (m = "sta")
  /\ UNCHANGED <<fams, wan, queue, ifaceVars, flt>>

\* IPA_HANDLE_WAN_UP_TETHER, in STA mode it only resets the clients
HandleWanUpTether(e) ==
  IF phase = "active" /\ "v4" \in ipType \ up /\ ~e.sta
  THEN /\ up' = up \union {"v4"}
       /\ IF "v4" \in down
          THEN \E s \in UplinkEx(flt["v4"]) : flt' = [flt EXCEPT !["v4"] = s]
          ELSE flt' = flt
  ELSE UNCHANGED <<up, flt>>

HandleWanUpV6Tether(e) ==
  IF phase = "active" /\ "v6" \in ipType \ up
  THEN /\ up' = up \union {"v6"}
       /\ IF "v6" \in down
          THEN \E s \in Install("v6", flt["v6"], e.sta) : flt' = [flt EXCEPT !["v6"] = s]
          ELSE flt' = flt
  ELSE UNCHANGED <<up, flt>>

HandleWanDownTether_Kept(e) ==   \* mutant: the rules of a WAN that is down stay
  IF phase = "active" /\ e.fam \in ipType \intersect up
  THEN up' = up \ {e.fam} /\ flt' = flt
  ELSE /\ up' = up
       /\ flt' = IF phase = "active" /\ e.fam \in up
                 THEN [flt EXCEPT ![e.fam] = Note(@, "early")] ELSE flt
HandleWanDownTether(e) ==
  IF phase = "active" /\ e.fam \in ipType \intersect up
  THEN /\ up' = up \ {e.fam}
       /\ IF e.fam \in down
          THEN \E s \in Remove(e.fam, flt[e.fam], e.sta) : flt' = [flt EXCEPT ![e.fam] = s]
          ELSE flt' = flt
  ELSE /\ up' = up
       /\ flt' = IF phase = "active" /\ e.fam \in up
                 THEN [flt EXCEPT ![e.fam] = Note(@, "early")] ELSE flt

DeleteSelf == phase' = "none" /\ UNCHANGED <<up, flt>>

Process ==
  /\ queue # <<>>
  /\ LET e == Head(queue)
     IN \/ e.ev = "up" /\ e.fam = "v4" /\ HandleWanUpTether(e) /\ phase' = phase
        \/ e.ev = "up" /\ e.fam = "v6" /\ HandleWanUpV6Tether(e) /\ phase' = phase
        \/ e.ev = "down" /\ HandleWanDownTether(e) /\ phase' = phase
        \/ e.ev = "delete_self" /\ DeleteSelf
  /\ queue' = Tail(queue)
  /\ UNCHANGED <<wanVars, born, nat, ipType, down, dft, sw>>

-----------------------------------------------------------------------------
(* Addresses, offload and software routing of the interface. *)

\* the address event is let through, handle_addr_evt has room for it
TakesAddr(f) == IF f = "v4" THEN "v4" \notin ipType
                ELSE "v6" \notin ipType \/ dft # MaxDftV6

\* handle_addr_evt: a route that is refused, or an address already there, ends it
AddrRefused(f) ==
  /\ ipType' = ipType \union {f}
  /\ flt' = [flt EXCEPT ![f] = Note(@, "refused")]
  /\ UNCHANGED <<nat, up, dft>>

SeenUp_Not == up   \* mutant: the WAN is not looked at
SeenUp == up \union WanUp

AddrTakenV4 ==
  /\ \E s \in InstallBaseV4(flt["v4"]) : flt' = [flt EXCEPT !["v4"] = s]
  /\ dft' = dft
AddrTakenV6 ==
  /\ IF dft = 0 THEN \E s \in InstallBaseV6(flt["v6"]) : flt' = [flt EXCEPT !["v6"] = s]
     ELSE flt' = flt
  /\ dft' = dft + 1

HandleAddrAdd(f) ==
  /\ Quiet /\ phase = "active" /\ TakesAddr(f)
  /\ \/ AddrRefused(f)
     \/ /\ IF f = "v4" THEN AddrTakenV4 ELSE AddrTakenV6
        /\ ipType' = ipType \union {f}
        /\ nat' = nat \union {f}
        /\ up' = SeenUp
  /\ UNCHANGED <<wanVars, queue, phase, born, down, sw>>

\* IPA_DOWNSTREAM_ADD, sent for NAT interfaces
HandleDownstreamAdd(f) ==
  /\ Quiet /\ phase = "active" /\ f \in nat \ down
  /\ down' = down \union {f}
  /\ IF f \in up \intersect ipType
     THEN \E s \in Install(f, flt[f], sta) : flt' = [flt EXCEPT ![f] = s]
     ELSE flt' = flt
  /\ UNCHANGED <<wanVars, queue, phase, born, nat, ipType, up, dft, sw>>

HandleDownstreamDel(f) ==
  /\ Quiet /\ phase = "active" /\ f \in down
  /\ down' = down \ {f}
  /\ IF f \in up
     THEN \E s \in Remove(f, flt[f], sta) : flt' = [flt EXCEPT ![f] = s]
     ELSE flt' = flt
  /\ UNCHANGED <<wanVars, queue, phase, born, nat, ipType, up, dft, sw>>

\* a rule for each family; without the one for IPv6 that for IPv4 stays, and its
\* handle is overwritten by the next (bound: once).  Refused at once, nothing is done
Recount(n) == [f \in Families |-> [flt[f] EXCEPT !.count = @ + n]]
HalfRouted(s) == [Note(s, "refused") EXCEPT !.count = @ + 1, !.left = @ + 1]
HandleSoftwareRoutingEnable ==
  /\ Quiet /\ phase = "active" /\ ~sw
  /\ \/ sw' = TRUE /\ flt' = Recount(1)
     \/ /\ fams \in HalfRouting /\ flt["v4"].left = 0 /\ sw' = FALSE
        /\ flt' = [flt EXCEPT !["v4"] = HalfRouted(@)]
  /\ UNCHANGED <<wanVars, queue, phase, born, nat, ipType, up, down, dft>>
HandleSoftwareRoutingDisable ==
  /\ Quiet /\ phase = "active" /\ sw /\ sw' = FALSE /\ flt' = Recount(-1)
  /\ UNCHANGED <<wanVars, queue, phase, born, nat, ipType, up, down, dft>>

-----------------------------------------------------------------------------
(* handle_down_evt.  The uplink rules go if the WAN is up at that moment, in  *)
(* the mode of that moment; a base rule that cannot be deleted ends it early. *)

DownUplink(f) ==
  IF f \in WanUp THEN Remove(f, flt[f], sta)
  ELSE {IF f \in up \intersect down \intersect Hollow THEN Note(flt[f], "hollow") ELSE flt[f]}
DownGroup(g, s) ==   \* outcomes: the new state, and whether it goes on
  CASE g \in s.base -> {<<[s EXCEPT !.base = @ \ {g}, !.count = @ - 1], TRUE>>}
    [] g \notin s.base /\ g = "init" -> {<<s, TRUE>>}   \* its handle is looked at
    [] OTHER -> {<<s, FALSE>>, <<NeverWas(s), TRUE>>}
Then(o, g) == IF o[2] THEN DownGroup(g, o[1]) ELSE {o}
DownDefaults(s) == UNION {Then(o, "init") : o \in DownGroup("icmp", s)}
DownBase(f, s) ==
  IF f = "v4" THEN UNION {Then(o, "subnets") : o \in DownDefaults(s)} ELSE DownDefaults(s)

\* what remains of the interface in the tables when it is gone
Remains(s) == s.left + Installed(s)
Gone(s, seen) == Renewed([s EXCEPT !.count = @ - One(sw)], Remains(s), seen)
AllGone(ends) ==
  LET seen == IF \A f \in Families : Remains(ends[f]) = 0
              THEN {"blind"} ELSE UNION {ends[f].odd : f \in Families}
  IN flt' = [f \in Families |-> Gone(ends[f], seen)]

HandleDown ==
  /\ Quiet /\ phase = "active" /\ phase' = "down" /\ nat' = {}
  /\ queue' = Append(queue, [ev |-> "delete_self"])
  /\ IF ipType = {} THEN AllGone(flt)
     ELSE \E u4 \in DownUplink("v4"), u6 \in DownUplink("v6") :
          \E b4 \in IF "v4" \in ipType THEN DownBase("v4", u4) ELSE {<<u4, TRUE>>} :
          \E b6 \in IF "v6" \in ipType /\ b4[2] THEN DownBase("v6", u6) ELSE {<<u6, b4[2]>>} :
            AllGone([f \in Families |-> IF f = "v4" THEN b4[1] ELSE b6[1]])
  /\ ipType' = {} /\ up' = {} /\ down' = {} /\ dft' = 0 /\ sw' = FALSE
  /\ UNCHANGED <<wanVars, born>>

\* IPACM_Lan::IPACM_Lan: a LAN interface does not look at the WAN in STA mode
Created(seen) ==
  /\ Quiet /\ phase = "none"
  /\ born < IF \E f \in Families : flt[f].odd # {} THEN MaxTroubled ELSE MaxInstances
  /\ phase' = "active" /\ born' = born + 1
  /\ up' = seen
  /\ UNCHANGED <<wanVars, queue, nat, ipType, down, dft, sw, flt>>
Create == Created(IF sta THEN {} ELSE WanUp)

Init ==
  /\ fams \in FamilySets
  /\ wan = [f \in Families |-> NoWanYet] /\ sta = FALSE /\ queue = <<>>
  /\ phase = "none" /\ born = 0 /\ nat = {} /\ ipType = {} /\ up = {} /\ down = {}
  /\ dft = 0 /\ sw = FALSE
  /\ flt = [f \in Families |-> [base |-> {}, modem |-> FALSE, num |-> 0, sta |-> FALSE,
              staHdl |-> "unset", pfxHdl |-> "unset", count |-> 0, left |-> 0, odd |-> {}]]

Next ==
  \/ \E f \in fams, m \in WanKinds, taken \in BOOLEAN : WanRouteAdd(f, m, taken)
  \/ \E f \in fams : WanHeaderAdd(f) \/ (\E m \in WanKinds : WanDown(f, m))
  \/ \E m \in WanKinds : WanOtherFamily(m)
  \/ Process
  \/ \E f \in fams : HandleAddrAdd(f) \/ HandleDownstreamAdd(f) \/ HandleDownstreamDel(f)
  \/ HandleSoftwareRoutingEnable \/ HandleSoftwareRoutingDisable
  \/ HandleDown \/ Create

Spec == Init /\ [][Next]_vars /\ WF_vars(Process)

-----------------------------------------------------------------------------
(* The uplink of an access point (event_callback and handle_down_evt of       *)
(* IPACM_Wlan): it also takes a Wi-Fi backhaul for IPv4, and a restart of the *)
(* radio's firmware makes it no NAT interface until the configuration is read *)
(* again.                                                                     *)

CONSTANTS
  Interfaces,     \* bound: the kinds of interface, "lan" and "wlan"
  MaxAccessPoints \* bound: times an access point comes up

VARIABLE kind   \* of this interface, which does not change

\* IPA_HANDLE_WAN_UP_TETHER, for LTE and for STA
WlanWanUpTether(e) ==
  IF phase = "active" /\ "v4" \in ipType \ up
  THEN /\ up' = up \union {"v4"}
       /\ IF "v4" \in down
          THEN \E s \in Install("v4", flt["v4"], e.sta) : flt' = [flt EXCEPT !["v4"] = s]
          ELSE flt' = flt
  ELSE UNCHANGED <<up, flt>>
WlanWanUpV6Tether(e) == HandleWanUpV6Tether(e)
WlanWanDownTether(e) == HandleWanDownTether(e)
WlanDeleteSelf == DeleteSelf

WlanProcess ==
  /\ queue # <<>>
  /\ LET e == Head(queue)
     IN \/ e.ev = "up" /\ e.fam = "v4" /\ WlanWanUpTether(e) /\ phase' = phase
        \/ e.ev = "up" /\ e.fam = "v6" /\ WlanWanUpV6Tether(e) /\ phase' = phase
        \/ e.ev = "down" /\ WlanWanDownTether(e) /\ phase' = phase
        \/ e.ev = "delete_self" /\ WlanDeleteSelf
  /\ queue' = Tail(queue)
  /\ UNCHANGED <<wanVars, born, nat, ipType, down, dft, sw>>

WlanAddrAdd(f) == HandleAddrAdd(f)
WlanDownstreamAdd(f) == HandleDownstreamAdd(f)
WlanDownstreamDel(f) == HandleDownstreamDel(f)
WlanLinkDown == HandleDown

\* IPA_SSR_NOTICE, DelNatIfaces
WlanSsr ==
  /\ Quiet /\ phase = "active" /\ nat # {} /\ nat' = {}
  /\ UNCHANGED <<wanVars, queue, phase, born, ipType, up, down, dft, sw, flt>>

\* IPA_CFG_CHANGE_EVENT, AddNatIfaces for both families, of which those count
\* that the device tethers
WlanCfgChange ==
  /\ Quiet /\ phase = "active" /\ nat' = fams
  /\ UNCHANGED <<wanVars, queue, phase, born, ipType, up, down, dft, sw, flt>>

\* IPACM_Wlan::IPACM_Wlan
WlanCreate == born < MaxAccessPoints /\ Created(WanUp)

WanMoves ==
  \/ \E f \in fams, m \in WanKinds, taken \in BOOLEAN : WanRouteAdd(f, m, taken)
  \/ \E f \in fams : WanHeaderAdd(f) \/ (\E m \in WanKinds : WanDown(f, m))
  \/ \E m \in WanKinds : WanOtherFamily(m)

WlanNext ==
  \/ WanMoves \/ WlanProcess
  \/ \E f \in fams : WlanAddrAdd(f) \/ WlanDownstreamAdd(f) \/ WlanDownstreamDel(f)
  \/ HandleSoftwareRoutingEnable \/ HandleSoftwareRoutingDisable
  \/ WlanLinkDown \/ WlanSsr \/ WlanCfgChange \/ WlanCreate

AnyProcess == IF kind = "lan" THEN Process ELSE WlanProcess
AnyInit == kind \in Interfaces /\ Init
AnyNext ==
  /\ \/ kind = "lan" /\ Next
     \/ kind = "wlan" /\ WlanNext
  /\ kind' = kind

-----------------------------------------------------------------------------
(* When a family is not offloaded, or has no WAN, the interface has no uplink *)
(* rule for it, unless the mode of the backhaul had changed when they were to *)
(* be deleted (handle_wan_down looks for the rules of the new mode).          *)
UplinkFollowsOffload ==
  phase = "active" => \A f \in Families \ (up \intersect down) :
                        Uplinked(flt[f]) = 0 \/ "missed" \in flt[f].odd

(* An interface leaves no filter rule behind (handle_down_evt), unless a rule *)
(* was refused, the mode had changed, the end of the WAN had come before the  *)
(* address, or the WAN never had its flag, which handle_down_evt looks at     *)
(* instead of is_upstream_set.                                                *)
LeavesNothing ==
  \A f \in Families :
    flt[f].left > 0 =>
      \E g \in Families : flt[g].odd \intersect {"refused", "missed", "hollow", "early"} # {}

(* FltRuleCount, from which the index of each uplink rule is told to the      *)
(* modem, is the number of rules of the pipe, unless a handle that never was  *)
(* has been deleted.                                                          *)
FilterCountExact ==
  \A f \in Families :
    flt[f].count = Installed(flt[f]) + flt[f].left + One(sw) \/ "blind" \in flt[f].odd

(* The interface counts on a WAN that is down only while the event is on its  *)
(* way, when that event found the interface without an address, or when the   *)
(* WAN was announced without ever being up.                                   *)
Coming(f) == \E i \in DOMAIN queue : queue[i].ev = "down" /\ queue[i].fam = f
UpstreamTrue ==
  phase = "active" =>
    \A f \in up \ WanUp : Coming(f) \/ f \in Hollow \/ "early" \in flt[f].odd

(* modem_ul_set without rules, which keeps them from ever being added, is the *)
(* trace of a refusal.                                                        *)
ModemFlagTrue ==
  \A f \in Families :
    flt[f].modem => flt[f].num = UlRules \/ "refused" \in flt[f].odd

(* An LTE WAN that stays up is seen by an interface that has its address, as  *)
(* taken by handle_addr_evt, and stays, in whatever order they came.          *)
WanUpReachesLan ==
  \A f \in Families :
    <>[](f \in WanUp /\ wan[f].via = "lte" /\ phase = "active" /\ flt[f].base # {}) => <>[](f \in up)

(* Uplink traffic of a family goes through the hardware only under a WAN that *)
(* is up, and the interface knows when it is not (handle_wan_down).           *)
UplinkFollowsWan == UplinkFollowsOffload /\ UpstreamTrue

(* Every rule of the interface's pipe is counted, none outlives it, and those *)
(* told to the modem are there (install_wan_filtering_rule of the WAN).       *)
RulesAccounted == LeavesNothing /\ FilterCountExact /\ ModemFlagTrue
=============================================================================
