------------------------------- MODULE Upstream -------------------------------
(***************************************************************************)
(* The WAN interfaces of IPACM (IPACM_Wan) under the calls of the          *)
(* framework: routes of the upstream come from the offload manager, links, *)
(* addresses and neighbours from the network, and the command thread       *)
(* handles one event at a time.                                            *)
(***************************************************************************)
EXTENDS OffloadManager

CONSTANTS Sta,       \* the WANs that are Wi-Fi stations, the others are the modem's
          MaxExt     \* bound: events waiting before a call

ASSUME UpstreamAssumption == Sta \subseteq Wans /\ MaxExt \in Nat

VARIABLES
  lost,    \* history: families whose route was asked of a link that went down
  inst,    \* the IPACM_Wan of each device, or None
  order,   \* the devices, in the order their instances registered
  wan,     \* wan_up and wan_up_v6, as in WanState
  said,    \* the last tether event of each family, as in WanSignal
  sta,     \* IPACM_Wan::backhaul_is_sta_mode
  tether,  \* the tethered interfaces: there or not, is_downstream_set
  links    \* links that came up

wanVars == <<inst, order, wan, said, sta>>
vars == <<omVars, wanVars, tether, links, lost>>

Kind(d) == IF d \in Sta THEN "sta" ELSE "lte"

(* Of an instance: ips is ip_type, n6 num_dft_rt_v6, act active_v4/v6, dgw    *)
(* is_default_gateway; of a station: gw wan_v4/v6_addr_gw_set, nb the         *)
(* families in which its gateway is a known neighbour, hdr header_set,        *)
(* partial header_partial_default_wan_v4/v6; these say nothing any more once  *)
(* the header is set, and are forgotten here.                                 *)
NewInstance ==
  [ips |-> {}, n6 |-> 0, act |-> {}, dgw |-> FALSE, gw |-> {}, nb |-> {}, hdr |-> FALSE,
   partial |-> {}]

WS == INSTANCE WanSignal WITH WanFamilies <- Families

\* the WANs as one value, which the handlers pass on
World == [inst |-> inst, wan |-> wan, said |-> said, sta |-> sta, odd |-> {}]
Becomes(w) ==
  /\ inst' = w.inst /\ wan' = w.wan /\ said' = w.said /\ sta' = w.sta /\ odd' = odd \union w.odd

\* post_wan_up_tether_evt and post_wan_down_tether_evt
PostUp(w, d, f) ==
  [w EXCEPT !.said[f] = WS!Say(@, "up"), !.wan[f].via = Kind(d), !.wan[f].hollow = ~w.wan[f].up]
PostDown(w, f) == [w EXCEPT !.said[f] = WS!Say(@, "down"), !.wan[f].hollow = FALSE]
Note(w, what) == [w EXCEPT !.odd = @ \union what]

-----------------------------------------------------------------------------
(* The handlers of one instance.  Each gives the outcomes the driver allows;  *)
(* it may refuse one route (bound), and deletes what it was given.            *)

\* handle_route_add_evt: the default gateway and the mode come first, then the
\* rules, then the flag; a station without its header leaves the rest for later
Claimed(w, d) == [w EXCEPT !.inst[d].dgw = TRUE, !.sta = d \in Sta]
Up(w, d, f) ==
  [w EXCEPT !.inst[d].act = @ \union {f}, !.wan[f].up = TRUE, !.wan[f].hollow = FALSE]
RouteInstalled(w, d, f) ==
  {Up(w, d, f)} \union (IF "refused" \in odd \union w.odd THEN {} ELSE {Note(w, {"refused"})})
RouteAdded(w, d, f) ==
  IF d \in Sta /\ ~w.inst[d].hdr
  THEN {[Claimed(w, d) EXCEPT !.inst[d].partial = @ \union {f}]}
  ELSE RouteInstalled(Claimed(w, d), d, f)

\* handle_route_del_evt and handle_route_del_evt_ex
RouteDeleted_FlagStays(w, d, f) ==   \* mutant: the flag is left to the event
  [w EXCEPT !.inst[d].dgw = FALSE, !.inst[d].act = @ \ {f}]
RouteDeleted(w, d, f) ==
  IF f \in w.inst[d].act
  THEN [w EXCEPT !.inst[d].dgw = FALSE, !.inst[d].act = @ \ {f}, !.wan[f].up = FALSE]
  ELSE [w EXCEPT !.inst[d].dgw = FALSE]

\* handle_sta_header_add_evt: it goes on to the routes that wait only when
\* every gateway it was told is a neighbour, and only once
HeaderSet(w, d) ==
  [w EXCEPT !.inst[d].hdr = TRUE, !.inst[d].gw = {}, !.inst[d].nb = {}, !.inst[d].partial = {}]
HeaderAdded_NoRoutes(w, d) ==   \* mutant: the routes that wait are forgotten
  LET i == w.inst[d]
  IN {IF d \in Sta /\ i.gw # {} /\ i.gw \subseteq i.nb THEN HeaderSet(w, d) ELSE w}
HeaderAdded(w, d) ==
  LET i == w.inst[d]
      Late(x, f) == IF f \in i.partial THEN RouteAdded(x, d, f) ELSE {x}
  IN CASE d \notin Sta \/ i.hdr \/ i.gw = {} \/ ("v4" \in i.gw /\ "v4" \notin i.nb) -> {w}
       [] "v6" \in i.gw \ i.nb ->
            {IF "v4" \in i.gw
             THEN Note(HeaderSet(w, d), IF i.partial = {} THEN {} ELSE {"stuck"}) ELSE w}
       [] OTHER -> UNION {Late(x, "v6") : x \in Late(HeaderSet(w, d), "v4")}

\* IPA_WAN_UPSTREAM_ROUTE_ADD_EVENT, for the device itself
OwnRouteAdd(w, d, f) ==
  LET i == w.inst[d]
      told == IF d \in Sta /\ ~i.hdr THEN [w EXCEPT !.inst[d].gw = @ \union {f}] ELSE w
      added == UNION {IF f \in h.inst[d].act THEN {h} ELSE RouteAdded(h, d, f) : h \in HeaderAdded(told, d)}
  IN CASE f \notin i.ips \/ (f = "v6" /\ i.n6 < 2) -> {w}
       [] f \in i.act -> {PostUp(w, d, f)}
       [] OTHER -> {PostUp(x, d, f) : x \in added}

\* "double check if current default iface is not itself", without a word
OtherRouteAdd(w, d, f) ==
  IF f \in w.inst[d].act THEN {RouteDeleted([w EXCEPT !.inst[d].gw = @ \ ({"v4"} \intersect {f})], d, f)} ELSE {w}

\* IPA_WAN_UPSTREAM_ROUTE_DEL_EVENT: nothing for a route that still waits
OwnRouteDel(w, d, f) ==
  IF f \in w.inst[d].act
  THEN {RouteDeleted(PostDown([w EXCEPT !.inst[d].gw = @ \ ({"v4"} \intersect {f})], f), d, f)}
  ELSE {Note(w, IF f \in w.inst[d].partial THEN {"unheard"} ELSE {})}

\* handle_down_evt of a station
StationOff(w, d, f) == IF f \in w.inst[d].act THEN PostDown(RouteDeleted(w, d, f), f) ELSE w
StationDown(w, d) == [StationOff(StationOff(w, d, "v4"), d, "v6") EXCEPT !.inst[d] = None]

\* handle_down_evt_ex of the modem: the families of the default gateway, also
\* one whose route another WAN has
ModemOff(w, d, f) ==
  LET other == \E e \in Wans \ {d} : w.inst[e] # None /\ f \in w.inst[e].act
  IN IF f \notin w.inst[d].ips THEN w
     ELSE Note(PostDown(RouteDeleted([w EXCEPT !.wan[f].up = FALSE], d, f), f),
               IF other THEN {"stolen"} ELSE {})
ModemDown(w, d) ==
  [IF w.inst[d].dgw THEN ModemOff(ModemOff(w, d, "v4"), d, "v6")
   ELSE Note(w, IF w.inst[d].act = {} THEN {} ELSE {"kept"}) EXCEPT !.inst[d] = None]

-----------------------------------------------------------------------------
(* The command thread.  An internal event is handled before the next external *)
(* one, so that what a tether event does is part of the step that posts it.   *)

\* an event goes to the instances in the order they registered
Handled(e) ==
  LET One(w, d) ==
        CASE e.ev = "route_add" /\ e.dev = d -> OwnRouteAdd(w, d, e.fam)
          [] e.ev = "route_add" /\ e.dev # d -> OtherRouteAdd(w, d, e.fam)
          [] e.ev = "route_del" /\ e.dev = d -> OwnRouteDel(w, d, e.fam)
          [] OTHER -> {w}
      upTo[n \in 0..Len(order)] ==
        IF n = 0 THEN {World} ELSE UNION {One(w, order[n]) : w \in upTo[n - 1]}
  IN upTo[Len(order)]

Process ==
  /\ om.ext # <<>>
  /\ om' = [om EXCEPT !.ext = Tail(@)]
  /\ LET e == Head(om.ext)
     IN IF e.dev \in Wans
        THEN (\E w \in Handled(e) : Becomes(w)) /\ UNCHANGED <<order, tether>>
        ELSE /\ tether' = [tether EXCEPT ![e.dev].on =
                             CASE ~tether[e.dev].there -> @
                               [] e.ev = "down_add" -> @ \union {e.fam}
                               [] OTHER -> @ \ {e.fam}]
             /\ UNCHANGED <<wanVars, odd>>
  /\ UNCHANGED <<setup, ready, known, started, pending, calls, asked, lent, links, lost>>

\* history: a route asked for again is not lost
Asked(o) == {o.ext[i].fam : i \in {j \in (Len(om.ext) + 1)..Len(o.ext) : o.ext[j].ev = "route_add"}}

Framework ==
  /\ Len(om.ext) <= MaxExt
  /\ FrameworkCall
  /\ lost' = lost \ Asked(om')
  /\ UNCHANGED <<wanVars, tether, links>>

-----------------------------------------------------------------------------
(* The network: links, addresses and neighbours. *)

WanLinkUp(d) ==
  /\ inst[d] = None /\ links < setup.links
  /\ inst' = [inst EXCEPT ![d] = NewInstance]
  /\ order' = Append(order, d)
  /\ links' = links + 1
  /\ UNCHANGED <<omVars, wan, said, sta, tether, lost>>

\* handle_addr_evt: the rules of IPv6 come with the second address, which
\* brings the prefix; a route that is refused leaves only ip_type
AddrReady(d, f) ==
  IF f = "v4" \/ inst[d].n6 = 1 THEN [ready EXCEPT ![d] = @ \union {f}] ELSE ready
Addressed(d, f) ==
  [inst EXCEPT ![d].ips = @ \union {f}, ![d].n6 = IF f = "v6" THEN @ + 1 ELSE @]
WanAddr(d, f) ==
  /\ inst[d] # None /\ (f = "v6" => inst[d].n6 < 2)
  /\ inst' = Addressed(d, f)
  /\ ready' = AddrReady(d, f)
  /\ om' = Searched(om, ready', d) /\ odd' = odd \union Dropped(om, ready', d)
  /\ lost' = lost \ Asked(om')
  /\ UNCHANGED <<setup, known, started, pending, calls, asked, lent, order, wan, said, sta, tether, links>>

WanAddrRefused(d, f) ==
  /\ inst[d] # None /\ "refused" \notin odd /\ (f = "v6" => inst[d].n6 < 2)
  /\ inst' = [inst EXCEPT ![d].ips = @ \union {f}]
  /\ ready' \in {ready} \union (IF f = "v6" /\ d \in Sta THEN {AddrReady(d, f)} ELSE {})
  /\ odd' = odd \union {"refused"}
  /\ UNCHANGED <<setup, om, known, started, pending, calls, asked, lent, order, wan, said, sta, tether, links, lost>>

\* IPA_NEIGH_CLIENT_IP_ADDR_ADD_EVENT of the gateway
WanNeighbour(d, f) ==
  /\ inst[d] # None /\ d \in Sta /\ ~inst[d].hdr /\ f \notin inst[d].nb
  /\ \E w \in HeaderAdded([World EXCEPT !.inst[d].nb = @ \union {f}], d) : Becomes(w)
  /\ UNCHANGED <<setup, om, ready, known, started, pending, calls, asked, lent, order, tether, links, lost>>

WanLinkDown(d) ==
  /\ inst[d] # None
  /\ Becomes(IF d \in Sta THEN StationDown(World, d) ELSE ModemDown(World, d))
  /\ order' = SelectSeq(order, LAMBDA e : e # d)
  /\ ready' = [ready EXCEPT ![d] = {}]
  /\ lost' = IF d = om.gw THEN lost \union om.up ELSE lost
  /\ asked' = IF asked = None \/ asked.dev # d \/ \E f \in asked.fams : Waits(d, f)
              THEN asked ELSE AnyCall
  /\ UNCHANGED <<setup, om, known, started, pending, calls, lent, tether, links>>

\* the tethered interfaces, of which LanUplink says more
TetherUp(l) ==
  /\ ~tether[l].there /\ links < setup.links
  /\ tether' = [tether EXCEPT ![l].there = TRUE]
  /\ links' = links + 1
  /\ UNCHANGED <<omVars, wanVars, lost>>

TetherAddr(l, f) ==
  /\ tether[l].there
  /\ ready' = [ready EXCEPT ![l] = @ \union {f}]
  /\ om' = Searched(om, ready', l) /\ odd' = odd \union Dropped(om, ready', l)
  /\ UNCHANGED <<setup, known, started, pending, calls, asked, lent, wanVars, tether, links, lost>>

TetherDown(l) ==
  /\ tether[l].there
  /\ tether' = [tether EXCEPT ![l] = [there |-> FALSE, on |-> {}]]
  /\ ready' = [ready EXCEPT ![l] = {}]
  /\ lent' = [x \in DOMAIN lent |->
                IF x[1] = l /\ lent[x] = "yes" /\ ~Waits(l, x[2]) THEN "free" ELSE lent[x]]
  /\ UNCHANGED <<setup, om, known, started, pending, calls, asked, odd, wanVars, links, lost>>

Network ==
  \/ \E d \in Wans \intersect setup.devs : WanLinkUp(d) \/ WanLinkDown(d)
  \/ \E d \in Wans \intersect setup.devs, f \in setup.fams : WanAddr(d, f) \/ WanAddrRefused(d, f) \/ WanNeighbour(d, f)
  \/ \E l \in Downs \intersect setup.devs : TetherUp(l) \/ TetherDown(l)
  \/ \E l \in Downs \intersect setup.devs, f \in setup.fams : TetherAddr(l, f)

Init ==
  /\ OffloadInit
  /\ inst = [d \in Wans |-> None] /\ order = <<>>
  /\ wan = [f \in Families |-> WS!NoWanYet]
  /\ said = [f \in Families |-> WS!Silence] /\ sta = FALSE
  /\ tether = [l \in Downs |-> [there |-> FALSE, on |-> {}]]
  /\ links = 0 /\ lost = {}

Next == Framework \/ Process \/ Network
Spec == Init /\ [][Next]_vars /\ WF_vars(Process)

-----------------------------------------------------------------------------
(* Type of the state. *)
CallType == {None} \union [what : {"upstream", "downstream"}, dev : Devices, fams : SUBSET Families]
TypeOK ==
  /\ om.gw \in Wans \union {None} /\ om.up \subseteq Families /\ om.latest \in Slots
  /\ om.cache \in [Slots -> CallType] /\ pending \in CallType
  /\ ready \in [Devices -> SUBSET Families] /\ known \subseteq Downs /\ started \in BOOLEAN
  /\ \A d \in Wans :
       inst[d] = None \/
         inst[d] \in [ips : SUBSET Families, n6 : 0..2, act : SUBSET Families, dgw : BOOLEAN,
                      gw : SUBSET Families, nb : SUBSET Families, hdr : BOOLEAN,
                      partial : SUBSET Families]
  /\ \A f \in Families : wan[f].up => ~wan[f].hollow

Settled == om.ext = <<>> /\ pending = None
Active(f) == {d \in Wans : inst[d] # None /\ f \in inst[d].act}

(* When the calls have been handled, a route of the upstream is installed for *)
(* the device and families of the offload manager and for no other.           *)
RouteFollowsGateway ==
  Settled => \A d \in Wans, f \in Families :
               d \in Active(f) => (d = om.gw /\ f \in om.up) \/ "unheard" \in odd

(* And it is installed for those, or waits for the gateway's header.          *)
GatewayInstalled ==
  Settled => \A f \in om.up \ lost :
               \/ om.gw \in Active(f)
               \/ /\ inst[om.gw] # None
                  /\ f \in inst[om.gw].partial /\ ~inst[om.gw].hdr
               \/ odd \intersect {"refused", "stuck"} # {}

(* wan_up says whether some WAN has the route of the family. *)
FlagTrue ==
  \A f \in Families : wan[f].up = (Active(f) # {}) \/ odd \intersect {"kept", "stolen", "unheard"} # {}

(* The upstream is the one last asked for, once its device is ready.          *)
UpstreamAsAsked ==
  Settled /\ asked # AnyCall /\ odd \intersect {"raced", "full", "outlived", "dropped", "refused"} = {} =>
    IF asked = None THEN om.gw = None /\ om.up = {}
    ELSE asked.fams \subseteq ready[asked.dev] => om.gw = asked.dev /\ om.up = asked.fams

(* A tethered device is offloaded as last asked for, once it is ready.        *)
TetherAsAsked ==
  Settled =>
    \A l \in Downs, f \in Families :
      tether[l].there /\ f \in ready[l] =>
        /\ lent[<<l, f>>] = "yes" => f \in tether[l].on \/ odd \intersect {"raced", "full", "wiped", "dropped"} # {}
        /\ lent[<<l, f>>] = "no" => f \notin tether[l].on \/ "revived" \in odd

\* what the tethered interfaces see of one family
V4 == INSTANCE WanSignal WITH WanFamilies <- {"v4"}, wan <- [f \in {"v4"} |-> wan[f]],
      said <- [f \in {"v4"} |-> said[f]]
V6 == INSTANCE WanSignal WITH WanFamilies <- {"v6"}, wan <- [f \in {"v6"} |-> wan[f]],
      said <- [f \in {"v6"} |-> said[f]]

(* For IPv4, every step of the handlers on the flag, the mode and the tether  *)
(* events is one WanSignal allows, unless a stale route is completed.         *)
SignalsV4 == V4!WanInit /\ [][V4!WanNext \/ "unheard" \in odd']_<<wan["v4"], said["v4"], sta>>

(* The same for IPv6. *)
SignalsV6 == V6!WanInit /\ [][V6!WanNext \/ "unheard" \in odd']_<<wan["v6"], said["v6"], sta>>

(* The routes are those of the gateway the offload manager works for: none is *)
(* left or completed elsewhere, none it needs is missing, and wan_up says so. *)
RoutesOfGateway == RouteFollowsGateway /\ GatewayInstalled /\ FlagTrue

(* What the tethering framework asked for last, after whatever waited in the  *)
(* cache, is what is offloaded (OffloadManager::setUpstream, addDownstream).  *)
AsAsked == UpstreamAsAsked /\ TetherAsAsked

(* The WAN tells the tethered interfaces of either family what WanSignal, and *)
(* with it LanUplink, expects of it (post_wan_up_tether_evt and _down_).      *)
Signals == SignalsV4 /\ SignalsV6
=============================================================================
