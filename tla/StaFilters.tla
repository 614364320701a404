----------------------------- MODULE StaFilters -----------------------------
(***************************************************************************)
(* The filtering rules of a WAN that is no modem: a Wi-Fi station or a     *)
(* cradle on Ethernet.  IPACM_Wan gives them to the driver one by one, for *)
(* the pipe of the interface, where the order in which they stand decides. *)
(* The same file, switch and events as for the modem's WANs.               *)
(***************************************************************************)
EXTENDS WanFilters

CONSTANTS
  Sta,      \* the WAN
  Modes     \* the modes of a cradle, "router" and "bridge"

ASSUME StaFiltersAssumption ==
  /\ Sta \notin Devices /\ "router" \in Modes
  /\ \A s \in Setups : s.sta \in {"none", "wlan", "ecm"}

VARIABLES
  sta,      \* its IPACM_Wan, or None
  held,     \* the rules the driver has for its pipe, in their order
  mode,     \* iface_table[].if_mode
  cfgMode,  \* the mode in the configuration file
  wanMode   \* IPACM_Wan::backhaul_is_wan_bridge

staVars == <<sta, held, mode, cfgMode, wanMode>>

\* fams is ip_type, v4 wan_v4_addr_set, n6 num_dft_rt_v6, dest
\* num_ipv6_dest_flt_rule, prefix whether ipv6_prefix is set, frag
\* is_ipv6_frag_firewall_flt_rule_installed, conf firewall_config as last read
NewSta ==
  [fams |-> {}, v4 |-> FALSE, n6 |-> 0, dest |-> 0, prefix |-> FALSE, hdr |-> FALSE, partial |-> {},
   dgw |-> FALSE, active |-> {}, act |-> FALSE, frag |-> FALSE, conf |-> None]

-----------------------------------------------------------------------------
(* The rules of one pipe and family.  A rule whose handle is forgotten stays  *)
(* there as an orphan.                                                        *)

Rule(what, action, of) == [is |-> what, action |-> action, of |-> of]
Plain(what) == Rule(what, "exception", None)
Kinds(rs) == {rs[i].is : i \in DOMAIN rs}
Without(rs, what) == SelectSeq(rs, LAMBDA r : r.is # what)
Forgotten(rs, what) == [i \in DOMAIN rs |-> IF rs[i].is = what THEN Plain("orphan") ELSE rs[i]]

\* the WAN as one value, which its handlers pass on
StaWorld ==
  [sta |-> sta, held |-> held, mode |-> mode, wanMode |-> wanMode, odd |-> {}]
StaBecomes(w) == sta' = w.sta /\ held' = w.held /\ mode' = w.mode /\ wanMode' = w.wanMode
Surprised(w, what) == [w EXCEPT !.odd = @ \union {what}]

\* check_dft_firewall_rules_attr_mask
NeedsFragments(fl) == fl.frag
FragmentRule(w, f) ==
  IF f = "v6" /\ w.sta.conf.on /\ NeedsFragments(w.sta.conf)
  THEN [w EXCEPT !.held[f] = Append(Forgotten(@, "frag"), Plain("frag")), !.sta.frag = TRUE]
  ELSE w

\* what a rule lets pass goes to the tethered side: v4 of a router through NAT
Pass(f, m) == IF f = "v4" /\ m = "router" THEN "nat" ELSE "route"
EntriesAction(f, fl, m) == IF fl.accept THEN Pass(f, m) ELSE "exception"
RestAction(f, fl, m) == IF fl.on /\ fl.accept THEN "exception" ELSE Pass(f, m)

EntriesV4(fl, m) ==
  IF fl.on THEN <<Rule("entries", EntriesAction("v4", fl, m), fl)>> ELSE <<>>
RestV4(fl, m) == <<Rule("rest", RestAction("v4", fl, m), fl)>>
FirewallV4(fl, m) ==
  IF fl.n["v4"] = 0 THEN RestV4(fl, m) ELSE EntriesV4(fl, m) \o RestV4(fl, m)
EntriesV6(fl, m) ==
  IF fl.on THEN <<Rule("entries", EntriesAction("v6", fl, m), fl)>> ELSE <<>>
IcmpV6 == <<Plain("icmp")>>
RestV6(fl, m) == <<Rule("rest", RestAction("v6", fl, m), fl)>>
FirewallV6(fl, m) ==
  IF fl.n["v6"] = 0 THEN IcmpV6 \o RestV6(fl, m) ELSE EntriesV6(fl, m) \o IcmpV6 \o RestV6(fl, m)

\* config_dft_firewall_rules: the file as it is now
ReadFile(w) == [w EXCEPT !.sta.conf = file]
WithFirewall(w, f) ==
  LET r == FragmentRule(ReadFile(w), f)
  IN [r EXCEPT !.held[f] = @ \o IF f = "v4" THEN FirewallV4(file, w.mode) ELSE FirewallV6(file, w.mode)]

\* del_dft_firewall_rules: the rule of fragments goes if the file that was read
\* last wants one
WithoutFragments_NoCheck(w) ==   \* mutant: the flag is not looked at nor reset
  [w EXCEPT !.held["v6"] = IF NeedsFragments(w.sta.conf) THEN Forgotten(@, "frag") ELSE @]
WithoutFragments(w) ==
  CASE ~w.sta.frag                  -> w
    [] NeedsFragments(w.sta.conf)   -> [w EXCEPT !.held["v6"] = Without(@, "frag"), !.sta.frag = FALSE]
    [] OTHER                        -> Surprised(w, "fragments")
FirewallGone(w, f) ==
  IF f \notin w.sta.active THEN w
  ELSE LET bare == [w EXCEPT !.held[f] = Without(Without(Without(@, "entries"), "rest"), "icmp")]
       IN IF f = "v6" THEN WithoutFragments(bare) ELSE bare

\* handle_software_routing_enable and _disable: a rule in front in both families
SoftwareOn(w) ==
  IF w.sta.act THEN w
  ELSE [w EXCEPT !.held = [f \in Families |-> <<Plain("software")>> \o @[f]], !.sta.act = TRUE]
SoftwareOff(w) ==
  IF ~w.sta.act THEN w
  ELSE [w EXCEPT !.held = [f \in Families |-> Without(@[f], "software")], !.sta.act = FALSE]

-----------------------------------------------------------------------------
(* The handlers of the WAN.                                                   *)

\* init_fl_rule, for v6 with the second address: a refused rule of the address
\* brings the defaults once more with the next
DefaultsV4(w) == [w EXCEPT !.held["v4"] = Append(@, Plain("dft"))]
DefaultsV6(w) ==
  LET again == IF "dft" \in Kinds(w.held["v6"]) THEN Surprised(w, "twice") ELSE w
  IN [again EXCEPT !.held["v6"] = Append(Forgotten(@, "dft"), Plain("dft"))]

\* handle_addr_evt: after the routes of the address, refused or not, the
\* defaults of the family and for a global address of v6 a rule of its own
AddressV4(w, refused) ==
  LET known == [w EXCEPT !.sta.fams = @ \union {"v4"}]
      late == IF "v4" \in w.sta.active THEN Surprised(known, "behind") ELSE known
  IN IF refused = "route" \/ w.sta.v4 THEN known ELSE [DefaultsV4(late) EXCEPT !.sta.v4 = TRUE]
DestinationRule(w) == [w EXCEPT !.held["v6"] = Append(@, Plain("dest")), !.sta.dest = @ + 1]
AddressV6(w, global, refused) ==
  LET known == [w EXCEPT !.sta.fams = @ \union {"v6"}]
      prepared == IF w.sta.n6 = 1 THEN DefaultsV6(known) ELSE known
      late == IF "v6" \in w.sta.active /\ (global \/ w.sta.n6 = 1)
              THEN Surprised(prepared, "behind") ELSE prepared
  IN CASE refused = "route" -> known
       [] refused = "dest"  -> IF w.sta.n6 = 1 THEN late ELSE known
       [] OTHER             -> [(IF global THEN DestinationRule(late) ELSE late)
                                 EXCEPT !.sta.n6 = @ + 1, !.sta.prefix = @ \/ global]
\* IPA_ADDR_ADD_EVENT: then the switch of software routing is looked at
Addressed(w) == IF sw THEN SoftwareOn(w) ELSE w

\* handle_route_add_evt: without the header of the gateway only a promise
StaClaimed(w) == [w EXCEPT !.sta.dgw = TRUE, !.wanMode = w.mode]
StaRouteAdded(w, f, refused) ==
  LET c == StaClaimed(w)
  IN CASE ~w.sta.hdr -> [c EXCEPT !.sta.partial = @ \union {f}]
       [] w.sta.hdr /\ refused -> c
       [] OTHER -> WithFirewall([c EXCEPT !.sta.active = @ \union {f}], f)

\* del_dft_firewall_rules, then handle_route_del_evt
StaRouteDeleted(w, f) ==
  [FirewallGone(w, f) EXCEPT !.sta.dgw = FALSE, !.sta.active = @ \ {f}]

\* both families in turn, if their route is there
Reinstalled(w, f) == IF f \in w.sta.active THEN WithFirewall(FirewallGone(w, f), f) ELSE w
FirewallHeard(w) == Reinstalled(Reinstalled(w, "v4"), "v6")

\* IPA_CFG_CHANGE_EVENT: a cradle that is the gateway changes its mode
ModeHeard(w) ==
  LET c == [w EXCEPT !.mode = cfgMode]
  IN CASE setup.sta # "ecm" \/ cfgMode = w.wanMode -> c
       [] ~w.sta.dgw -> IF w.sta.active = {} THEN c ELSE Surprised(c, "ignored")
       [] OTHER -> FirewallHeard([c EXCEPT !.wanMode = cfgMode])

StaHeard(w, e) ==
  CASE w.sta = None     -> IF e = "cfg" THEN [w EXCEPT !.mode = cfgMode] ELSE w
    [] e = "enable"     -> SoftwareOn(w)
    [] e = "disable"    -> SoftwareOff(w)
    [] e = "firewall"   -> FirewallHeard(w)
    [] e = "cfg"        -> ModeHeard(w)

\* handle_down_evt: without an address nothing is cleaned up
Orphans(w) ==
  IF \A f \in Families : w.held[f] = <<>> THEN w
  ELSE Surprised([w EXCEPT !.held = [f \in Families |-> <<>>]], "kept")
DefaultsGone(w, f) ==
  IF f \in w.sta.fams THEN [w EXCEPT !.held[f] = Without(Without(@, "dft"), "dest")] ELSE w
StaDown(w) ==
  LET v4 == IF "v4" \in w.sta.active THEN StaRouteDeleted(w, "v4") ELSE w
      v6 == IF "v6" \in w.sta.active THEN StaRouteDeleted(v4, "v6") ELSE v4
      clean == DefaultsGone(DefaultsGone(SoftwareOff(v6), "v4"), "v6")
  IN [Orphans(IF w.sta.fams = {} THEN w ELSE clean) EXCEPT !.sta = None]

-----------------------------------------------------------------------------
Happens(w) == StaBecomes(w) /\ Note(w.odd)

StaLinkUp ==
  /\ setup.sta # "none" /\ sta = None /\ links < setup.links
  /\ links' = links + 1 /\ sta' = NewSta
  /\ UNCHANGED <<wanVars, rest, asked, odd, held, mode, cfgMode, wanMode>>

\* v6 takes MAX_DEFAULT_v6_ROUTE_RULES addresses; the driver may refuse (bound:
\* once) a route of the address or the rule of its own
StaAddress(f, global, refused) ==
  /\ sta # None /\ (f = "v4" => ~global) /\ (f = "v6" => sta.n6 < 3)
  /\ refused = "dest" => global
  /\ refused # "no" => odd = {}
  /\ LET w == Addressed(IF f = "v4" THEN AddressV4(StaWorld, refused)
                        ELSE AddressV6(StaWorld, global, refused))
     IN Happens(IF refused = "no" THEN w ELSE Surprised(w, "address"))
  /\ UNCHANGED <<wanVars, rest, asked, links, cfgMode>>

StaRouteAdd(f, refused) ==
  /\ setup.sta # "none" /\ f \notin asked.fams /\ (asked.fams # {} => asked.dev = Sta)
  /\ asked' = [dev |-> Sta, fams |-> asked.fams \union {f}]
  /\ LET deaf == sta = None \/ f \notin sta.fams \/ (f = "v6" /\ ~sta.prefix) \/ f \in sta.active
     IN /\ refused => ~deaf /\ sta.hdr /\ odd = {}
        /\ Happens(CASE deaf -> StaWorld
                     [] ~deaf /\ refused -> Surprised(StaRouteAdded(StaWorld, f, TRUE), "refused")
                     [] OTHER -> StaRouteAdded(StaWorld, f, FALSE))
  /\ UNCHANGED <<wanVars, rest, links, cfgMode>>

\* handle_sta_header_add_evt: the neighbour that is the gateway is known at last
StaHeader ==
  /\ sta # None /\ ~sta.hdr /\ sta.partial # {}
  /\ LET w == [StaWorld EXCEPT !.sta.hdr = TRUE, !.sta.partial = {}]
         v4 == IF "v4" \in sta.partial THEN StaRouteAdded(w, "v4", FALSE) ELSE w
     IN Happens(IF "v6" \in sta.partial THEN StaRouteAdded(v4, "v6", FALSE) ELSE v4)
  /\ UNCHANGED <<wanVars, rest, asked, links, cfgMode>>

StaRouteDel(f) ==
  /\ asked.dev = Sta /\ f \in asked.fams
  /\ asked' = IF asked.fams = {f} THEN NoRoute ELSE [asked EXCEPT !.fams = @ \ {f}]
  /\ Happens(IF sta # None /\ f \in sta.active THEN StaRouteDeleted(StaWorld, f) ELSE StaWorld)
  /\ UNCHANGED <<wanVars, rest, links, cfgMode>>

StaLinkDown ==
  /\ sta # None
  /\ Happens(StaDown(StaWorld))
  /\ UNCHANGED <<wanVars, rest, asked, links, cfgMode>>

\* the configuration file has another mode for the cradle
ModeChange(m) ==
  /\ setup.sta = "ecm" /\ m # cfgMode /\ Len(ext) < MaxExt /\ changes < setup.changes
  /\ changes' = changes + 1
  /\ cfgMode' = m /\ ext' = Append(ext, "cfg")
  /\ UNCHANGED <<wanVars, file, sw, setup, asked, odd, links, sta, held, mode, wanMode>>

\* an external event reaches this WAN too
StaProcess ==
  /\ ext # <<>> /\ ext' = Tail(ext)
  /\ Happens(StaHeard(StaWorld, Head(ext)))
  /\ UNCHANGED <<wanVars, file, sw, changes, setup, asked, links, cfgMode>>

StaInit ==
  /\ sta = None /\ held = [f \in Families |-> <<>>]
  /\ mode = "router" /\ cfgMode = "router" /\ wanMode = "router"

StaNext ==
  \/ StaLinkUp \/ StaHeader \/ StaLinkDown
  \/ \E f \in Families : StaRouteDel(f)
  \/ \E f \in Families, global \in BOOLEAN, refused \in {"no", "route", "dest"} :
       StaAddress(f, global, refused)
  \/ \E f \in Families, refused \in BOOLEAN : StaRouteAdd(f, refused)
  \/ \E m \in Modes : ModeChange(m)

-----------------------------------------------------------------------------
FirewallKinds == {"frag", "entries", "icmp", "rest"}
Count(rs, what) == Len(SelectSeq(rs, LAMBDA r : r.is = what))
AskedRules(f) ==
  IF f \notin sta.active THEN <<>>
  ELSE IF f = "v4" THEN FirewallV4(file, mode)
  ELSE (IF file.on /\ file.frag THEN <<Plain("frag")>> ELSE <<>>) \o FirewallV6(file, mode)

\* The driver has for the pipe what the WAN is: the defaults of a family with its
\* address, a rule for each global address, behind them while the family has its
\* route the firewall of the file as it is, in its order and with the actions of
\* the mode, and nothing once the link is gone.  What the code does not keep up
\* with: an address that comes with the route there stands behind the rule that
\* takes everything; the defaults are added again after a refused rule; the rule
\* of fragments is forgotten when v4 has read a file that wants none; a mode is
\* ignored by a cradle that gave one of its routes back; software routing is not
\* cleaned up by a WAN without an address.
StationRules ==
  \/ odd \intersect {"behind", "twice", "fragments", "ignored", "kept"} # {}
  \/ \A f \in Families :
       LET rs == held[f]
           has == sta # None /\ IF f = "v4" THEN sta.v4 ELSE sta.n6 > 1 \/ "dft" \in Kinds(rs)
           firewall == SelectSeq(rs, LAMBDA r : r.is \in FirewallKinds)
       IN /\ sta = None => rs = <<>>
          /\ Count(rs, "dft") = IF has THEN 1 ELSE 0
          /\ sta # None => Count(rs, "dest") = IF f = "v6" THEN sta.dest ELSE 0
          /\ sta # None /\ ~Waiting({"firewall"}) =>
               /\ firewall = AskedRules(f)
               /\ rs = SelectSeq(rs, LAMBDA r : r.is \notin FirewallKinds) \o firewall

\* Once the events of the switch were handled, software routing is on for a WAN
\* with an address exactly if the switch is, and then its rule is the first one
\* of both families: the flag changes at once, the events come later, and an
\* address looks at the flag.
StationSwitch ==
  sta # None /\ ~Waiting({"enable", "disable"}) /\ sta.fams # {} =>
    \A f \in Families :
      Count(held[f], "software") = (IF sw THEN 1 ELSE 0) /\ (sw => held[f][1].is = "software")

(* The driver's rules for a station or cradle are those of its addresses, the *)
(* firewall and the switch of software routing.                               *)
StationTable == StationRules /\ StationSwitch
=============================================================================
