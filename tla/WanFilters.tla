----------------------------- MODULE WanFilters -----------------------------
(***************************************************************************)
(* The downlink filtering rules that IPACM keeps for the modem             *)
(* (IPACM_Wan::flt_rule_v4 and flt_rule_v6): one table per family, shared  *)
(* by every modem WAN, built from their addresses, from the default        *)
(* gateway and from the firewall file, and sent as a whole by QMI.         *)
(***************************************************************************)
EXTENDS Integers, Sequences, SequencesExt

CONSTANTS
  Modems,     \* the modem's WANs
  Embms,      \* the eMBMS interface
  Files,      \* firewall files: [on, frag, n], n the rules of each family
  MaxRules,   \* QMI_IPA_MAX_FILTERS_V01
  Setups,     \* bounds: records of devices, files, links that come up, changes
              \* of the switch or of the file
  MaxExt,     \* bound: external events waiting
  None

Families == {"v4", "v6"}
Devices == Modems \union {Embms}

ASSUME WanFiltersAssumption ==
  /\ Embms \notin Modems /\ None \notin Modems
  /\ MaxRules \in Nat /\ MaxExt \in Nat
  /\ \A s \in Setups : s.devs \subseteq Devices /\ s.files \subseteq Files /\ s.files # {}

VARIABLES
  inst,    \* the IPACM_Wan of each device, or None
  table,   \* flt_rule_v4/v6 and num_v4/v6_flt_rule
  count,   \* num_ipv4/6_modem_pdn
  qmap,    \* IPACM_Config's qmap id: the WAN it belongs to
  modem,   \* the rules the modem accepted last, and their mux id
  ok,      \* whether it accepted the last ones it was sent
  file,    \* the firewall file
  sw,      \* IPACM_Config::ipa_sw_rt_enable
  ext,     \* external events that wait
  asked,   \* the routes the framework asked for
  odd,     \* history: what went differently than the code expects
  setup, links, changes

wanVars == <<inst, table, count, qmap, modem, ok>>
vars == <<wanVars, file, sw, ext, asked, odd, setup, links, changes>>

\* fams is ip_type, n6 num_dft_rt_v6, dgw is_default_gateway, act
\* softwarerouting_act
NewInstance == [fams |-> {}, v4 |-> FALSE, n6 |-> 0, dgw |-> FALSE, active |-> {}, act |-> FALSE]

-----------------------------------------------------------------------------
(* The tables.  Rules that are always written together are one block: what   *)
(* they are, how many, and the file they come from.  The first blocks have   *)
(* their fixed places, and can be in use before they were ever written.      *)

Block(what, n, of) == [is |-> what, n |-> n, of |-> of]
Defaults(f) == Block("dft", IF f = "v4" THEN 2 ELSE 4, None)
Unwritten(f, i) == Block("zero", IF i = 2 THEN 3 ELSE Defaults(f).n, None)
Fixed(f) == IF f = "v4" THEN 1 ELSE 2   \* IPA_V2_NUM_DEFAULT_WAN_FILTER_RULE_IPV4/6

NoRules(f) == [slots |-> [i \in 1..Fixed(f) |-> Unwritten(f, i)], num |-> 0, fw |-> <<>>]
InUse(t) == SubSeq(t.slots, 1, t.num) \o t.fw
RulesIn(bs) == FoldLeft(LAMBDA n, b : n + b.n, 0, bs)

\* add_dft_filtering_rule, at the start of the table
Initial(t, f) == [t EXCEPT !.slots[1] = Defaults(f), !.num = 1, !.fw = <<>>]

\* config_wan_firewall_rule: the rules of add_icmp_alg_rules, then those of the
\* file as it is now (config_dft_firewall_rules_ex)
Icmp == <<Block("icmp", 1, None)>>
Fragments(f, fl) == IF f = "v6" /\ fl.on /\ fl.frag THEN <<Block("frag", 1, None)>> ELSE <<>>
Entries(f, fl) == IF fl.on /\ fl.n[f] > 0 THEN <<Block("entries", fl.n[f], fl)>> ELSE <<>>
Rest(fl) == <<Block("rest", 1, IF fl.on THEN fl ELSE None)>>
Firewall(f, fl) == Icmp \o Fragments(f, fl) \o Entries(f, fl) \o Rest(fl)

\* del_wan_firewall_rule
Cleared(t, f) == [t EXCEPT !.num = Fixed(f), !.fw = <<>>]

\* config_wan_firewall_rule: the TCP rules of v6 are written where the table
\* ends at that moment, what follows them from a fixed place
WithTcp(t) ==
  CASE t.fw # <<>> \/ t.num = 2 -> t
    [] OTHER -> [t EXCEPT !.slots[t.num + 1] = Block("tcp", 3, None)]
Configured(t, f, fl) ==
  [(IF f = "v6" THEN WithTcp(t) ELSE t) EXCEPT !.num = Fixed(f), !.fw = Firewall(f, fl)]

-----------------------------------------------------------------------------
(* The handlers of one instance, on the WANs as one value.                   *)

World ==
  [inst |-> inst, table |-> table, count |-> count, qmap |-> qmap, modem |-> modem, ok |-> ok,
   embms |-> inst[Embms] # None]
Becomes(w) ==
  /\ inst' = w.inst /\ table' = w.table /\ count' = w.count
  /\ qmap' = w.qmap /\ modem' = w.modem /\ ok' = w.ok

\* the rules to send: embms_is_on puts one on top of each table
EmbmsRule == <<Block("embms", 1, None)>>
Current(w) == [f \in Families |-> (IF w.embms THEN EmbmsRule ELSE <<>>) \o InUse(w.table[f])]
Software == [f \in Families |-> <<Block("software", 1, None)>>]

\* AddWanDLFilteringRule: too many rules and the modem keeps what it has
Sent(w, rules) ==
  IF RulesIn(rules["v4"]) + RulesIn(rules["v6"]) > MaxRules THEN [w EXCEPT !.ok = FALSE]
  ELSE [w EXCEPT !.ok = TRUE, !.modem = [rules |-> rules, mux |-> w.qmap]]

\* install_wan_filtering_rule: the rule of software routing once per instance
Installed(w, d, isSw) ==
  CASE ~(isSw \/ sw)   -> Sent(w, Current(w))
    [] w.inst[d].act   -> w
    [] OTHER           -> [Sent(w, Software) EXCEPT !.inst[d].act = TRUE]

\* init_fl_rule_ex, with the modem_ipv4/6_pdn_index the address got
Counted(w, f) == [w EXCEPT !.count[f] = @ + 1]
AddressSet_EachTime(w, d, f) ==   \* mutant: every WAN starts the table anew
  Installed([Counted(w, f) EXCEPT !.table[f] = Initial(@, f)], d, FALSE)
AddressSet(w, d, f) ==
  Installed([Counted(w, f) EXCEPT !.table[f] = IF w.count[f] = 0 THEN Initial(@, f) ELSE @], d, FALSE)

\* handle_route_add_evt: the gateway and the mux id first
Claimed(w, d) == [w EXCEPT !.inst[d].dgw = TRUE, !.qmap = d]
RouteAdded(w, d, f) ==
  Installed([Claimed(w, d) EXCEPT !.inst[d].active = @ \union {f},
                                  !.table[f] = Configured(@, f, file)], d, FALSE)

\* handle_route_del_evt_ex
NotGateway(w, d, f) == [w EXCEPT !.inst[d].dgw = FALSE, !.inst[d].active = @ \ {f}]
WithoutFirewall(w, f) == [w EXCEPT !.table[f] = Cleared(@, f)]
RouteDeleted(w, d, f) == NotGateway(Installed(WithoutFirewall(w, f), d, FALSE), d, f)

\* handle_down_evt_ex: the address that goes counts when it was set; a gateway
\* takes its firewall rules along, the last one of a family all its rules
HasAddress(i, f) == IF f = "v4" THEN i.v4 ELSE i.n6 > 1
Uncounted(w, d) ==
  LET i == w.inst[d]
  IN [w EXCEPT !.count["v4"] = @ - (IF "v4" \in i.fams THEN 1 ELSE 0),
               !.count["v6"] = @ - (IF "v6" \in i.fams /\ i.n6 > 1 THEN 1 ELSE 0)]
GatewayDown(w, d) ==
  LET fams == w.inst[d].fams
      bare == [w EXCEPT !.table = [f \in Families |-> IF f \in fams THEN Cleared(@[f], f) ELSE @[f]],
                        !.inst[d].dgw = FALSE, !.inst[d].active = {}]
  IN IF w.inst[d].dgw /\ fams # {} THEN Installed(bare, d, FALSE) ELSE w
LastDown(w, d, f) ==
  IF f \in w.inst[d].fams /\ w.count[f] = 0
  THEN Installed([w EXCEPT !.table[f] = NoRules(f)], d, FALSE) ELSE w
ModemDown(w, d) ==
  [LastDown(LastDown(GatewayDown(Uncounted(w, d), d), d, "v4"), d, "v6") EXCEPT !.inst[d] = None]

\* IPA_FIREWALL_CHANGE_EVENT: every family of the gateway's addresses
FirewallChanged_NotSent(w, d) ==   \* mutant: the new rules stay here
  LET i == w.inst[d]
  IN IF ~i.dgw THEN w
     ELSE [w EXCEPT !.table = [f \in Families |->
             IF f \in i.fams THEN Configured(Cleared(@[f], f), f, file) ELSE @[f]]]
FirewallChanged(w, d) ==
  LET i == w.inst[d]
      new == [w EXCEPT !.table = [f \in Families |->
                IF f \in i.fams THEN Configured(Cleared(@[f], f), f, file) ELSE @[f]]]
  IN IF i.dgw /\ i.fams # {} THEN Installed(new, d, FALSE) ELSE w

Heard(w, d, e) ==
  CASE w.inst[d] = None -> w
    [] e = "enable"     -> Installed(w, d, TRUE)
    [] e = "disable"    -> [Installed(w, d, FALSE) EXCEPT !.inst[d].act = FALSE]
    [] e = "firewall"   -> FirewallChanged(w, d)
    [] OTHER            -> w

-----------------------------------------------------------------------------
(* The command thread handles one event at a time.                           *)

Note(what) == odd' = odd \union what
NoRoute == [dev |-> None, fams |-> {}]
rest == <<file, sw, ext, changes, setup>>

LinkUp(d) ==
  /\ d \in setup.devs /\ inst[d] = None /\ links < setup.links
  /\ links' = links + 1
  /\ LET w == [World EXCEPT !.inst[d] = NewInstance]
     IN Becomes(IF d = Embms THEN Installed([w EXCEPT !.embms = TRUE], d, FALSE) ELSE w)
  /\ UNCHANGED <<rest, asked, odd>>

\* handle_addr_evt: the driver may refuse the route of an address (bound: once)
AddressAdd(d, f, refused) ==
  /\ inst[d] # None /\ (IF f = "v4" THEN ~inst[d].v4 ELSE inst[d].n6 < 2)
  /\ refused => f = "v4" /\ "drift" \notin odd
  /\ LET known == [World EXCEPT !.inst[d].fams = @ \union {f}]
         set   == IF f = "v4" THEN [known EXCEPT !.inst[d].v4 = TRUE]
                  ELSE [known EXCEPT !.inst[d].n6 = @ + 1]
     IN Becomes(CASE refused -> known
                  [] ~refused /\ HasAddress(set.inst[d], f) -> AddressSet(set, d, f)
                  [] OTHER -> set)
  /\ Note(IF refused THEN {"drift"} ELSE {})
  /\ UNCHANGED <<rest, asked, links>>

\* IPA_WAN_UPSTREAM_ROUTE_ADD_EVENT: the framework has one upstream (Upstream)
RouteAdd(d, f, refused) ==
  /\ d \in setup.devs /\ f \notin asked.fams /\ (asked.fams # {} => asked.dev = d)
  /\ refused => "refused" \notin odd
  /\ asked' = [dev |-> d, fams |-> asked.fams \union {f}]
  /\ LET i == inst[d]
         deaf == i = None \/ f \notin i.fams \/ (f = "v6" /\ i.n6 < 2) \/ f \in i.active
     IN /\ refused => ~deaf
        /\ Becomes(CASE deaf -> World [] ~deaf /\ refused -> Claimed(World, d)
                     [] OTHER -> RouteAdded(World, d, f))
  /\ Note(IF refused THEN {"refused"} ELSE {})
  /\ UNCHANGED <<rest, links>>

\* IPA_WAN_UPSTREAM_ROUTE_DEL_EVENT
RouteDel(f) ==
  /\ asked.dev \in Devices /\ f \in asked.fams
  /\ asked' = IF asked.fams = {f} THEN NoRoute ELSE [asked EXCEPT !.fams = @ \ {f}]
  /\ Becomes(IF inst[asked.dev] # None /\ f \in inst[asked.dev].active
             THEN RouteDeleted(World, asked.dev, f) ELSE World)
  /\ UNCHANGED <<rest, odd, links>>

\* the gateway that handed one of its routes back is no gateway any more
LinkDown(d) ==
  /\ inst[d] # None
  /\ Becomes(IF d = Embms
             THEN [Installed([World EXCEPT !.embms = FALSE], d, FALSE) EXCEPT !.inst[d] = None]
             ELSE ModemDown(World, d))
  /\ Note(CASE d = Embms -> {}
            [] inst[d].dgw -> IF inst[d].fams = inst[d].active THEN {} ELSE {"unwritten"}
            [] OTHER -> IF inst[d].active = {} THEN {} ELSE {"left"})
  /\ UNCHANGED <<rest, asked, links>>

\* an external event reaches every instance; the result of one does not depend
\* on which instance it reaches first
Process ==
  /\ ext # <<>>
  /\ ext' = Tail(ext)
  /\ Becomes(FoldSet(LAMBDA d, w : Heard(w, d, Head(ext)), World, Devices))
  /\ LET Known(d) == d \in Modems /\ inst[d] # None /\ Head(ext) = "firewall"
     IN Note((IF \E d \in Modems : Known(d) /\ inst[d].dgw /\ inst[d].fams # inst[d].active
              THEN {"unwritten"} ELSE {})
             \union (IF \E d \in Modems : Known(d) /\ ~inst[d].dgw /\ inst[d].active # {}
                     THEN {"ignored"} ELSE {}))
  /\ UNCHANGED <<file, sw, changes, setup, asked, links>>

\* IPACM_Sig_Handler: the flag at once, the event through the queue
Signal(on) ==
  /\ Len(ext) < MaxExt /\ changes < setup.changes
  /\ changes' = changes + 1
  /\ sw' = on /\ ext' = Append(ext, IF on THEN "enable" ELSE "disable")
  /\ UNCHANGED <<wanVars, file, setup, asked, odd, links>>

\* firewall_monitor
FileChange(fl) ==
  /\ fl # file /\ Len(ext) < MaxExt /\ changes < setup.changes
  /\ changes' = changes + 1
  /\ file' = fl /\ ext' = Append(ext, "firewall")
  /\ UNCHANGED <<wanVars, sw, setup, asked, odd, links>>

Init ==
  /\ inst = [d \in Devices |-> None] /\ table = [f \in Families |-> NoRules(f)]
  /\ count = [f \in Families |-> 0] /\ qmap = None
  /\ modem = [rules |-> [f \in Families |-> <<>>], mux |-> None] /\ ok = TRUE
  /\ setup \in Setups /\ file \in setup.files /\ sw = FALSE /\ ext = <<>>
  /\ asked = NoRoute
  /\ odd = {} /\ links = 0 /\ changes = 0

Next ==
  \/ \E d \in Devices : LinkUp(d) \/ LinkDown(d)
  \/ \E d \in Modems, f \in Families, refused \in BOOLEAN :
       AddressAdd(d, f, refused) \/ RouteAdd(d, f, refused)
  \/ \E f \in Families : RouteDel(f)
  \/ Process
  \/ \E on \in BOOLEAN : Signal(on)
  \/ \E fl \in setup.files : FileChange(fl)

Spec == Init /\ [][Next]_vars

-----------------------------------------------------------------------------
Up(d) == inst[d] # None
Waiting(es) == \E i \in 1..Len(ext) : ext[i] \in es
Connected(f) == {d \in Modems : Up(d) /\ HasAddress(inst[d], f)}
Gateways(f) == {d \in Modems : Up(d) /\ f \in inst[d].active}

\* The table of a family is what the WANs and the firewall file ask for: nothing
\* without an address, the firewall exactly while a WAN is the gateway of the
\* family, and of the file as it is unless the change still waits.  What the
\* code does not keep up with: a WAN whose first address the driver refused and
\* that is subtracted all the same; a gateway without a route in one of its
\* families that meets a new firewall file or goes, where rules are used or
\* written that the route would have brought; a change that comes, or a WAN that
\* goes, after one of the two routes of the gateway went.
TableExact ==
  \A f \in Families :
    LET rules == InUse(table[f])
        first == {<<Defaults(f)>>} \union (IF f = "v6" THEN {<<Defaults(f), Block("tcp", 3, None)>>} ELSE {})
    IN \/ odd \intersect {"drift", "unwritten", "ignored", "left"} # {}
       \/ Connected(f) = {} /\ rules = <<>>
       \/ Connected(f) # {} /\ Gateways(f) = {} /\ rules \in first
       \/ Gateways(f) # {} /\ Waiting({"firewall"})
       \/ /\ Gateways(f) # {}
          /\ rules = <<Defaults(f)>> \o (IF f = "v6" THEN <<Block("tcp", 3, None)>> ELSE <<>>)
                     \o Firewall(f, file)

\* What the modem has is the table, or the rule of software routing, once the
\* events of the switch were handled, unless the last table was too large for it.
ModemFollows ==
  ok /\ ~Waiting({"enable", "disable"}) /\ (Up(Embms) \/ \E f \in Families : Connected(f) # {})
    => modem.rules = IF sw THEN Software ELSE Current(World)

\* The rules the modem has carry the mux id of the gateway, once the events of the
\* switch were handled: between two of them a new gateway may keep what it has to
\* say to itself.  The rule of software routing keeps the id of the moment it was
\* sent.
MuxOfGateway ==
  ~Waiting({"enable", "disable"}) =>
    \A f \in Families : \A d \in Gateways(f) :
      ok /\ modem.rules # Software => modem.mux = d

\* bound: one thing goes differently
OneOddity == \A x, y \in odd : x = y

(* What the modem filters with is the table, under the gateway's mux id       *)
(* (install_wan_filtering_rule).                                              *)
ModemTold == ModemFollows /\ MuxOfGateway
=============================================================================
