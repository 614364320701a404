----------------------------- MODULE BridgeIface -----------------------------
(***************************************************************************)
(* What an interface of the Ethernet bridge of IPACM does to the rules and *)
(* header contexts of the driver (IPACM_LanToLan_Iface, and the            *)
(* eth_bridge and l2tp operations of IPACM_Lan).  A frame for a client is  *)
(* caught by a filter rule on the interface it comes in by and sent by a   *)
(* routing rule of the interface of the client, once for each type of link *)
(* header it may come from.                                                *)
(***************************************************************************)
EXTENDS Integers, FiniteSets, FiniteSetsExt

CONSTANTS Ifaces, Macs,
          L2,          \* the link header of each interface, hdr_l2_type
          Wlans,       \* the interfaces that are access points
          Parent,      \* the interface each VLAN interface is built upon
          MaxClients,  \* MAX_NUM_CLIENT
          None, Gone

Families == {"v4", "v6"}
Types == {L2[x] : x \in Ifaces}
Vlans == DOMAIN Parent

(* The state of the bridge: ifs, the interfaces in the list, and for each its *)
(* address families ip, whether it takes part inter-interface, whether it is  *)
(* an L2TP interface, its peers, the reference counts ref of the types of     *)
(* peers and its clients; hw, what the driver holds, alt the rules that lead  *)
(* to the alternate pipe; mcc is isMCC_Mode.  A client has a MAC, the mapping *)
(* if it is behind an L2TP tunnel (Gone: the mapping was freed), and the      *)
(* types for which handles were once saved.  odd is what went wrong.          *)
Client(m, map) == [mac |-> m, map |-> map, used |-> {}]
NoIface(s, x) ==
  [s EXCEPT !.ip[x] = {}, !.inter[x] = FALSE, !.l2tp[x] = FALSE, !.peers[x] = {},
            !.ref[x] = [t \in Types |-> 0], !.clients[x] = {}]

\* what the driver holds: a rule, header or context k on an interface
Obj(k, x, to, m, f) == [k |-> k, on |-> x, to |-> to, mac |-> m, f |-> f]
Ctx(x, to) == Obj("ctx", x, to, None, None)
Routes(x, to, m) == {Obj("rt", x, to, m, f) : f \in Families}
Far(x, t, m) == Obj("far", x, t, m, "v6")
\* into a tunnel a frame goes twice: it is wrapped, then sent to the VLAN client
FirstPass(x, t, m) ==
  {Obj(k, x, t, m, f) : k \in {"tunnelCtx", "first"}, f \in Families}
    \union {Obj("tunnelHdr", x, t, m, "v6")}
SecondPass(x, t, m) == {Obj(k, x, t, m, "v6") : k \in {"vlanHdr", "second"}}
Tunnel(x, t, m) == FirstPass(x, t, m) \union SecondPass(x, t, m)

Oddly(s, what) == [s EXCEPT !.odd = @ \union {what}]
Install(s, O) ==
  [s EXCEPT !.hw = @ \union O, !.odd = IF O \intersect s.hw = {} THEN @ ELSE @ \union {"twice"}]
Withdraw(s, O) == [s EXCEPT !.hw = @ \ O, !.alt = @ \ O]
OnlyNew(s, O) == O \ s.hw

HasL2tp(s) == \E x \in s.ifs : s.l2tp[x]
PeerTypes(s, x) == {L2[p] : p \in s.peers[x]}
Plain(s, x) == {c \in s.clients[x] : c.map = None}
\* a routing table is there while a rule is in it
RtTable(s, from, to, f) ==
  \E o \in s.hw : o.k = "rt" /\ o.to = from /\ o.f = f /\ L2[o.on] = to
L2tpTable(s, f) == \E o \in s.hw : o.k \in {"first", "second", "far"} /\ o.f = f

(* eth_bridge_add_rt_rule and eth_bridge_modify_rt_rule: the rules of an      *)
(* access point lead to the pipe of the mode.                                 *)
Piped(s, x, O) ==
  IF x \notin Wlans THEN s
  ELSE [s EXCEPT !.alt = IF s.mcc THEN @ \union O ELSE @ \ O]
AddRoute_Default(s, x, to, m) ==   \* mutant: a new rule ignores the mode
  Install(s, Routes(x, to, m))
AddRoute(s, x, to, m) ==
  Piped(Install(s, Routes(x, to, m)), x, Routes(x, to, m))

(* add_l2tp_client_rt_rule.  The handles of a tunnel are not cleared when its *)
(* rules are deleted: the next time the header is taken to be there, and the  *)
(* driver refuses the context.                                                *)
SetUsed(s, x, c, t) ==
  [s EXCEPT !.clients[x] = (@ \ {c}) \union {[c EXCEPT !.used = @ \union {t}]}]
AddFar(s, x, t, m) ==
  Install(s, {Far(x, t, m)} \union OnlyNew(s, {Ctx(x, "l2tp")}))
AddTunnel(s, x, c, t) ==
  IF c.map = None THEN IF HasL2tp(s) THEN AddFar(s, x, t, c.mac) ELSE s
  ELSE LET r == IF c.map = Gone THEN Oddly(s, "freed") ELSE s
       IN IF t \in c.used THEN Oddly(r, "stale")
          ELSE SetUsed(Install(r, Tunnel(x, t, c.mac)), x, c, t)
\* what a client needs of its own interface for a type of peer
AddClientRoutes(s, x, c, t) ==
  AddTunnel(IF c.map = None THEN AddRoute(s, x, t, c.mac) ELSE s, x, c, t)

DelTunnel(s, x, c, t) == Withdraw(s, Tunnel(x, t, c.mac))
DelClientRoutes(s, x, c, t) ==
  IF c.map # None THEN DelTunnel(s, x, c, t)
  ELSE Withdraw(s, Routes(x, t, c.mac) \union
                 (IF HasL2tp(s) THEN {Far(x, t, c.mac)} ELSE {}))

(* add_client_flt_rule: a rule on interface p for client c of x.  A rule      *)
(* needs the routing table it points to.                                      *)
TunnelFilters(s, p, x, c, f) ==
  IF ~L2tpTable(s, f) THEN {}
  ELSE {Obj("flt", p, x, c.mac, f)}
         \union (IF L2tpTable(s, "v6") THEN {Obj("flt2", p, x, c.mac, "v6")} ELSE {})
Filters(s, p, x, c, f) ==
  IF s.l2tp[p]
  THEN IF L2tpTable(s, "v6") THEN {Obj("l2tpFlt", p, x, c.mac, "v6")} ELSE {}
  ELSE IF c.map # None THEN TunnelFilters(s, p, x, c, f)
  ELSE IF IF p = x THEN RtTable(s, "intra", L2[x], f) ELSE RtTable(s, L2[p], L2[x], f)
  THEN {Obj("flt", p, x, c.mac, f)} ELSE {}
AddFilter(s, p, x, c, f) ==
  IF s.l2tp[p] /\ f = "v4" THEN s
  ELSE LET O == Filters(s, p, x, c, f)
           r == IF c.map = Gone /\ ~s.l2tp[p] THEN Oddly(s, "freed") ELSE s
       IN IF O = {} THEN Oddly(r, IF s.l2tp[p] \/ c.map # None THEN "noTunnel" ELSE "noTable")
          ELSE Install(r, {o \in O : o.k # "flt2"} \union
                          OnlyNew(r, {o \in O : o.k = "flt2"}))
AddFilters(s, p, x, c, F) ==
  FoldSet(LAMBDA f, r : AddFilter(r, p, x, c, f), s, F)

(* del_client_flt_rule and clear_all_flt_rule_for_one_peer_iface.             *)
DelFilters(s, p, x, M) ==
  Withdraw(s, {o \in s.hw : /\ o.k \in {"flt", "flt2", "l2tpFlt"}
                          /\ o.on = p /\ o.to = x /\ o.mac \in M
                          /\ (o.f \in s.ip[p] \/ o.k = "flt2")})

DelClientFilters(s, p, x, m) == DelFilters(s, p, x, {m})

(* handle_new_iface_up for one of the pair, and del_hdr_proc_ctx.             *)
Counted(s, x, t) == [s EXCEPT !.ref[x][t] = @ + 1]
GainPeer(s, x, p) ==
  LET r == Counted(s, x, L2[p])
      n == IF r.ref[x][L2[p]] = 1 THEN Install(r, {Ctx(x, L2[p])}) ELSE r
  IN [n EXCEPT !.peers[x] = @ \union {p}]
DropCtx(s, x, t) == IF s.ref[x][t] = 0 THEN Withdraw(s, {Ctx(x, t)}) ELSE s

(* add_client_rt_rule_for_new_iface, at p when x is the new peer.             *)
RoutesForNewPeer(s, p, x) ==
  IF s.ref[p][L2[x]] # 1 THEN IF s.l2tp[x] THEN Oddly(s, "late") ELSE s
  ELSE FoldSet(LAMBDA c, r : AddClientRoutes(r, p, c, L2[x]), s, s.clients[p])

(* clear_all_rt_rule_for_one_peer_iface, at x for a peer of type t.           *)
ClearRoutes_Eager(s, x, t) ==   \* mutant: other peers of the type are overlooked
  FoldSet(LAMBDA c, q : DelClientRoutes(q, x, c, t), s, s.clients[x])
ClearRoutes(s, x, t) ==
  IF s.ref[x][t] # 0 THEN s
  ELSE LET r == FoldSet(LAMBDA c, q : DelClientRoutes(q, x, c, t), s, s.clients[x])
       IN IF HasL2tp(s) THEN Withdraw(r, {Ctx(x, "l2tp")}) ELSE r

AllMacs(s, x) == {c.mac : c \in s.clients[x]}

(* handle_down_event, for one peer p of x.                                    *)
LosePeer(s, x, p) ==
  LET counted == [s EXCEPT !.ref[x][L2[p]] = @ - 1, !.ref[p][L2[x]] = @ - 1]
      own == DelFilters(counted, x, p, AllMacs(s, p))
      cleared == ClearRoutes(DelFilters(own, p, x, AllMacs(s, x)), p, L2[x])
      left == DropCtx([cleared EXCEPT !.peers[p] = @ \ {x}], p, L2[x])
  IN DropCtx(ClearRoutes(left, x, L2[p]), x, L2[p])
IntraDown(s, x) ==
  Withdraw(DelFilters(s, x, x, AllMacs(s, x)),
         UNION {Routes(x, "intra", m) : m \in AllMacs(s, x)} \union {Ctx(x, "intra")})
GoDown(s, x) ==
  LET r == FoldSet(LAMBDA p, q : LosePeer(q, x, p), s, s.peers[x])
  IN IF x \in Wlans THEN IntraDown(r, x) ELSE r

(* handle_client_add.                                                         *)
ClientOf(s, x, m) == CHOOSE c \in s.clients[x] : c.mac = m
FiltersOfPeers(s, x, m) ==
  FoldSet(LAMBDA p, r : AddFilters(r, p, x, ClientOf(r, x, m), r.ip[p]), s, s.peers[x])
InterAdd(s, x, m) ==
  FiltersOfPeers(FoldSet(LAMBDA t, r : AddClientRoutes(r, x, ClientOf(r, x, m), t),
                         s, PeerTypes(s, x)), x, m)
IntraAdd(s, x, m) ==
  AddFilters(AddRoute(s, x, "intra", m), x, x, ClientOf(s, x, m), s.ip[x])
AddClient(s, x, m, map) ==
  IF m \in AllMacs(s, x) THEN s
  ELSE IF Cardinality(s.clients[x]) = MaxClients THEN Oddly(s, "full")
  ELSE LET r == InterAdd([s EXCEPT !.clients[x] = @ \union {Client(m, map)}], x, m)
       IN IF x \in Wlans THEN IntraAdd(r, x, m) ELSE r

(* handle_client_del.                                                         *)
DelClient(s, x, m) ==
  IF m \notin AllMacs(s, x) THEN s
  ELSE LET c == ClientOf(s, x, m)
           filtered == FoldSet(LAMBDA p, r : DelClientFilters(r, p, x, m), s, s.peers[x])
           routed == FoldSet(LAMBDA t, r : DelClientRoutes(r, x, c, t), filtered, PeerTypes(s, x))
           last == c.map = None /\ HasL2tp(s) /\ s.clients[x] = {c} /\ s.peers[x] # {}
           r == IF last THEN Withdraw(routed, {Ctx(x, "l2tp")}) ELSE routed
           i == IF x \in Wlans THEN Withdraw(DelClientFilters(r, x, x, m), Routes(x, "intra", m)) ELSE r
       IN [i EXCEPT !.clients[x] = @ \ {c}]

(* handle_wlan_scc_mcc_switch.                                                *)
SwitchMode(s, x) ==
  Piped(s, x, {o \in s.hw : o.k = "rt" /\ o.on = x})

(* set_l2tp_iface with switch_to_l2tp_iface, handle_l2tp_enable and           *)
(* handle_l2tp_disable.  The filter rules of an interface turned to L2TP are  *)
(* made before the other interfaces have rules in the L2TP table.             *)
Filtered(s, x) == {o \in s.hw : o.k = "flt" /\ o.on = x /\ o.to \in s.peers[x]}
TurnL2tp(s, x) ==
  LET old == Filtered(s, x)
      new == {Obj("l2tpFlt", x, o.to, o.mac, "v6") : o \in old}
      r == Withdraw([s EXCEPT !.l2tp[x] = TRUE], old)
  IN IF "v6" \notin s.ip[x] \/ old = {} THEN r
     ELSE IF L2tpTable(s, "v6") THEN Install(r, new) ELSE Oddly(r, "noTunnel")
SetL2tp(s, x, v) == IF ~s.l2tp[x] /\ Parent[v] = x THEN TurnL2tp(s, x) ELSE s
EnableL2tp_NoOne(s, x) ==   \* mutant: L2TP interfaces are not looked for among the peers
  FoldSet(LAMBDA m, r : AddFar(r, x, "l2tp", m), s, AllMacs(s, x))
EnableL2tp(s, x) ==
  LET T == {L2[p] : p \in {q \in s.peers[x] : s.l2tp[q]}}
  IN FoldSet(LAMBDA ct, r : AddFar(r, x, ct[2], ct[1]), s, AllMacs(s, x) \X T)
DisableL2tp(s, x) ==
  Withdraw(s, {o \in s.hw : o.k = "far" /\ o.on = x /\ o.to \in PeerTypes(s, x)})
=============================================================================
