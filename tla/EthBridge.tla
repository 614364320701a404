------------------------------ MODULE EthBridge ------------------------------
(***************************************************************************)
(* The Ethernet bridge of IPACM: tethered clients on different interfaces, *)
(* or on one access point, reach each other through the hardware.          *)
(* IPACM_LanToLan keeps its own lists of interfaces and clients from the   *)
(* events that IPACM_Lan and IPACM_Wlan post while they handle events of   *)
(* their own.  Both kinds run on the command-queue thread, the internal    *)
(* queue before the external one, so a Lan handler starts only when the    *)
(* bridge has caught up; the driver's VLAN and tunnel events are posted to *)
(* the internal queue too, from another thread, at any moment.             *)
(***************************************************************************)
EXTENDS BridgeIface, Sequences, SequencesExt, TLC

CONSTANTS Sessions,   \* the L2TP interfaces, l2tp_iface_name
          Hosts,      \* addresses of VLAN clients, and the VLAN interface's own
          MaxIfaces,  \* MAX_NUM_IFACE
          MaxCached,  \* MAX_NUM_CACHED_CLIENT_ADD_EVENT
          Setups      \* bound: the devices in use with their clients (who), which of
                      \* "guest", "channels", "tunnel" may happen, and how many
                      \* events of the driver about VLANs and tunnels

VARIABLES setup, s, queue,
          net,     \* Lan objects: st, the families up, clients, guest access points
          modes,   \* the WLAN_SWITCH events in the external queue
          driver   \* driver events so far

vars == <<setup, s, queue, net, modes, driver>>

ASSUME BridgeAssumption ==
  /\ MaxClients \in Nat /\ MaxIfaces \in Nat /\ MaxCached \in Nat
  /\ Wlans \subseteq Ifaces /\ \A p \in Setups : p.who \subseteq Ifaces \X Macs
  /\ \A v \in Vlans : Parent[v] \in Ifaces

Ev(ev, x, a) == [ev |-> ev, x |-> x, a |-> a]
Devices == {p[1] : p \in setup.who}
Odus == {Parent[v] : v \in Vlans}   \* the interface VLANs are made on, ODU_IF
MacsOf(x) == {p[2] : p \in {q \in setup.who : q[1] = x}}
FamSeq(F) == SelectSeq(<<"v4", "v6">>, LAMBDA f : f \in F)

NoBridge ==
  [ifs |-> {}, ip |-> [x \in Ifaces |-> {}], inter |-> [x \in Ifaces |-> FALSE],
   l2tp |-> [x \in Ifaces |-> FALSE], peers |-> [x \in Ifaces |-> {}],
   ref |-> [x \in Ifaces |-> [t \in Types |-> 0]], clients |-> [x \in Ifaces |-> {}],
   hw |-> {}, alt |-> {}, mcc |-> FALSE, odd |-> {}, has |-> FALSE, cached |-> <<>>,
   vlans |-> [v \in {} |-> None], maps |-> [n \in {} |-> None]]
NoObject == [st |-> "none", fams |-> {}, clients |-> {}]
Init ==
  /\ setup \in Setups /\ s = NoBridge /\ queue = <<>> /\ modes = 0 /\ driver = 0
  /\ net = [guest |-> {}, obj |-> [x \in Ifaces |-> NoObject]]

-----------------------------------------------------------------------------
(* Clients: handle_client_add and the cache of those whose interface is not   *)
(* in the list.  A client is told to be behind a tunnel by the interface name. *)
ClientAdd(r, e) ==
  LET map == IF e.a.name \in DOMAIN r.maps THEN e.a.name ELSE None
  IN IF e.x \in r.ifs THEN AddClient(r, e.x, e.a.mac, map)
     ELSE IF Len(r.cached) < MaxCached THEN [r EXCEPT !.cached = <<e>> \o @]
     ELSE Oddly(r, "dropped")
ClientDel(r, e) == IF e.x \in r.ifs THEN DelClient(r, e.x, e.a.mac) ELSE r
Others(r, x) == SelectSeq(r.cached, LAMBDA e : e.x # x)
Replayed(r, x) ==
  FoldLeft(ClientAdd, [r EXCEPT !.cached = Others(r, x)],
           SelectSeq(r.cached, LAMBDA e : e.x = x))

(* handle_iface_up.  An interface that is not in the list is put in front.     *)
AllFilters(r, x, f) ==
  FoldSet(LAMBDA pc, q : AddFilter(q, x, pc[1], pc[2], f), r,
          UNION {{p} \X r.clients[p] : p \in r.peers[x]})
OwnFilters(r, x, f) == FoldSet(LAMBDA c, q : AddFilter(q, x, x, c, f), r, r.clients[x])
SecondFamily(r, x, f) ==
  LET a == [r EXCEPT !.ip[x] = @ \union {f}]
      b == IF a.inter[x] THEN AllFilters(a, x, f) ELSE a
  IN IF x \in Wlans THEN OwnFilters(b, x, f) ELSE b
Meet(r, x, p) == RoutesForNewPeer(GainPeer(GainPeer(r, p, x), x, p), p, x)
L2tpStarts(r, x) ==
  IF r.has \/ ~r.l2tp[x] THEN r
  ELSE FoldSet(LAMBDA p, q : EnableL2tp(q, p), [r EXCEPT !.has = TRUE],
               {p \in r.ifs : ~r.l2tp[p] /\ p # x /\ r.inter[p]})
Tunnelled(r, x) ==
  FoldSet(LAMBDA n, q : SetL2tp(q, x, r.maps[n].vlan), r, DOMAIN r.maps)
Joined(r, x) ==
  FoldSet(LAMBDA p, q : Meet(q, x, p), r, {p \in r.ifs \ {x} : r.inter[p]})
NewIface_NoReplay(r, x, f, guest) ==   \* mutant: the cached clients are forgotten
  LET a == [NoIface(r, x) EXCEPT !.ifs = @ \union {x}, !.ip[x] = {f}, !.inter[x] = ~guest]
      c == IF guest THEN a ELSE AllFilters(Joined(a, x), x, f)
  IN IF x \in Wlans THEN Install(c, {Ctx(x, "intra")}) ELSE c
NewIface(r, x, f, guest) ==
  LET a == [NoIface(r, x) EXCEPT !.ifs = @ \union {x}, !.ip[x] = {f}, !.inter[x] = ~guest]
      b == L2tpStarts(Tunnelled(a, x), x)
      c == IF guest THEN b ELSE AllFilters(Joined(b, x), x, f)
      d == IF x \in Wlans THEN Install(c, {Ctx(x, "intra")}) ELSE c
  IN Replayed(d, x)
IfaceUp(r, x, f, guest) ==
  IF x \in r.ifs THEN IF f \in r.ip[x] THEN r ELSE SecondFamily(r, x, f)
  ELSE IF Cardinality(r.ifs) = MaxIfaces THEN Oddly(r, "refused")
  ELSE NewIface(r, x, f, guest)

(* handle_iface_down.                                                         *)
IfaceDown(r, x) ==
  IF x \notin r.ifs THEN [r EXCEPT !.cached = Others(r, x)]
  ELSE LET a == [NoIface(GoDown(r, x), x) EXCEPT !.ifs = @ \ {x}]
       IN IF ~a.has \/ HasL2tp(a) THEN a
          ELSE FoldSet(LAMBDA p, q : DisableL2tp(q, p), [a EXCEPT !.has = FALSE],
                       {p \in a.ifs : a.inter[p]})

-----------------------------------------------------------------------------
(* VLAN interfaces and the tunnels mapped on them.  What is known of either:   *)
(* id, whether the id is known, addr its own address and host its client's.   *)
Blank == [id |-> FALSE, addr |-> None, host |-> None]
On(v, k) == [vlan |-> v, id |-> k.id, addr |-> k.addr, host |-> k.host]
Mapped(r, v) == {n \in DOMAIN r.maps : r.maps[n].vlan = v}
WithMaps(r, N) == [r EXCEPT !.maps = [n \in N |-> r.maps[n]]]
Erased(r, N) ==
  [WithMaps(r, DOMAIN r.maps \ N) EXCEPT !.clients =
     [x \in Ifaces |-> {IF c.map \in N THEN [c EXCEPT !.map = Gone] ELSE c : c \in r.clients[x]}]]
ToMaps(r, v, field, val) ==
  [r EXCEPT !.maps = [n \in DOMAIN r.maps |->
     IF r.maps[n].vlan = v THEN [r.maps[n] EXCEPT ![field] = val] ELSE r.maps[n]]]

AddVlan(r, v) ==
  IF v \in DOMAIN r.vlans THEN r
  ELSE [ToMaps(r, v, "id", TRUE) EXCEPT
          !.vlans = (v :> [Blank EXCEPT !.id = TRUE]) @@ @]
DelVlan(r, v) ==
  [Erased(r, Mapped(r, v)) EXCEPT !.vlans = [w \in DOMAIN @ \ {v} |-> @[w]]]
TurnAll(r, v) == FoldSet(LAMBDA x, q : SetL2tp(q, x, v), r, r.ifs)
AddMap(r, n, v) ==
  IF n \in DOMAIN r.maps THEN r
  ELSE LET k == IF v \in DOMAIN r.vlans THEN r.vlans[v] ELSE Blank
           a == TurnAll([r EXCEPT !.maps = (n :> On(v, k)) @@ @], v)
       IN IF a.has \/ ~HasL2tp(a) THEN a
          ELSE FoldSet(LAMBDA p, q : EnableL2tp(q, p), [a EXCEPT !.has = TRUE],
                       {p \in a.ifs : ~a.l2tp[p] /\ a.inter[p]})
DelMap(r, n, v) == IF n \in Mapped(r, v) THEN Erased(r, {n}) ELSE r
VlanClient(r, v, h) ==
  IF v \in DOMAIN r.vlans /\ r.vlans[v].host # None THEN r
  ELSE LET a == ToMaps(r, v, "host", h)
       IN IF v \in DOMAIN r.vlans THEN [a EXCEPT !.vlans[v].host = h] ELSE a
VlanAddress(r, v, h) ==
  IF v \notin DOMAIN r.vlans THEN r
  ELSE [ToMaps(r, v, "addr", h) EXCEPT !.vlans[v].addr = h]

(* event_callback, for the event at the head of the queue.                     *)
Handled(r, e) ==
  CASE e.ev = "up" -> IfaceUp(r, e.x, e.a, e.x \in net.guest)
    [] e.ev = "down" -> IfaceDown(r, e.x)
    [] e.ev = "add" -> ClientAdd(r, e)
    [] e.ev = "del" -> ClientDel(r, e)
    [] e.ev = "mode" -> IF e.x \in r.ifs THEN SwitchMode(r, e.x) ELSE r
    [] e.ev = "addVlan" -> AddVlan(r, e.x)
    [] e.ev = "delVlan" -> DelVlan(r, e.x)
    [] e.ev = "addMap" -> AddMap(r, e.a, e.x)
    [] e.ev = "delMap" -> DelMap(r, e.a, e.x)
    [] e.ev = "client" -> VlanClient(r, e.x, e.a)
    [] e.ev = "addr" -> VlanAddress(r, e.x, e.a)
    [] OTHER -> r
\* after IPA_LAN_DELETE_SELF the object is freed
Process ==
  /\ queue # <<>> /\ queue' = Tail(queue)
  /\ s' = Handled(s, Head(queue))
  /\ net' = IF Head(queue).ev = "self" THEN [net EXCEPT !.obj[Head(queue).x] = NoObject] ELSE net
  /\ UNCHANGED <<setup, modes, driver>>

-----------------------------------------------------------------------------
(* The Lan and Wlan objects.  eth_bridge_post_event names the object itself;   *)
(* a handler runs when the internal queue is empty.                            *)
Post(evs) == queue' = queue \o evs
Idle == queue = <<>>
ObjectOf(x) == net.obj[x]
HandlerOf(x, o, evs) ==
  /\ Idle /\ Post(evs) /\ net' = [net EXCEPT !.obj[x] = o]
  /\ UNCHANGED <<setup, modes, driver>>

(* A new object, which may get the address of a freed one: adds cached for    *)
(* that one would then be its own.                                            *)
Moved(x) == [s EXCEPT !.cached = Others(s, x),
                      !.odd = IF Others(s, x) = s.cached THEN @ ELSE @ \union {"stray"}]
Created(x) ==
  /\ ObjectOf(x).st = "none" /\ HandlerOf(x, [NoObject EXCEPT !.st = "up"], <<>>)
  /\ \/ s' = IF Others(s, x) = s.cached THEN s ELSE Oddly(s, "stray")
     \/ s' = Moved(x)

\* IPA_ADDR_ADD_EVENT, the first address of a family
AddrAdd(x, f) ==
  /\ ObjectOf(x).st = "up" /\ f \notin ObjectOf(x).fams
  /\ HandlerOf(x, [ObjectOf(x) EXCEPT !.fams = @ \union {f}], <<Ev("up", x, f)>>)
  /\ UNCHANGED s

(* A client of an access point joins and leaves.  A client of a LAN interface *)
(* is added each time its neighbour is seen and never taken away; the one at  *)
(* the far end of a tunnel is known by the name of the tunnel.                *)
MacEv(ev, x, m, n) == Ev(ev, x, [mac |-> m, name |-> n])
Seen(x, m, n) ==
  /\ ObjectOf(x).st = "up" /\ m \in MacsOf(x)
  /\ HandlerOf(x, [ObjectOf(x) EXCEPT !.clients = @ \union {m}], <<MacEv("add", x, m, n)>>)
  /\ UNCHANGED s
Left(x, m, n) ==
  /\ HandlerOf(x, [ObjectOf(x) EXCEPT !.clients = @ \ {m}], <<MacEv("del", x, m, n)>>)
  /\ s' = IF \E k \in DOMAIN s.cached : s.cached[k].x = x /\ s.cached[k].a.mac = m
          THEN Oddly(s, "ghost") ELSE s
ClientSeen(x, m) == (x \in Wlans => m \notin ObjectOf(x).clients) /\ Seen(x, m, None)
ClientLeft(x, m) == x \in Wlans /\ m \in ObjectOf(x).clients /\ Left(x, m, None)
TunnelClientSeen(x, m, n) ==
  "tunnel" \in setup.may /\ x \in Odus /\ Seen(x, m, n)
TunnelClientLeft(x, m, n) ==
  /\ "tunnel" \in setup.may /\ x \in Odus /\ ObjectOf(x).st = "up"
  /\ m \in MacsOf(x) /\ Left(x, m, n)

(* LinkDown, handle_down_evt: without an address it fails before it tells the *)
(* bridge.  The object is then deleted.                                       *)
LinkDown(x) ==
  /\ ObjectOf(x).st = "up"
  /\ HandlerOf(x, [NoObject EXCEPT !.st = "dying"],
               (IF ObjectOf(x).fams = {} THEN <<>> ELSE <<Ev("down", x, None)>>)
                 \o <<Ev("self", x, None)>>)
  /\ UNCHANGED s

(* The driver switches between one channel and two: the flag changes at once, *)
(* on another thread, and every access point is told by an external event.    *)
ModeFlips ==
  /\ "channels" \in setup.may /\ modes < 2 /\ modes' = modes + 1 /\ s' = [s EXCEPT !.mcc = ~@]
  /\ UNCHANGED <<setup, queue, net, driver>>
LiveAps == {x \in Wlans : ObjectOf(x).st = "up"}
ModeEvent ==
  /\ Idle /\ modes > 0 /\ modes' = modes - 1
  /\ Post(FoldSet(LAMBDA x, q : q \o <<Ev("mode", x, None)>>, <<>>, LiveAps))
  /\ UNCHANGED <<setup, s, net, driver>>

(* eth_bridge_handle_wlan_mode_switch: the access point changes between guest *)
(* and full, and pretends to go down and come up again.                       *)
ModeSwitch(x) ==
  /\ "guest" \in setup.may /\ x \in LiveAps /\ Idle
  /\ Post(<<Ev("down", x, None)>>
            \o [k \in DOMAIN FamSeq(ObjectOf(x).fams) |-> Ev("up", x, FamSeq(ObjectOf(x).fams)[k])]
            \o FoldSet(LAMBDA m, q : q \o <<MacEv("add", x, m, None)>>, <<>>, ObjectOf(x).clients))
  /\ net' = [net EXCEPT !.guest = IF x \in @ THEN @ \ {x} ELSE @ \union {x}]
  /\ UNCHANGED <<setup, s, modes, driver>>

\* IPACM_Main posts the driver's messages from its own thread
DriverEvent ==
  /\ driver < setup.driver /\ driver' = driver + 1 /\ Len(queue) < 2
  /\ \E v \in Vlans : \/ \E ev \in {"addVlan", "delVlan"} : Post(<<Ev(ev, v, None)>>)
                      \/ \E ev \in {"addMap", "delMap"}, n \in Sessions : Post(<<Ev(ev, v, n)>>)
                      \/ \E ev \in {"client", "addr"}, h \in Hosts : Post(<<Ev(ev, v, h)>>)
  /\ UNCHANGED <<setup, s, net, modes>>

Next ==
  \/ Process \/ ModeFlips \/ ModeEvent \/ DriverEvent
  \/ \E x \in Devices :
       \/ Created(x) \/ LinkDown(x) \/ ModeSwitch(x)
       \/ \E f \in Families : AddrAdd(x, f)
       \/ \E m \in Macs : ClientSeen(x, m) \/ ClientLeft(x, m)
       \/ \E m \in Macs, n \in Sessions : TunnelClientSeen(x, m, n) \/ TunnelClientLeft(x, m, n)
Spec == Init /\ [][Next]_vars

-----------------------------------------------------------------------------
TypeOK ==
  /\ setup \in Setups /\ modes \in 0..2 /\ driver \in 0..setup.driver
  /\ s.ifs \subseteq Devices /\ Len(s.cached) <= MaxCached
  /\ \A x \in Ifaces : /\ net.obj[x].fams \subseteq Families
                       /\ s.ip[x] \subseteq Families
                       /\ Cardinality(s.clients[x]) <= MaxClients
                       /\ \A t \in Types : s.ref[x][t] \in 0..MaxIfaces

(* What the lists of the bridge promise the clients of an interface.           *)
Bridged(x) == {p \in s.ifs \ {x} : s.inter[x] /\ s.inter[p]}
Reaching(p) == Bridged(p) \union ({p} \intersect Wlans)
CtxsPromised(x) ==
  {Ctx(x, L2[p]) : p \in Bridged(x)} \union {Ctx(x, "intra") : w \in {x} \intersect Wlans}
RoutesPromised(x) ==
  UNION {Routes(x, c.to, m) : c \in CtxsPromised(x), m \in {k.mac : k \in Plain(s, x)}}
FiltersPromised(p) ==
  {Obj("flt", p, q[1], q[2].mac, q[3]) :
     q \in UNION {{x} \X Plain(s, x) \X s.ip[p] : x \in Reaching(p)}}

(* After every event the driver holds exactly what the lists of the bridge ask *)
(* for, whatever came before: a context for each type of link header a peer    *)
(* has, a route for each client and type, a filter on each interface a client  *)
(* can be reached from for each family that interface has; nothing is left of  *)
(* an interface or a client that is gone, and nothing is installed twice.      *)
RulesOfTheLists ==
  /\ {o \in s.hw : o.k = "ctx" /\ o.to # "l2tp"} = UNION {CtxsPromised(x) : x \in s.ifs}
  /\ {o \in s.hw : o.k = "rt"} = UNION {RoutesPromised(x) : x \in s.ifs}
  /\ {o \in s.hw : o.k = "flt" /\ o.mac \in {c.mac : c \in Plain(s, o.to)}}
       = UNION {FiltersPromised(p) : p \in {q \in s.ifs : ~s.l2tp[q]}}
  /\ {"twice", "noTable"} \intersect s.odd = {}

(* When the events of the last handler are done the lists are those of the     *)
(* network, unless a client add was dropped for lack of room, was replayed     *)
(* after the client had left or was left by an object without an address; the  *)
(* interfaces and their families are right even then.                          *)
ListsOfTheNetwork ==
  Idle =>
    /\ s.ifs = {x \in Ifaces : net.obj[x].fams # {}}
    /\ \A x \in s.ifs : /\ s.ip[x] = net.obj[x].fams /\ s.inter[x] = (x \notin net.guest)
                        /\ s.odd \intersect {"dropped", "ghost", "stray", "full"} = {}
                             => AllMacs(s, x) = net.obj[x].clients

(* With no switch under way the routes of an access point, and no others, lead *)
(* to the pipe of the mode, also those made while the switch was under way.    *)
RoutesFollowTheMode ==
  Idle /\ modes = 0 => s.alt = IF s.mcc THEN {o \in s.hw : o.k = "rt" /\ o.on \in Wlans} ELSE {}

(* While an L2TP interface is in the list, a client of another interface can   *)
(* be reached out of the tunnel and a client in the tunnel from that           *)
(* interface: both have their routes and filters.  Three things the code gets  *)
(* wrong are left out: an interface that turns to L2TP before the table of     *)
(* the tunnels has a rule gets no filters (noTunnel), nor do clients get their *)
(* routes when a peer with the same link header was there before (late), and   *)
(* the routes of a client in the tunnel are not made again when a type of peer *)
(* has gone and come back (stale).  With no L2TP interface nothing of a tunnel *)
(* is left, except a context.                                                  *)
TunnelFiltersPromised(p, x, m) ==
  {Obj("flt", p, x, m, f) : f \in s.ip[p]} \union {Obj("flt2", p, x, m, "v6")}
TunnelServed ==
  /\ ~HasL2tp(s) => \A o \in s.hw : o.k \in {"ctx", "rt", "flt"}
  /\ \A x \in s.ifs : s.l2tp[x] => \A p \in Bridged(x) :
      /\ "late" \notin s.odd => \A c \in Plain(s, p) : Far(p, L2[x], c.mac) \in s.hw
      /\ {"noTunnel", "late"} \intersect s.odd = {} /\ "v6" \in s.ip[x] =>
           \A c \in Plain(s, p) : Obj("l2tpFlt", x, p, c.mac, "v6") \in s.hw
      /\ "stale" \notin s.odd =>
           \A c \in s.clients[x] : c.map # None =>
             /\ Tunnel(x, L2[p], c.mac) \subseteq s.hw
             /\ TunnelFiltersPromised(p, x, c.mac) \subseteq s.hw
=============================================================================
