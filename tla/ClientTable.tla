----------------------------- MODULE ClientTable -----------------------------
(***************************************************************************)
(* The table of the clients of a tethered interface of IPACM and the       *)
(* routing rules the IPA driver holds for them, as IPACM_Lan (eth_client)  *)
(* and IPACM_Wlan (wlan_client) keep them.                                 *)
(***************************************************************************)
EXTENDS Integers, Sequences, SequencesExt, FiniteSets

CONSTANTS Macs, V4Addrs, V6Addrs,
          None,         \* no address, no handle
          MaxClients,   \* IPA_MAX_NUM_ETH_CLIENTS, IPA_MAX_NUM_WIFI_CLIENTS
          MaxV6,        \* IPV6_NUM_ADDR
          MaxCopies     \* bound: rules in the driver for one address of a client

ASSUME ClientTableAssumption ==
  /\ None \notin V4Addrs \union V6Addrs /\ V4Addrs \intersect V6Addrs = {}
  /\ None \notin [mac : Macs, addr : V4Addrs \union V6Addrs, n : 1..MaxCopies]
  /\ {MaxClients, MaxV6, MaxCopies} \subseteq Nat \ {0}

VARIABLES
  tbl,     \* eth_client or wlan_client, the first num_eth_client of it
  rules,   \* the routing rules in the driver, by their handles
  alt,     \* those that lead to the alternate pipe
  nat,     \* nat_iface_ipv4_addr, the addresses the NAT knows
  odd      \* history: rules refused half-way, an address without a rule deleted,
           \* a power save flag that another entry got, a mode that was missed

\* A client: a header is "live", "stale" when the driver has it no more, or
\* "none"; r4 is None unless route_rule_set_v4; r6 are the handles that count,
\* of the first route_rule_set_v6 addresses.
NewClient(mac) ==
  [mac |-> mac, h4 |-> "live", h6 |-> "live", v4 |-> None, r4 |-> None,
   v6 |-> <<>>, r6 |-> <<>>, ps |-> FALSE]

\* get_eth_client_index, get_wlan_client_index: the first entry, 0 if none
IndexIn(t, mac) ==
  IF \E i \in DOMAIN t : t[i].mac = mac
  THEN CHOOSE i \in DOMAIN t : t[i].mac = mac /\ \A j \in 1..(i - 1) : t[j].mac # mac
  ELSE 0
IndexOf(mac) == IndexIn(tbl, mac)

-----------------------------------------------------------------------------
(* Rules.  A handle names its rule; a handle whose rule is gone deletes       *)
(* nothing.  AddRoutingRule may be refused.                                   *)

Copies(mac, addr) == {r \in rules : r.mac = mac /\ r.addr = addr}
Roomy(mac, addr) == Cardinality(Copies(mac, addr)) < MaxCopies
Fresh(mac, addr) ==
  [mac |-> mac, addr |-> addr,
   n |-> CHOOSE n \in 1..MaxCopies : \A r \in Copies(mac, addr) : r.n # n]

Counted4(c) == {c.r4} \ {None}
Counted6(c) == {c.r6[i] : i \in DOMAIN c.r6}
Counted(c) == Counted4(c) \union Counted6(c)

\* delete_eth_rtrules, delete_default_qos_rtrules
NoRules4(c) == [c EXCEPT !.r4 = None]
NoRules6(c) == [c EXCEPT !.r6 = <<>>]

\* a client that sleeps gets no rules
MayRoute_Asleep(c) == TRUE   \* mutant: power_save_set is not looked at
MayRoute(c) == ~c.ps

\* handle_eth_client_route_rule for IPv4, outcomes: the client, the new rules
RouteRule4(c) ==
  IF ~MayRoute(c) \/ c.r4 # None \/ c.v4 = None THEN {<<c, {}>>}
  ELSE {<<c, {}>>} \union
       (IF c.h4 = "live" /\ Roomy(c.mac, c.v4)
        THEN {<<[c EXCEPT !.r4 = Fresh(c.mac, c.v4)], {Fresh(c.mac, c.v4)}>>} ELSE {})

\* and for IPv6: all the addresses that have no rule, in the LAN table, where
\* no header is needed, and in the WAN table.  Refused at k, those before k
\* are in the driver, and of k perhaps the rule of the LAN table
Unrouted(c, k) == (Len(c.r6) + 1)..k
New6(c, k) == {Fresh(c.mac, c.v6[i]) : i \in Unrouted(c, k)}
Put6(c) ==
  [c EXCEPT !.r6 = [i \in DOMAIN c.v6 |-> IF i <= Len(@) THEN @[i] ELSE Fresh(c.mac, c.v6[i])]]
RouteRule6(c) ==
  LET addable(k) == \A i \in Unrouted(c, k) : Roomy(c.mac, c.v6[i])
  IN IF ~MayRoute(c) \/ Len(c.r6) >= Len(c.v6) THEN {<<c, {}>>}
     ELSE {<<c, New6(c, k)>> :
             k \in {j \in Len(c.r6)..Len(c.v6) :
                      /\ (c.h6 # "live" => j <= Len(c.r6) + 1)
                      /\ (j > Len(c.r6) => odd = {})   \* bound: one oddity
                      /\ addable(j)}}
          \union
          (IF c.h6 = "live" /\ addable(Len(c.v6)) THEN {<<Put6(c), New6(c, Len(c.v6))>>} ELSE {})

\* what is left behind by an attempt that was refused
Leaves(o) == IF o[2] \subseteq Counted(o[1]) THEN {} ELSE {"refused"}

-----------------------------------------------------------------------------
(* Clients. *)

\* the entries after a client that left move up, each field of them but
\* power_save_set, which stays in its place
Compacted_KeepsRules(i) ==   \* mutant: the handles of the rules stay where they are
  [j \in 1..(Len(tbl) - 1) |->
     IF j < i THEN tbl[j] ELSE [tbl[j + 1] EXCEPT !.r4 = tbl[j].r4, !.ps = tbl[j].ps]]
Compacted(i) ==
  [j \in 1..(Len(tbl) - 1) |->
     IF j < i THEN tbl[j] ELSE [tbl[j + 1] EXCEPT !.ps = tbl[j].ps]]
Mixed(i) == \E j \in i..(Len(tbl) - 1) : tbl[j].ps # tbl[j + 1].ps

\* HandleNeighIpAddrDelEvt, and HandleNeighIpAddrAddEvt after it, which does
\* nothing when the interface is no NAT interface or the list is full
NatDel(addrs) == nat' = nat \ addrs
NatMove(gone, a) == \E added \in {{}, {a}} : nat' = (nat \ gone) \union added

\* the rules that go and those that come, to the alternate pipe or not
Change(gone, new, toAlt) ==
  /\ rules' = (rules \ gone) \union new
  /\ alt' = (alt \ gone) \union (IF toAlt THEN new ELSE {})

\* handle_eth_client_ipaddr: nothing to do for what is known, refused or too much
KnownV4(c, a) == c.v4 = a
TakesV6(c, a) == Len(c.v6) < MaxV6 /\ a \notin ToSet(c.v6)
WithV4(c, a) == [NoRules4(c) EXCEPT !.v4 = a]
WithV6(c, a) == [c EXCEPT !.v6 = Append(@, a)]

\* an IPv4 address of client i of table t, with the outcomes of its routing rule:
\* rules of an earlier address go first
Address4(t, i, a, outcomes, toAlt) ==
  LET c == t[i]
  IN /\ \E o \in outcomes :
          /\ tbl' = [t EXCEPT ![i] = o[1]]
          /\ Change(Counted4(c) \ Counted4(WithV4(c, a)), o[2], toAlt)
     /\ NatMove({c.v4} \ {None}, a)
     /\ odd' = odd

Address6(t, i, outcomes, toAlt) ==
  /\ \E o \in outcomes :
       /\ tbl' = [t EXCEPT ![i] = o[1]]
       /\ Change({}, o[2], toAlt)
       /\ odd' = odd \union Leaves(o)
  /\ UNCHANGED nat

\* handle_eth_client_down_evt: a header the driver refuses to delete ends it
HeadersGone(c) ==
  [c EXCEPT !.h4 = IF @ = "live" THEN "none" ELSE @,
            !.h6 = IF @ = "live" /\ c.h4 # "stale" THEN "none" ELSE @]
ClientDown(i) ==
  LET c == tbl[i]
  IN /\ NatDel({c.v4} \ {None})
     /\ Change(Counted(c), {}, FALSE)
     /\ IF "stale" \in {c.h4, c.h6}
        THEN tbl' = [tbl EXCEPT ![i] = HeadersGone(NoRules4(NoRules6(c)))] /\ odd' = odd
        ELSE tbl' = Compacted(i) /\ odd' = odd \union IF Mixed(i) THEN {"mixed"} ELSE {}

AllCounted == UNION {Counted(tbl[i]) : i \in DOMAIN tbl}
AllCounted4 == {tbl[i].r4 : i \in DOMAIN tbl} \ {None}
AllCounted6 == UNION {Counted6(tbl[i]) : i \in DOMAIN tbl}
AllV4 == {tbl[i].v4 : i \in DOMAIN tbl} \ {None}

\* handle_lan_client_reset_rt, handle_wlan_client_reset_rt for IPv6
ResetRt6 ==
  /\ Change(AllCounted6, {}, FALSE)
  /\ tbl' = [i \in DOMAIN tbl |-> [tbl[i] EXCEPT !.v6 = <<>>, !.r6 = <<>>]]
  /\ UNCHANGED <<nat, odd>>

\* the end of handle_down_evt
AllDown ==
  /\ NatDel(AllV4)
  /\ Change(AllCounted, {}, FALSE)
  /\ tbl' = <<>> /\ odd' = odd

TableInit ==
  tbl = <<>> /\ rules = {} /\ alt = {} /\ nat = {} /\ odd = {}
=============================================================================
