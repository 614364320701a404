------------------------------ MODULE LanClients ------------------------------
(***************************************************************************)
(* The clients of a USB or Ethernet interface: the neighbour events of     *)
(* IPACM_Lan, which also create and remove the clients, and its clean-up   *)
(* when the backhaul is Wi-Fi.                                             *)
(***************************************************************************)
EXTENDS ClientTable

VARIABLES
  sta,       \* IPACM_Wan::backhaul_is_sta_mode
  staEvent   \* IPA_HANDLE_WAN_UP_TETHER of a Wi-Fi backhaul is in the queue

lanVars == <<sta, staEvent>>

\* handle_eth_hdr_init: the driver may refuse either header, and the client
\* then does not count
HdrInit(mac) ==
  IF IndexOf(mac) # 0 \/ Len(tbl) >= MaxClients THEN {tbl}
  ELSE {Append(tbl, NewClient(mac)), tbl}

\* IPA_NEIGH_CLIENT_IP_ADDR_ADD_EVENT; an address that is known, of another
\* prefix or one too many only makes the client
OnlyHeader(t) == tbl' = t /\ UNCHANGED <<rules, alt, nat, odd>>
NeighAddV4(mac, a) ==
  /\ ~sta
  /\ \E t \in HdrInit(mac) :
       LET i == IndexIn(t, mac)
       IN IF i = 0 \/ KnownV4(t[i], a) THEN OnlyHeader(t)
          ELSE Address4(t, i, a, RouteRule4(WithV4(t[i], a)), FALSE)
  /\ UNCHANGED lanVars
NeighAddV6(mac, a) ==
  /\ ~sta
  /\ \E t \in HdrInit(mac) :
       LET i == IndexIn(t, mac)
       IN \/ OnlyHeader(t)
          \/ i # 0 /\ TakesV6(t[i], a) /\ Address6(t, i, RouteRule6(WithV6(t[i], a)), FALSE)
  /\ UNCHANGED lanVars

\* IPA_NEIGH_CLIENT_IP_ADDR_DEL_EVENT for IPv4
NeighDelV4(mac) ==
  /\ IndexOf(mac) # 0
  /\ ClientDown(IndexOf(mac))
  /\ UNCHANGED lanVars

\* handle_del_ipv6_addr: an address that is not in the list stands for the
\* place after the last one, if there is room for it
Without(s, i) == IF i > Len(s) THEN Front(s) ELSE RemoveAt(s, i)
PlaceOf(c, a) == IF a \in ToSet(c.v6) THEN CHOOSE i \in DOMAIN c.v6 : c.v6[i] = a
                 ELSE Len(c.v6) + 1
HandleDelIpv6Addr(c, i) ==
  [c EXCEPT !.v6 = Without(@, i), !.r6 = Without(@, i)]

\* what goes from the driver.  A place without a rule that counts was never
\* cleared: a handle of before may be in it, which is of any rule by now
GoneAt(c, i) ==
  IF i <= Len(c.r6) THEN {{c.r6[i]}} ELSE {{}} \union {{r} : r \in rules}
NeighDelV6(mac, a) ==
  /\ IndexOf(mac) # 0
  /\ LET k == IndexOf(mac)
         c == tbl[k]
         i == PlaceOf(c, a)
     IN /\ i <= MaxV6 /\ c.r6 # <<>>
        /\ i > Len(c.r6) => odd = {}   \* bound: one oddity
        /\ tbl' = [tbl EXCEPT ![k] = HandleDelIpv6Addr(c, i)]
        /\ \E gone \in GoneAt(c, i) : Change(gone, {}, FALSE)
        /\ odd' = IF i > Len(c.r6) THEN odd \union {"unknown"} ELSE odd
  /\ UNCHANGED <<nat, lanVars>>

\* the backhaul changes its mode; the event of its coming up is on the way
Backhaul ==
  /\ sta' = ~sta
  /\ staEvent' = (staEvent \/ ~sta)
  /\ UNCHANGED <<tbl, rules, alt, nat, odd>>

\* IPA_HANDLE_WAN_UP_TETHER, is_sta: the headers go, the entries stay
Stale(h) == IF h = "live" THEN "stale" ELSE h
CleanUpForSta ==
  /\ staEvent /\ staEvent' = FALSE
  /\ NatDel(AllV4)
  /\ Change(AllCounted, {}, FALSE)
  /\ tbl' = [i \in DOMAIN tbl |->
               [NoRules4(NoRules6(tbl[i])) EXCEPT !.h4 = Stale(@), !.h6 = Stale(@)]]
  /\ UNCHANGED <<sta, odd>>

LanReset == ResetRt6 /\ UNCHANGED lanVars
LanDown == AllDown /\ UNCHANGED lanVars

LanInit == TableInit /\ sta = FALSE /\ staEvent = FALSE

LanNext ==
  \/ \E mac \in Macs :
       \/ \E a \in V4Addrs : NeighAddV4(mac, a)
       \/ \E a \in V6Addrs : NeighAddV6(mac, a) \/ NeighDelV6(mac, a)
       \/ NeighDelV4(mac)
  \/ Backhaul \/ CleanUpForSta \/ LanReset \/ LanDown
=============================================================================
