------------------------------ MODULE WlanClients ------------------------------
(***************************************************************************)
(* The clients of a Wi-Fi access point: IPACM_Wlan hears of them from the  *)
(* driver, puts them to sleep and wakes them, and moves their rules to     *)
(* another pipe when the radio changes its mode.                           *)
(***************************************************************************)
EXTENDS ClientTable

CONSTANT MaxWifiV6   \* bound: IPv6 addresses of a client of a radio, no more than MaxV6

VARIABLES
  mcc,        \* IPACM_Config::isMCC_Mode, which changes at once
  mccEvent    \* IPA_WLAN_SWITCH_TO_SCC or MCC is in the queue

wlanVars == <<mcc, mccEvent>>

\* handle_wlan_client_init_ex: no look at who is in the table
WlanClientAdded(mac) == Append(tbl, NewClient(mac))
WlanClientInit(mac) ==
  /\ Len(tbl) < MaxClients
  /\ tbl' = WlanClientAdded(mac)
  /\ UNCHANGED <<rules, alt, nat, odd, wlanVars>>

WlanRouteRule4(c) == RouteRule4(c)
WlanRouteRule6(c) == RouteRule6(c)

\* handle_wlan_client_ipaddr and handle_wlan_client_route_rule
WlanAddV4(mac, a) ==
  /\ IndexOf(mac) # 0 /\ ~KnownV4(tbl[IndexOf(mac)], a)
  /\ Address4(tbl, IndexOf(mac), a, WlanRouteRule4(WithV4(tbl[IndexOf(mac)], a)), mcc)
  /\ UNCHANGED wlanVars
WlanAddV6(mac, a) ==
  /\ IndexOf(mac) # 0 /\ TakesV6(tbl[IndexOf(mac)], a)
  /\ Len(tbl[IndexOf(mac)].v6) < MaxWifiV6
  /\ Address6(tbl, IndexOf(mac), WlanRouteRule6(WithV6(tbl[IndexOf(mac)], a)), mcc)
  /\ UNCHANGED wlanVars

WlanClientDown(mac) ==
  /\ IndexOf(mac) # 0
  /\ ClientDown(IndexOf(mac))
  /\ UNCHANGED wlanVars

\* handle_wlan_client_pwrsave
PowerSave(mac) ==
  /\ IndexOf(mac) # 0 /\ ~tbl[IndexOf(mac)].ps
  /\ LET i == IndexOf(mac)
         c == tbl[i]
     IN /\ tbl' = [tbl EXCEPT ![i] = [NoRules4(NoRules6(c)) EXCEPT !.ps = TRUE]]
        /\ Change(Counted(c), {}, FALSE)
  /\ UNCHANGED <<nat, odd, wlanVars>>

\* IPA_WLAN_CLIENT_RECOVER_EVENT
Recover(mac) ==
  /\ IndexOf(mac) # 0 /\ tbl[IndexOf(mac)].ps
  /\ LET i == IndexOf(mac)
         c == [tbl[i] EXCEPT !.ps = FALSE]
     IN \E o4 \in WlanRouteRule4(c) : \E o6 \in WlanRouteRule6(o4[1]) :
          /\ tbl' = [tbl EXCEPT ![i] = o6[1]]
          /\ Change({}, o4[2] \union o6[2], mcc)
          /\ odd' = odd \union Leaves(<<o6[1], o4[2] \union o6[2]>>)
  /\ UNCHANGED <<nat, wlanVars>>

\* the flag changes when the driver says so, the event goes to the queue
SwitchMode ==
  /\ mcc' = ~mcc /\ mccEvent' = TRUE
  /\ UNCHANGED <<tbl, rules, alt, nat, odd>>

\* handle_SCC_MCC_switch: the IPv4 rules of all clients that are awake.  Of IPv6
\* those from route_rule_set_v6 to ipv6_set of the clients that have the first
\* no less than the second, and so none
Awake4 == {i \in DOMAIN tbl : ~tbl[i].ps /\ tbl[i].r4 # None}
Modified4 == {tbl[i].r4 : i \in Awake4}
HandleSccMccSwitch ==
  /\ mccEvent /\ mccEvent' = FALSE
  /\ \/ alt' = (IF mcc THEN alt \union Modified4 ELSE alt \ Modified4) /\ odd' = odd
     \/ odd = {} /\ alt' = alt /\ odd' = odd \union {"unmoved"}   \* refused, nothing is committed; bound: one oddity
  /\ UNCHANGED <<tbl, rules, nat, mcc>>

WlanReset == ResetRt6 /\ UNCHANGED wlanVars
WlanDown == AllDown /\ UNCHANGED wlanVars

WlanInit == TableInit /\ mcc = FALSE /\ mccEvent = FALSE

WlanNext ==
  \/ \E mac \in Macs :
       \/ WlanClientInit(mac) \/ WlanClientDown(mac) \/ PowerSave(mac) \/ Recover(mac)
       \/ \E a \in V4Addrs : WlanAddV4(mac, a)
       \/ \E a \in V6Addrs : WlanAddV6(mac, a)
  \/ SwitchMode \/ HandleSccMccSwitch \/ WlanReset \/ WlanDown
-----------------------------------------------------------------------------
(* The neighbours of a Wi-Fi station, which IPACM_Wan keeps in a table of     *)
(* the same kind: the gateway is one of them, and the default route leads to  *)
(* the pipe of the radio's mode as their rules do.                            *)

VARIABLE dft   \* the default route: "none", or the pipe it leads to

Pipe == IF mcc THEN "alt" ELSE "own"

\* handle_wan_hdr_init, with a header of each family
WanClient(mac) == NewClient(mac)
WanHdrInit(mac) ==
  IF IndexOf(mac) # 0 \/ Len(tbl) >= MaxClients THEN tbl ELSE Append(tbl, WanClient(mac))

\* handle_wan_client_route_rule
WanRouteRule4(c) == RouteRule4(c)
WanRouteRule6(c) == RouteRule6(c)

\* handle_wan_client_ipaddr, then the rules
WanClientIpAddr4(mac, a) ==
  LET t == WanHdrInit(mac)
      i == IndexIn(t, mac)
  IN /\ i # 0 /\ ~KnownV4(t[i], a)
     /\ Address4(t, i, a, WanRouteRule4(WithV4(t[i], a)), mcc)
WanClientIpAddr6(mac, a) ==
  LET t == WanHdrInit(mac)
      i == IndexIn(t, mac)
  IN /\ i # 0 /\ TakesV6(t[i], a) /\ Len(t[i].v6) < MaxWifiV6
     /\ Address6(t, i, WanRouteRule6(WithV6(t[i], a)), mcc)

\* IPA_NEIGH_CLIENT_IP_ADDR_ADD_EVENT
WanNeighbor(mac) ==
  /\ \/ \E a \in V4Addrs : WanClientIpAddr4(mac, a)
     \/ \E a \in V6Addrs : WanClientIpAddr6(mac, a)
  /\ UNCHANGED <<wlanVars, dft>>

\* handle_route_add_evt and handle_route_del_evt
DefaultRoute ==
  /\ dft' = IF dft = "none" THEN Pipe ELSE "none"
  /\ UNCHANGED <<tbl, rules, alt, nat, odd, wlanVars>>

\* IPA_WLAN_SWITCH_TO_SCC and MCC: only a gateway moves its rules; of IPv6 those
\* of the WAN table, which lead to the exception pipe or back, not those here.
\* The driver may refuse a rule of a client
WanModified4 == {tbl[i].r4 : i \in {j \in DOMAIN tbl : tbl[j].r4 # None}}
MovedRoute == IF dft = "none" THEN dft ELSE Pipe
StaSwitch ==
  /\ mccEvent /\ mccEvent' = FALSE
  /\ dft' = MovedRoute
  /\ \/ dft = "none" /\ UNCHANGED alt
        /\ odd' = odd \union IF AllCounted4 = {} THEN {} ELSE {"passed"}
     \/ dft # "none" /\ alt' = (IF mcc THEN alt \union WanModified4 ELSE alt \ WanModified4) /\ odd' = odd
     \/ dft # "none" /\ odd = {} /\ UNCHANGED alt /\ odd' = {"unmoved"}
  /\ UNCHANGED <<tbl, rules, nat, mcc>>

\* the mode changes as for the access point
StaMode == SwitchMode /\ UNCHANGED dft

\* handle_down_evt
WanDown == AllDown /\ dft' = "none" /\ UNCHANGED wlanVars

StaInit == dft = "none"
StaNext ==
  \/ \E mac \in Macs : WanNeighbor(mac)
  \/ DefaultRoute \/ StaMode \/ StaSwitch \/ WanDown
=============================================================================
