---------------------------- MODULE MCEthBridge -----------------------------
(* Devices and bounds for checking EthBridge with TLC.                        *)
EXTENDS EthBridge

L2Headers == [x \in Ifaces |-> IF x \in Wlans THEN "802_3" ELSE "ETH_II"]
VlanParents == [v \in {"v"} |-> "eth"]

\* two clients that may roam between an access point and a LAN interface; an
\* access point and two LAN interfaces of the same header, one at a time; the same with a tunnel on one
\* of them; and a longer life of a VLAN interface
Chosen ==
  {[who |-> {"wlan", "eth"} \X {"m1", "m2"}, may |-> {"guest"}, driver |-> 0],
   [who |-> {<<"wlan", "m1">>, <<"eth", "m2">>, <<"usb", "m2">>}, may |-> {"channels"},
    driver |-> 0],
   [who |-> {<<"wlan", "m1">>, <<"eth", "m2">>}, may |-> {"tunnel"}, driver |-> 2],
   [who |-> {<<"wlan", "m1">>, <<"eth", "m2">>, <<"usb", "m1">>}, may |-> {"tunnel"}, driver |-> 1],
   [who |-> {<<"usb", "m1">>}, may |-> {}, driver |-> 5]}

\* what the system can be in between two handlers
OneOddity == Cardinality(s.odd) <= 1
=============================================================================
