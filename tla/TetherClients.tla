----------------------------- MODULE TetherClients -----------------------------
(***************************************************************************)
(* What holds of the clients of a tethered interface, USB, Ethernet or     *)
(* access point, and of the neighbours of a Wi-Fi station, and of their    *)
(* rules in the driver.                                                    *)
(***************************************************************************)
EXTENDS LanClients, WlanClients

CONSTANT Kinds   \* bound: the kinds of interface, "lan", "wlan" and "sta"

VARIABLE kind    \* of this interface, which does not change

vars == <<kind, tbl, rules, alt, nat, odd, lanVars, wlanVars, dft>>

Init == kind \in Kinds /\ LanInit /\ WlanInit /\ StaInit
Next ==
  \/ kind = "lan" /\ LanNext /\ UNCHANGED <<kind, wlanVars, dft>>
  \/ kind = "wlan" /\ WlanNext /\ UNCHANGED <<kind, lanVars, dft>>
  \/ kind = "sta" /\ StaNext /\ UNCHANGED <<kind, lanVars>>
Spec == Init /\ [][Next]_vars

-----------------------------------------------------------------------------
(* The handles that count for a client are for its own MAC and its present    *)
(* addresses, whoever left and whatever moved up in the table, and their      *)
(* rules are in the driver, unless an address without a rule was deleted.     *)
HandlesMatch ==
  \A i \in DOMAIN tbl :
    LET c == tbl[i]
        Has(r, addr) == /\ r.mac = c.mac /\ r.addr = addr
                        /\ "unknown" \notin odd => r \in rules
    IN /\ c.r4 # None => Has(c.r4, c.v4)
       /\ \A j \in DOMAIN c.r6 : Has(c.r6[j], c.v6[j])

(* A rule in the driver counts for a client of the table, unless a set of     *)
(* rules was refused half-way or an address without a rule was deleted.       *)
NoOrphans == rules \subseteq AllCounted \/ odd \intersect {"refused", "unknown"} # {}

(* The NAT knows only addresses of clients in the table.                      *)
NatOwned == nat \subseteq AllV4

(* A MAC has one entry in the table of a USB or Ethernet interface and of a   *)
(* station.                                                                   *)
OneEntryPerMac ==
  kind # "wlan" => \A i, j \in DOMAIN tbl : tbl[i].mac = tbl[j].mac => i = j

(* Nothing is routed in hardware to a client that sleeps, also when addresses *)
(* of it are seen meanwhile, until a client leaves and the flag of one entry  *)
(* is that of another.                                                        *)
SleepersNotRouted ==
  "mixed" \notin odd => \A i \in DOMAIN tbl : tbl[i].ps => Counted(tbl[i]) = {}

(* When the event of a change of mode has been handled, the IPv4 rules lead   *)
(* to the pipe of the mode, those of clients that slept meanwhile too, and    *)
(* with them the default route; a station that is no gateway passes it over,  *)
(* and an access point a client that has the flag of another.                 *)
V4RulesFollowMode ==
  kind # "lan" /\ ~mccEvent /\ odd \intersect {"unmoved", "passed", "mixed"} = {} =>
    /\ \A i \in DOMAIN tbl : \A r \in Counted4(tbl[i]) : (r \in alt) = mcc
    /\ dft \in {"none", Pipe}

(* The rules lead where a client can be reached: nowhere while it sleeps, and *)
(* then to the pipe of the radio's mode (handle_SCC_MCC_switch).              *)
RulesReachClients == SleepersNotRouted /\ V4RulesFollowMode

(* The table of clients accounts for the rules in the driver and the clients  *)
(* of the NAT, one entry for each of them (handle_eth_client_init).           *)
TableCounts == HandlesMatch /\ NoOrphans /\ NatOwned /\ OneEntryPerMac
=============================================================================
