---------------------------- MODULE PrivateSubnets ----------------------------
(***************************************************************************)
(* The private subnets of the tethered interfaces: IPACM_Config keeps one  *)
(* table of them, every interface has a filter rule for each entry so that *)
(* traffic between the subnets goes to the host, and brings its rules up   *)
(* to date when another interface changes the table.                       *)
(***************************************************************************)
EXTENDS Integers, Sequences, FiniteSets, Functions

CONSTANTS
  Tethers,      \* tethered interfaces
  Subnets,
  MaxSubnets,   \* IPA_MAX_PRIVATE_SUBNET_ENTRIES
  NoSubnet

ASSUME PrivateSubnetsAssumption == MaxSubnets \in Nat /\ NoSubnet \notin Subnets

VARIABLES
  subnets,    \* private_subnet_table, the first ipa_num_private_subnet of it
  tether,     \* of an interface: is it there, if_ipv4_subnet once it has an
              \* address, and what its rules are for, the others being dummies
  changed,    \* IPA_PRIVATE_SUBNET_CHANGE_EVENT in the internal queue
  lost        \* history: an entry that could not be added (full), that stays
              \* (kept), or that left with another interface (twin)

subnetVars == <<subnets, tether, changed, lost>>

\* reset_to_dummy_flt_rule: rules that match nothing
Dummies == [n \in 1..MaxSubnets |-> NoSubnet]
NoTether == [here |-> FALSE, net |-> NoSubnet, rules |-> Dummies, set |-> FALSE]
Idle == changed = <<>>   \* the external queue has its turn

-----------------------------------------------------------------------------
(* IPACM_Config: the table, and the event. *)

AddPrivateSubnet(s) ==
  IF s \in Range(subnets) \/ Len(subnets) >= MaxSubnets THEN subnets ELSE Append(subnets, s)
DelPrivateSubnet_Last(s) ==   \* mutant: the entries do not move up, the last one goes
  IF s \in Range(subnets) THEN SubSeq(subnets, 1, Len(subnets) - 1) ELSE subnets
DelPrivateSubnet(s) ==
  IF s \in Range(subnets)
  THEN LET cnt == CHOOSE n \in DOMAIN subnets : subnets[n] = s
       IN [n \in 1..(Len(subnets) - 1) |-> subnets[IF n < cnt THEN n ELSE n + 1]]
  ELSE subnets

PostChange(i, table) ==
  /\ subnets' = table
  /\ changed' = IF table = subnets THEN changed ELSE Append(changed, i)

-----------------------------------------------------------------------------
(* Interfaces. *)

TetherCreate(i) ==
  /\ Idle /\ ~tether[i].here
  /\ tether' = [tether EXCEPT ![i].here = TRUE]
  /\ UNCHANGED <<subnets, changed, lost>>

\* handle_private_subnet_android, all rules to dummies and then those of the table;
\* nothing to modify where add_dummy_private_subnet_flt_rule was refused
Overlaid(old, table) == [n \in 1..MaxSubnets |-> IF n <= Len(table) THEN table[n] ELSE old[n]]
Refreshed(t, table) == IF t.set THEN [t EXCEPT !.rules = Overlaid(Dummies, table)] ELSE t

\* an IPv4 address: handle_addr_evt, which a refused route ends, then the rules
WithDummies(t) == [t EXCEPT !.set = TRUE]
TetherAddrAdd(i, s) ==
  /\ Idle /\ tether[i].here /\ tether[i].net = NoSubnet
  /\ LET table == AddPrivateSubnet(s)
         t == [tether[i] EXCEPT !.net = s]
     IN /\ PostChange(i, table)
        /\ lost' = lost \union IF s \in Range(table) THEN {} ELSE {"full"}
        /\ \/ tether' = [tether EXCEPT ![i] = Refreshed(WithDummies(t), table)]
           \/ tether' = [tether EXCEPT ![i] = t]   \* refused

\* handle_down_evt: a rule that was refused may end it before the table is told
TetherDown(i) ==
  /\ Idle /\ tether[i].here
  /\ tether' = [tether EXCEPT ![i] = NoTether]
  /\ \/ /\ PostChange(i, DelPrivateSubnet(tether[i].net))
        /\ lost' = lost \union
             IF \E j \in Tethers \ {i} : tether[j].net = tether[i].net /\ tether[j].net # NoSubnet
             THEN {"twin"} ELSE {}
     \/ /\ tether[i].net # NoSubnet /\ ~tether[i].set
        /\ lost' = lost \union {"kept"}
        /\ UNCHANGED <<subnets, changed>>

\* IPA_PRIVATE_SUBNET_CHANGE_EVENT: all but the interface it came from
Hearers(i) == Tethers \ {i}
HandleSubnetChange ==
  /\ ~Idle
  /\ tether' = [j \in Tethers |->
       IF j \in Hearers(Head(changed)) /\ tether[j].here
       THEN Refreshed(tether[j], subnets) ELSE tether[j]]
  /\ changed' = Tail(changed)
  /\ UNCHANGED <<subnets, lost>>

SubnetInit ==
  subnets = <<>> /\ tether = [i \in Tethers |-> NoTether] /\ changed = <<>> /\ lost = {}
SubnetNext ==
  \/ \E i \in Tethers : TetherCreate(i) \/ TetherDown(i)
  \/ \E i \in Tethers, s \in Subnets : TetherAddrAdd(i, s)
  \/ HandleSubnetChange

-----------------------------------------------------------------------------
(* When no change is on its way the rules of every interface are those of the *)
(* table, in its order, and dummies, whichever interfaces came and went.      *)
SubnetRulesFollow ==
  Idle => \A i \in Tethers : tether[i].set =>
            \A n \in 1..MaxSubnets :
              tether[i].rules[n] = IF n <= Len(subnets) THEN subnets[n] ELSE NoSubnet

(* The table holds the subnet of every interface with an address and no other *)
(* one, unless it was full, two interfaces had the same subnet and one of     *)
(* them left, or an interface went down that had been refused a rule.         *)
NetsInUse == {tether[i].net : i \in Tethers} \ {NoSubnet}
TableOfSubnets ==
  /\ IsInjective(subnets)
  /\ NetsInUse \subseteq Range(subnets) \/ lost \intersect {"full", "twin"} # {}
  /\ Range(subnets) \subseteq NetsInUse \/ "kept" \in lost

(* The table of private subnets, the interfaces that make it and the rules    *)
(* they make from it agree (IPACM_Config::AddPrivateSubnet and the event).    *)
SubnetsAgree == SubnetRulesFollow /\ TableOfSubnets
=============================================================================
