----------------------------- MODULE MCLanUplink -----------------------------
(* LanUplink and PrivateSubnets for TLC, a behaviour of the one or the other: *)
(* the rules of one interface under its WAN, or the subnets of several.        *)
EXTENDS LanUplink, PrivateSubnets

VARIABLE part   \* "uplink" or "subnets", which does not change

allVars == <<vars, kind, subnetVars, part>>
AllInit ==
  /\ AnyInit /\ SubnetInit /\ part \in {"uplink", "subnets"}
  /\ part = "subnets" => kind = "lan" /\ fams = {"v4"}
AllNext ==
  /\ \/ part = "uplink" /\ AnyNext /\ UNCHANGED subnetVars
     \/ part = "subnets" /\ SubnetNext /\ UNCHANGED <<vars, kind>>
  /\ part' = part
AllSpec ==
  /\ AllInit /\ [][AllNext]_allVars
  /\ WF_allVars(AnyProcess /\ UNCHANGED <<kind, subnetVars, part>>)
=============================================================================
