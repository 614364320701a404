--------------------------- MODULE MCTetherClients ---------------------------
(* TetherClients and Neighbor for TLC, a behaviour of the one or the other:   *)
(* the clients of an interface, or the cache their addresses are told from.   *)
(* MACs and addresses are interchangeable.                           *)
EXTENDS TetherClients, Neighbor, TLC

VARIABLE part   \* "clients" or "neighbors", which does not change

AllInit ==
  /\ Init /\ NeighborInit /\ part \in {"clients", "neighbors"}
  /\ part = "neighbors" => kind = "lan"
AllNext ==
  /\ \/ part = "clients" /\ Next /\ UNCHANGED neighborVars
     \/ part = "neighbors" /\ NeighborNext /\ UNCHANGED vars
  /\ part' = part
AllSpec == AllInit /\ [][AllNext]_<<vars, neighborVars, part>>

Symmetry ==
  Permutations(Macs) \union Permutations(V4Addrs) \union Permutations(V6Addrs)
=============================================================================
