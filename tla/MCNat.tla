------------------------------- MODULE MCNat -------------------------------
(***************************************************************************)
(* Small instances of the NAT application and of the table driver below    *)
(* it, each in behaviours of its own: for the application the driver is    *)
(* what RuleStore says, and that is what the driver is shown to implement. *)
(***************************************************************************)
EXTENDS NatApp, NatTable

VARIABLE part

StoreRule(name, dst, src) == [name |-> name, dst |-> dst, src |-> src]
\* one destination for all of them; a source that hashes to 0, two that meet it
SmallRules ==
  {StoreRule("a", 1, 16), StoreRule("b", 1, 15), StoreRule("c", 1, 31), StoreRule("d", 17, 3)}

NatInit ==
  /\ part \in {"app", "driver"} /\ Init /\ TableInit
  /\ part = "driver" => pre = NoWan /\ save = {}
NatNext ==
  \/ part = "app" /\ Next /\ UNCHANGED <<tableVars, part>>
  \/ part = "driver" /\ TableNext /\ UNCHANGED <<vars, part>>
NatSpec == NatInit /\ [][NatNext]_<<vars, tableVars, part>>
=============================================================================
