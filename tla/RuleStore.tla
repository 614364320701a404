----------------------------- MODULE RuleStore -----------------------------
(***************************************************************************)
(* What the NAT table driver promises (ipanat/inc/ipa_nat_drv.h): a set of  *)
(* rules that grows and shrinks by one rule at a time, until the table as a *)
(* whole is deleted.                                                        *)
(***************************************************************************)
CONSTANT StoreRules

VARIABLE stored

Init == stored = {}
Add(r) == stored' = stored \union {r}
Delete(r) == stored' = stored \ {r}
DeleteTable == stored' = {}
Next == (\E r \in StoreRules : Add(r) \/ Delete(r)) \/ DeleteTable
Spec == Init /\ [][Next]_stored
=============================================================================
