------------------------------ MODULE NatTable ------------------------------
(***************************************************************************)
(* The driver of the hardware's NAT table (ipanat/src/ipa_nat_drvi.c): two *)
(* hash tables with expansion tables for collisions, one of rules by their *)
(* destination and one, of indices into it, by their source.  The hardware *)
(* walks the chains while the driver changes them, by memory writes and by *)
(* DMA commands.                                                           *)
(***************************************************************************)
EXTENDS Integers, Sequences, FiniteSetsExt

CONSTANTS
  StoreRules,   \* rules: [dst, src], what their hashes are made of, and a name
  Requests,     \* sizes a table is asked for (max_entries)
  NoRule,
  Top           \* the largest half of an address: 16 bits set

ASSUME NatTableAssumption ==
  /\ Requests \subseteq 1..1000 /\ NoRule \notin StoreRules
  /\ \A r \in StoreRules : r.dst \in Nat /\ r.src \in Nat
ASSUME ChecksumAssumption == Top \in Nat

VARIABLES
  size,     \* [base, expn], both 0 without a table
  rule,     \* the rule tables: base entries first, then those of the expansion
  index,    \* the index tables, with index_expn_table_meta's prev
  ids,      \* rule_id_array
  op,       \* what the driver is in the middle of
  client,   \* the rules by their handles, as the client knows them
  broken    \* history: an ioctl failed while a rule was added

tableVars == <<size, rule, index, ids, op, client, broken>>

\* GetNearest2Power of 80 %, GetNearestEven of 20 %
Powers == {2, 4, 8, 16, 32, 64, 128, 256, 512, 1024}
BaseEntries(n) == LET m == IF n * 8 < 20 THEN 1 ELSE (n * 8) \div 10
                  IN CHOOSE p \in Powers : p >= m /\ (p = 2 \/ p \div 2 < m)
ExpnEntries(n) == LET m == n \div 5 IN IF m < 2 THEN 2 ELSE m + (m % 2)

\* ipa_nati_alloc_table
SizeFor(n) == [base |-> BaseEntries(n), expn |-> ExpnEntries(n)]
NoTable == [base |-> 0, expn |-> 0]
EntriesOf(s) == 0..(s.base + s.expn - 1)
IsExpn(e) == e >= size.base

\* 0 is no entry: the hash of 0 goes to the last one
Hash(key) == LET h == key % size.base IN IF h = 0 THEN size.base - 1 ELSE h
DstHash(r) == Hash(r.dst)
SrcHash(r) == Hash(r.src)

NoEntry == [of |-> NoRule, enabled |-> FALSE, dead |-> FALSE, next |-> 0, prev |-> 0, ix |-> 0]
NoIndex == [tbl |-> 0, next |-> 0, prev |-> 0]

\* the entries from a chain's base entry on; f is rule or index
Followed(f, S) == S \union {f[e].next : e \in S \ {0}}
Chain(f, h) ==
  LET from[S \in SUBSET DOMAIN f] ==
        IF Followed(f, S) = S THEN S ELSE from[Followed(f, S)]
  IN from[{h}] \ {0}
Last(f, h) == CHOOSE e \in Chain(f, h) : f[e].next = 0

\* rule handles count from 1; what they stand for has the table type in bit 0
RuleId(e) == IF IsExpn(e) THEN 2 * (e - size.base) + 1 ELSE 2 * e
EntryOf(h) ==
  CASE h >= size.base + size.expn -> 0
    [] OTHER -> (ids[h] \div 2) + (IF ids[h] % 2 = 1 THEN size.base ELSE 0)

-----------------------------------------------------------------------------
(* DMA commands: a field of an entry of the rule or the index tables.        *)

Write(t, at, field, data) == [in |-> t, at |-> at, field |-> field, data |-> data]
Applied(f, w) ==
  CASE w.field = "next"    -> [f EXCEPT ![w.at].next = w.data]
    [] w.field = "tbl"     -> [f EXCEPT ![w.at].tbl = w.data]
    [] w.field = "enabled" -> [f EXCEPT ![w.at].enabled = w.data]
    [] w.field = "proto"   -> [f EXCEPT ![w.at].dead = TRUE]
RuleAfter(w) == IF w.in = "rule" THEN Applied(rule, w) ELSE rule
IndexAfter(w) == IF w.in = "index" THEN Applied(index, w) ELSE index

-----------------------------------------------------------------------------
(* Adding a rule. *)

Idle == op = [do |-> "none"]
Done == op' = [do |-> "none"]
InUseRule(e) == rule[e].enabled
InUseIndex(e) == index[e].tbl # 0

\* ipa_nati_expn_tbl_free_entry, ipa_nati_index_expn_get_free_entry: 0 when full
FreeRule == {e \in EntriesOf(size) : e > size.base /\ ~InUseRule(e)}
FreeIndex == {e \in EntriesOf(size) : e > size.base /\ ~InUseIndex(e)}
FirstOf(S) == IF S = {} THEN 0 ELSE Min(S)

\* ipa_nati_generate_tbl_rule, ipa_nati_generate_index_rule: the entry and the
\* one before it in its chain
RulePlace(r) ==
  LET h == DstHash(r)
  IN IF ~InUseRule(h) THEN [e |-> h, prev |-> 0]
     ELSE [e |-> FirstOf(FreeRule), prev |-> Last(rule, h)]
IndexPlace(r) ==
  LET h == SrcHash(r)
  IN IF ~InUseIndex(h) THEN [e |-> h, prev |-> 0]
     ELSE [e |-> FirstOf(FreeIndex), prev |-> Last(index, h)]

Linked(f, place) == IF place.prev = 0 THEN f ELSE [f EXCEPT ![place.prev].next = place.e]

\* ipa_nati_copy_ipv4_rule_to_hw, ipa_nati_copy_ipv4_index_rule_to_hw
RuleWritten(p, r, i) ==
  [rule EXCEPT ![p.e] = [NoEntry EXCEPT !.of = r, !.prev = p.prev, !.ix = i]]
IndexWritten(q, e) == [index EXCEPT ![q.e] = [tbl |-> e, next |-> 0, prev |-> q.prev]]

\* ipa_nati_add_ipv4_rule up to ipa_nati_copy_ipv4_rule_to_hw: when one of the
\* expansion tables is full nothing has changed.  The result of the command
\* that links the entry is not looked at.
AddRule(r, linked) ==
  LET p == RulePlace(r)
      q == IndexPlace(r)
      written == RuleWritten(p, r, q.e)
  IN /\ size # NoTable /\ Idle /\ ~broken
     /\ \A h \in DOMAIN client : client[h] # r
     /\ p.e # 0 /\ q.e # 0
     /\ linked \/ p.prev # 0
     /\ rule' = IF linked THEN Linked(written, p) ELSE written
     /\ broken' = ~linked
     /\ op' = [do |-> "index", of |-> r, e |-> p.e, place |-> q]
     /\ UNCHANGED <<size, index, ids, client>>

AddIndex(linked) ==
  /\ op.do = "index"
  /\ LET q == op.place
         written == IndexWritten(q, op.e)
     IN /\ linked \/ q.prev # 0
        /\ index' = IF linked THEN Linked(written, q) ELSE written
  /\ broken' = (broken \/ ~linked)
  /\ op' = [do |-> "enable", of |-> op.of, e |-> op.e]
  /\ UNCHANGED <<size, rule, ids, client>>

\* ipa_nati_post_ipv4_dma_cmd, and ipa_nati_make_rule_hdl
Enable ==
  /\ op.do = "enable"
  /\ rule' = [rule EXCEPT ![op.e].enabled = TRUE]
  /\ LET h == FirstOf({n \in DOMAIN ids : ids[n] = 0})
     IN IF h = 0 THEN UNCHANGED <<ids, client>>
        ELSE ids' = [ids EXCEPT ![h] = RuleId(op.e)] /\ client' = [client EXCEPT ![h] = op.of]
  /\ Done /\ UNCHANGED <<size, index, broken>>

EnableFails ==
  /\ op.do = "enable" /\ broken' = TRUE
  /\ Done /\ UNCHANGED <<size, rule, index, ids, client>>

-----------------------------------------------------------------------------
(* Deleting a rule. *)

\* del_type: the only one, the head of others, or in the expansion table
Alone(f, e) == ~IsExpn(e) /\ f[e].next = 0
Heads(f, e) == ~IsExpn(e) /\ f[e].next # 0

Unlink(t, f, e) == Write(t, f[e].prev, "next", f[e].next)
RuleWrites_Disabled(e) ==   \* mutant: the head of a chain is disabled
  <<IF IsExpn(e) THEN Unlink("rule", rule, e) ELSE Write("rule", e, "enabled", FALSE)>>
RuleWrites(e) ==
  <<CASE Alone(rule, e) -> Write("rule", e, "enabled", FALSE)
      [] Heads(rule, e) -> Write("rule", e, "proto", 0)
      [] IsExpn(e)      -> Unlink("rule", rule, e)>>

\* the head of an index chain is replaced by what follows it
IndexWrites(i) ==
  LET n == index[i].next
  IN CASE Alone(index, i) -> <<Write("index", i, "tbl", 0)>>
       [] Heads(index, i) -> <<Write("index", i, "tbl", index[n].tbl),
                               Write("index", i, "next", index[n].next)>>
       [] IsExpn(i)       -> <<Unlink("index", index, i)>>

\* ReorderCmds: those of the index first
Batch(e) == IndexWrites(rule[e].ix) \o RuleWrites(e)

Deletable(e) == e # 0 /\ rule[e].enabled

\* ipa_nati_del_ipv4_rule up to the ioctl, which may fail and change nothing
DeleteRule(h) ==
  /\ size # NoTable /\ Idle /\ ~broken /\ client[h] # NoRule
  /\ LET e == EntryOf(h)
         i == rule[e].ix
     IN /\ Deletable(e)
        /\ op' = [do |-> "delete", h |-> h, e |-> e, i |-> i, wasHead |-> Heads(rule, e),
                  next |-> index[i].next, moved |-> Heads(index, i), writes |-> Batch(e)]
  /\ UNCHANGED <<size, rule, index, ids, client, broken>>

Dma ==
  /\ op.do = "delete" /\ op.writes # <<>>
  /\ rule' = RuleAfter(Head(op.writes)) /\ index' = IndexAfter(Head(op.writes))
  /\ op' = [op EXCEPT !.writes = Tail(@)]
  /\ UNCHANGED <<size, ids, client, broken>>

\* what the driver keeps beside the chains: the entry before one in its chain,
\* and the index entry of a rule; dead heads that nothing follows are freed
RuleRemoved(f, e) ==
  LET n == f[e].next
  IN [(IF n = 0 THEN f ELSE [f EXCEPT ![n].prev = f[e].prev]) EXCEPT ![e] = NoEntry]
FreedHeads_Kept(f) == f   \* mutant: no dead head is ever freed
FreedHeads(f) == [e \in DOMAIN f |-> IF ~IsExpn(e) /\ f[e].dead /\ f[e].next = 0 THEN NoEntry ELSE f[e]]

\* the entry that took the place of the head: its own one is free, the next one
\* follows the head now.  The prev of a free entry is written before it is read.
IndexMoved(i, from) ==
  LET nn == index[from].next
  IN [(IF nn = 0 THEN index ELSE [index EXCEPT ![nn].prev = i]) EXCEPT ![from] = NoIndex]
IndexRemoved(i) ==
  LET n == index[i].next
  IN [(IF IsExpn(i) /\ n # 0 THEN [index EXCEPT ![n].prev = index[i].prev] ELSE index)
        EXCEPT ![i] = NoIndex]
RuleOfMoved(f, i) == [f EXCEPT ![index[i].tbl].ix = i]

RuleDeleted ==
  /\ op.do = "delete" /\ op.writes = <<>>
  /\ LET removed == IF op.wasHead THEN rule ELSE RuleRemoved(rule, op.e)
     IN rule' = FreedHeads(IF op.moved THEN RuleOfMoved(removed, op.i) ELSE removed)
  /\ index' = IF op.moved THEN IndexMoved(op.i, op.next) ELSE IndexRemoved(op.i)
  /\ ids' = [ids EXCEPT ![op.h] = 0] /\ client' = [client EXCEPT ![op.h] = NoRule]
  /\ Done /\ UNCHANGED <<size, broken>>

-----------------------------------------------------------------------------
(* The table. *)

\* ipa_nati_reset_tbl, ipa_nati_update_cache
Zeroed(s) ==
  /\ rule' = [e \in EntriesOf(s) |-> NoEntry] /\ index' = [e \in EntriesOf(s) |-> NoIndex]
NewIds(s) ==
  LET handles == 1..(s.base + s.expn)
  IN ids' = [h \in handles |-> 0] /\ client' = [h \in handles |-> NoRule]

CreateTable(n) ==
  /\ size = NoTable /\ size' = SizeFor(n)
  /\ Zeroed(SizeFor(n)) /\ NewIds(SizeFor(n))
  /\ UNCHANGED <<op, broken>>

DeleteTable ==
  /\ size # NoTable /\ Idle
  /\ size' = NoTable /\ rule' = <<>> /\ index' = <<>> /\ ids' = <<>> /\ client' = <<>>
  /\ broken' = FALSE /\ op' = op

TableInit ==
  /\ size = NoTable /\ rule = <<>> /\ index = <<>> /\ ids = <<>> /\ client = <<>>
  /\ op = [do |-> "none"] /\ broken = FALSE

TableNext ==
  \/ \E n \in Requests : CreateTable(n)
  \/ DeleteTable
  \/ \E r \in StoreRules, linked \in BOOLEAN : AddRule(r, linked)
  \/ \E linked \in BOOLEAN : AddIndex(linked)
  \/ Enable \/ EnableFails
  \/ \E h \in DOMAIN client : DeleteRule(h)
  \/ Dma \/ RuleDeleted
TableSpec == TableInit /\ [][TableNext]_tableVars

-----------------------------------------------------------------------------
(* The checksum differences of a rule: what the hardware adds to the checksum *)
(* of a packet when it replaces a private address and port by the public      *)
(* ones, in one's complement of 16 bits.  An address is given by its halves.  *)

Half == 0..Top

\* cksum += v, and the carry back in
Carried(c) == IF c >= Top + 1 THEN c - (Top + 1) + 1 ELSE c
Plus(c, v) == Carried(c + v)
Minus(c, v) == Plus(c, Top - v)   \* v complemented

\* the first carry is looked at after both halves
ip_cksum(pub_lo, pub_hi, priv_lo, priv_hi) ==
  Minus(Minus(Carried(pub_lo + pub_hi), priv_lo), priv_hi)
tcp_udp_cksum(pub_lo, pub_hi, pub_port, priv_lo, priv_hi, priv_port) ==
  Minus(Minus(Minus(Plus(Carried(pub_lo + pub_hi), pub_port), priv_lo), priv_hi), priv_port)

-----------------------------------------------------------------------------
Matches(e, r) == rule[e].of = r /\ rule[e].enabled /\ ~rule[e].dead
FoundByDst(r) == size # NoTable /\ \E e \in Chain(rule, DstHash(r)) : Matches(e, r)
FoundBySrc(r) == size # NoTable /\ \E i \in Chain(index, SrcHash(r)) : Matches(index[i].tbl, r)

(* The hardware finds every rule the client has a handle of, by destination   *)
(* and by source, also while another rule is added or deleted; and the handle *)
(* names its entry.                                                           *)
AlwaysFound ==
  \A h \in DOMAIN client :
    LET r == client[h]
    IN r # NoRule /\ ~broken /\ ~(op.do = "delete" /\ op.h = h)
         => FoundByDst(r) /\ FoundBySrc(r) /\ Matches(EntryOf(h), r)

(* Between two operations nothing but these rules takes room: the entries in  *)
(* use are theirs, and the heads of chains whose rule is gone.                *)
NothingLeft ==
  Idle /\ ~broken /\ size # NoTable =>
    LET rules == {client[h] : h \in DOMAIN client} \ {NoRule}
    IN /\ \A e \in DOMAIN rule : InUseRule(e) =>
            IF rule[e].dead THEN rule[e].next # 0 /\ ~IsExpn(e) ELSE rule[e].of \in rules
       /\ \A r \in rules : Cardinality({e \in DOMAIN rule : rule[e].enabled /\ rule[e].of = r /\ ~rule[e].dead}) = 1
       /\ Cardinality({i \in DOMAIN index : InUseIndex(i)}) = Cardinality(rules)

(* Seen by the hardware the table is a set of rules that changes by one rule  *)
(* at a time: no rule comes or goes with another one.                         *)
ByDst == INSTANCE RuleStore WITH stored <- {r \in StoreRules : FoundByDst(r)}
BySrc == INSTANCE RuleStore WITH stored <- {r \in StoreRules : FoundBySrc(r)}
ImplementsStore == ByDst!Spec /\ BySrc!Spec

(* At every moment the hardware finds what the client has, and between the    *)
(* operations nothing else takes room (ipa_nati_add_ipv4_rule and _del_).     *)
ChainsSound == AlwaysFound /\ NothingLeft
=============================================================================
