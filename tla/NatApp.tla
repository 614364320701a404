------------------------------- MODULE NatApp -------------------------------
(***************************************************************************)
(* The NAT offload of IPACM (NatApp and IPACM_ConntrackListener of         *)
(* src/data-ipa-cfg-mgr/ipacm/src): conntrack events, client, power save   *)
(* and WAN events, one at a time from the command queue, against the NAT   *)
(* table of the hardware.                                                  *)
(***************************************************************************)
EXTENDS Naturals, FiniteSets, Sequences

CONSTANTS NatAddrs,     \* addresses of clients behind a NAT interface
          NonNatAddrs,  \* addresses of clients behind another interface
          Ports,        \* tell the connections of a client apart
          Wans,         \* public addresses
          NoWan,        \* 0, no public address
          MaxEntries,   \* max_entries
          MaxTemp,      \* MAX_TEMP_ENTRIES
          MaxIface      \* MAX_IFACE_ADDRESS

ASSUME NatAppAssumption ==
  /\ NatAddrs \intersect NonNatAddrs = {} /\ NoWan \notin Wans
  /\ {MaxEntries, MaxTemp, MaxIface} \subseteq Nat

VARIABLES
  wan,     \* wan_ipaddr, NoWan unless isWanUp
  table,   \* is there a NAT table (nat_table_hdl)
  pre,     \* pub_ip_addr_pre
  cache,   \* NatApp::cache, its used slots
  temp,    \* NatApp::temp, its used slots
  save,    \* PwrSaveIfs
  nat,     \* nat_iface_ipv4_addr
  nonnat,  \* nonnat_iface_ipv4_addr, the used slots
  hw,      \* the rules of the hardware table
  lost,    \* history: those of them whose deletion the driver has refused and
           \* whose entry, with the handle, was cleared all the same
  open,    \* the connections conntrack has reported and not ended
  stuck    \* history: rules a flush could not move from temp

vars == <<wan, table, pre, cache, temp, save, nat, nonnat, hw, lost, open, stuck>>
clients == <<save, nat, nonnat>>

Addrs == NatAddrs \union NonNatAddrs
Conns == Addrs \X Ports
AddrOf(c) == c[1]

(* A rule is a 5-tuple: the one of the connection (via "lan"), or the dummy   *)
(* one that has the public address in the place of the private one.           *)
Lan(c) == [conn |-> c, via |-> "lan"]
Dummy(c) == [conn |-> c, via |-> wan]
Rules == [conn : Conns, via : {"lan", NoWan} \union Wans]
IsLanOf(r, a) == r.via = "lan" /\ AddrOf(r.conn) = a

IsNonNat(a) == \E i \in DOMAIN nonnat : nonnat[i] = a

\* AddIface: the rule of a conntrack event, and whether it is a temporary entry
RuleOf(c) ==
  IF AddrOf(c) \notin nat /\ IsNonNat(AddrOf(c)) THEN Dummy(c) ELSE Lan(c)
IsTemp(c) == AddrOf(c) \notin nat /\ ~IsNonNat(AddrOf(c))

Entry(r, e) == [rule |-> r, enabled |-> e]
ChkForDup(r) == \E e \in cache : e.rule = r
HasRoom == Cardinality(cache) < MaxEntries
HwRules(entries) == {e.rule : e \in {f \in entries : f.enabled}}

-----------------------------------------------------------------------------
(* Conntrack events. *)

\* CacheEntry: an address of 0 is refused
CacheEntry(r) ==
  cache' = IF r.via # NoWan /\ ~ChkForDup(r) /\ HasRoom
           THEN cache \union {Entry(r, FALSE)} ELSE cache

AddTempEntry(r) ==
  temp' = IF ~ChkForDup(r) /\ (\A t \in temp : t.rule # r) /\ Cardinality(temp) < MaxTemp
          THEN temp \union {[rule |-> r, pub |-> wan]} ELSE temp

\* AddEntry: the driver may refuse the rule
AddEntry(r) ==
  IF table /\ ~ChkForDup(r) /\ HasRoom
  THEN \/ /\ r.via = "lan" /\ AddrOf(r.conn) \in save
          /\ cache' = cache \union {Entry(r, FALSE)} /\ hw' = hw
       \/ /\ r.via # "lan" \/ AddrOf(r.conn) \notin save
          /\ \/ cache' = cache \union {Entry(r, TRUE)} /\ hw' = hw \union {r}
             \/ UNCHANGED <<cache, hw>>
  ELSE UNCHANGED <<cache, hw>>

NewConnection(c) ==
  /\ open' = open \union {c}
  /\ \/ wan = NoWan /\ CacheEntry(RuleOf(c)) /\ UNCHANGED <<temp, hw>>
     \/ wan # NoWan /\ IsTemp(c) /\ AddTempEntry(RuleOf(c)) /\ UNCHANGED <<cache, hw>>
     \/ wan # NoWan /\ ~IsTemp(c) /\ AddEntry(RuleOf(c)) /\ temp' = temp
  /\ UNCHANGED <<wan, table, pre, clients, lost, stuck>>

(* DeleteEntry: the entry is cleared, whether the driver deletes the rule of   *)
(* an enabled one or refuses to.                                              *)
Delete(mine) ==
  \/ hw' = (hw \ mine) \union lost /\ lost' = lost
  \/ mine # {} /\ hw' = hw /\ lost' = lost \union mine
Deleted_OnlyEnabled(r) ==   \* mutant: an entry that is only cached is kept
  /\ cache' = {e \in cache : e.rule # r \/ ~e.enabled}
  /\ Delete(HwRules({e \in cache : e.rule = r}))
Deleted(r) ==
  /\ cache' = {e \in cache : e.rule # r}
  /\ Delete(HwRules({e \in cache : e.rule = r}))

EndConnection(c) ==
  /\ c \in open /\ open' = open \ {c}
  /\ Deleted(RuleOf(c))
  /\ temp' = {t \in temp : t.rule # RuleOf(c)}
  /\ UNCHANGED <<wan, table, pre, clients, stuck>>

-----------------------------------------------------------------------------
(* Clients come, go and sleep. *)

\* FlushTempEntries(a, false)
Flushed_Kept(a) == {t \in temp : IsLanOf(t.rule, a) => t.pub = wan}   \* mutant
Flushed(a) == {t \in temp : ~IsLanOf(t.rule, a)}

(* FlushTempEntries(a, true): entries of the present public address go to the *)
(* NAT table, as dummy rules for a NAT-less client; those that are refused    *)
(* stay, rewritten, and the others are dropped.  start is the cache and the   *)
(* hardware table it begins with.                                             *)
Flush(a, via, start, startHw) ==
  LET mine == {t \in temp : IsLanOf(t.rule, a) /\ table /\ t.pub = wan}
      wanted == {[conn |-> t.rule.conn, via |-> via] : t \in mine}
  IN \E added \in SUBSET wanted :
       /\ Cardinality(start) + Cardinality(added) <= MaxEntries
       /\ \A e \in start : e.rule \notin added
       /\ cache' = start \union {Entry(r, TRUE) : r \in added}
       /\ hw' = startHw \union added
       /\ temp' = Flushed(a) \union
                  {[rule |-> r, pub |-> wan] : r \in wanted \ added}
       /\ stuck' = stuck \union (wanted \ added)

(* ResetPwrSaveIf: cached entries are added again, and lost when refused; a   *)
(* missing table refuses all of them.                                         *)
Asleep(a) == {e \in cache : IsLanOf(e.rule, a) /\ ~e.enabled}
Woken(a, back) ==
  (cache \ Asleep(a)) \union {Entry(e.rule, TRUE) : e \in back}
WokenHw_Without(back) == hw   \* mutant: the rules are not added
WokenHw(back) == hw \union {e.rule : e \in back}
MayComeBack(a) == IF table THEN SUBSET Asleep(a) ELSE {{}}

HandleNeighIpAddrAddEvt(a) ==
  /\ a \in NatAddrs
  /\ IF a \in nat \/ Cardinality(nat) < MaxIface
     THEN /\ nat' = nat \union {a} /\ save' = save \ {a}
          /\ \E back \in MayComeBack(a) : Flush(a, "lan", Woken(a, back), WokenHw(back))
     ELSE UNCHANGED <<nat, save, cache, hw, temp, stuck>>
  /\ UNCHANGED <<wan, table, pre, nonnat, lost, open>>

ResetPwrSaveIf(a) ==
  /\ a \in nat
  /\ save' = save \ {a}
  /\ \E back \in MayComeBack(a) : cache' = Woken(a, back) /\ hw' = WokenHw(back)
  /\ UNCHANGED <<wan, table, pre, temp, nat, nonnat, lost, open, stuck>>

(* The rules of a client leave the table and stay in the cache; the entries   *)
(* whose rule the driver does not delete stay enabled.                        *)
EnabledOf(a) == {e \in cache : e.enabled /\ IsLanOf(e.rule, a)}
Disabled(a, refused) ==
  {IF IsLanOf(e.rule, a) /\ e \notin refused THEN Entry(e.rule, FALSE) ELSE e : e \in cache}
Disable(a) ==
  /\ \E refused \in SUBSET EnabledOf(a) :
       /\ cache' = Disabled(a, refused)
       /\ hw' = {r \in hw : IsLanOf(r, a) => r \in HwRules(refused) \union lost}
  /\ lost' = lost

UpdatePwrSaveIf(a) ==
  /\ a \in nat
  /\ IF a \in save THEN UNCHANGED <<save, cache, hw, lost>>
     ELSE save' = save \union {a} /\ Disable(a)
  /\ UNCHANGED <<wan, table, pre, temp, nat, nonnat, open, stuck>>

\* DelEntriesOnClntDiscon, after FlushTempEntries(a, false)
Disconnect(a) ==
  /\ temp' = Flushed(a) /\ save' = save \ {a} /\ Disable(a)
  /\ UNCHANGED <<wan, table, pre, open, stuck>>

HandleNeighIpAddrDelEvt(a) ==
  a \in nat /\ nat' = nat \ {a} /\ Disconnect(a) /\ nonnat' = nonnat

(* HandleNonNatIPAddr: an address is noted once more with every event, and    *)
(* one note is deleted.                                                       *)
AddNonNatIPAddr(a) ==
  /\ a \in NonNatAddrs /\ Len(nonnat) < MaxIface
  /\ nonnat' = Append(nonnat, a)
  /\ Flush(a, wan, cache, hw)
  /\ UNCHANGED <<wan, table, pre, save, nat, lost, open>>

DeleteNonNatIPAddr(a) ==
  /\ \E i \in DOMAIN nonnat :
       /\ nonnat[i] = a
       /\ nonnat' = SubSeq(nonnat, 1, i - 1) \o SubSeq(nonnat, i + 1, Len(nonnat))
  /\ Disconnect(a) /\ nat' = nat

-----------------------------------------------------------------------------
(* The WAN. *)

Reset == {Entry(e.rule, FALSE) : e \in cache}

(* AddTable of w, into a cache without enabled entries: if w is the address   *)
(* before, what is cached goes to the new table.  What was lost went with the *)
(* old one.                                                                   *)
AddTable(w, before, entries) ==
  /\ lost' = {}
  /\ \/ /\ table' = TRUE
        /\ \/ /\ w = before
              /\ \E added \in SUBSET entries :
                   /\ cache' = {Entry(e.rule, TRUE) : e \in added}
                   /\ hw' = {e.rule : e \in added}
           \/ w # before /\ cache' = entries /\ hw' = {}
     \/ table' = FALSE /\ cache' = entries /\ hw' = {}   \* no table to be had

TriggerWANUp(w) ==
  /\ w # wan /\ wan' = w
  /\ \/ ~table /\ pre' = pre /\ AddTable(w, pre, cache)
     \/ table /\ pre' = wan /\ AddTable(w, wan, Reset)
  /\ UNCHANGED <<temp, clients, open, stuck>>

\* without a table DeleteTable fails, and the WAN stays up
TriggerWANDown ==
  /\ wan # NoWan /\ table
  /\ table' = FALSE /\ pre' = wan /\ wan' = NoWan
  /\ cache' = Reset /\ hw' = {} /\ lost' = {}
  /\ UNCHANGED <<temp, clients, open, stuck>>

-----------------------------------------------------------------------------
(* The constructor leaves pub_ip_addr_pre and PwrSaveIfs as they are. *)
Init ==
  /\ wan = NoWan /\ table = FALSE /\ cache = {} /\ temp = {} /\ hw = {} /\ lost = {}
  /\ pre \in Wans \union {NoWan} /\ save \in SUBSET Addrs
  /\ nat = {} /\ nonnat = <<>> /\ open = {} /\ stuck = {}

Conntrack == \E c \in Conns : NewConnection(c) \/ EndConnection(c)
Client ==
  \/ \E a \in Addrs : HandleNeighIpAddrAddEvt(a) \/ HandleNeighIpAddrDelEvt(a)
  \/ \E a \in Addrs : AddNonNatIPAddr(a) \/ DeleteNonNatIPAddr(a)
  \/ \E a \in Addrs : UpdatePwrSaveIf(a) \/ ResetPwrSaveIf(a)
Wan == TriggerWANDown \/ \E w \in Wans : TriggerWANUp(w)

Next == Conntrack \/ Client \/ Wan

Spec == Init /\ [][Next]_vars

-----------------------------------------------------------------------------
TypeOK ==
  /\ wan \in Wans \union {NoWan} /\ pre \in Wans \union {NoWan} /\ table \in BOOLEAN
  /\ cache \in SUBSET [rule : Rules, enabled : BOOLEAN]
  /\ temp \in SUBSET [rule : Rules, pub : Wans]
  /\ Cardinality(cache) <= MaxEntries /\ Cardinality(temp) <= MaxTemp
  /\ save \subseteq Addrs /\ nat \subseteq NatAddrs /\ nonnat \in Seq(NonNatAddrs)
  /\ hw \subseteq Rules /\ lost \subseteq hw /\ open \subseteq Conns /\ stuck \subseteq Rules

(* The hardware table holds the enabled entries of the cache, one for each,   *)
(* and no connection is cached twice: a rule that IPACM has lost track of     *)
(* could never be deleted again.  The only rules it loses are those that the  *)
(* driver would not delete when their connection ended.                       *)
HwMatchesCache ==
  /\ hw = HwRules(cache) \union lost
  /\ \A e, f \in cache : e.rule = f.rule => e = f
  /\ ~table => hw = {}

(* Behind a NAT interface only open connections are offloaded, whatever was   *)
(* cached for sleeping or absent clients and over changes of the WAN, but for *)
(* a rule whose deletion was refused when its connection ended.               *)
OnlyOpenConnections ==
  \A r \in hw : AddrOf(r.conn) \in NatAddrs => r.conn \in open \/ r \in lost

(* Only connections of clients that are not known yet wait in temp, and those *)
(* that a flush could not move.                                               *)
TempWaits ==
  \A t \in temp : (AddrOf(t.rule.conn) \in nat \/ IsNonNat(AddrOf(t.rule.conn)))
                    => t.rule \in stuck
=============================================================================
