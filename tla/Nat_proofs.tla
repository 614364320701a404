----------------------------- MODULE Nat_proofs -----------------------------
(***************************************************************************)
(* NatApp: the hardware holds what the cache says, behind a NAT interface  *)
(* only open connections, but for the rules whose deletion was refused,    *)
(* and in the temporary list who must wait there (TempInv).  NatTable: the checksum differences of a rule; every table   *)
(* of the driver is clean or in the middle of one operation (TInv), so the *)
(* hardware finds what the client has and nothing else takes room, and     *)
(* what it finds changes by one rule at a time.                            *)
(***************************************************************************)
EXTENDS NatApp, NatTable, SequenceTheorems, FiniteSetTheorems, TLAPS

Rec == [rule : Rules, enabled : BOOLEAN]

(* The part of TypeOK the argument needs. *)
Typed ==
  /\ wan \in Wans \union {NoWan}
  /\ cache \in SUBSET Rec
  /\ temp \in SUBSET [rule : Rules, pub : Wans]
  /\ nonnat \in Seq(NonNatAddrs)
  /\ open \in SUBSET Conns

(* Whatever waits for a client behind NAT, in the cache or in temp, is the    *)
(* rule of a connection that is open.                                         *)
OpenRule(r, conns) == AddrOf(r.conn) \in NatAddrs => r.via = "lan" /\ r.conn \in conns
OnlyOpenWait ==
  /\ \A e \in cache : OpenRule(e.rule, open)
  /\ \A t \in temp : OpenRule(t.rule, open)

IInv == Typed /\ HwMatchesCache /\ OnlyOpenWait

Unique(S) == \A e, f \in S : e.rule = f.rule => e = f

-----------------------------------------------------------------------------
(* What the ways to change a cache do to the rules of its enabled entries. *)

On(r) == Entry(r, TRUE)
Out(r) == Entry(r, FALSE)
Enabled(e) == e.enabled

LEMMA EntryFields ==
  /\ \A r : On(r).rule = r /\ Enabled(On(r))
  /\ \A r : Out(r).rule = r /\ ~Enabled(Out(r))
  BY DEF On, Out, Entry, Enabled

LEMMA InHwRules ==
  ASSUME NEW S
  PROVE  \A r : r \in HwRules(S) <=> \E e \in S : Enabled(e) /\ e.rule = r
  BY DEF HwRules, Enabled

LEMMA AddOne ==
  ASSUME NEW S, Unique(S), NEW r, ~\E e \in S : e.rule = r
  PROVE  /\ Unique(S \union {On(r)}) /\ Unique(S \union {Out(r)})
         /\ HwRules(S \union {On(r)}) = HwRules(S) \union {r}
         /\ HwRules(S \union {Out(r)}) = HwRules(S)
<1>1. Unique(S \union {On(r)})
  BY EntryFields DEF Unique
<1>4. Unique(S \union {Out(r)})
  BY EntryFields DEF Unique
<1>2. HwRules(S \union {On(r)}) = HwRules(S) \union {r}
  BY EntryFields, InHwRules
<1>3. ASSUME NEW q
      PROVE  q \in HwRules(S \union {Out(r)}) <=> q \in HwRules(S)
  BY EntryFields, InHwRules
<1> QED BY <1>1, <1>2, <1>3, <1>4

\* a flush adds A to S; a new table and a client that wakes up do so, too
LEMMA AddMany ==
  ASSUME NEW S, Unique(S), NEW A, \A e \in S : e.rule \notin A
  PROVE  /\ Unique(S \union {On(r) : r \in A})
         /\ HwRules(S \union {On(r) : r \in A}) = HwRules(S) \union A
<1> DEFINE New == {On(r) : r \in A}
<1>1. \A e \in New : e.rule \in A /\ Enabled(e) /\ e = On(e.rule)
  BY EntryFields
<1>2. \A r \in A : On(r) \in New /\ On(r).rule = r /\ Enabled(On(r))
  BY EntryFields
<1> HIDE DEF New
<1>3. Unique(S \union New)
  BY <1>1 DEF Unique
<1>4. ASSUME NEW r
      PROVE  r \in HwRules(S \union New) <=> r \in HwRules(S) \union A
  BY <1>1, <1>2, InHwRules
<1> QED BY <1>3, <1>4 DEF New

LEMMA AllOut ==
  ASSUME NEW S
  PROVE  /\ Unique({Out(e.rule) : e \in S})
         /\ HwRules({Out(e.rule) : e \in S}) = {}
<1> DEFINE New == {Out(e.rule) : e \in S}
<1>1. \A e \in New : ~Enabled(e) /\ e = Out(e.rule)
  BY EntryFields
<1> HIDE DEF New
<1> QED BY <1>1, InHwRules DEF Unique, New

LEMMA SomeDisabled ==
  ASSUME Unique(cache), NEW a, NEW refused \in SUBSET EnabledOf(a)
  PROVE  /\ Unique(Disabled(a, refused))
         /\ HwRules(Disabled(a, refused))
              = {r \in HwRules(cache) : IsLanOf(r, a) => r \in HwRules(refused)}
<1> DEFINE Off(e) == IsLanOf(e.rule, a) /\ e \notin refused
<1>1. \A d \in Disabled(a, refused) : \E e \in cache :
        /\ d.rule = e.rule
        /\ d = IF Off(e) THEN Out(e.rule) ELSE e
        /\ Enabled(d) <=> Enabled(e) /\ ~Off(e)
  BY EntryFields DEF Disabled, Out
<1>2. \A e \in cache : ~Off(e) => e \in Disabled(a, refused)
  BY DEF Disabled
<1>3. Unique(Disabled(a, refused))
  BY <1>1 DEF Unique
<1>4. \A e \in refused : e \in cache /\ Enabled(e)
  BY DEF EnabledOf, Enabled
<1>5. \A e \in cache : e.rule \in HwRules(refused) => e \in refused
  BY <1>4, InHwRules DEF Unique
<1>6. ASSUME NEW r
      PROVE  r \in HwRules(Disabled(a, refused))
               <=> r \in HwRules(cache) /\ (IsLanOf(r, a) => r \in HwRules(refused))
  <2>1. \A e \in refused : e.rule \in HwRules(refused)
    BY <1>4, InHwRules
  <2> QED BY <1>1, <1>2, <1>4, <1>5, <2>1, InHwRules
<1> QED BY <1>3, <1>6

LEMMA SomeWoken ==
  ASSUME Unique(cache), NEW a, NEW back \in SUBSET Asleep(a)
  PROVE  /\ Unique(Woken(a, back))
         /\ HwRules(Woken(a, back)) = HwRules(cache) \union {e.rule : e \in back}
<1> DEFINE S == cache \ Asleep(a)
           A == {e.rule : e \in back}
<1>1. Woken(a, back) = S \union {On(r) : r \in A}
  BY DEF Woken, On
<1>2. \A e \in Asleep(a) : e \in cache /\ ~Enabled(e)
  BY DEF Asleep, Enabled
<1>3. Unique(S) /\ \A e \in S : e.rule \notin A
  BY <1>2 DEF Unique
<1>4. ASSUME NEW q
      PROVE  q \in HwRules(S) <=> q \in HwRules(cache)
  BY <1>2, InHwRules
<1> HIDE DEF S, A
<1>5. HwRules(S) = HwRules(cache)
  BY <1>4
<1>6. /\ Unique(S \union {On(r) : r \in A})
      /\ HwRules(S \union {On(r) : r \in A}) = HwRules(S) \union A
  BY <1>3, AddMany
<1> QED BY <1>1, <1>5, <1>6 DEF A

LEMMA SomeDeleted ==
  ASSUME Unique(cache), NEW r
  PROVE  /\ Unique({e \in cache : e.rule # r})
         /\ HwRules({e \in cache : e.rule # r})
              = HwRules(cache) \ HwRules({e \in cache : e.rule = r})
<1> DEFINE Kept == {e \in cache : e.rule # r}
           Gone == {e \in cache : e.rule = r}
<1>1. Unique(Kept)
  BY DEF Unique
<1>2. ASSUME NEW q
      PROVE  q \in HwRules(Kept) <=> q \in HwRules(cache) /\ q \notin HwRules(Gone)
  BY InHwRules
<1> QED BY <1>1, <1>2

-----------------------------------------------------------------------------
(* The steps. *)

LEMMA RuleOfFacts ==
  ASSUME Typed, NEW c \in Conns
  PROVE  /\ RuleOf(c) \in Rules
         /\ RuleOf(c).conn = c
         /\ AddrOf(c) \in NatAddrs => RuleOf(c).via = "lan"
<1>1. AddrOf(c) \in NatAddrs => ~IsNonNat(AddrOf(c))
  BY NatAppAssumption DEF NatAppAssumption, Typed, IsNonNat
<1>2. AddrOf(c) \in NatAddrs => RuleOf(c) = Lan(c)
  BY <1>1 DEF RuleOf
<1> QED BY <1>2 DEF RuleOf, Lan, Dummy, Rules, Typed

LEMMA DupIsDup ==
  ASSUME NEW r
  PROVE  ChkForDup(r) <=> \E e \in cache : e.rule = r
  BY DEF ChkForDup

LEMMA NewConnectionStep ==
  ASSUME IInv, NEW c \in Conns, NewConnection(c)
  PROVE  IInv'
<1> DEFINE r == RuleOf(c)
<1>1. /\ r \in Rules /\ r.conn = c /\ (AddrOf(c) \in NatAddrs => r.via = "lan")
      /\ On(r) \in Rec /\ Out(r) \in Rec /\ On(r).rule = r /\ Out(r).rule = r
  BY RuleOfFacts, EntryFields DEF IInv, On, Out, Entry, Rec
<1>2. OpenRule(r, open') /\ \A q \in Rules : OpenRule(q, open) => OpenRule(q, open')
  BY <1>1 DEF NewConnection, OpenRule
<1>3. CASE cache' = cache /\ hw' = hw
  <2>1. HwMatchesCache'
    BY <1>3 DEF IInv, HwMatchesCache, HwRules, NewConnection
  <2>2. \/ temp' = temp
        \/ temp' = temp \union {[rule |-> r, pub |-> wan]} /\ wan \in Wans
    <3>1. CASE wan # NoWan /\ AddTempEntry(r)
      <4>1. wan \in Wans
        BY <3>1 DEF IInv, Typed
      <4> HIDE DEF r
      <4>2. temp' = temp \/ temp' = temp \union {[rule |-> r, pub |-> wan]}
        BY <3>1 DEF AddTempEntry
      <4> QED BY <4>1, <4>2
    <3> QED BY <3>1 DEF NewConnection
  <2>3. Typed'
    BY <1>1, <1>3, <2>2 DEF IInv, Typed, NewConnection, clients
  <2>4. OnlyOpenWait'
    BY <1>1, <1>2, <1>3, <2>2 DEF IInv, OnlyOpenWait, Typed, Rec
  <2> QED BY <2>1, <2>3, <2>4 DEF IInv
<1>4. CASE /\ ~\E e \in cache : e.rule = r
           /\ \/ cache' = cache \union {Out(r)} /\ hw' = hw
              \/ cache' = cache \union {On(r)} /\ hw' = hw \union {r} /\ table
           /\ temp' = temp
  <2> HIDE DEF r
  <2>1. Unique(cache) /\ hw = HwRules(cache) \union lost /\ lost' = lost
    BY DEF IInv, HwMatchesCache, Unique, NewConnection
  <2>2. Unique(cache') /\ hw' = HwRules(cache') \union lost' /\ (~table' => hw' = {})
    <3>1. CASE cache' = cache \union {Out(r)} /\ hw' = hw
      <4>1. Unique(cache') /\ HwRules(cache') = HwRules(cache)
        BY <1>4, <2>1, <3>1, AddOne
      <4>2. ~table' => hw = {}
        BY DEF IInv, HwMatchesCache, NewConnection
      <4> QED BY <2>1, <3>1, <4>1, <4>2
    <3>2. CASE cache' = cache \union {On(r)} /\ hw' = hw \union {r} /\ table
      <4>1. Unique(cache') /\ HwRules(cache') = HwRules(cache) \union {r}
        BY <1>4, <2>1, <3>2, AddOne
      <4>2. table'
        BY <3>2 DEF NewConnection
      <4> QED BY <2>1, <3>2, <4>1, <4>2
    <3> QED BY <1>4, <3>1, <3>2
  <2>3. HwMatchesCache'
    BY <2>2 DEF HwMatchesCache, Unique, HwRules
  <2>4. Typed'
    BY <1>1, <1>4 DEF IInv, Typed, NewConnection, clients
  <2>5. OnlyOpenWait'
    BY <1>1, <1>2, <1>4 DEF IInv, OnlyOpenWait, Typed, Rec
  <2> QED BY <2>3, <2>4, <2>5 DEF IInv
<1>5. (cache' = cache /\ hw' = hw) \/
      (/\ ~\E e \in cache : e.rule = r
       /\ \/ cache' = cache \union {Out(r)} /\ hw' = hw
          \/ cache' = cache \union {On(r)} /\ hw' = hw \union {r} /\ table
       /\ temp' = temp)
  BY DupIsDup DEF NewConnection, CacheEntry, AddEntry, On, Out
<1> QED BY <1>3, <1>4, <1>5

LEMMA EndConnectionStep ==
  ASSUME IInv, NEW c \in Conns, EndConnection(c)
  PROVE  IInv'
<1> DEFINE r == RuleOf(c)
<1>1. r \in Rules /\ r.conn = c /\ (AddrOf(c) \in NatAddrs => r = Lan(c))
  <2>1. r \in Rules /\ r.conn = c /\ (AddrOf(c) \in NatAddrs => r.via = "lan")
    BY RuleOfFacts DEF IInv
  <2>2. r = Lan(c) \/ r = Dummy(c)
    BY DEF RuleOf
  <2>3. Dummy(c).via = "lan" => Dummy(c) = Lan(c)
    BY DEF Dummy, Lan
  <2> QED BY <2>1, <2>2, <2>3
<1>2. /\ cache' = {e \in cache : e.rule # r}
      /\ Delete(HwRules({e \in cache : e.rule = r}))
      /\ temp' = {t \in temp : t.rule # r} /\ open' = open \ {c}
  BY DEF EndConnection, Deleted
<1>3. \A q \in Rules : OpenRule(q, open) /\ q # r => OpenRule(q, open')
  BY <1>1, <1>2 DEF OpenRule, Rules, Lan
<1> HIDE DEF r
<1>4. Unique(cache) /\ hw = HwRules(cache) \union lost
  BY DEF IInv, HwMatchesCache, Unique
<1>5. Unique(cache') /\ hw' = HwRules(cache') \union lost' /\ hw' \subseteq hw
  <2> DEFINE mine == HwRules({e \in cache : e.rule = r})
  <2>1. Unique(cache') /\ HwRules(cache') = HwRules(cache) \ mine
    BY <1>2, <1>4, SomeDeleted
  <2>2. mine \subseteq HwRules(cache)
    BY InHwRules
  <2>3. Delete(mine)
    BY <1>2
  <2> HIDE DEF mine
  <2> QED BY <1>4, <2>1, <2>2, <2>3 DEF Delete
<1>6. HwMatchesCache'
  BY <1>2, <1>5 DEF HwMatchesCache, Unique, HwRules, IInv, EndConnection
<1>7. Typed'
  BY <1>2 DEF IInv, Typed, EndConnection, clients
<1>8. OnlyOpenWait'
  BY <1>2, <1>3 DEF IInv, OnlyOpenWait, Typed, Rec
<1> QED BY <1>6, <1>7, <1>8 DEF IInv

\* the part of a flush that moves the entries of A from temp to the table
LEMMA FlushStep ==
  ASSUME IInv, UNCHANGED <<wan, table, pre, open>>, nonnat' \in Seq(NonNatAddrs),
         NEW a \in Addrs, NEW via, via = "lan" \/ (via = wan /\ a \in NonNatAddrs),
         NEW S, S \in SUBSET Rec, Unique(S), \A e \in S : OpenRule(e.rule, open),
         table \/ HwRules(S) \union lost = {}, lost' = lost,
         Flush(a, via, S, HwRules(S) \union lost)
  PROVE  IInv'
<1> DEFINE mine == {t \in temp : IsLanOf(t.rule, a) /\ table /\ t.pub = wan}
           wanted == {[conn |-> t.rule.conn, via |-> via] : t \in mine}
<1>1. PICK added \in SUBSET wanted :
        /\ \A e \in S : e.rule \notin added
        /\ cache' = S \union {Entry(r, TRUE) : r \in added}
        /\ hw' = HwRules(S) \union lost \union added
        /\ temp' = Flushed(a) \union {[rule |-> r, pub |-> wan] : r \in wanted \ added}
  BY DEF Flush
<1>2. \A r \in wanted : /\ r \in Rules /\ OpenRule(r, open)
                        /\ table /\ wan \in Wans
  <2> SUFFICES ASSUME NEW t \in mine
               PROVE  LET r == [conn |-> t.rule.conn, via |-> via]
                      IN r \in Rules /\ OpenRule(r, open) /\ table /\ wan \in Wans
    BY DEF wanted
  <2>1. /\ t.rule \in Rules /\ t.pub \in Wans /\ OpenRule(t.rule, open)
        /\ AddrOf(t.rule.conn) = a /\ table /\ t.pub = wan
    BY DEF IInv, Typed, OnlyOpenWait, IsLanOf
  <2>2. via # "lan" => a \notin NatAddrs
    BY NatAppAssumption DEF NatAppAssumption
  <2> QED BY <2>1, <2>2 DEF Rules, OpenRule
<1> HIDE DEF wanted
<1>3. \A r \in added : On(r) \in Rec /\ On(r).rule = r
  BY <1>2, EntryFields DEF On, Entry, Rec
<1>4. cache' = S \union {On(r) : r \in added}
  BY <1>1 DEF On
<1>5. Unique(cache') /\ hw' = HwRules(cache') \union lost'
  <2>1. \A e \in S : e.rule \notin added
    BY <1>1
  <2>2. /\ Unique(S \union {On(r) : r \in added})
        /\ HwRules(S \union {On(r) : r \in added}) = HwRules(S) \union added
    BY <2>1, AddMany
  <2> QED BY <1>1, <1>4, <2>2
<1>6. HwMatchesCache'
  <2>1. ~table => added = {}
    BY <1>2
  <2> QED BY <1>1, <1>5, <2>1 DEF HwMatchesCache, Unique, HwRules
<1>7. Typed'
  <2>1. temp' \in SUBSET [rule : Rules, pub : Wans]
    BY <1>1, <1>2 DEF Flushed, IInv, Typed
  <2> QED BY <1>3, <1>4, <2>1 DEF IInv, Typed
<1>8. OnlyOpenWait'
  <2>1. \A e \in cache' : OpenRule(e.rule, open)
    BY <1>2, <1>3, <1>4
  <2>2. \A t \in temp' : OpenRule(t.rule, open)
    BY <1>1, <1>2 DEF Flushed, IInv, OnlyOpenWait
  <2> QED BY <2>1, <2>2 DEF OnlyOpenWait
<1> QED BY <1>6, <1>7, <1>8 DEF IInv

LEMMA Waking ==
  ASSUME IInv, NEW a, NEW back \in MayComeBack(a)
  PROVE  LET S == Woken(a, back)
         IN /\ S \in SUBSET Rec /\ Unique(S)
            /\ \A e \in S : OpenRule(e.rule, open)
            /\ WokenHw(back) = HwRules(S) \union lost
            /\ table \/ HwRules(S) \union lost = {}
<1>1. back \in SUBSET Asleep(a) /\ (table \/ back = {})
  BY DEF MayComeBack
<1>2. Unique(cache) /\ hw = HwRules(cache) \union lost /\ (~table => hw = {})
  BY DEF IInv, HwMatchesCache, Unique
<1>3. /\ Unique(Woken(a, back))
      /\ HwRules(Woken(a, back)) \union lost = WokenHw(back)
  BY <1>1, <1>2, SomeWoken DEF WokenHw
<1>4. \A e \in Woken(a, back) : e \in Rec /\ OpenRule(e.rule, open)
  <2>1. \A e \in cache : e \in Rec /\ e.rule \in Rules /\ OpenRule(e.rule, open)
    BY DEF IInv, Typed, OnlyOpenWait, Rec
  <2>2. \A e \in back : e \in cache
    BY <1>1 DEF Asleep
  <2>3. \A e \in back : LET f == Entry(e.rule, TRUE)
                        IN f \in Rec /\ f.rule = e.rule
    BY <2>1, <2>2 DEF Entry, Rec
  <2> QED BY <2>1, <2>2, <2>3 DEF Woken
<1>5. ~table => WokenHw(back) = {}
  BY <1>1, <1>2 DEF WokenHw
<1> QED BY <1>3, <1>4, <1>5

LEMMA HandleNeighIpAddrAddEvtStep ==
  ASSUME IInv, NEW a \in Addrs, HandleNeighIpAddrAddEvt(a)
  PROVE  IInv'
<1>1. UNCHANGED <<wan, table, pre, lost, open>> /\ nonnat' \in Seq(NonNatAddrs)
  BY DEF HandleNeighIpAddrAddEvt, IInv, Typed
<1>2. CASE UNCHANGED <<cache, hw, temp>>
  BY <1>1, <1>2 DEF IInv, Typed, HwMatchesCache, HwRules, OnlyOpenWait
<1>3. CASE \E back \in MayComeBack(a) : Flush(a, "lan", Woken(a, back), WokenHw(back))
  <2>1. PICK back \in MayComeBack(a) : Flush(a, "lan", Woken(a, back), WokenHw(back))
    BY <1>3
  <2> DEFINE S == Woken(a, back)
  <2>2. /\ S \in SUBSET Rec /\ Unique(S)
        /\ \A e \in S : OpenRule(e.rule, open)
        /\ WokenHw(back) = HwRules(S) \union lost
        /\ table \/ HwRules(S) \union lost = {}
    BY Waking
  <2> HIDE DEF S
  <2>3. Flush(a, "lan", S, HwRules(S) \union lost)
    BY <2>1, <2>2 DEF S
  <2> QED BY <1>1, <2>2, <2>3, FlushStep
<1> QED BY <1>2, <1>3 DEF HandleNeighIpAddrAddEvt

\* a cache and a hardware table that agree and hold rules of open connections
LEMMA CacheStep ==
  ASSUME IInv, UNCHANGED open, wan' \in Wans \union {NoWan}, nonnat' \in Seq(NonNatAddrs),
         temp' \in SUBSET temp,
         cache' \in SUBSET Rec, \A e \in cache' : OpenRule(e.rule, open),
         Unique(cache'), hw' = HwRules(cache') \union lost', table' \/ hw' = {}
  PROVE  IInv'
<1>1. Typed'
  BY DEF IInv, Typed
<1>2. HwMatchesCache'
  BY DEF HwMatchesCache, Unique, HwRules
<1>3. OnlyOpenWait'
  BY DEF IInv, OnlyOpenWait
<1> QED BY <1>1, <1>2, <1>3 DEF IInv

LEMMA ResetPwrSaveIfStep ==
  ASSUME IInv, NEW a \in Addrs, ResetPwrSaveIf(a)
  PROVE  IInv'
<1>1. PICK back \in MayComeBack(a) : cache' = Woken(a, back) /\ hw' = WokenHw(back)
  BY DEF ResetPwrSaveIf
<1>2. /\ UNCHANGED <<open, temp, table, lost>> /\ wan' \in Wans \union {NoWan}
      /\ nonnat' \in Seq(NonNatAddrs)
  BY DEF ResetPwrSaveIf, IInv, Typed
<1>3. /\ cache' \in SUBSET Rec /\ Unique(cache')
      /\ \A e \in cache' : OpenRule(e.rule, open)
      /\ hw' = HwRules(cache') \union lost /\ (table \/ hw' = {})
  BY <1>1, Waking
<1> QED BY <1>2, <1>3, CacheStep

LEMMA DisableStep ==
  ASSUME IInv, NEW a, UNCHANGED <<wan, table, open>>, nonnat' \in Seq(NonNatAddrs),
         temp' \in SUBSET temp, Disable(a)
  PROVE  IInv'
<1>1. PICK refused \in SUBSET EnabledOf(a) :
        /\ cache' = Disabled(a, refused)
        /\ hw' = {r \in hw : IsLanOf(r, a) => r \in HwRules(refused) \union lost}
        /\ lost' = lost
  BY DEF Disable
<1>2. Unique(cache) /\ hw = HwRules(cache) \union lost /\ (table \/ hw = {})
  BY DEF IInv, HwMatchesCache, Unique
<1>3. Unique(cache') /\ hw' = HwRules(cache') \union lost'
  BY <1>1, <1>2, SomeDisabled
<1>4. \A e \in cache : LET f == Entry(e.rule, FALSE)
                       IN /\ e \in Rec /\ OpenRule(e.rule, open)
                          /\ f \in Rec /\ f.rule = e.rule
  BY DEF IInv, Typed, OnlyOpenWait, Entry, Rec
<1>5. cache' \in SUBSET Rec /\ \A e \in cache' : OpenRule(e.rule, open)
  BY <1>1, <1>4 DEF Disabled
<1>6. table' \/ hw' = {}
  BY <1>1, <1>2
<1>7. wan' \in Wans \union {NoWan}
  BY DEF IInv, Typed
<1> QED BY <1>3, <1>5, <1>6, <1>7, CacheStep

LEMMA AddNonNatIPAddrStep ==
  ASSUME IInv, NEW a \in Addrs, AddNonNatIPAddr(a)
  PROVE  IInv'
<1>1. UNCHANGED <<wan, table, pre, open>> /\ nonnat' \in Seq(NonNatAddrs)
  BY DEF AddNonNatIPAddr, IInv, Typed
<1>2. /\ cache \in SUBSET Rec /\ Unique(cache) /\ hw = HwRules(cache) \union lost
      /\ (table \/ HwRules(cache) \union lost = {}) /\ \A e \in cache : OpenRule(e.rule, open)
  BY DEF IInv, Typed, HwMatchesCache, Unique, OnlyOpenWait
<1>3. Flush(a, wan, cache, HwRules(cache) \union lost) /\ a \in NonNatAddrs /\ lost' = lost
  BY <1>2 DEF AddNonNatIPAddr
<1> QED BY <1>1, <1>2, <1>3, FlushStep

LEMMA DisconnectStep ==
  ASSUME IInv, NEW a \in Addrs, Disconnect(a), nonnat' \in Seq(NonNatAddrs)
  PROVE  IInv'
<1>1. UNCHANGED <<wan, table, open>> /\ temp' \in SUBSET temp /\ Disable(a)
  BY DEF Disconnect, Flushed
<1> QED BY <1>1, DisableStep

LEMMA DeleteNonNatIPAddrStep ==
  ASSUME IInv, NEW a \in Addrs, DeleteNonNatIPAddr(a)
  PROVE  IInv'
<1>1. nonnat \in Seq(NonNatAddrs)
  BY DEF IInv, Typed
<1>2. PICK i \in DOMAIN nonnat :
        nonnat' = SubSeq(nonnat, 1, i - 1) \o SubSeq(nonnat, i + 1, Len(nonnat))
  BY DEF DeleteNonNatIPAddr
<1>3. i \in 1..Len(nonnat)
  BY <1>1
<1>4. /\ SubSeq(nonnat, 1, i - 1) \in Seq(NonNatAddrs)
      /\ SubSeq(nonnat, i + 1, Len(nonnat)) \in Seq(NonNatAddrs)
  BY <1>1, <1>3
<1>5. nonnat' \in Seq(NonNatAddrs)
  BY <1>2, <1>4
<1> QED BY <1>5, DisconnectStep DEF DeleteNonNatIPAddr

LEMMA UpdatePwrSaveIfStep ==
  ASSUME IInv, NEW a \in Addrs, UpdatePwrSaveIf(a)
  PROVE  IInv'
<1>1. UNCHANGED <<wan, table, open, temp, nonnat>> /\ nonnat' \in Seq(NonNatAddrs)
  BY DEF UpdatePwrSaveIf, IInv, Typed
<1>2. CASE UNCHANGED <<cache, hw, lost>>
  BY <1>1, <1>2 DEF IInv, Typed, HwMatchesCache, HwRules, OnlyOpenWait
<1>3. CASE Disable(a)
  BY <1>1, <1>3, DisableStep
<1> QED BY <1>2, <1>3 DEF UpdatePwrSaveIf

(* AddTable starts from a cache without enabled entries. *)
LEMMA AddTableStep ==
  ASSUME IInv, NEW w, wan' \in Wans \union {NoWan}, NEW before,
         UNCHANGED <<open, temp, nonnat>>,
         NEW S, S \in SUBSET Rec, Unique(S), HwRules(S) = {},
         \A e \in S : OpenRule(e.rule, open),
         AddTable(w, before, S)
  PROVE  IInv'
<1>1. nonnat' \in Seq(NonNatAddrs) /\ temp' \in SUBSET temp /\ lost' = {}
  BY DEF IInv, Typed, AddTable
<1>2. CASE cache' = S /\ hw' = {}
  BY <1>1, <1>2, CacheStep
<1>3. CASE \E added \in SUBSET S :
             /\ cache' = {Entry(e.rule, TRUE) : e \in added}
             /\ hw' = {e.rule : e \in added} /\ table'
  <2>1. PICK added \in SUBSET S :
          /\ cache' = {Entry(e.rule, TRUE) : e \in added}
          /\ hw' = {e.rule : e \in added} /\ table'
    BY <1>3
  <2> DEFINE A == {e.rule : e \in added}
  <2>2. cache' = {} \union {On(r) : r \in A}
    BY <2>1 DEF On
  <2>3. HwRules({}) = {} /\ Unique({})
    BY InHwRules DEF Unique
  <2>4. \A r \in A : On(r) \in Rec /\ OpenRule(On(r).rule, open)
    BY EntryFields DEF On, Entry, Rec
  <2>5. cache' \in SUBSET Rec /\ \A e \in cache' : OpenRule(e.rule, open)
    BY <2>2, <2>4
  <2> HIDE DEF A
  <2>6. /\ Unique({} \union {On(r) : r \in A})
        /\ HwRules({} \union {On(r) : r \in A}) = HwRules({}) \union A
    BY <2>3, AddMany
  <2>7. Unique(cache') /\ hw' = HwRules(cache')
    BY <2>1, <2>2, <2>3, <2>6 DEF A
  <2> QED BY <1>1, <2>1, <2>5, <2>7, CacheStep
<1> QED BY <1>2, <1>3 DEF AddTable

LEMMA ResetRules ==
  ASSUME IInv
  PROVE  /\ Reset \in SUBSET Rec /\ Unique(Reset) /\ HwRules(Reset) = {}
         /\ \A e \in Reset : OpenRule(e.rule, open)
<1>1. Reset = {Out(e.rule) : e \in cache}
  BY DEF Reset, Out
<1>2. Unique(Reset) /\ HwRules(Reset) = {}
  BY <1>1, AllOut
<1>3. \A e \in cache : /\ Out(e.rule) \in Rec /\ Out(e.rule).rule = e.rule
                      /\ OpenRule(e.rule, open)
  BY EntryFields DEF IInv, Typed, OnlyOpenWait, Out, Entry, Rec
<1> QED BY <1>1, <1>2, <1>3

LEMMA TriggerWANUpStep ==
  ASSUME IInv, NEW w \in Wans, TriggerWANUp(w)
  PROVE  IInv'
<1>1. wan' \in Wans \union {NoWan} /\ UNCHANGED <<open, temp, nonnat>>
  BY DEF TriggerWANUp, clients
<1>2. CASE ~table /\ AddTable(w, pre, cache)
  <2>1. /\ cache \in SUBSET Rec /\ Unique(cache) /\ HwRules(cache) = {}
        /\ \A e \in cache : OpenRule(e.rule, open)
    BY <1>2 DEF IInv, Typed, HwMatchesCache, Unique, OnlyOpenWait
  <2> QED BY <1>1, <1>2, <2>1, AddTableStep
<1>3. CASE AddTable(w, wan, Reset)
  BY <1>1, <1>3, ResetRules, AddTableStep
<1> QED BY <1>2, <1>3 DEF TriggerWANUp

LEMMA TriggerWANDownStep ==
  ASSUME IInv, TriggerWANDown
  PROVE  IInv'
<1>1. /\ wan' \in Wans \union {NoWan} /\ UNCHANGED <<open, temp, nonnat>>
      /\ cache' = Reset /\ hw' = {} /\ lost' = {}
  BY DEF TriggerWANDown, clients
<1>2. nonnat' \in Seq(NonNatAddrs) /\ temp' \in SUBSET temp
  BY <1>1 DEF IInv, Typed
<1> QED BY <1>1, <1>2, ResetRules, CacheStep

-----------------------------------------------------------------------------
LEMMA Initially == Init => IInv
<1> SUFFICES ASSUME Init PROVE IInv
  OBVIOUS
<1>1. Typed /\ OnlyOpenWait
  BY DEF Init, Typed, OnlyOpenWait
<1>2. HwMatchesCache
  BY InHwRules DEF Init, HwMatchesCache
<1> QED BY <1>1, <1>2 DEF IInv

LEMMA Inductive == IInv /\ [Next]_vars => IInv'
<1> SUFFICES ASSUME IInv, [Next]_vars PROVE IInv'
  OBVIOUS
<1>1. ASSUME NEW c \in Conns, NewConnection(c) \/ EndConnection(c) PROVE IInv'
  BY <1>1, NewConnectionStep, EndConnectionStep
<1>2. ASSUME NEW a \in Addrs, HandleNeighIpAddrAddEvt(a) PROVE IInv'
  BY <1>2, HandleNeighIpAddrAddEvtStep
<1>3. ASSUME NEW a \in Addrs, HandleNeighIpAddrDelEvt(a) PROVE IInv'
  <2>1. nonnat' \in Seq(NonNatAddrs) /\ Disconnect(a)
    BY <1>3 DEF HandleNeighIpAddrDelEvt, IInv, Typed
  <2> QED BY <2>1, DisconnectStep
<1>4. ASSUME NEW a \in Addrs, AddNonNatIPAddr(a) \/ DeleteNonNatIPAddr(a) PROVE IInv'
  BY <1>4, AddNonNatIPAddrStep, DeleteNonNatIPAddrStep
<1>5. ASSUME NEW a \in Addrs, UpdatePwrSaveIf(a) \/ ResetPwrSaveIf(a) PROVE IInv'
  BY <1>5, UpdatePwrSaveIfStep, ResetPwrSaveIfStep
<1>6. ASSUME NEW w \in Wans, TriggerWANUp(w) PROVE IInv'
  BY <1>6, TriggerWANUpStep
<1>7. CASE TriggerWANDown
  BY <1>7, TriggerWANDownStep
<1>8. CASE UNCHANGED vars
  BY <1>8 DEF vars, clients, IInv, Typed, HwMatchesCache, HwRules, OnlyOpenWait
<1> QED BY <1>1, <1>2, <1>3, <1>4, <1>5, <1>6, <1>7, <1>8
        DEF Next, Conntrack, Client, Wan

LEMMA Invariant == Spec => []IInv
  BY Initially, Inductive, PTL DEF Spec

(* The rules of the hardware are those of the enabled entries of the cache,   *)
(* one for each connection, whatever the driver refuses and however clients,  *)
(* power save and the WAN come and go (class NatApp); but for those whose     *)
(* deletion it refused when their connection ended (DeleteEntry).             *)
THEOREM HwAlwaysMatches == Spec => []HwMatchesCache
<1>1. IInv => HwMatchesCache
  BY DEF IInv
<1> QED BY <1>1, Invariant, PTL

(* Behind a NAT interface only open connections are offloaded: no entry that  *)
(* is put back, woken up or flushed outlives its connection (class NatApp and *)
(* AddORDeleteNatEntry), but for a rule whose deletion the driver refused.     *)
THEOREM OnlyOpenOffloaded == Spec => []OnlyOpenConnections
<1>1. ASSUME IInv PROVE OnlyOpenConnections
  <2>1. \A r \in hw : (\E e \in cache : e.rule = r) \/ r \in lost
    BY <1>1, InHwRules DEF IInv, HwMatchesCache
  <2> QED BY <1>1, <2>1 DEF OnlyOpenConnections, IInv, OnlyOpenWait, OpenRule
<1> QED BY <1>1, Invariant, PTL
-----------------------------------------------------------------------------
(* Who waits in temp. *)

(* Only a flush writes a rule that has the public address, and what it writes *)
(* back to temp is stuck.                                                     *)
OnlyStuckAreDummies == \A t \in temp : t.rule.via = "lan" \/ t.rule \in stuck
TempInv == OnlyStuckAreDummies /\ TempWaits

Behind(a) == a \in nat \/ IsNonNat(a)

\* nobody new is behind the device but a, whose entries leave temp or are stuck
LEMMA TempStep ==
  ASSUME TempInv, stuck \subseteq stuck', NEW a,
         \A b : Behind(b)' => Behind(b) \/ b = a,
         \A t \in temp' : \/ t \in temp /\ ~IsLanOf(t.rule, a)
                          \/ t.rule \in stuck'
  PROVE  TempInv'
<1>1. \A t \in temp' : t.rule.via = "lan" \/ t.rule \in stuck'
  BY DEF TempInv, OnlyStuckAreDummies
<1>2. ASSUME NEW t \in temp', Behind(AddrOf(t.rule.conn))' PROVE t.rule \in stuck'
  <2>1. CASE Behind(AddrOf(t.rule.conn)) /\ t \in temp
    BY <2>1 DEF TempInv, TempWaits, Behind
  <2>2. CASE AddrOf(t.rule.conn) = a /\ t \in temp /\ ~IsLanOf(t.rule, a)
    BY <1>1, <2>2 DEF IsLanOf
  <2> QED BY <1>2, <2>1, <2>2
<1> QED BY <1>1, <1>2 DEF TempInv, OnlyStuckAreDummies, TempWaits, Behind

\* nobody new at all, and only entries of others come to temp
LEMMA TempSame ==
  ASSUME TempInv, stuck' = stuck, \A b : Behind(b)' => Behind(b),
         \A t \in temp' : t \in temp \/ (t.rule.via = "lan" /\ ~Behind(AddrOf(t.rule.conn)))
  PROVE  TempInv'
BY DEF TempInv, OnlyStuckAreDummies, TempWaits, Behind

LEMMA FlushTemp ==
  ASSUME TempInv, NEW a, NEW via, NEW S, NEW H, Flush(a, via, S, H),
         \A b : Behind(b)' => Behind(b) \/ b = a
  PROVE  TempInv'
<1> DEFINE mine == {t \in temp : IsLanOf(t.rule, a) /\ table /\ t.pub = wan}
           wanted == {[conn |-> t.rule.conn, via |-> via] : t \in mine}
<1>1. PICK added \in SUBSET wanted :
        /\ temp' = Flushed(a) \union {[rule |-> r, pub |-> wan] : r \in wanted \ added}
        /\ stuck' = stuck \union (wanted \ added)
  BY DEF Flush
<1> HIDE DEF wanted
<1>2. \A t \in temp' : (t \in temp /\ ~IsLanOf(t.rule, a)) \/ t.rule \in stuck'
  BY <1>1 DEF Flushed
<1> QED BY <1>1, <1>2, TempStep

LEMMA TempInductive == TempInv /\ IInv /\ [Next]_vars => TempInv'
<1> SUFFICES ASSUME TempInv, IInv, [Next]_vars PROVE TempInv'
  OBVIOUS
<1> USE DEF clients
<1>1. ASSUME NEW c \in Conns, NewConnection(c) PROVE TempInv'
  <2>1. CASE temp' = temp
    BY <1>1, <2>1, TempSame DEF NewConnection, Behind, IsNonNat
  <2>2. CASE IsTemp(c) /\ AddTempEntry(RuleOf(c))
    <3>1. RuleOf(c) = Lan(c) /\ ~Behind(AddrOf(c))
      BY <2>2 DEF IsTemp, RuleOf, Behind
    <3>2. temp' \subseteq temp \union {[rule |-> Lan(c), pub |-> wan]}
      BY <2>2, <3>1 DEF AddTempEntry
    <3>3. Lan(c).via = "lan" /\ Lan(c).conn = c
      BY DEF Lan
    <3> QED BY <1>1, <3>1, <3>2, <3>3, TempSame DEF NewConnection, Behind, IsNonNat
  <2> QED BY <1>1, <2>1, <2>2 DEF NewConnection
<1>2. ASSUME NEW c \in Conns, EndConnection(c) PROVE TempInv'
  BY <1>2, TempSame DEF EndConnection, Behind, IsNonNat
<1>3. ASSUME NEW a \in Addrs, HandleNeighIpAddrAddEvt(a) PROVE TempInv'
  <2>1. CASE UNCHANGED <<nat, temp, stuck>>
    BY <1>3, <2>1, TempSame DEF HandleNeighIpAddrAddEvt, Behind, IsNonNat
  <2>2. CASE /\ nat' = nat \union {a}
             /\ \E back \in MayComeBack(a) : Flush(a, "lan", Woken(a, back), WokenHw(back))
    <3>1. \A b : Behind(b)' => Behind(b) \/ b = a
      BY <1>3, <2>2 DEF HandleNeighIpAddrAddEvt, Behind, IsNonNat
    <3> QED BY <2>2, <3>1, FlushTemp
  <2> QED BY <1>3, <2>1, <2>2 DEF HandleNeighIpAddrAddEvt
<1>4. ASSUME NEW a \in Addrs, HandleNeighIpAddrDelEvt(a) PROVE TempInv'
  BY <1>4, TempSame DEF HandleNeighIpAddrDelEvt, Disconnect, Flushed, Behind, IsNonNat
<1>5. ASSUME NEW a \in Addrs, AddNonNatIPAddr(a) PROVE TempInv'
  <2>1. nonnat \in Seq(NonNatAddrs) /\ nonnat' = Append(nonnat, a) /\ nat' = nat
    BY <1>5 DEF IInv, Typed, AddNonNatIPAddr
  <2>2. \A i \in DOMAIN nonnat' : nonnat'[i] = a \/ (i \in DOMAIN nonnat /\ nonnat'[i] = nonnat[i])
    BY <1>5, <2>1 DEF AddNonNatIPAddr
  <2>3. \A b : Behind(b)' => Behind(b) \/ b = a
    BY <2>1, <2>2 DEF Behind, IsNonNat
  <2> QED BY <1>5, <2>3, FlushTemp DEF AddNonNatIPAddr
<1>6. ASSUME NEW a \in Addrs, DeleteNonNatIPAddr(a) PROVE TempInv'
  <2>1. nonnat \in Seq(NonNatAddrs)
    BY DEF IInv, Typed
  <2>2. PICK i \in DOMAIN nonnat :
          nonnat' = SubSeq(nonnat, 1, i - 1) \o SubSeq(nonnat, i + 1, Len(nonnat))
    BY <1>6 DEF DeleteNonNatIPAddr
  <2>3. i \in 1..Len(nonnat)
    BY <2>1
  <2>4. \A j \in DOMAIN nonnat' : \E k \in DOMAIN nonnat : nonnat'[j] = nonnat[k]
    <3> DEFINE front == SubSeq(nonnat, 1, i - 1)
               back == SubSeq(nonnat, i + 1, Len(nonnat))
    <3>1. /\ front \in Seq(NonNatAddrs) /\ Len(front) = i - 1
          /\ \A j \in 1..(i - 1) : front[j] = nonnat[j]
      BY <2>1, <2>3
    <3>2. /\ back \in Seq(NonNatAddrs) /\ Len(back) = Len(nonnat) - i
          /\ \A j \in 1..(Len(nonnat) - i) : back[j] = nonnat[i + j]
      BY <2>1, <2>3
    <3> HIDE DEF front, back
    <3>3. nonnat' = front \o back
      BY <2>2 DEF front, back
    <3>4. Range(nonnat') = Range(front) \union Range(back)
      BY <3>1, <3>2, <3>3, RangeConcatenation
    <3>5. ASSUME NEW j \in DOMAIN front PROVE \E k \in DOMAIN nonnat : front[j] = nonnat[k]
      BY <2>1, <2>3, <3>1
    <3>6. ASSUME NEW j \in DOMAIN back PROVE \E k \in DOMAIN nonnat : back[j] = nonnat[k]
      <4>1. j \in 1..(Len(nonnat) - i) /\ i + j \in DOMAIN nonnat
        BY <2>1, <2>3, <3>2
      <4> QED BY <3>2, <4>1
    <3> QED BY <3>4, <3>5, <3>6 DEF Range
  <2>5. \A b : Behind(b)' => Behind(b)
    BY <1>6, <2>4 DEF DeleteNonNatIPAddr, Behind, IsNonNat
  <2> QED BY <1>6, <2>5, TempSame DEF DeleteNonNatIPAddr, Disconnect, Flushed
<1>7. ASSUME NEW a \in Addrs, UpdatePwrSaveIf(a) \/ ResetPwrSaveIf(a) PROVE TempInv'
  BY <1>7, TempSame DEF UpdatePwrSaveIf, ResetPwrSaveIf, Behind, IsNonNat
<1>8. ASSUME NEW w \in Wans, TriggerWANUp(w) PROVE TempInv'
  BY <1>8, TempSame DEF TriggerWANUp, Behind, IsNonNat
<1>9. CASE TriggerWANDown
  BY <1>9, TempSame DEF TriggerWANDown, Behind, IsNonNat
<1>10. CASE UNCHANGED vars
  BY <1>10, TempSame DEF vars, Behind, IsNonNat
<1> QED BY <1>1, <1>2, <1>3, <1>4, <1>5, <1>6, <1>7, <1>8, <1>9, <1>10
        DEF Next, Conntrack, Client, Wan

(* Who waits in temp is a client that no list has, or what a flush could not  *)
(* move (AddTempEntry, FlushTempEntries).                                     *)
THEOREM TempOnlyWaits == Spec => []TempWaits
<1>1. Init => TempInv
  BY DEF Init, TempInv, OnlyStuckAreDummies, TempWaits
<1>2. TempInv => TempWaits
  BY DEF TempInv
<1>3. IInv /\ TempInv /\ [Next]_vars => TempInv'
  BY TempInductive
<1> QED BY <1>1, <1>2, <1>3, Invariant, PTL DEF Spec

-----------------------------------------------------------------------------
(* One's complement numbers are equal when they differ by a multiple of       *)
(* Top.                                                                       *)
Same(x, y) == \E k \in Int : x - y = k * Top

(* The multiples that the carries of up to five additions can make.           *)
LEMMA SameFrom ==
  ASSUME NEW x \in Int, NEW y \in Int,
         \/ x - y = -(2 * Top) \/ x - y = -Top \/ x - y = 0
         \/ x - y = Top \/ x - y = 2 * Top \/ x - y = 3 * Top
  PROVE  Same(x, y)
<1> USE ChecksumAssumption DEF ChecksumAssumption
<1>1. \/ x - y = (-2) * Top \/ x - y = (-1) * Top \/ x - y = 0 * Top
      \/ x - y = 1 * Top \/ x - y = 2 * Top \/ x - y = 3 * Top
  OBVIOUS
<1>2. {-2, -1, 0, 1, 2, 3} \subseteq Int  OBVIOUS
<1>3. \E k \in {-2, -1, 0, 1, 2, 3} : x - y = k * Top  BY <1>1
<1> QED BY <1>2, <1>3 DEF Same

(* A sum of two halves keeps its value and stays within 16 bits.              *)
LEMMA CarriedSum ==
  ASSUME NEW c \in 0..(2 * Top)
  PROVE  Carried(c) \in Half /\ (Carried(c) = c \/ Carried(c) = c - Top)
BY ChecksumAssumption DEF ChecksumAssumption, Carried, Half

(* Subtracting a half, as ipa_nati_calc_ip_cksum does it.                     *)
LEMMA MinusHalf ==
  ASSUME NEW c \in Half, NEW v \in Half
  PROVE  Minus(c, v) \in Half /\ (Minus(c, v) = c - v \/ Minus(c, v) = c - v + Top)
<1>1. c + (Top - v) \in 0..(2 * Top)  BY ChecksumAssumption DEF ChecksumAssumption, Half
<1> QED BY <1>1, CarriedSum, ChecksumAssumption DEF ChecksumAssumption, Minus, Plus, Half

LEMMA PlusHalf ==
  ASSUME NEW c \in Half, NEW v \in Half
  PROVE  Plus(c, v) \in Half /\ (Plus(c, v) = c + v \/ Plus(c, v) = c + v - Top)
<1>1. c + v \in 0..(2 * Top)  BY ChecksumAssumption DEF ChecksumAssumption, Half
<1> QED BY <1>1, CarriedSum, ChecksumAssumption DEF ChecksumAssumption, Plus, Half

(* ipa_nati_calc_ip_cksum: the public address less the private one, within 16 *)
(* bits.                                                                      *)
THEOREM IpCksumExact ==
  ASSUME NEW pub_lo \in Half, NEW pub_hi \in Half, NEW priv_lo \in Half, NEW priv_hi \in Half
  PROVE  /\ ip_cksum(pub_lo, pub_hi, priv_lo, priv_hi) \in Half
         /\ Same(ip_cksum(pub_lo, pub_hi, priv_lo, priv_hi),
                 (pub_lo + pub_hi) - (priv_lo + priv_hi))
<1> DEFINE a == Carried(pub_lo + pub_hi)
           b == Minus(a, priv_lo)
           c == Minus(b, priv_hi)
<1>1. pub_lo + pub_hi \in 0..(2 * Top)  BY ChecksumAssumption DEF ChecksumAssumption, Half
<1>2. a \in Half /\ (a = pub_lo + pub_hi \/ a = pub_lo + pub_hi - Top)
  BY <1>1, CarriedSum, ChecksumAssumption DEF ChecksumAssumption, Half
<1>3. b \in Half /\ (b = a - priv_lo \/ b = a - priv_lo + Top)
  BY <1>2, MinusHalf
<1>4. c \in Half /\ (c = b - priv_hi \/ c = b - priv_hi + Top)
  BY <1>3, MinusHalf
<1> HIDE DEF a, b, c
<1>5. LET x == c - ((pub_lo + pub_hi) - (priv_lo + priv_hi))
      IN x = -Top \/ x = 0 \/ x = Top \/ x = 2 * Top
  BY <1>2, <1>3, <1>4, ChecksumAssumption DEF ChecksumAssumption, Half
<1>6. Same(c, (pub_lo + pub_hi) - (priv_lo + priv_hi))
  BY <1>4, <1>5, SameFrom, ChecksumAssumption DEF ChecksumAssumption, Half
<1> QED BY <1>4, <1>6 DEF ip_cksum, a, b, c

(* ipa_nati_calc_tcp_udp_cksum: the same with the ports.                      *)
THEOREM TcpUdpCksumExact ==
  ASSUME NEW pub_lo \in Half, NEW pub_hi \in Half, NEW priv_lo \in Half, NEW priv_hi \in Half,
         NEW pp \in Half, NEW vp \in Half
  PROVE  /\ tcp_udp_cksum(pub_lo, pub_hi, pp, priv_lo, priv_hi, vp) \in Half
         /\ Same(tcp_udp_cksum(pub_lo, pub_hi, pp, priv_lo, priv_hi, vp),
                 (pub_lo + pub_hi + pp) - (priv_lo + priv_hi + vp))
<1> DEFINE a == Carried(pub_lo + pub_hi)
           p == Plus(a, pp)
           b == Minus(p, priv_lo)
           c == Minus(b, priv_hi)
           d == Minus(c, vp)
<1>1. pub_lo + pub_hi \in 0..(2 * Top)  BY ChecksumAssumption DEF ChecksumAssumption, Half
<1>2. a \in Half /\ (a = pub_lo + pub_hi \/ a = pub_lo + pub_hi - Top)
  BY <1>1, CarriedSum, ChecksumAssumption DEF ChecksumAssumption, Half
<1>3. p \in Half /\ (p = a + pp \/ p = a + pp - Top)
  BY <1>2, PlusHalf
<1>4. b \in Half /\ (b = p - priv_lo \/ b = p - priv_lo + Top)
  BY <1>3, MinusHalf
<1>5. c \in Half /\ (c = b - priv_hi \/ c = b - priv_hi + Top)
  BY <1>4, MinusHalf
<1>6. d \in Half /\ (d = c - vp \/ d = c - vp + Top)
  BY <1>5, MinusHalf
<1> HIDE DEF a, p, b, c, d
<1>7. LET x == d - ((pub_lo + pub_hi + pp) - (priv_lo + priv_hi + vp))
      IN x = -(2 * Top) \/ x = -Top \/ x = 0 \/ x = Top \/ x = 2 * Top \/ x = 3 * Top
  BY <1>2, <1>3, <1>4, <1>5, <1>6, ChecksumAssumption DEF ChecksumAssumption, Half
<1>8. Same(d, (pub_lo + pub_hi + pp) - (priv_lo + priv_hi + vp))
  BY <1>6, <1>7, SameFrom, ChecksumAssumption DEF ChecksumAssumption, Half
<1> QED BY <1>6, <1>8 DEF tcp_udp_cksum, a, p, b, c, d

-----------------------------------------------------------------------------
(* NatTable.  Chain(f, h) is what the hardware walks from h on: the least set *)
(* that holds h and what follows its entries.  The induction over how many *)
(* entries are left is made with the largest set the function is wrong of. *)

(* Links that lead to entries of the table. *)
Threaded(f) ==
  /\ IsFiniteSet(DOMAIN f) /\ 0 \in DOMAIN f
  /\ \A e \in DOMAIN f : f[e].next \in DOMAIN f

(* The least set that holds S and what follows its entries. *)
ClosedUnder(f, C) == \A e \in C \ {0} : f[e].next \in C
Least(f, S) ==
  {x \in DOMAIN f : \A C \in SUBSET DOMAIN f : S \subseteq C /\ ClosedUnder(f, C) => x \in C}

LEMMA LeastStep ==
  ASSUME NEW f, Threaded(f), NEW S \in SUBSET DOMAIN f
  PROVE  /\ Followed(f, S) \in SUBSET DOMAIN f
         /\ Followed(f, S) = S => Least(f, S) = S
         /\ Least(f, S) = Least(f, Followed(f, S))
<1>1. Followed(f, S) \in SUBSET DOMAIN f
  BY DEF Followed, Threaded
<1>2. ASSUME Followed(f, S) = S PROVE Least(f, S) = S
  <2>1. ClosedUnder(f, S)
    BY <1>2 DEF Followed, ClosedUnder
  <2> QED BY <2>1 DEF Least
<1>3. ASSUME NEW C \in SUBSET DOMAIN f, ClosedUnder(f, C)
      PROVE  S \subseteq C <=> Followed(f, S) \subseteq C
  BY <1>3 DEF Followed, ClosedUnder
<1>4. Least(f, S) = Least(f, Followed(f, S))
  BY <1>3 DEF Least
<1> QED BY <1>1, <1>2, <1>4

(* A set of subsets of a finite set has a largest element. *)
LEMMA Largest ==
  ASSUME NEW D, IsFiniteSet(D), NEW B \in SUBSET SUBSET D, B # {}
  PROVE  \E S \in B : \A T \in B : S \subseteq T => T = S
<1> DEFINE W == {D \ S : S \in B}
<1>1. W \subseteq FiniteSubsetsOf(D)
  <2>1. ASSUME NEW S \in B PROVE D \ S \in FiniteSubsetsOf(D)
    <3>1. IsFiniteSet(D \ S)
      BY FS_Subset
    <3> QED BY <3>1 DEF FiniteSubsetsOf
  <2> QED BY <2>1
<1>2. PICK x \in W : \A y \in W : ~(<<y, x>> \in StrictSubsetOrdering(D))
  <2> DEFINE R == StrictSubsetOrdering(D)
             F == FiniteSubsetsOf(D)
  <2>1. IsWellFoundedOn(R, F)
    BY FS_StrictSubsetOrderingWellFounded
  <2>2. W \subseteq F /\ W # {}
    <3>1. PICK S : S \in B
      OBVIOUS
    <3>2. D \ S \in W
      BY <3>1
    <3> HIDE DEF W
    <3> QED BY <1>1, <3>2
  <2> HIDE DEF W, R, F
  <2>3. \E x \in W : \A y \in W : ~(<<y, x>> \in R)
    BY <2>1, <2>2, WFMin
  <2> QED BY <2>3, Zenon DEF R
<1>3. PICK S \in B : x = D \ S
  OBVIOUS
<1>4. ASSUME NEW T \in B, S \subseteq T PROVE T = S
  <2>1. D \ T \in W
    OBVIOUS
  <2>2. ~(<<D \ T, x>> \in StrictSubsetOrdering(D))
    BY <2>1, <1>2
  <2>3. D \ T = D \ S
    BY <2>2, <1>3, <1>4 DEF StrictSubsetOrdering
  <2> QED BY <2>3, <1>4
<1> QED BY <1>4

LEMMA FollowUnique ==
  ASSUME NEW f, Threaded(f), NEW g,
         g = [S \in SUBSET DOMAIN f |-> IF Followed(f, S) = S THEN S ELSE g[Followed(f, S)]]
  PROVE  \A S \in SUBSET DOMAIN f : g[S] = Least(f, S)
<1> DEFINE B == {S \in SUBSET DOMAIN f : g[S] # Least(f, S)}
<1> SUFFICES ASSUME B # {} PROVE FALSE
  OBVIOUS
<1>1. PICK S \in B : \A T \in B : S \subseteq T => T = S
  <2>1. B \in SUBSET SUBSET DOMAIN f
    OBVIOUS
  <2> HIDE DEF B
  <2> QED BY <2>1, Largest DEF Threaded
<1>2. S \in SUBSET DOMAIN f /\ g[S] # Least(f, S)
  OBVIOUS
<1>3. g[S] = IF Followed(f, S) = S THEN S ELSE g[Followed(f, S)]
  BY <1>2
<1>4. CASE Followed(f, S) = S
  BY <1>2, <1>3, <1>4, LeastStep
<1>5. CASE Followed(f, S) # S
  <2>1. S \subseteq Followed(f, S)
    BY DEF Followed
  <2>2. Followed(f, S) \notin B
    BY <1>1, <1>5, <2>1
  <2>3. g[Followed(f, S)] = Least(f, Followed(f, S))
    BY <2>2, <1>2, LeastStep
  <2> QED BY <2>3, <1>2, <1>3, <1>5, LeastStep
<1> QED BY <1>4, <1>5

LEMMA ChainIs ==
  ASSUME NEW f, Threaded(f), NEW h \in DOMAIN f
  PROVE  Chain(f, h) = Least(f, {h}) \ {0}
<1> DEFINE D == SUBSET DOMAIN f
           L == [S \in D |-> Least(f, S)]
           Eq(g) == g = [S \in D |-> IF Followed(f, S) = S THEN S ELSE g[Followed(f, S)]]
           c == CHOOSE g : Eq(g)
<1>1. L = [S \in D |-> IF Followed(f, S) = S THEN S ELSE L[Followed(f, S)]]
  <2>1. ASSUME NEW S \in D
        PROVE  Least(f, S) = IF Followed(f, S) = S THEN S ELSE L[Followed(f, S)]
    BY LeastStep
  <2> QED BY <2>1
<1>2. Eq(L)
  BY <1>1
<1>3. Eq(c)
  <2> HIDE DEF Eq, L
  <2> QED BY <1>2
<1>4. \A S \in D : c[S] = Least(f, S)
  <2>1. c = [S \in D |-> IF Followed(f, S) = S THEN S ELSE c[Followed(f, S)]]
    BY <1>3
  <2> HIDE DEF c
  <2> QED BY <2>1, FollowUnique
<1>5. Chain(f, h) = c[{h}] \ {0}
  BY DEF Chain
<1> QED BY <1>4, <1>5

LEMMA ChainFacts ==
  ASSUME NEW f, Threaded(f), NEW h \in DOMAIN f \ {0}
  PROVE  /\ Chain(f, h) \subseteq DOMAIN f \ {0}
         /\ h \in Chain(f, h)
         /\ \A e \in Chain(f, h) : f[e].next # 0 => f[e].next \in Chain(f, h)
<1>1. Chain(f, h) = Least(f, {h}) \ {0}
  BY ChainIs
<1>2. h \in Least(f, {h}) /\ Least(f, {h}) \subseteq DOMAIN f
  BY DEF Least
<1>3. ASSUME NEW e \in Least(f, {h}), e # 0 PROVE f[e].next \in Least(f, {h})
  BY <1>3 DEF Least, ClosedUnder, Threaded
<1> QED BY <1>1, <1>2, <1>3

LEMMA ChainLeast ==
  ASSUME NEW f, Threaded(f), NEW h \in DOMAIN f \ {0},
         NEW C \in SUBSET DOMAIN f, h \in C,
         \A e \in C \ {0} : f[e].next # 0 => f[e].next \in C
  PROVE  Chain(f, h) \subseteq C
<1>1. Chain(f, h) = Least(f, {h}) \ {0}
  BY ChainIs
<1>2. ClosedUnder(f, C \union {0})
  BY DEF ClosedUnder
<1>3. C \union {0} \in SUBSET DOMAIN f
  BY DEF Threaded
<1> QED BY <1>1, <1>2, <1>3 DEF Least

(* A chain grows when only its last link is changed. *)
LEMMA ChainGrows ==
  ASSUME NEW f, Threaded(f), NEW g, Threaded(g), DOMAIN g = DOMAIN f,
         NEW h \in DOMAIN f \ {0},
         \A x \in Chain(f, h) : f[x].next # 0 => g[x].next = f[x].next
  PROVE  Chain(f, h) \subseteq Chain(g, h)
<1> DEFINE T == Chain(f, h) \intersect Chain(g, h)
<1>1. h \in T /\ T \in SUBSET DOMAIN f
  BY ChainFacts
<1>2. ASSUME NEW e \in T, f[e].next # 0 PROVE f[e].next \in T
  BY <1>2, ChainFacts
<1>3. Chain(f, h) \subseteq T
  <2> HIDE DEF T
  <2> QED BY <1>1, <1>2, ChainLeast
<1> QED BY <1>3

LEMMA ChainSame ==
  ASSUME NEW f, Threaded(f), NEW g, Threaded(g), DOMAIN g = DOMAIN f,
         NEW h \in DOMAIN f \ {0},
         \A x \in Chain(f, h) : g[x].next = f[x].next
  PROVE  Chain(g, h) = Chain(f, h)
<1>1. Chain(f, h) \subseteq Chain(g, h)
  BY ChainGrows
<1>2. Chain(f, h) \in SUBSET DOMAIN g /\ h \in Chain(f, h)
  BY ChainFacts
<1>3. \A x \in Chain(f, h) : g[x].next # 0 => g[x].next \in Chain(f, h)
  BY ChainFacts
<1>4. Chain(g, h) \subseteq Chain(f, h)
  BY <1>2, <1>3, ChainLeast
<1> QED BY <1>1, <1>4

(* What becomes of a chain when the entry before e is linked past it. *)
LEMMA ChainUnlinked ==
  ASSUME NEW f, Threaded(f), NEW g, Threaded(g), DOMAIN g = DOMAIN f,
         NEW h \in DOMAIN f \ {0}, NEW e \in DOMAIN f \ {0}, e # h, NEW p \in DOMAIN f \ {0, e},
         f[p].next = e,
         \A x \in Chain(f, h) : f[x].next = e => x = p,
         g[p].next = f[e].next,
         \A x \in DOMAIN f \ {p, e} : g[x].next = f[x].next
  PROVE  Chain(g, h) = Chain(f, h) \ {e}
<1>1. Chain(g, h) \subseteq Chain(f, h) \ {e}
  <2> DEFINE C == Chain(f, h) \ {e}
  <2>1. C \in SUBSET DOMAIN g /\ h \in C
    BY ChainFacts
  <2>2. ASSUME NEW x \in C \ {0}, g[x].next # 0 PROVE g[x].next \in C
    <3>1. CASE x = p
      BY <2>2, <3>1, ChainFacts
    <3>2. CASE x # p
      BY <2>2, <3>2, ChainFacts
    <3> QED BY <3>1, <3>2
  <2> HIDE DEF C
  <2>3. Chain(g, h) \subseteq C
    BY <2>1, <2>2, ChainLeast
  <2> QED BY <2>3 DEF C
<1>2. Chain(f, h) \subseteq Chain(g, h) \union {e}
  <2> DEFINE T == Chain(g, h) \union {x \in {e} : p \in Chain(g, h)}
  <2>1. T \in SUBSET DOMAIN f /\ h \in T
    BY ChainFacts
  <2>2. ASSUME NEW x \in T \ {0}, f[x].next # 0 PROVE f[x].next \in T
    <3>1. CASE x = e
      BY <1>1, <2>2, <3>1, ChainFacts
    <3>2. CASE x = p
      BY <1>1, <2>2, <3>2, ChainFacts
    <3>3. CASE x \notin {e, p}
      BY <1>1, <2>2, <3>3, ChainFacts
    <3> QED BY <3>1, <3>2, <3>3
  <2>3. Chain(f, h) \subseteq T
    <3> HIDE DEF T
    <3> QED BY <2>1, <2>2, ChainLeast
  <2> QED BY <2>3
<1> QED BY <1>1, <1>2
-----------------------------------------------------------------------------
(* The chains of a table do not meet, go back the way they came and end.   *)

(* The chains of a table of b base entries: U are the entries in use, at     *)
(* gives the base entry of the chain an entry is in.                         *)
Base(b) == 1..(b - 1)
Spans(f, b) ==
  /\ b \in Nat /\ b >= 2 /\ DOMAIN f \subseteq Nat /\ Base(b) \subseteq DOMAIN f /\ Threaded(f)
Wired(f, b, U, at) ==
  /\ Spans(f, b) /\ U \subseteq DOMAIN f \ {0}
  /\ \A e \in U : at[e] \in Base(b) /\ e \in Chain(f, at[e])
  /\ \A e \in U : e < b => at[e] = e
  /\ \A e \in U : e >= b => f[e].prev \in U /\ f[f[e].prev].next = e
  /\ \A e \in U : f[e].next # 0 =>
       /\ f[e].next \in U /\ f[e].next >= b
       /\ at[f[e].next] = at[e] /\ f[f[e].next].prev = e
  /\ \A h \in Base(b) \ U : f[h].next = 0

LEMMA FreeHead ==
  ASSUME NEW f, NEW b, NEW U, NEW at, Wired(f, b, U, at), NEW h \in Base(b) \ U
  PROVE  Chain(f, h) = {h}
<1>1. h \in DOMAIN f \ {0} /\ f[h].next = 0 /\ Threaded(f)
  BY DEF Wired, Spans, Base
<1>2. \A e \in {h} \ {0} : f[e].next # 0 => f[e].next \in {h}
  BY <1>1
<1>3. Chain(f, h) \subseteq {h}
  <2> DEFINE C == {h}
  <2>1. C \in SUBSET DOMAIN f /\ h \in C
    BY <1>1
  <2>2. \A e \in C \ {0} : f[e].next # 0 => f[e].next \in C
    BY <1>2
  <2> HIDE DEF C
  <2>3. Chain(f, h) \subseteq C
    BY <1>1, <2>1, <2>2, ChainLeast
  <2> QED BY <2>3 DEF C
<1>4. h \in Chain(f, h)
  BY <1>1, ChainFacts
<1> QED BY <1>3, <1>4

LEMMA HeadInUse ==
  ASSUME NEW f, NEW b, NEW U, NEW at, Wired(f, b, U, at), NEW e \in U
  PROVE  at[e] \in U \intersect Base(b) /\ at[at[e]] = at[e]
<1>1. at[e] \in Base(b) /\ e \in Chain(f, at[e])
  BY DEF Wired
<1>2. at[e] \in U
  BY <1>1, FreeHead
<1>3. at[at[e]] = at[e]
  BY <1>1, <1>2 DEF Wired, Base, Spans
<1> QED BY <1>1, <1>2, <1>3

LEMMA ChainOf ==
  ASSUME NEW f, NEW b, NEW U, NEW at, Wired(f, b, U, at), NEW h \in U \intersect Base(b)
  PROVE  Chain(f, h) = {e \in U : at[e] = h}
<1> DEFINE C == {e \in U : at[e] = h}
<1>1. h \in DOMAIN f \ {0} /\ Threaded(f) /\ at[h] = h
  BY DEF Wired, Spans, Base
<1>2. C \in SUBSET DOMAIN f /\ h \in C
  BY <1>1 DEF Wired
<1>3. \A e \in C \ {0} : f[e].next # 0 => f[e].next \in C
  BY DEF Wired
<1>4. Chain(f, h) \subseteq C
  <2> HIDE DEF C
  <2> QED BY <1>1, <1>2, <1>3, ChainLeast
<1>5. C \subseteq Chain(f, h)
  BY DEF Wired
<1> QED BY <1>4, <1>5

(* A chain has an end. *)
LEMMA LastIs ==
  ASSUME NEW f, NEW b, NEW U, NEW at, Wired(f, b, U, at), NEW h \in U \intersect Base(b)
  PROVE  Last(f, h) \in U /\ at[Last(f, h)] = h /\ f[Last(f, h)].next = 0
<1> DEFINE C == Chain(f, h)
<1>1. C = {e \in U : at[e] = h}
  BY ChainOf
<1>2. \E e \in C : f[e].next = 0
  <2> SUFFICES ASSUME \A e \in C : f[e].next # 0 PROVE FALSE
    OBVIOUS
  <2> DEFINE nx == [e \in C |-> f[e].next]
  <2>1. IsFiniteSet(C) /\ h \in C
    <3>1. IsFiniteSet(DOMAIN f) /\ U \subseteq DOMAIN f /\ at[h] = h
      BY DEF Wired, Spans, Threaded, Base
    <3>2. C \subseteq DOMAIN f
      BY <1>1, <3>1
    <3>3. IsFiniteSet(C)
      BY <3>1, <3>2, FS_Subset
    <3> QED BY <3>1, <3>3, <1>1
  <2>2. \A e \in C : f[e].next \in C \ {h}
    <3>1. \A e \in C : f[e].next \in C /\ f[e].next >= b
      BY <1>1 DEF Wired
    <3> QED BY <3>1 DEF Base, Wired, Spans
  <2>3. \A e, d \in C : f[e].next = f[d].next => e = d
    BY <1>1 DEF Wired
  <2>4. IsFiniteSet(C \ {h}) /\ Cardinality(C \ {h}) < Cardinality(C)
    <3>1. IsFiniteSet(C \ {h})
      BY <2>1, FS_Subset
    <3>2. Cardinality(C \ {h}) = Cardinality(C) - 1 /\ Cardinality(C) \in Nat
      BY <2>1, FS_RemoveElement, FS_CardinalityType
    <3> QED BY <3>1, <3>2
  <2>5. nx \in [C -> C \ {h}]
    BY <2>2
  <2>6. \E x, y \in C : x # y /\ nx[x] = nx[y]
    <3> HIDE DEF C, nx
    <3> QED BY <2>1, <2>4, <2>5, FS_PigeonHole
  <2> QED BY <2>3, <2>6
<1> QED BY <1>1, <1>2 DEF Last

(* An entry that nothing leads to. *)
LEMMA NotInChain ==
  ASSUME NEW f, NEW b, NEW U, NEW at, Wired(f, b, U, at), NEW h \in Base(b),
         NEW e \in Chain(f, h), e # h
  PROVE  e \in U /\ at[e] = h /\ h \in U
BY FreeHead, ChainOf

Appends(f, U, at, l, e, g, to) ==
  /\ DOMAIN g = DOMAIN f
  /\ g[l].next = e /\ g[l].prev = f[l].prev /\ g[e].next = 0 /\ g[e].prev = l
  /\ \A x \in DOMAIN f \ {l, e} : g[x].next = f[x].next /\ g[x].prev = f[x].prev
  /\ to[e] = at[l] /\ \A x \in U : to[x] = at[x]
LEMMA Appended ==
  ASSUME NEW f, NEW b, NEW U, NEW at, Wired(f, b, U, at), NEW l \in U, f[l].next = 0,
         NEW e \in DOMAIN f \ U, e >= b, NEW g, NEW to, Appends(f, U, at, l, e, g, to)
  PROVE  Wired(g, b, U \union {e}, to)
<1>00. /\ DOMAIN g = DOMAIN f
       /\ g[l].next = e /\ g[l].prev = f[l].prev /\ g[e].next = 0 /\ g[e].prev = l
       /\ \A x \in DOMAIN f \ {l, e} : g[x].next = f[x].next /\ g[x].prev = f[x].prev
       /\ to[e] = at[l] /\ \A x \in U : to[x] = at[x]
  BY DEF Appends
<1>0. /\ Spans(f, b) /\ Threaded(f) /\ U \subseteq DOMAIN f \ {0}
      /\ DOMAIN f \subseteq Nat /\ b \in Nat /\ Base(b) \subseteq DOMAIN f
  BY DEF Wired, Spans
<1>0a. IsFiniteSet(DOMAIN f) /\ 0 \in DOMAIN f /\ \A x \in DOMAIN f : f[x].next \in DOMAIN f
  BY <1>0 DEF Threaded
<1>0b. DOMAIN g = DOMAIN f
  BY <1>00
<1>1a. e # 0 /\ l # e /\ l \in DOMAIN f /\ U \subseteq DOMAIN f
  BY <1>0 DEF Spans
<1>1b. Threaded(g)
  <2>1. \A x \in DOMAIN f : g[x].next \in DOMAIN f
    BY <1>00, <1>0a, <1>1a
  <2> QED BY <1>00, <2>1, <1>0a DEF Threaded
<1>1. Spans(g, b) /\ e # 0 /\ l # e /\ l \in DOMAIN f /\ U \subseteq DOMAIN f
  BY <1>00, <1>0, <1>1a, <1>1b DEF Spans
<1>2. Threaded(f) /\ Threaded(g) /\ Base(b) \subseteq DOMAIN f \ {0}
  BY <1>1 DEF Wired, Spans, Base
<1>3. ASSUME NEW x \in U
      PROVE  at[x] \in Base(b) /\ x \in Chain(g, at[x])
  <2>1. at[x] \in Base(b) /\ x \in Chain(f, at[x]) /\ at[x] \in U
    <3>1. at[x] \in Base(b) /\ x \in Chain(f, at[x])
      BY DEF Wired
    <3> QED BY <3>1, HeadInUse
  <2>2. Chain(f, at[x]) \subseteq U
    BY <2>1, ChainOf
  <2>3. \A y \in Chain(f, at[x]) : f[y].next # 0 => g[y].next = f[y].next
    <3>1. e \notin U /\ \A y \in U \ {l, e} : g[y].next = f[y].next
      BY <1>00, <1>1
    <3> QED BY <2>2, <3>1
  <2>4. Chain(f, at[x]) \subseteq Chain(g, at[x])
    BY <1>0b, <1>1, <1>2, <2>1, <2>3, ChainGrows
  <2> QED BY <2>1, <2>4
<1>4. e \in Chain(g, at[l])
  BY <1>00, <1>1, <1>2, <1>3, ChainFacts
<1>5. \A x \in U \union {e} : to[x] \in Base(b) /\ x \in Chain(g, to[x])
  BY <1>00, <1>3, <1>4
<1>6. \A x \in U \union {e} : x < b => to[x] = x
  BY <1>00, <1>1 DEF Wired, Spans
<1>7. \A x \in U \union {e} : x >= b => g[x].prev \in U \union {e} /\ g[g[x].prev].next = x
  BY <1>00, <1>1 DEF Wired, Spans
<1>8. ASSUME NEW x \in U \union {e}, g[x].next # 0
      PROVE  /\ g[x].next \in U \union {e} /\ g[x].next >= b
             /\ to[g[x].next] = to[x] /\ g[g[x].next].prev = x
  BY <1>00, <1>8, <1>1 DEF Wired
<1>9. \A h \in Base(b) \ (U \union {e}) : g[h].next = 0
  BY <1>00, <1>1, <1>2 DEF Wired
<1> QED BY <1>00, <1>1, <1>5, <1>6, <1>7, <1>8, <1>9 DEF Wired

LEMMA Headed ==
  ASSUME NEW f, NEW b, NEW U, NEW at, Wired(f, b, U, at), NEW e \in Base(b) \ U,
         NEW g, DOMAIN g = DOMAIN f, NEW to, g[e].next = 0,
         \A x \in DOMAIN f \ {e} : g[x].next = f[x].next /\ g[x].prev = f[x].prev,
         to[e] = e, \A x \in U : to[x] = at[x]
  PROVE  Wired(g, b, U \union {e}, to)
<1>0. /\ Spans(f, b) /\ Threaded(f) /\ U \subseteq DOMAIN f \ {0}
      /\ DOMAIN f \subseteq Nat /\ b \in Nat /\ Base(b) \subseteq DOMAIN f
  BY DEF Wired, Spans
<1>0a. IsFiniteSet(DOMAIN f) /\ 0 \in DOMAIN f /\ \A x \in DOMAIN f : f[x].next \in DOMAIN f
  BY <1>0 DEF Threaded
<1>1b. Threaded(g)
  <2>1. \A x \in DOMAIN f : g[x].next \in DOMAIN f
    BY <1>0a
  <2> QED BY <2>1, <1>0a DEF Threaded
<1>1. Spans(g, b) /\ e \in DOMAIN f \ {0} /\ U \subseteq DOMAIN f
  BY <1>0, <1>1b DEF Spans, Base
<1>2. Threaded(f) /\ Threaded(g) /\ Base(b) \subseteq DOMAIN f \ {0} /\ f[e].next = 0
  BY <1>1 DEF Wired, Spans, Base
<1>3. ASSUME NEW x \in U
      PROVE  at[x] \in Base(b) /\ x \in Chain(g, at[x])
  <2>1. at[x] \in Base(b) /\ x \in Chain(f, at[x])
    BY HeadInUse DEF Wired
  <2>3. \A y \in Chain(f, at[x]) : f[y].next # 0 => g[y].next = f[y].next
    BY <1>2, <2>1, ChainFacts
  <2>4. Chain(f, at[x]) \subseteq Chain(g, at[x])
    BY <1>2, <2>1, <2>3, ChainGrows
  <2> QED BY <2>1, <2>4
<1>4. e \in Chain(g, e)
  BY <1>1, <1>2, ChainFacts
<1>5. \A x \in U \union {e} : to[x] \in Base(b) /\ x \in Chain(g, to[x])
  BY <1>3, <1>4
<1>6. \A x \in U \union {e} : x < b => to[x] = x
  BY <1>1 DEF Wired, Spans
<1>7. \A x \in U \union {e} : x >= b => g[x].prev \in U \union {e} /\ g[g[x].prev].next = x
  BY <1>1 DEF Wired, Spans, Base
<1>8. ASSUME NEW x \in U \union {e}, g[x].next # 0
      PROVE  /\ g[x].next \in U \union {e} /\ g[x].next >= b
             /\ to[g[x].next] = to[x] /\ g[g[x].next].prev = x
  BY <1>8, <1>1 DEF Wired
<1>9. \A h \in Base(b) \ (U \union {e}) : g[h].next = 0
  BY <1>1, <1>2 DEF Wired
<1> QED BY <1>1, <1>5, <1>6, <1>7, <1>8, <1>9 DEF Wired

(* The entry before one of the expansion table is another one of its chain.  *)
LEMMA Before ==
  ASSUME NEW f, NEW b, NEW U, NEW at, Wired(f, b, U, at), NEW e \in U, e >= b
  PROVE  /\ f[e].prev \in U \ {e, 0} /\ f[f[e].prev].next = e /\ at[f[e].prev] = at[e]
         /\ \A x \in U : f[x].next = e => x = f[e].prev
         /\ f[e].next # e
<1>1. f[e].prev \in U \ {0} /\ f[f[e].prev].next = e /\ e # 0
  BY DEF Wired
<1>2. \A x \in U : f[x].next = e => x = f[e].prev
  BY <1>1 DEF Wired
<1>3. at[f[e].prev] = at[e]
  BY <1>1 DEF Wired
<1>4. f[e].next # e
  <2> SUFFICES ASSUME f[e].next = e PROVE FALSE
    OBVIOUS
  <2> DEFINE C == U \ {e}
  <2>0. at[e] \in U /\ at[e] \in 1..(b - 1) /\ b \in Nat /\ e \in Nat
    <3>1. b \in Nat /\ e \in Nat
      BY DEF Wired, Spans
    <3>2. at[e] \in U \intersect Base(b)
      BY HeadInUse
    <3> QED BY <3>1, <3>2 DEF Base
  <2>0a. at[e] # e
    BY <2>0
  <2>1. at[e] \in C /\ at[e] \in DOMAIN f \ {0} /\ Threaded(f) /\ C \in SUBSET DOMAIN f
    BY <2>0, <2>0a DEF Wired, Spans
  <2>2. \A x \in C \ {0} : f[x].next # 0 => f[x].next \in C
    <3>1. f[e].prev = e
      BY <1>1, <1>2
    <3> QED BY <3>1, <1>2 DEF Wired
  <2>3. Chain(f, at[e]) \subseteq C
    <3> HIDE DEF C
    <3> QED BY <2>1, <2>2, ChainLeast
  <2> QED BY <2>3 DEF Wired
<1> QED BY <1>1, <1>2, <1>3, <1>4

(* What the hardware walks once an entry of the expansion table is unlinked. *)
LEMMA UnlinkedChains ==
  ASSUME NEW f, NEW b, NEW U, NEW at, Wired(f, b, U, at), NEW e \in U, e >= b,
         NEW g, Threaded(g), DOMAIN g = DOMAIN f,
         g[f[e].prev].next = f[e].next,
         \A x \in DOMAIN f \ {f[e].prev, e} : g[x].next = f[x].next,
         NEW h \in Base(b)
  PROVE  Chain(g, h) = Chain(f, h) \ {e}
<1> DEFINE p == f[e].prev
<1>1. p \in U \ {e, 0} /\ f[p].next = e /\ U \subseteq DOMAIN f
  BY Before DEF Wired
<1>2. e \in DOMAIN f \ {0} /\ h \in DOMAIN f \ {0} /\ e # h /\ Threaded(f)
  BY DEF Wired, Spans, Base
<1>3. \A x \in Chain(f, h) : f[x].next = e => x = p
  <2>1. CASE h \in U
    BY <2>1, ChainOf, Before
  <2>2. CASE h \notin U
    BY <2>2, <1>2, FreeHead DEF Wired
  <2> QED BY <2>1, <2>2
<1> HIDE DEF p
<1>4. g[p].next = f[e].next /\ \A x \in DOMAIN f \ {p, e} : g[x].next = f[x].next
  BY DEF p
<1> QED BY <1>1, <1>2, <1>3, <1>4, ChainUnlinked

LEMMA Unlinked ==
  ASSUME NEW f, NEW b, NEW U, NEW at, Wired(f, b, U, at), NEW e \in U, e >= b,
         NEW g, DOMAIN g = DOMAIN f, NEW to,
         g[f[e].prev].next = f[e].next, g[e].next \in DOMAIN f,
         \A x \in DOMAIN f \ {f[e].prev, e} : g[x].next = f[x].next,
         f[e].next # 0 => g[f[e].next].prev = f[e].prev,
         \A x \in DOMAIN f \ {f[e].next, e} : g[x].prev = f[x].prev,
         \A x \in U \ {e} : to[x] = at[x]
  PROVE  Wired(g, b, U \ {e}, to)
<1>0. /\ Spans(f, b) /\ Threaded(f) /\ U \subseteq DOMAIN f \ {0}
      /\ DOMAIN f \subseteq Nat /\ b \in Nat /\ Base(b) \subseteq DOMAIN f
  BY DEF Wired, Spans
<1>0a. IsFiniteSet(DOMAIN f) /\ 0 \in DOMAIN f /\ \A x \in DOMAIN f : f[x].next \in DOMAIN f
  BY <1>0 DEF Threaded
<1> DEFINE p == f[e].prev
           n == f[e].next
<1>1. /\ p \in U \ {e, 0} /\ f[p].next = e /\ U \subseteq DOMAIN f /\ at[p] = at[e]
      /\ \A x \in U : f[x].next = e => x = p
      /\ n # e /\ n \in DOMAIN f
  BY <1>0, <1>0a, Before
<1>1a. n # 0 => n \in U /\ n >= b /\ at[n] = at[e] /\ f[n].prev = e
  BY DEF Wired
<1>2a. Threaded(g)
  <2>1. \A x \in DOMAIN f : g[x].next \in DOMAIN f
    BY <1>0a, <1>1
  <2> QED BY <2>1, <1>0a DEF Threaded
<1>2. Threaded(f) /\ Threaded(g) /\ Spans(g, b) /\ 0 \notin U /\ DOMAIN f \subseteq Nat /\ b \in Nat
  BY <1>0, <1>2a DEF Spans
<1>3. ASSUME NEW x \in U \ {e}
      PROVE  at[x] \in Base(b) /\ x \in Chain(g, at[x])
  <2>1. at[x] \in Base(b) /\ x \in Chain(f, at[x])
    BY DEF Wired
  <2>2. Chain(g, at[x]) = Chain(f, at[x]) \ {e}
    BY <1>2, <2>1, UnlinkedChains
  <2> QED BY <2>1, <2>2
<1> HIDE DEF p, n
<1>g. /\ g[p].next = n /\ \A x \in DOMAIN f \ {p, e} : g[x].next = f[x].next
      /\ n # 0 => g[n].prev = p
      /\ \A x \in DOMAIN f \ {n, e} : g[x].prev = f[x].prev
  BY DEF p, n
<1>5. \A x \in U \ {e} : to[x] \in Base(b) /\ x \in Chain(g, to[x])
  BY <1>3
<1>6. \A x \in U \ {e} : x < b => to[x] = x
  BY DEF Wired
<1>7. ASSUME NEW x \in U \ {e}, x >= b PROVE g[x].prev \in U \ {e} /\ g[g[x].prev].next = x
  <2>0. f[x].prev \in U /\ f[f[x].prev].next = x /\ x # 0
    BY <1>7, <1>2 DEF Wired
  <2>1. CASE x = n
    BY <1>7, <2>0, <2>1, <1>1, <1>g
  <2>2. CASE x # n
    <3>1. f[x].prev # e
      BY <2>0, <2>2 DEF n
    <3> QED BY <1>7, <2>0, <2>2, <3>1, <1>1, <1>g
  <2> QED BY <2>1, <2>2
<1>8. ASSUME NEW x \in U \ {e}, g[x].next # 0
      PROVE  /\ g[x].next \in U \ {e} /\ g[x].next >= b
             /\ to[g[x].next] = to[x] /\ g[g[x].next].prev = x
  <2>1. CASE x = p
    BY <1>8, <2>1, <1>1, <1>1a, <1>g
  <2>2. CASE x # p
    <3>1. g[x].next = f[x].next /\ f[x].next # e
      BY <2>2, <1>1, <1>g
    <3>2. f[x].next \in U /\ f[x].next >= b /\ at[f[x].next] = at[x] /\ f[f[x].next].prev = x
      BY <1>8, <3>1 DEF Wired
    <3>3. f[x].next # n
      BY <3>2, <1>1a, <1>8, <3>1
    <3> QED BY <3>1, <3>2, <3>3, <1>g, <1>1
  <2> QED BY <2>1, <2>2
<1>9. \A h \in Base(b) \ (U \ {e}) : g[h].next = 0
  BY <1>1, <1>2, <1>g DEF Wired, Spans, Base
<1>10. U \ {e} \subseteq DOMAIN g \ {0}
  BY <1>1, <1>2
<1> QED BY <1>2, <1>10, <1>5, <1>6, <1>7, <1>8, <1>9 DEF Wired

LEMMA Beheaded ==
  ASSUME NEW f, NEW b, NEW U, NEW at, Wired(f, b, U, at), NEW e \in U \intersect Base(b), f[e].next = 0,
         NEW g, DOMAIN g = DOMAIN f, NEW to, g[e].next = 0,
         \A x \in DOMAIN f \ {e} : g[x].next = f[x].next /\ g[x].prev = f[x].prev,
         \A x \in U \ {e} : to[x] = at[x]
  PROVE  Wired(g, b, U \ {e}, to)
<1>1. /\ Spans(g, b) /\ e \in DOMAIN f \ {0} /\ U \subseteq DOMAIN f \ {0}
      /\ e < b /\ b \in Nat /\ DOMAIN f \subseteq Nat /\ Base(b) \subseteq DOMAIN f \ {0}
  BY DEF Wired, Spans, Threaded, Base
<1>2. Threaded(f) /\ Threaded(g)
  BY <1>1 DEF Wired, Spans
<1>3. ASSUME NEW x \in U \ {e}
      PROVE  at[x] \in Base(b) /\ x \in Chain(g, at[x])
  <2>1. at[x] \in Base(b) /\ x \in Chain(f, at[x])
    BY DEF Wired
  <2>3. \A y \in Chain(f, at[x]) : g[y].next = f[y].next
    BY <1>1, <1>2, <2>1, ChainFacts
  <2>4. Chain(f, at[x]) = Chain(g, at[x])
    BY <1>1, <1>2, <2>1, <2>3, ChainSame
  <2> QED BY <2>1, <2>4
<1>5. \A x \in U \ {e} : to[x] \in Base(b) /\ x \in Chain(g, to[x])
  BY <1>3
<1>6. \A x \in U \ {e} : x < b => to[x] = x
  BY DEF Wired
<1>7. ASSUME NEW x \in U \ {e}, x >= b PROVE g[x].prev \in U \ {e} /\ g[g[x].prev].next = x
  BY <1>7, <1>1 DEF Wired
<1>8. ASSUME NEW x \in U \ {e}, g[x].next # 0
      PROVE  /\ g[x].next \in U \ {e} /\ g[x].next >= b
             /\ to[g[x].next] = to[x] /\ g[g[x].next].prev = x
  BY <1>8, <1>1 DEF Wired
<1>9. \A h \in Base(b) \ (U \ {e}) : g[h].next = 0
  BY <1>1 DEF Wired
<1> QED BY <1>1, <1>5, <1>6, <1>7, <1>8, <1>9 DEF Wired
-----------------------------------------------------------------------------
(* A table no operation is in the middle of, and a rule that is added to it. *)

(* A table of b base entries and n entries in all; P are rule entries that   *)
(* are written and linked but not enabled yet, Q those that have an index.   *)

Room(b, n) == b \in Nat /\ n \in Nat /\ b >= 2 /\ n > b
HashOf(b, key) == LET h == key % b IN IF h = 0 THEN b - 1 ELSE h
IdOf(b, e) == IF e >= b THEN 2 * (e - b) + 1 ELSE 2 * e

RuleEntries(n) ==
  [of : StoreRules \union {NoRule}, enabled : BOOLEAN, dead : BOOLEAN,
   next : 0..(n - 1), prev : 0..(n - 1), ix : 0..(n - 1)]
IndexEntries(n) == [tbl : 0..(n - 1), next : 0..(n - 1), prev : 0..(n - 1)]
Arrays(n, R, X) == R \in [0..(n - 1) -> RuleEntries(n)] /\ X \in [0..(n - 1) -> IndexEntries(n)]

Used(R) == {e \in DOMAIN R : R[e].enabled}
Live(R) == {e \in DOMAIN R : R[e].enabled /\ ~R[e].dead}
UsedIx(X) == {i \in DOMAIN X : X[i].tbl # 0}
AtDst(b, R) == [e \in DOMAIN R |-> HashOf(b, R[e].of.dst)]
AtSrc(b, R, X) == [i \in DOMAIN X |-> HashOf(b, R[X[i].tbl].of.src)]

RulesOK(b, R, P) ==
  /\ Wired(R, b, Used(R) \union P, AtDst(b, R))
  /\ \A e \in Used(R) \union P : R[e].of \in StoreRules
  /\ \A e \in DOMAIN R : R[e].dead => R[e].enabled /\ e < b /\ R[e].next # 0
IndicesOK(b, R, X, Q) ==
  /\ \A i \in UsedIx(X) : X[i].tbl \in Live(R) \union Q /\ R[X[i].tbl].ix = i
  /\ \A e \in Live(R) \union Q : R[e].ix \in UsedIx(X) /\ X[R[e].ix].tbl = e
  /\ Wired(X, b, UsedIx(X), AtSrc(b, R, X))
HandlesOK(b, n, R, I, C) ==
  /\ DOMAIN I = 1..n /\ DOMAIN C = 1..n
  /\ \A h \in 1..n : C[h] = NoRule => I[h] = 0
  /\ \A h \in 1..n : C[h] # NoRule =>
       h < n /\ \E e \in Live(R) : I[h] = IdOf(b, e) /\ R[e].of = C[h]
  /\ \A e \in Live(R) : \E h \in 1..n : I[h] = IdOf(b, e) /\ C[h] = R[e].of
  /\ \A h, g \in 1..n : C[h] = C[g] /\ C[h] # NoRule => h = g
Clean(b, n, R, X, I, C, P, Q) ==
  /\ Room(b, n) /\ Arrays(n, R, X)
  /\ RulesOK(b, R, P) /\ IndicesOK(b, R, X, Q) /\ HandlesOK(b, n, R, I, C)

\* a place for an entry in the chain from h on
Placed(f, b, U, at, h, p) ==
  \/ p.prev = 0 /\ p.e = h /\ h \in Base(b) \ U
  \/ /\ p.prev \in U /\ f[p.prev].next = 0 /\ at[p.prev] = h
     /\ p.e \in DOMAIN f \ U /\ p.e >= b

LEMMA HashIn ==
  ASSUME NEW b \in Nat, b >= 2, NEW key \in Nat
  PROVE  HashOf(b, key) \in Base(b)
<1>1. key % b \in 0..(b - 1)
  OBVIOUS
<1> QED BY <1>1 DEF HashOf, Base

LEMMA WiredSame ==
  ASSUME NEW f, NEW b, NEW U, NEW at, Wired(f, b, U, at),
         NEW g, DOMAIN g = DOMAIN f, Threaded(g), NEW to,
         \A x \in U \union Base(b) : g[x].next = f[x].next,
         \A x \in U : g[x].prev = f[x].prev /\ to[x] = at[x]
  PROVE  Wired(g, b, U, to)
<1>1. Spans(f, b) /\ Threaded(f) /\ U \subseteq DOMAIN f \ {0} /\ Base(b) \subseteq DOMAIN f \ {0}
  BY DEF Wired, Spans, Base
<1>2. Threaded(g)
  OBVIOUS
<1>3. ASSUME NEW x \in U
      PROVE  to[x] \in Base(b) /\ x \in Chain(g, to[x])
  <2>1. at[x] \in Base(b) /\ x \in Chain(f, at[x])
    BY DEF Wired
  <2>2. Chain(f, at[x]) \subseteq U
    BY HeadInUse, ChainOf
  <2>3. \A y \in Chain(f, at[x]) : g[y].next = f[y].next
    BY <2>2
  <2>4. Chain(f, at[x]) = Chain(g, at[x])
    BY <1>1, <1>2, <2>1, <2>3, ChainSame
  <2> QED BY <2>1, <2>4
<1>4. Spans(g, b)
  BY <1>1, <1>2 DEF Spans
<1>5. \A e \in U : g[e].prev = f[e].prev /\ g[e].next = f[e].next /\ to[e] = at[e]
  BY <1>1
<1>6. \A e \in U : e >= b => g[e].prev \in U /\ g[g[e].prev].next = e
  BY <1>5 DEF Wired
<1>7. ASSUME NEW e \in U, g[e].next # 0
      PROVE  /\ g[e].next \in U /\ g[e].next >= b
             /\ to[g[e].next] = to[e] /\ g[g[e].next].prev = e
  BY <1>5, <1>7 DEF Wired
<1>8. \A h \in Base(b) \ U : g[h].next = 0
  BY <1>1 DEF Wired
<1>9. \A e \in U : e < b => to[e] = e
  BY <1>5 DEF Wired
<1> QED BY <1>1, <1>3, <1>4, <1>6, <1>7, <1>8, <1>9 DEF Wired

(* An entry is written at its place and the one before it linked to it.      *)
Inserts(f, U, at, h, p, g, to) ==
  /\ DOMAIN g = DOMAIN f /\ g[p.e].next = 0 /\ g[p.e].prev = p.prev
  /\ p.prev # 0 => g[p.prev].next = p.e /\ g[p.prev].prev = f[p.prev].prev
  /\ \A x \in DOMAIN f \ {p.e} : x # p.prev \/ x = 0 =>
       g[x].next = f[x].next /\ g[x].prev = f[x].prev
  /\ to[p.e] = h /\ \A x \in U : to[x] = at[x]
LEMMA Inserted ==
  ASSUME NEW f, NEW b, NEW U, NEW at, Wired(f, b, U, at),
         NEW h \in Base(b), NEW p, Placed(f, b, U, at, h, p),
         NEW g, NEW to, Inserts(f, U, at, h, p, g, to)
  PROVE  Wired(g, b, U \union {p.e}, to)
<1>9. /\ DOMAIN g = DOMAIN f
      /\ g[p.e].next = 0 /\ g[p.e].prev = p.prev
      /\ p.prev # 0 => g[p.prev].next = p.e /\ g[p.prev].prev = f[p.prev].prev
      /\ \A x \in DOMAIN f \ {p.e} : x # p.prev \/ x = 0 =>
           g[x].next = f[x].next /\ g[x].prev = f[x].prev
      /\ to[p.e] = h /\ \A x \in U : to[x] = at[x]
  BY DEF Inserts
<1>0. 0 \notin U /\ 0 \in DOMAIN f /\ f[0].next \in DOMAIN f
  BY DEF Wired, Spans, Threaded
<1>1. CASE p.prev = 0
  <2>1. p.e = h /\ h \in Base(b) \ U
    BY <1>0, <1>1 DEF Placed
  <2>2. /\ g[h].next = 0
        /\ \A x \in DOMAIN f \ {h} : g[x].next = f[x].next /\ g[x].prev = f[x].prev
    BY <2>1, <1>1, <1>9
  <2>3. Wired(g, b, U \union {h}, to)
    BY <2>1, <2>2, <1>9, Headed
  <2> QED BY <2>1, <2>3
<1>2. CASE p.prev # 0
  <2>1. p.prev \in U /\ f[p.prev].next = 0 /\ at[p.prev] = h /\ p.e \in DOMAIN f \ U /\ p.e >= b
    BY <1>2 DEF Placed
  <2>2. /\ g[p.prev].next = p.e /\ g[p.prev].prev = f[p.prev].prev
        /\ \A x \in DOMAIN f \ {p.prev, p.e} : g[x].next = f[x].next /\ g[x].prev = f[x].prev
        /\ to[p.e] = at[p.prev]
    BY <1>2, <2>1, <1>9
  <2>3. \A x \in U : to[x] = at[x]
    BY <1>9
  <2>4. DOMAIN g = DOMAIN f /\ g[p.e].next = 0 /\ g[p.e].prev = p.prev
    BY <1>9
  <2>5. Appends(f, U, at, p.prev, p.e, g, to)
    BY <2>2, <2>3, <2>4 DEF Appends
  <2> QED BY <2>1, <2>5, Appended
<1> QED BY <1>1, <1>2

(* The hash tables and the handles only know of live entries.                *)
LEMMA SameLive ==
  ASSUME NEW b, NEW n, NEW R, NEW X, NEW I, NEW C, NEW Q,
         IndicesOK(b, R, X, Q), HandlesOK(b, n, R, I, C),
         NEW G, Live(G) = Live(R),
         \A e \in Live(R) \union Q : G[e].of = R[e].of /\ G[e].ix = R[e].ix
  PROVE  IndicesOK(b, G, X, Q) /\ HandlesOK(b, n, G, I, C)
<1>1. /\ \A i \in UsedIx(X) : X[i].tbl \in Live(G) \union Q /\ G[X[i].tbl].ix = i
      /\ \A e \in Live(G) \union Q : G[e].ix \in UsedIx(X) /\ X[G[e].ix].tbl = e
  BY DEF IndicesOK
<1>2. Wired(X, b, UsedIx(X), AtSrc(b, G, X))
  <2>1. ASSUME NEW i \in UsedIx(X) PROVE AtSrc(b, G, X)[i] = AtSrc(b, R, X)[i]
    <3>1. G[X[i].tbl].of = R[X[i].tbl].of
      BY DEF IndicesOK
    <3> QED BY <3>1 DEF AtSrc, UsedIx
  <2>2. Wired(X, b, UsedIx(X), AtSrc(b, R, X)) /\ Threaded(X)
    BY DEF IndicesOK, Wired, Spans
  <2> QED BY <2>1, <2>2, WiredSame
<1>3. HandlesOK(b, n, G, I, C)
  BY DEF HandlesOK
<1> QED BY <1>1, <1>2, <1>3 DEF IndicesOK

(* ipa_nati_copy_ipv4_rule_to_hw, with the entry before linked to it.        *)
Written(R, p, r, i) ==
  [R EXCEPT ![p.e] = [of |-> r, enabled |-> FALSE, dead |-> FALSE,
                      next |-> 0, prev |-> p.prev, ix |-> i]]
IsAdded(R, p, r, i, linked, W, G) ==
  /\ W = Written(R, p, r, i)
  /\ linked \in BOOLEAN /\ G = IF linked THEN Linked(W, p) ELSE W
  /\ linked \/ p.prev # 0
ByAdded(b, n, R, X, I, C, p, r, i, linked, G) ==
  /\ Clean(b, n, G, X, I, C, IF linked THEN {p.e} ELSE {}, {})
  /\ p.e \in 1..(n - 1) /\ ~G[p.e].enabled /\ G[p.e].of = r /\ G[p.e].ix = i
  /\ Live(G) = Live(R) /\ p.e \notin Live(R) /\ DOMAIN G = DOMAIN R
  /\ \A x \in DOMAIN R \ {p.e} : G[x].of = R[x].of
LEMMA RuleAdded ==
  ASSUME NEW b, NEW n, NEW R, NEW X, NEW I, NEW C, Clean(b, n, R, X, I, C, {}, {}),
         NEW r \in StoreRules, NEW p, NEW i \in 0..(n - 1),
         Placed(R, b, Used(R), AtDst(b, R), HashOf(b, r.dst), p),
         NEW W, NEW G, NEW linked, IsAdded(R, p, r, i, linked, W, G)
  PROVE  ByAdded(b, n, R, X, I, C, p, r, i, linked, G)
<1> W = [R EXCEPT ![p.e] = [of |-> r, enabled |-> FALSE, dead |-> FALSE,
                            next |-> 0, prev |-> p.prev, ix |-> i]]
  BY DEF IsAdded, Written
<1> G = Linked(W, p) \/ G = W
  BY DEF IsAdded
<1> DEFINE h == HashOf(b, r.dst)
           U == Used(R)
           at == AtDst(b, R)
           to == AtDst(b, G)
<1>1. /\ Room(b, n) /\ Arrays(n, R, X) /\ RulesOK(b, R, {}) /\ IndicesOK(b, R, X, {})
      /\ HandlesOK(b, n, R, I, C)
  BY DEF Clean
<1>2. /\ DOMAIN R = 0..(n - 1) /\ b \in Nat /\ b >= 2 /\ n \in Nat /\ n > b
      /\ \A x \in DOMAIN R : R[x] \in RuleEntries(n)
  BY <1>1 DEF Room, Arrays
<1>3. h \in Base(b)
  BY <1>2, HashIn, NatTableAssumption
<1>4. Wired(R, b, U, at) /\ U \subseteq DOMAIN R \ {0} /\ U \subseteq DOMAIN R
  BY <1>1 DEF RulesOK, Wired
<1>5. p.e \in DOMAIN R \ (U \union {0}) /\ (p.prev # 0 => p.prev \in U \ {p.e})
  BY <1>2, <1>3, <1>4 DEF Placed, Base
<1>6. /\ DOMAIN W = DOMAIN R
      /\ W[p.e] = [of |-> r, enabled |-> FALSE, dead |-> FALSE,
                   next |-> 0, prev |-> p.prev, ix |-> i]
      /\ \A x \in DOMAIN R \ {p.e} : W[x] = R[x]
  BY <1>5
<1>7. /\ DOMAIN G = DOMAIN R
      /\ G[p.e] = W[p.e]
      /\ \A x \in DOMAIN R \ {p.e} : x # p.prev \/ x = 0 => G[x] = R[x]
      /\ \A x \in DOMAIN R : /\ G[x].of = W[x].of /\ G[x].enabled = W[x].enabled
                            /\ G[x].dead = W[x].dead /\ G[x].prev = W[x].prev /\ G[x].ix = W[x].ix
  <2>1. CASE G = W
    BY <1>6, <2>1
  <2>2. CASE G = Linked(W, p) /\ p.prev # 0
    <3>1. G = [W EXCEPT ![p.prev] = [W[p.prev] EXCEPT !.next = p.e]] /\ p.prev \in DOMAIN W /\ p.prev # p.e
      BY <2>2, <1>4, <1>5, <1>6 DEF Linked
    <3>2. /\ DOMAIN G = DOMAIN W /\ G[p.prev] = [W[p.prev] EXCEPT !.next = p.e]
          /\ \A x \in DOMAIN W : x # p.prev => G[x] = W[x]
      BY <3>1
    <3>3. W[p.prev] \in RuleEntries(n)
      BY <1>2, <1>6, <3>1
    <3>4. /\ G[p.prev].of = W[p.prev].of /\ G[p.prev].enabled = W[p.prev].enabled
          /\ G[p.prev].dead = W[p.prev].dead /\ G[p.prev].prev = W[p.prev].prev
          /\ G[p.prev].ix = W[p.prev].ix
      BY <3>2, <3>3 DEF RuleEntries
    <3>5. ASSUME NEW x \in DOMAIN R
          PROVE  /\ x \notin {p.e, p.prev} => G[x] = R[x]
                 /\ G[x].of = W[x].of /\ G[x].enabled = W[x].enabled
                 /\ G[x].dead = W[x].dead /\ G[x].prev = W[x].prev /\ G[x].ix = W[x].ix
      BY <3>1, <3>2, <3>4, <1>6
    <3>6. 0 # p.prev
      BY <2>2
    <3>7. \A x \in DOMAIN R \ {p.e} : x # p.prev \/ x = 0 => G[x] = R[x]
      BY <3>5, <3>6
    <3>8. G[p.e] = W[p.e] /\ DOMAIN G = DOMAIN R
      BY <3>1, <3>2, <1>6, <1>5
    <3> QED BY <3>5, <3>7, <3>8
  <2>3. CASE G = Linked(W, p) /\ p.prev = 0
    BY <1>6, <2>3 DEF Linked
  <2> QED BY <2>1, <2>2, <2>3
<1>8. p.prev # 0 => p.prev \in DOMAIN R \ {p.e}
  BY <1>4, <1>5
<1>8a. ASSUME G = W, p.prev # 0 PROVE G[p.prev] = R[p.prev]
  BY <1>6, <1>8, <1>8a
<1>8b. ASSUME G = Linked(W, p), p.prev # 0
       PROVE G[p.prev].next = p.e /\ G[p.prev] \in RuleEntries(n)
  <2>1. G = [W EXCEPT ![p.prev] = [W[p.prev] EXCEPT !.next = p.e]] /\ W[p.prev] = R[p.prev]
    BY <1>8b, <1>8, <1>6 DEF Linked
  <2>2. R[p.prev] \in RuleEntries(n)
    BY <1>2, <1>8, <1>8b
  <2>3. p.e \in 0..(n - 1)
    BY <1>2, <1>5
  <2>4. G[p.prev] = [R[p.prev] EXCEPT !.next = p.e]
    BY <2>1, <1>6, <1>8, <1>8b
  <2> QED BY <2>2, <2>3, <2>4 DEF RuleEntries
<1>9. Arrays(n, G, X)
  <2>1. G[p.e] \in RuleEntries(n)
    <3>1. p.prev \in 0..(n - 1)
      BY <1>2, <1>8
    <3> QED BY <3>1, <1>6, <1>7, <1>2 DEF RuleEntries
  <2>2. ASSUME NEW x \in DOMAIN R PROVE G[x] \in RuleEntries(n)
    BY <2>1, <1>2, <1>7, <1>8a, <1>8b
  <2>3. G = [x \in DOMAIN R |-> G[x]]
    <3>1. W = [x \in DOMAIN R |-> W[x]]
      OBVIOUS
    <3>2. CASE G = W
      BY <3>1, <3>2
    <3>3. CASE G = [W EXCEPT ![p.prev].next = p.e]
      <4>1. G = [x \in DOMAIN W |-> G[x]]
        BY <3>3
      <4> QED BY <4>1, <1>6
    <3> QED BY <3>2, <3>3 DEF Linked
  <2> QED BY <2>2, <2>3, <1>1, <1>2 DEF Arrays
<1>10a. ASSUME NEW x \in DOMAIN R PROVE G[x].enabled = R[x].enabled /\ (x # p.e => G[x].dead = R[x].dead)
  <2>1. x = p.e => R[x].enabled = FALSE /\ W[x].enabled = FALSE
    <3>1. p.e \in DOMAIN R /\ p.e \notin Used(R)
      BY <1>5
    <3>2. R[p.e].enabled \in BOOLEAN
      BY <3>1, <1>2 DEF RuleEntries
    <3> QED BY <1>6, <3>1, <3>2 DEF Used
  <2>2. x # p.e => W[x] = R[x]
    BY <1>6
  <2>3. G[x].enabled = W[x].enabled /\ G[x].dead = W[x].dead
    BY <1>7
  <2> QED BY <2>1, <2>2, <2>3
<1>10b. ~R[p.e].enabled
  BY <1>5 DEF Used
<1>10. Used(G) = U /\ Live(G) = Live(R) /\ p.e \notin Live(R)
  BY <1>7, <1>10a, <1>10b DEF Used, Live
<1>11. \A x \in U : to[x] = at[x] /\ G[x].of \in StoreRules /\ G[x].of = R[x].of /\ G[x].ix = R[x].ix
  <2>1. ASSUME NEW x \in U PROVE x \in DOMAIN R /\ G[x].of = R[x].of /\ G[x].ix = R[x].ix
    <3>1. x \in DOMAIN R \ {p.e}
      BY <1>4, <1>5
    <3>2. W[x] = R[x]
      BY <1>6, <3>1
    <3> QED BY <1>7, <3>1, <3>2
  <2>2. \A x \in U : R[x].of \in StoreRules
    BY <1>1 DEF RulesOK
  <2>3. ASSUME NEW x \in U PROVE to[x] = at[x]
    BY <2>1, <1>7 DEF AtDst
  <2> QED BY <2>1, <2>2, <2>3
<1>12. IndicesOK(b, G, X, {}) /\ HandlesOK(b, n, G, I, C)
  <2>1. \A e \in Live(R) \union {} : G[e].of = R[e].of /\ G[e].ix = R[e].ix
    BY <1>11 DEF Live, Used
  <2> QED BY <1>1, <1>10, <2>1, SameLive
<1>13. ASSUME NEW e \in DOMAIN G, G[e].dead
       PROVE  G[e].enabled /\ e < b /\ G[e].next # 0
  <2>1. e # p.e /\ e \in DOMAIN R
    BY <1>6, <1>7, <1>13
  <2>2. R[e].dead /\ G[e].enabled = R[e].enabled
    BY <2>1, <1>10a, <1>7, <1>6, <1>13
  <2>3. R[e].enabled /\ e < b /\ R[e].next # 0
    BY <2>1, <2>2, <1>1 DEF RulesOK
  <2>4. CASE e = p.prev /\ e # 0
    <3>1. R[e].next = 0
      BY <2>4, <1>5 DEF Placed
    <3> QED BY <2>3, <3>1
  <2>5. CASE ~(e = p.prev /\ e # 0)
    BY <2>1, <2>2, <2>3, <2>5, <1>7
  <2> QED BY <2>4, <2>5
<1>14a. Threaded(G)
  <2>1. \A x \in DOMAIN G : G[x] \in RuleEntries(n)
    BY <1>9, <1>7, <1>2 DEF Arrays
  <2>2. \A x \in DOMAIN G : G[x].next \in DOMAIN G
    BY <2>1, <1>7, <1>2 DEF RuleEntries
  <2>3. IsFiniteSet(DOMAIN G) /\ 0 \in DOMAIN G
    BY <1>2, <1>7, FS_Interval
  <2> QED BY <2>2, <2>3 DEF Threaded
<1>14. ASSUME G = Linked(W, p) PROVE RulesOK(b, G, {p.e})
  <2>0. /\ G[p.e].next = 0 /\ G[p.e].prev = p.prev /\ G[p.e].of = r
    BY <1>6, <1>7
  <2>0a. p.prev # 0 => G[p.prev].next = p.e /\ G[p.prev].prev = R[p.prev].prev
    <3> SUFFICES ASSUME p.prev # 0 PROVE G[p.prev].next = p.e /\ G[p.prev].prev = R[p.prev].prev
      OBVIOUS
    <3>1. p.prev \in DOMAIN R /\ W[p.prev] = R[p.prev]
      BY <1>6, <1>8
    <3>2. G[p.prev].prev = W[p.prev].prev
      BY <1>7, <3>1
    <3> QED BY <3>1, <3>2, <1>8b, <1>14
  <2>0b. \A x \in DOMAIN R \ {p.e} : x # p.prev \/ x = 0 =>
           G[x].next = R[x].next /\ G[x].prev = R[x].prev
    BY <1>7
  <2>0c. to[p.e] = h /\ \A x \in U : to[x] = at[x]
    BY <2>0, <1>11, <1>5, <1>7 DEF AtDst
  <2>1. Wired(G, b, U \union {p.e}, to)
    <3> HIDE DEF h, U, at, to
    <3>1. Placed(R, b, U, at, h, p)
      BY DEF h, U, at
    <3>2. Inserts(R, U, at, h, p, G, to)
      BY <2>0, <2>0a, <2>0b, <2>0c, <1>7 DEF Inserts
    <3> QED BY <3>1, <3>2, <1>3, <1>4, Inserted
  <2>2. \A e \in U \union {p.e} : G[e].of \in StoreRules
    BY <1>6, <1>7, <1>11
  <2> QED BY <1>10, <1>13, <2>1, <2>2 DEF RulesOK
<1>15. ASSUME G = W, p.prev # 0 PROVE RulesOK(b, G, {})
  <2>1. Wired(G, b, U, to)
    <3> HIDE DEF h, U, at, to
    <3>1. Placed(R, b, U, at, h, p) /\ p.prev # 0
      BY <1>15 DEF h, U, at
    <3>2. p.e >= b /\ p.e \notin U /\ p.e \notin Base(b)
      BY <3>1, <1>2, <1>5 DEF Placed, Base
    <3>3. \A x \in DOMAIN R \ {p.e} : G[x] = R[x]
      BY <1>6, <1>15
    <3>4. U \union Base(b) \subseteq DOMAIN R \ {p.e}
      BY <3>2, <1>2, <1>4 DEF Base
    <3> QED BY <3>3, <3>4, <1>4, <1>7, <1>11, <1>14a, WiredSame
  <2> QED BY <1>10, <1>11, <1>13, <2>1 DEF RulesOK
<1>16. p.e \in 1..(n - 1) /\ ~G[p.e].enabled /\ G[p.e].of = r /\ G[p.e].ix = i
  BY <1>2, <1>5, <1>6, <1>7
<1>17. G = Linked(W, p) => Clean(b, n, G, X, I, C, {p.e}, {})
  BY <1>1, <1>9, <1>12, <1>14 DEF Clean
<1>18. G = W /\ p.prev # 0 => Clean(b, n, G, X, I, C, {}, {})
  BY <1>1, <1>9, <1>12, <1>15 DEF Clean
<1>19. \A x \in DOMAIN R \ {p.e} : G[x].of = R[x].of
  BY <1>6, <1>7
<1>20. Clean(b, n, G, X, I, C, IF linked THEN {p.e} ELSE {}, {})
  BY <1>17, <1>18 DEF IsAdded
<1> QED BY <1>7, <1>10, <1>16, <1>19, <1>20 DEF ByAdded
-----------------------------------------------------------------------------
(* An index is added for the rule.                                         *)

LEMMA ArraysThread ==
  ASSUME NEW n \in Nat, n > 0, NEW R, NEW X, Arrays(n, R, X)
  PROVE  Threaded(R) /\ Threaded(X) /\ DOMAIN R = 0..(n - 1) /\ DOMAIN X = 0..(n - 1)
<1>1. DOMAIN R = 0..(n - 1) /\ DOMAIN X = 0..(n - 1)
  BY DEF Arrays
<1>2. \A x \in DOMAIN R : R[x].next \in DOMAIN R
  BY <1>1 DEF Arrays, RuleEntries
<1>3. \A x \in DOMAIN X : X[x].next \in DOMAIN X
  BY <1>1 DEF Arrays, IndexEntries
<1>4. IsFiniteSet(0..(n - 1)) /\ 0 \in 0..(n - 1)
  BY FS_Interval
<1> QED BY <1>1, <1>2, <1>3, <1>4 DEF Threaded

(* Writing an index and linking it, field by field.                          *)
IndexPut(n, X, q, e, G) ==
  /\ DOMAIN G = DOMAIN X /\ G \in [0..(n - 1) -> IndexEntries(n)]
  /\ q.prev # 0 => G[q.prev].next = q.e /\ G[q.prev].prev = X[q.prev].prev
                   /\ G[q.prev].tbl = X[q.prev].tbl
  /\ G[q.e].tbl = e /\ G[q.e].next = 0 /\ G[q.e].prev = q.prev
  /\ \A x \in DOMAIN X \ {q.e} : x # q.prev \/ x = 0 => G[x] = X[x]
IndexWrittenAt(X, q, e) == [X EXCEPT ![q.e] = [tbl |-> e, next |-> 0, prev |-> q.prev]]
IsIndexed(X, q, e, G) == G = Linked(IndexWrittenAt(X, q, e), q)
LEMMA IndexLinked ==
  ASSUME NEW n \in Nat, NEW X \in [0..(n - 1) -> IndexEntries(n)], NEW q,
         q.e \in DOMAIN X \ {0}, q.prev # 0 => q.prev \in DOMAIN X \ {q.e},
         NEW e \in 1..(n - 1), NEW G, IsIndexed(X, q, e, G)
  PROVE  IndexPut(n, X, q, e, G)
<1> DEFINE W == IndexWrittenAt(X, q, e)
<1> W = [X EXCEPT ![q.e] = [tbl |-> e, next |-> 0, prev |-> q.prev]]
  BY DEF IndexWrittenAt
<1> G = Linked(W, q)
  BY DEF IsIndexed
<1> HIDE DEF W
<1>2. /\ DOMAIN X = 0..(n - 1) /\ \A x \in DOMAIN X : X[x] \in IndexEntries(n)
  OBVIOUS
<1>5. q.e \in DOMAIN X \ {0} /\ (q.prev # 0 => q.prev \in DOMAIN X \ {q.e})
  OBVIOUS
<1>6. /\ DOMAIN W = DOMAIN X
      /\ W[q.e] = [tbl |-> e, next |-> 0, prev |-> q.prev]
      /\ \A x \in DOMAIN X \ {q.e} : W[x] = X[x]
  BY <1>5
<1>7. W \in [0..(n - 1) -> IndexEntries(n)]
  <2>1. q.prev \in 0..(n - 1)
    BY <1>2, <1>5
  <2>1a. e \in 0..(n - 1) /\ 0 \in 0..(n - 1)
    BY <1>2
  <2>2. W[q.e] \in IndexEntries(n)
    BY <2>1, <2>1a, <1>6 DEF IndexEntries
  <2> QED BY <2>2, <1>6
<1>8. /\ DOMAIN G = DOMAIN X /\ G \in [0..(n - 1) -> IndexEntries(n)]
      /\ q.prev # 0 => G[q.prev].next = q.e /\ G[q.prev].prev = X[q.prev].prev
                       /\ G[q.prev].tbl = X[q.prev].tbl
      /\ G[q.e] = W[q.e]
      /\ \A x \in DOMAIN X \ {q.e} : x # q.prev \/ x = 0 => G[x] = X[x]
  <2>1. CASE q.prev = 0
    BY <2>1, <1>2, <1>6, <1>7 DEF Linked
  <2>2. CASE q.prev # 0
    <3>0. q.prev \in DOMAIN X \ {q.e, 0} /\ q.prev \in 0..(n - 1)
      BY <2>2, <1>2, <1>5
    <3>0a. PICK v : v = [X[q.prev] EXCEPT !.next = q.e]
      OBVIOUS
    <3>1. G = [W EXCEPT ![q.prev] = v] /\ W[q.prev] = X[q.prev]
      BY <2>2, <3>0, <3>0a, <1>6 DEF Linked
    <3>2. X[q.prev] \in IndexEntries(n) /\ q.e \in 0..(n - 1)
      BY <3>0, <1>2, <1>5
    <3>3. v \in IndexEntries(n) /\ v.next = q.e /\ v.prev = X[q.prev].prev /\ v.tbl = X[q.prev].tbl
      BY <3>0a, <3>2 DEF IndexEntries
    <3>4. /\ DOMAIN G = DOMAIN W /\ G[q.prev] = v
          /\ \A x \in DOMAIN W \ {q.prev} : G[x] = W[x]
      BY <3>0, <3>1, <1>6
    <3>4a. G \in [0..(n - 1) -> IndexEntries(n)]
      BY <3>1, <3>3, <1>7
    <3>5. G[q.e] = W[q.e]
      BY <3>0, <3>4, <1>5, <1>6
    <3>6. \A x \in DOMAIN X \ {q.e} : x # q.prev \/ x = 0 => G[x] = X[x]
      BY <3>0, <3>4, <1>6
    <3> QED BY <3>0, <3>3, <3>4, <3>4a, <3>5, <3>6, <1>6
  <2> QED BY <2>1, <2>2
<1>9. G[q.e].tbl = e /\ G[q.e].next = 0 /\ G[q.e].prev = q.prev
  <2>1. G[q.e] = [tbl |-> e, next |-> 0, prev |-> q.prev]
    BY <1>6, <1>8
  <2> QED BY <2>1
<1> QED BY <1>8, <1>9 DEF IndexPut

(* ipa_nati_copy_ipv4_index_rule_to_hw, with the entry before linked to it.  *)
LEMMA IndexAdded ==
  ASSUME NEW b, NEW n, NEW R, NEW X, NEW I, NEW C, NEW P, Clean(b, n, R, X, I, C, P, {}),
         NEW e \in 1..(n - 1), ~R[e].enabled, R[e].of \in StoreRules, NEW q, R[e].ix = q.e,
         Placed(X, b, UsedIx(X), AtSrc(b, R, X), HashOf(b, R[e].of.src), q),
         NEW G, IndexPut(n, X, q, e, G)
  PROVE  Clean(b, n, R, G, I, C, P, {e})
<1> DEFINE h == HashOf(b, R[e].of.src)
           U == UsedIx(X)
           at == AtSrc(b, R, X)
           to == AtSrc(b, R, G)
<1>1. /\ Room(b, n) /\ Arrays(n, R, X) /\ RulesOK(b, R, P) /\ IndicesOK(b, R, X, {})
      /\ HandlesOK(b, n, R, I, C)
  BY DEF Clean
<1>2. /\ DOMAIN X = 0..(n - 1) /\ b \in Nat /\ b >= 2 /\ n \in Nat /\ n > b
      /\ \A x \in DOMAIN X : X[x] \in IndexEntries(n)
  BY <1>1 DEF Room, Arrays
<1>3. h \in Base(b)
  BY <1>2, HashIn, NatTableAssumption
<1>4. Wired(X, b, U, at) /\ U \subseteq DOMAIN X \ {0} /\ U \subseteq DOMAIN X
  BY <1>1 DEF IndicesOK, Wired
<1>5. q.e \in DOMAIN X \ (U \union {0}) /\ (q.prev # 0 => q.prev \in U \ {q.e})
  BY <1>2, <1>3, <1>4 DEF Placed, Base
<1>8. /\ DOMAIN G = DOMAIN X
      /\ q.prev # 0 => G[q.prev].next = q.e /\ G[q.prev].prev = X[q.prev].prev
                       /\ G[q.prev].tbl = X[q.prev].tbl
      /\ \A x \in DOMAIN X \ {q.e} : x # q.prev \/ x = 0 => G[x] = X[x]
  BY DEF IndexPut
<1>9. Arrays(n, R, G)
  BY <1>1 DEF IndexPut, Arrays
<1>10. \A x \in DOMAIN X \ {q.e} : G[x].tbl = X[x].tbl
  BY <1>8
<1>11. G[q.e].tbl = e /\ G[q.e].next = 0 /\ G[q.e].prev = q.prev /\ e # 0
  <2>1. e # 0
    BY <1>2
  <2> QED BY <2>1 DEF IndexPut
<1>12. UsedIx(G) = U \union {q.e}
  BY <1>5, <1>8, <1>10, <1>11 DEF UsedIx
<1>13. e \notin Live(R) /\ q.e \notin U
  BY <1>5 DEF Live
<1>14. \A i \in UsedIx(G) : G[i].tbl \in Live(R) \union {e} /\ R[G[i].tbl].ix = i
  <2>1. \A i \in U : G[i].tbl \in Live(R) /\ R[G[i].tbl].ix = i
    BY <1>1, <1>4, <1>10, <1>13 DEF IndicesOK
  <2> QED BY <2>1, <1>11, <1>12
<1>15. \A d \in Live(R) \union {e} : R[d].ix \in UsedIx(G) /\ G[R[d].ix].tbl = d
  <2>1. \A d \in Live(R) : R[d].ix \in U /\ G[R[d].ix].tbl = d
    BY <1>1, <1>4, <1>10, <1>13 DEF IndicesOK
  <2> QED BY <2>1, <1>11, <1>12
<1>16. Wired(G, b, U \union {q.e}, to)
  <2>1. to[q.e] = h
    BY <1>5, <1>8, <1>11 DEF AtSrc
  <2>2. \A x \in U : to[x] = at[x]
    BY <1>4, <1>8, <1>10, <1>13 DEF AtSrc
  <2> HIDE DEF U, at, to, h
  <2>3. Placed(X, b, U, at, h, q)
    BY DEF h, U, at
  <2>5. Wired(X, b, U, at) /\ G[q.e].next = 0 /\ G[q.e].prev = q.prev /\ h \in Base(b)
    BY <1>3, <1>4, <1>11
  <2>4. /\ DOMAIN G = DOMAIN X
        /\ q.prev # 0 => G[q.prev].next = q.e /\ G[q.prev].prev = X[q.prev].prev
        /\ \A x \in DOMAIN X \ {q.e} : x # q.prev \/ x = 0 =>
             G[x].next = X[x].next /\ G[x].prev = X[x].prev
    BY <1>8
  <2>6. Inserts(X, U, at, h, q, G, to)
    BY <2>1, <2>2, <2>4, <2>5 DEF Inserts
  <2> QED BY <2>3, <2>5, <2>6, Inserted
<1>17. IndicesOK(b, R, G, {e})
  BY <1>12, <1>14, <1>15, <1>16 DEF IndicesOK
<1> QED BY <1>1, <1>9, <1>17 DEF Clean

LEMMA IdOfOne ==
  ASSUME NEW b \in Nat, NEW e \in Nat, NEW d \in Nat
  PROVE  /\ IdOf(b, e) = IdOf(b, d) => e = d
         /\ e # 0 => IdOf(b, e) # 0
         /\ IdOf(b, e) \in Nat
         /\ e = (IdOf(b, e) \div 2) + (IF IdOf(b, e) % 2 = 1 THEN b ELSE 0)
BY DEF IdOf

LEMMA LeastOf ==
  ASSUME NEW S \in SUBSET Nat, NEW k \in S
  PROVE  \E x \in S : \A y \in S : x <= y
<1>1. PICK x \in S : \A y \in S : ~(<<y, x>> \in OpToRel(<, Nat))
  BY NatLessThanWellFounded, WFMin, Zenon
<1>2. \A y \in S : ~(y < x)
  BY <1>1, Zenon DEF OpToRel
<1> QED BY <1>2

(* There is always a handle left for one more rule.                          *)
LEMMA FreeHandle ==
  ASSUME NEW b, NEW n, Room(b, n), NEW R, NEW I, NEW C, HandlesOK(b, n, R, I, C),
         DOMAIN R = 0..(n - 1), NEW e \in 1..(n - 1), ~R[e].enabled, ~R[0].enabled
  PROVE  LET h == FirstOf({k \in DOMAIN I : I[k] = 0})
         IN h \in 1..(n - 1) /\ I[h] = 0
<1>1. b \in Nat /\ n \in Nat /\ n > b /\ n >= 2
  BY DEF Room
<1>2. \E h \in 1..(n - 1) : I[h] = 0
  <2> SUFFICES ASSUME \A h \in 1..(n - 1) : I[h] # 0 PROVE FALSE
    OBVIOUS
  <2> DEFINE T == (1..(n - 1)) \ {e}
             en(h) == CHOOSE d \in Live(R) : I[h] = IdOf(b, d) /\ R[d].of = C[h]
             f == [h \in 1..(n - 1) |-> en(h)]
  <2>1. ASSUME NEW h \in 1..(n - 1)
        PROVE  en(h) \in T /\ I[h] = IdOf(b, en(h)) /\ R[en(h)].of = C[h] /\ C[h] # NoRule
    <3>1. h \in 1..n /\ C[h] # NoRule
      BY <1>1 DEF HandlesOK
    <3>2. \E d \in Live(R) : I[h] = IdOf(b, d) /\ R[d].of = C[h]
      BY <3>1 DEF HandlesOK
    <3>3. Live(R) \subseteq T
      BY <1>1 DEF Live
    <3> QED BY <3>1, <3>2, <3>3
  <2>2. f \in [1..(n - 1) -> T]
    BY <2>1
  <2>3. IsFiniteSet(1..(n - 1)) /\ Cardinality(1..(n - 1)) = n - 1
    BY <1>1, FS_Interval
  <2>4. IsFiniteSet(T) /\ Cardinality(T) = n - 2
    <3> DEFINE U == 1..(n - 1)
    <3>1. e \in U /\ IsFiniteSet(U) /\ Cardinality(U) = n - 1
      BY <2>3
    <3> HIDE DEF U
    <3>2. IsFiniteSet(U \ {e}) /\ Cardinality(U \ {e}) = Cardinality(U) - 1
      BY <3>1, FS_RemoveElement
    <3> QED BY <3>1, <3>2, <1>1 DEF U
  <2>5. \E x, y \in 1..(n - 1) : x # y /\ f[x] = f[y]
    <3> HIDE DEF T, f
    <3>1. Cardinality(T) < Cardinality(1..(n - 1))
      BY <1>1, <2>3, <2>4
    <3> QED BY <2>2, <2>3, <2>4, <3>1, FS_PigeonHole
  <2>6. PICK x, y \in 1..(n - 1) : x # y /\ en(x) = en(y)
    BY <2>5
  <2>7. C[x] = C[y] /\ C[x] # NoRule
    BY <2>1, <2>6
  <2>8. x \in 1..n /\ y \in 1..n
    BY <1>1
  <2> QED BY <2>6, <2>7, <2>8 DEF HandlesOK
<1>3. PICK k \in 1..(n - 1) : I[k] = 0
  BY <1>2
<1> DEFINE S == {x \in 1..n : I[x] = 0}
<1>4. S \in SUBSET Nat /\ k \in S
  BY <1>1, <1>3
<1>5. \E x \in S : \A y \in S : x <= y
  <2> HIDE DEF S
  <2> QED BY <1>4, LeastOf
<1>6. Min(S) \in S /\ Min(S) <= k
  BY <1>4, <1>5 DEF Min
<1>7. {x \in DOMAIN I : I[x] = 0} = S /\ S # {} /\ FirstOf(S) = Min(S)
  BY <1>4 DEF HandlesOK, FirstOf
<1>8. FirstOf({x \in DOMAIN I : I[x] = 0}) = Min(S)
  BY <1>7
<1>9. Min(S) \in 1..n /\ I[Min(S)] = 0
  BY <1>6
<1>10. Min(S) \in 1..(n - 1)
  BY <1>1, <1>6, <1>9
<1> HIDE DEF S
<1> QED BY <1>8, <1>9, <1>10
-----------------------------------------------------------------------------
(* The rule is enabled and gets a handle.                                  *)

Raised(R, e) == [R EXCEPT ![e].enabled = TRUE]

(* ipa_nati_post_ipv4_dma_cmd and ipa_nati_make_rule_hdl.                    *)
Enables(b, R, I, C, e, h, G, J, B) ==
  /\ G = Raised(R, e) /\ h = FirstOf({k \in DOMAIN I : I[k] = 0})
  /\ J = [I EXCEPT ![h] = IdOf(b, e)] /\ B = [C EXCEPT ![h] = R[e].of]
LEMMA RuleEnabled ==
  ASSUME NEW b, NEW n, NEW R, NEW X, NEW I, NEW C, NEW e \in 1..(n - 1),
         Clean(b, n, R, X, I, C, {e}, {e}), ~R[e].enabled, R[e].of \in StoreRules,
         \A g \in DOMAIN C : C[g] # R[e].of,
         NEW h, NEW G, NEW J, NEW B, Enables(b, R, I, C, e, h, G, J, B)
  PROVE  h # 0 /\ h \in DOMAIN I /\ Clean(b, n, G, X, J, B, {}, {})
<1>0. /\ G = Raised(R, e) /\ h = FirstOf({k \in DOMAIN I : I[k] = 0})
      /\ J = [I EXCEPT ![h] = IdOf(b, e)] /\ B = [C EXCEPT ![h] = R[e].of]
  BY DEF Enables
<1>1. /\ Room(b, n) /\ Arrays(n, R, X) /\ RulesOK(b, R, {e}) /\ IndicesOK(b, R, X, {e})
      /\ HandlesOK(b, n, R, I, C)
  BY DEF Clean
<1>2. /\ DOMAIN R = 0..(n - 1) /\ DOMAIN X = 0..(n - 1)
      /\ b \in Nat /\ b >= 2 /\ n \in Nat /\ n > b /\ e \in DOMAIN R
      /\ Threaded(X)
      /\ \A x \in DOMAIN R : R[x] \in RuleEntries(n)
  <2>1. b \in Nat /\ b >= 2 /\ n \in Nat /\ n > b
    BY <1>1 DEF Room
  <2>2. n > 0
    BY <2>1
  <2> QED BY <1>1, <2>1, <2>2, ArraysThread DEF Arrays
<1>3. Used(R) \union {e} \subseteq DOMAIN R \ {0}
  BY <1>1 DEF RulesOK, Wired
<1>4. h \in 1..(n - 1) /\ I[h] = 0
  <2>1. ~R[0].enabled
    BY <1>2, <1>3 DEF Used
  <2> QED BY <1>0, <2>1, <1>1, <1>2, FreeHandle
<1>5. /\ G \in [0..(n - 1) -> RuleEntries(n)] /\ DOMAIN G = DOMAIN R
      /\ G[e].enabled /\ G[e].dead = R[e].dead
      /\ \A x \in DOMAIN R : x # e => G[x] = R[x]
      /\ \A x \in DOMAIN R : /\ G[x].of = R[x].of /\ G[x].next = R[x].next
                            /\ G[x].prev = R[x].prev /\ G[x].ix = R[x].ix
  <2>0. R[e] \in RuleEntries(n) /\ R \in [0..(n - 1) -> RuleEntries(n)]
    BY <1>1, <1>2 DEF Arrays
  <2>1. PICK v : v = [R[e] EXCEPT !.enabled = TRUE]
    OBVIOUS
  <2>2. /\ v \in RuleEntries(n) /\ v.enabled = TRUE /\ v.dead = R[e].dead /\ v.of = R[e].of
        /\ v.next = R[e].next /\ v.prev = R[e].prev /\ v.ix = R[e].ix
    BY <2>0, <2>1 DEF RuleEntries
  <2>3. G = [R EXCEPT ![e] = v]
    BY <1>0, <2>1, <1>2 DEF Raised
  <2>4. G \in [0..(n - 1) -> RuleEntries(n)]
    BY <2>0, <2>2, <2>3
  <2> QED BY <1>2, <2>2, <2>3, <2>4
<1>6. ~R[e].dead
  BY <1>1, <1>2 DEF RulesOK
<1>7. Used(G) = Used(R) \union {e} /\ Live(G) = Live(R) \union {e}
  BY <1>2, <1>5, <1>6 DEF Used, Live
<1>8. Arrays(n, G, X)
  BY <1>1, <1>5 DEF Arrays
<1>9. Threaded(G)
  <2>1. n > 0
    BY <1>2
  <2> QED BY <1>8, <1>2, <2>1, ArraysThread
<1>10. RulesOK(b, G, {})
  <2> DEFINE U == Used(R) \union {e}
             at == AtDst(b, R)
             to == AtDst(b, G)
  <2>1. Wired(R, b, U, at) /\ U \subseteq DOMAIN R /\ Base(b) \subseteq DOMAIN R
    BY <1>1, <1>3 DEF RulesOK, Wired, Spans
  <2>2. \A x \in U : to[x] = at[x]
    BY <2>1, <1>5 DEF AtDst
  <2>3. /\ \A x \in U \union Base(b) : G[x].next = R[x].next
        /\ \A x \in U : G[x].prev = R[x].prev
        /\ DOMAIN G = DOMAIN R
    BY <2>1, <1>5
  <2>4. Wired(G, b, U, to)
    <3> HIDE DEF U, at, to
    <3>1. Threaded(G)
      BY <1>9
    <3> QED BY <2>1, <2>2, <2>3, <3>1, WiredSame
  <2>5. \A x \in U : G[x].of \in StoreRules
    BY <2>1, <1>1, <1>5 DEF RulesOK
  <2>6. ASSUME NEW x \in DOMAIN G, G[x].dead
        PROVE  G[x].enabled /\ x < b /\ G[x].next # 0
    <3>1. x \in DOMAIN R /\ R[x].dead /\ x # e
      BY <1>5, <1>6, <2>6
    <3> QED BY <3>1, <1>1, <1>5 DEF RulesOK
  <2> QED BY <1>7, <2>4, <2>5, <2>6 DEF RulesOK
<1>11. IndicesOK(b, G, X, {})
  <2>0. Live(R) \union {e} \subseteq DOMAIN R
    BY <1>2 DEF Live
  <2>0a. \A d \in Live(R) \union {e} : G[d].ix = R[d].ix
    BY <2>0, <1>5
  <2>1. /\ \A i \in UsedIx(X) : X[i].tbl \in Live(G) /\ G[X[i].tbl].ix = i
        /\ \A d \in Live(G) : G[d].ix \in UsedIx(X) /\ X[G[d].ix].tbl = d
    BY <2>0a, <1>1, <1>7 DEF IndicesOK
  <2>2. ASSUME NEW i \in UsedIx(X) PROVE AtSrc(b, G, X)[i] = AtSrc(b, R, X)[i]
    <3>1. G[X[i].tbl].of = R[X[i].tbl].of
      BY <1>1, <1>5, <2>0 DEF IndicesOK
    <3> QED BY <3>1 DEF AtSrc, UsedIx
  <2>3. Wired(X, b, UsedIx(X), AtSrc(b, R, X))
    BY <1>1 DEF IndicesOK
  <2>4. Wired(X, b, UsedIx(X), AtSrc(b, G, X))
    BY <2>2, <2>3, <1>2, WiredSame
  <2> QED BY <2>1, <2>4 DEF IndicesOK
<1>12. HandlesOK(b, n, G, J, B)
  <2>1. /\ DOMAIN I = 1..n /\ DOMAIN C = 1..n
        /\ \A k \in 1..n : C[k] = NoRule => I[k] = 0
        /\ \A k \in 1..n : C[k] # NoRule =>
             k < n /\ \E d \in Live(R) : I[k] = IdOf(b, d) /\ R[d].of = C[k]
        /\ \A d \in Live(R) : \E k \in 1..n : I[k] = IdOf(b, d) /\ C[k] = R[d].of
        /\ \A k, g \in 1..n : C[k] = C[g] /\ C[k] # NoRule => k = g
    BY <1>1 DEF HandlesOK
  <2>2. h \in 1..n /\ h < n
    BY <1>2, <1>4
  <2>3. /\ DOMAIN J = 1..n /\ DOMAIN B = 1..n /\ J[h] = IdOf(b, e) /\ B[h] = R[e].of
        /\ \A k \in 1..n : k # h => J[k] = I[k] /\ B[k] = C[k]
    BY <1>0, <2>1, <2>2
  <2>4. R[e].of # NoRule
    BY NatTableAssumption
  <2>5. C[h] = NoRule
    <3> SUFFICES ASSUME C[h] # NoRule PROVE FALSE
      OBVIOUS
    <3>1. PICK d \in Live(R) : I[h] = IdOf(b, d)
      BY <2>1, <2>2
    <3>2. d \in Nat /\ d # 0
      BY <1>2, <1>3 DEF Live, Used
    <3> QED BY <3>1, <3>2, <1>2, <1>4, IdOfOne
  <2>6. \A d \in Live(R) : G[d].of = R[d].of
    BY <1>5 DEF Live
  <2>7. \A k \in 1..n : B[k] = NoRule => J[k] = 0
    BY <2>1, <2>3, <2>4
  <2>8. ASSUME NEW k \in 1..n, B[k] # NoRule
        PROVE  k < n /\ \E d \in Live(G) : J[k] = IdOf(b, d) /\ G[d].of = B[k]
    <3>1. CASE k = h
      BY <3>1, <2>2, <2>3, <1>2, <1>5, <1>7
    <3>2. CASE k # h
      BY <3>2, <2>1, <2>3, <2>6, <2>8, <1>7
    <3> QED BY <3>1, <3>2
  <2>9. ASSUME NEW d \in Live(G)
        PROVE  \E k \in 1..n : J[k] = IdOf(b, d) /\ B[k] = G[d].of
    <3>1. CASE d = e
      BY <3>1, <2>2, <2>3, <1>2, <1>5
    <3>2. CASE d # e
      <4>1. d \in Live(R) /\ R[d].of # NoRule
        <5>1. d \in Live(R)
          BY <3>2, <1>7
        <5>2. R[d].of \in StoreRules
          BY <5>1, <1>1 DEF RulesOK, Live, Used
        <5> QED BY <5>1, <5>2, NatTableAssumption
      <4>2. PICK k \in 1..n : I[k] = IdOf(b, d) /\ C[k] = R[d].of
        BY <4>1, <2>1
      <4>3. k # h
        BY <4>1, <4>2, <2>5
      <4> QED BY <4>1, <4>2, <4>3, <2>3, <2>6
    <3> QED BY <3>1, <3>2
  <2>10. \A k, g \in 1..n : B[k] = B[g] /\ B[k] # NoRule => k = g
    BY <2>1, <2>3
  <2> QED BY <2>3, <2>7, <2>8, <2>9, <2>10 DEF HandlesOK
<1>13. h # 0 /\ h \in DOMAIN I
  BY <1>1, <1>2, <1>4 DEF HandlesOK
<1> QED BY <1>1, <1>8, <1>10, <1>11, <1>12, <1>13 DEF Clean
-----------------------------------------------------------------------------
(* What the commands of a deletion write, field by field.                  *)

SetNext(f, e, v) == [f EXCEPT ![e].next = v]
SetPrev(f, e, v) == [f EXCEPT ![e].prev = v]
SetIx(f, e, v) == [f EXCEPT ![e].ix = v]
SetTbl(f, e, v) == [f EXCEPT ![e].tbl = v]
SetOff(f, e) == [f EXCEPT ![e].enabled = FALSE]
SetDead(f, e) == [f EXCEPT ![e].dead = TRUE]

(* The commands of a deletion: what they leave of the tables.                *)
RuleCut(b, R, d) ==
  IF d >= b THEN SetNext(R, R[d].prev, R[d].next)
  ELSE IF R[d].next = 0 THEN SetOff(R, d) ELSE SetDead(R, d)
IndexHalf(X, i) == SetTbl(X, i, X[X[i].next].tbl)
IndexCut(b, X, i) ==
  IF i >= b THEN SetNext(X, X[i].prev, X[i].next)
  ELSE IF X[i].next = 0 THEN SetTbl(X, i, 0)
  ELSE SetNext(IndexHalf(X, i), i, X[X[i].next].next)

(* One field of one entry is written.                                        *)
RuleTable(n, R) == R \in [0..(n - 1) -> RuleEntries(n)]
IndexTable(n, X) == X \in [0..(n - 1) -> IndexEntries(n)]

LEMMA RuleTypes ==
  ASSUME NEW n, NEW R, RuleTable(n, R)
  PROVE  \A x \in DOMAIN R : /\ R[x].next \in DOMAIN R /\ R[x].prev \in DOMAIN R
                             /\ R[x].ix \in DOMAIN R /\ R[x].enabled \in BOOLEAN
                             /\ R[x].dead \in BOOLEAN
BY DEF RuleTable, RuleEntries

LEMMA IndexTypes ==
  ASSUME NEW n, NEW X, IndexTable(n, X)
  PROVE  \A x \in DOMAIN X : /\ X[x].next \in DOMAIN X /\ X[x].prev \in DOMAIN X
                             /\ X[x].tbl \in DOMAIN X
BY DEF IndexTable, IndexEntries

ByRuleNext(n, R, e, v, G) ==
  /\ RuleTable(n, G) /\ DOMAIN G = DOMAIN R /\ G[e].next = v
  /\ \A x \in DOMAIN R \ {e} : G[x] = R[x]
  /\ \A x \in DOMAIN R : /\ G[x].of = R[x].of /\ G[x].enabled = R[x].enabled /\ G[x].dead = R[x].dead
                       /\ G[x].prev = R[x].prev /\ G[x].ix = R[x].ix
LEMMA RuleNext ==
  ASSUME NEW n, NEW R, RuleTable(n, R), NEW e \in DOMAIN R, NEW v \in DOMAIN R
  PROVE  ByRuleNext(n, R, e, v, SetNext(R, e, v))
<1>1. PICK w : w = [R[e] EXCEPT !.next = v]
  OBVIOUS
<1>2. R[e] \in RuleEntries(n) /\ DOMAIN R = 0..(n - 1)
  BY DEF RuleTable
<1>3. /\ w \in RuleEntries(n) /\ w.next = v
      /\ w.of = R[e].of /\ w.enabled = R[e].enabled /\ w.dead = R[e].dead
      /\ w.prev = R[e].prev /\ w.ix = R[e].ix
  BY <1>1, <1>2 DEF RuleEntries
<1> DEFINE G == SetNext(R, e, v)
<1>4. G = [R EXCEPT ![e] = w]
  BY <1>1 DEF SetNext
<1>5. /\ RuleTable(n, G) /\ DOMAIN G = DOMAIN R /\ G[e] = w
      /\ \A x \in DOMAIN R \ {e} : G[x] = R[x]
  BY <1>3, <1>4 DEF RuleTable
<1> HIDE DEF G
<1>6. ByRuleNext(n, R, e, v, G)
  BY <1>3, <1>5 DEF ByRuleNext
<1> QED BY <1>6 DEF G

ByRulePrev(n, R, e, v, G) ==
  /\ RuleTable(n, G) /\ DOMAIN G = DOMAIN R /\ G[e].prev = v
  /\ \A x \in DOMAIN R \ {e} : G[x] = R[x]
  /\ \A x \in DOMAIN R : /\ G[x].of = R[x].of /\ G[x].enabled = R[x].enabled /\ G[x].dead = R[x].dead
                       /\ G[x].next = R[x].next /\ G[x].ix = R[x].ix
LEMMA RulePrev ==
  ASSUME NEW n, NEW R, RuleTable(n, R), NEW e \in DOMAIN R, NEW v \in DOMAIN R
  PROVE  ByRulePrev(n, R, e, v, SetPrev(R, e, v))
<1>1. PICK w : w = [R[e] EXCEPT !.prev = v]
  OBVIOUS
<1>2. R[e] \in RuleEntries(n) /\ DOMAIN R = 0..(n - 1)
  BY DEF RuleTable
<1>3. /\ w \in RuleEntries(n) /\ w.prev = v
      /\ w.of = R[e].of /\ w.enabled = R[e].enabled /\ w.dead = R[e].dead
      /\ w.next = R[e].next /\ w.ix = R[e].ix
  BY <1>1, <1>2 DEF RuleEntries
<1> DEFINE G == SetPrev(R, e, v)
<1>4. G = [R EXCEPT ![e] = w]
  BY <1>1 DEF SetPrev
<1>5. /\ RuleTable(n, G) /\ DOMAIN G = DOMAIN R /\ G[e] = w
      /\ \A x \in DOMAIN R \ {e} : G[x] = R[x]
  BY <1>3, <1>4 DEF RuleTable
<1> HIDE DEF G
<1>6. ByRulePrev(n, R, e, v, G)
  BY <1>3, <1>5 DEF ByRulePrev
<1> QED BY <1>6 DEF G

ByRuleIx(n, R, e, v, G) ==
  /\ RuleTable(n, G) /\ DOMAIN G = DOMAIN R /\ G[e].ix = v
  /\ \A x \in DOMAIN R \ {e} : G[x] = R[x]
  /\ \A x \in DOMAIN R : /\ G[x].of = R[x].of /\ G[x].enabled = R[x].enabled /\ G[x].dead = R[x].dead
                       /\ G[x].next = R[x].next /\ G[x].prev = R[x].prev
LEMMA RuleIx ==
  ASSUME NEW n, NEW R, RuleTable(n, R), NEW e \in DOMAIN R, NEW v \in DOMAIN R
  PROVE  ByRuleIx(n, R, e, v, SetIx(R, e, v))
<1>1. PICK w : w = [R[e] EXCEPT !.ix = v]
  OBVIOUS
<1>2. R[e] \in RuleEntries(n) /\ DOMAIN R = 0..(n - 1)
  BY DEF RuleTable
<1>3. /\ w \in RuleEntries(n) /\ w.ix = v
      /\ w.of = R[e].of /\ w.enabled = R[e].enabled /\ w.dead = R[e].dead
      /\ w.next = R[e].next /\ w.prev = R[e].prev
  BY <1>1, <1>2 DEF RuleEntries
<1> DEFINE G == SetIx(R, e, v)
<1>4. G = [R EXCEPT ![e] = w]
  BY <1>1 DEF SetIx
<1>5. /\ RuleTable(n, G) /\ DOMAIN G = DOMAIN R /\ G[e] = w
      /\ \A x \in DOMAIN R \ {e} : G[x] = R[x]
  BY <1>3, <1>4 DEF RuleTable
<1> HIDE DEF G
<1>6. ByRuleIx(n, R, e, v, G)
  BY <1>3, <1>5 DEF ByRuleIx
<1> QED BY <1>6 DEF G

ByRuleOff(n, R, e, G) ==
  /\ RuleTable(n, G) /\ DOMAIN G = DOMAIN R /\ ~G[e].enabled
  /\ \A x \in DOMAIN R \ {e} : G[x] = R[x]
  /\ \A x \in DOMAIN R : /\ G[x].of = R[x].of /\ G[x].dead = R[x].dead /\ G[x].next = R[x].next
                       /\ G[x].prev = R[x].prev /\ G[x].ix = R[x].ix
LEMMA RuleOff ==
  ASSUME NEW n, NEW R, RuleTable(n, R), NEW e \in DOMAIN R
  PROVE  ByRuleOff(n, R, e, SetOff(R, e))
<1>1. PICK w : w = [R[e] EXCEPT !.enabled = FALSE]
  OBVIOUS
<1>2. R[e] \in RuleEntries(n) /\ DOMAIN R = 0..(n - 1)
  BY DEF RuleTable
<1>3. /\ w \in RuleEntries(n) /\ ~w.enabled
      /\ w.of = R[e].of /\ w.dead = R[e].dead /\ w.next = R[e].next
      /\ w.prev = R[e].prev /\ w.ix = R[e].ix
  BY <1>1, <1>2 DEF RuleEntries
<1> DEFINE G == SetOff(R, e)
<1>4. G = [R EXCEPT ![e] = w]
  BY <1>1 DEF SetOff
<1>5. /\ RuleTable(n, G) /\ DOMAIN G = DOMAIN R /\ G[e] = w
      /\ \A x \in DOMAIN R \ {e} : G[x] = R[x]
  BY <1>3, <1>4 DEF RuleTable
<1> HIDE DEF G
<1>6. ByRuleOff(n, R, e, G)
  BY <1>3, <1>5 DEF ByRuleOff
<1> QED BY <1>6 DEF G

ByRuleDead(n, R, e, G) ==
  /\ RuleTable(n, G) /\ DOMAIN G = DOMAIN R /\ G[e].dead
  /\ \A x \in DOMAIN R \ {e} : G[x] = R[x]
  /\ \A x \in DOMAIN R : /\ G[x].of = R[x].of /\ G[x].enabled = R[x].enabled /\ G[x].next = R[x].next
                       /\ G[x].prev = R[x].prev /\ G[x].ix = R[x].ix
LEMMA RuleDead ==
  ASSUME NEW n, NEW R, RuleTable(n, R), NEW e \in DOMAIN R
  PROVE  ByRuleDead(n, R, e, SetDead(R, e))
<1>1. PICK w : w = [R[e] EXCEPT !.dead = TRUE]
  OBVIOUS
<1>2. R[e] \in RuleEntries(n) /\ DOMAIN R = 0..(n - 1)
  BY DEF RuleTable
<1>3. /\ w \in RuleEntries(n) /\ w.dead
      /\ w.of = R[e].of /\ w.enabled = R[e].enabled /\ w.next = R[e].next
      /\ w.prev = R[e].prev /\ w.ix = R[e].ix
  BY <1>1, <1>2 DEF RuleEntries
<1> DEFINE G == SetDead(R, e)
<1>4. G = [R EXCEPT ![e] = w]
  BY <1>1 DEF SetDead
<1>5. /\ RuleTable(n, G) /\ DOMAIN G = DOMAIN R /\ G[e] = w
      /\ \A x \in DOMAIN R \ {e} : G[x] = R[x]
  BY <1>3, <1>4 DEF RuleTable
<1> HIDE DEF G
<1>6. ByRuleDead(n, R, e, G)
  BY <1>3, <1>5 DEF ByRuleDead
<1> QED BY <1>6 DEF G

ByIndexNext(n, X, i, v, G) ==
  /\ IndexTable(n, G) /\ DOMAIN G = DOMAIN X /\ G[i].next = v
  /\ \A x \in DOMAIN X \ {i} : G[x] = X[x]
  /\ \A x \in DOMAIN X : /\ G[x].tbl = X[x].tbl /\ G[x].prev = X[x].prev
LEMMA IndexNext ==
  ASSUME NEW n, NEW X, IndexTable(n, X), NEW i \in DOMAIN X, NEW v \in DOMAIN X
  PROVE  ByIndexNext(n, X, i, v, SetNext(X, i, v))
<1>1. PICK w : w = [X[i] EXCEPT !.next = v]
  OBVIOUS
<1>2. X[i] \in IndexEntries(n) /\ DOMAIN X = 0..(n - 1)
  BY DEF IndexTable
<1>3. /\ w \in IndexEntries(n) /\ w.next = v
      /\ w.tbl = X[i].tbl /\ w.prev = X[i].prev
  BY <1>1, <1>2 DEF IndexEntries
<1> DEFINE G == SetNext(X, i, v)
<1>4. G = [X EXCEPT ![i] = w]
  BY <1>1 DEF SetNext
<1>5. /\ IndexTable(n, G) /\ DOMAIN G = DOMAIN X /\ G[i] = w
      /\ \A x \in DOMAIN X \ {i} : G[x] = X[x]
  BY <1>3, <1>4 DEF IndexTable
<1> HIDE DEF G
<1>6. ByIndexNext(n, X, i, v, G)
  BY <1>3, <1>5 DEF ByIndexNext
<1> QED BY <1>6 DEF G

ByIndexPrev(n, X, i, v, G) ==
  /\ IndexTable(n, G) /\ DOMAIN G = DOMAIN X /\ G[i].prev = v
  /\ \A x \in DOMAIN X \ {i} : G[x] = X[x]
  /\ \A x \in DOMAIN X : /\ G[x].tbl = X[x].tbl /\ G[x].next = X[x].next
LEMMA IndexPrev ==
  ASSUME NEW n, NEW X, IndexTable(n, X), NEW i \in DOMAIN X, NEW v \in DOMAIN X
  PROVE  ByIndexPrev(n, X, i, v, SetPrev(X, i, v))
<1>1. PICK w : w = [X[i] EXCEPT !.prev = v]
  OBVIOUS
<1>2. X[i] \in IndexEntries(n) /\ DOMAIN X = 0..(n - 1)
  BY DEF IndexTable
<1>3. /\ w \in IndexEntries(n) /\ w.prev = v
      /\ w.tbl = X[i].tbl /\ w.next = X[i].next
  BY <1>1, <1>2 DEF IndexEntries
<1> DEFINE G == SetPrev(X, i, v)
<1>4. G = [X EXCEPT ![i] = w]
  BY <1>1 DEF SetPrev
<1>5. /\ IndexTable(n, G) /\ DOMAIN G = DOMAIN X /\ G[i] = w
      /\ \A x \in DOMAIN X \ {i} : G[x] = X[x]
  BY <1>3, <1>4 DEF IndexTable
<1> HIDE DEF G
<1>6. ByIndexPrev(n, X, i, v, G)
  BY <1>3, <1>5 DEF ByIndexPrev
<1> QED BY <1>6 DEF G

ByIndexTbl(n, X, i, v, G) ==
  /\ IndexTable(n, G) /\ DOMAIN G = DOMAIN X /\ G[i].tbl = v
  /\ \A x \in DOMAIN X \ {i} : G[x] = X[x]
  /\ \A x \in DOMAIN X : /\ G[x].next = X[x].next /\ G[x].prev = X[x].prev
LEMMA IndexTbl ==
  ASSUME NEW n, NEW X, IndexTable(n, X), NEW i \in DOMAIN X, NEW v \in DOMAIN X
  PROVE  ByIndexTbl(n, X, i, v, SetTbl(X, i, v))
<1>1. PICK w : w = [X[i] EXCEPT !.tbl = v]
  OBVIOUS
<1>2. X[i] \in IndexEntries(n) /\ DOMAIN X = 0..(n - 1)
  BY DEF IndexTable
<1>3. /\ w \in IndexEntries(n) /\ w.tbl = v
      /\ w.next = X[i].next /\ w.prev = X[i].prev
  BY <1>1, <1>2 DEF IndexEntries
<1> DEFINE G == SetTbl(X, i, v)
<1>4. G = [X EXCEPT ![i] = w]
  BY <1>1 DEF SetTbl
<1>5. /\ IndexTable(n, G) /\ DOMAIN G = DOMAIN X /\ G[i] = w
      /\ \A x \in DOMAIN X \ {i} : G[x] = X[x]
  BY <1>3, <1>4 DEF IndexTable
<1> HIDE DEF G
<1>6. ByIndexTbl(n, X, i, v, G)
  BY <1>3, <1>5 DEF ByIndexTbl
<1> QED BY <1>6 DEF G

ByRuleCut(b, n, R, d, Y) ==
         /\ RuleTable(n, Y) /\ DOMAIN Y = DOMAIN R
         /\ \A x \in DOMAIN R : Y[x].of = R[x].of /\ Y[x].prev = R[x].prev /\ Y[x].ix = R[x].ix
         /\ d >= b => /\ Y[R[d].prev].next = R[d].next
                      /\ \A x \in DOMAIN R \ {R[d].prev} : Y[x] = R[x]
                      /\ \A x \in DOMAIN R : Y[x].enabled = R[x].enabled /\ Y[x].dead = R[x].dead
         /\ ~(d >= b) => /\ \A x \in DOMAIN R : Y[x].next = R[x].next
                         /\ \A x \in DOMAIN R \ {d} : Y[x] = R[x]
                         /\ R[d].next = 0 => ~Y[d].enabled /\ Y[d].dead = R[d].dead
                         /\ R[d].next # 0 => Y[d].dead /\ Y[d].enabled = R[d].enabled
LEMMA RuleCutFields ==
  ASSUME NEW b, NEW n, NEW R, RuleTable(n, R), NEW d \in DOMAIN R
  PROVE  ByRuleCut(b, n, R, d, RuleCut(b, R, d))
<1> DEFINE Y == RuleCut(b, R, d)
<1>0. Y = RuleCut(b, R, d)
  OBVIOUS
<1> HIDE DEF Y
<1>1. R[d].prev \in DOMAIN R /\ R[d].next \in DOMAIN R
  BY RuleTypes
<1>2. ASSUME d >= b
      PROVE  ByRuleCut(b, n, R, d, Y)
  <2>1. ByRuleNext(n, R, R[d].prev, R[d].next, Y)
    BY <1>1, <1>2, RuleNext, <1>0 DEF RuleCut
  <2> QED BY <1>2, <2>1 DEF ByRuleNext, ByRuleCut
<1>3. ASSUME ~(d >= b) /\ R[d].next = 0
      PROVE  ByRuleCut(b, n, R, d, Y)
  <2>1. ByRuleOff(n, R, d, Y)
    BY <1>3, RuleOff, <1>0 DEF RuleCut
  <2> QED BY <1>3, <2>1 DEF ByRuleOff, ByRuleCut
<1>4. ASSUME ~(d >= b) /\ R[d].next # 0
      PROVE  ByRuleCut(b, n, R, d, Y)
  <2>1. ByRuleDead(n, R, d, Y)
    BY <1>4, RuleDead, <1>0 DEF RuleCut
  <2> QED BY <1>4, <2>1 DEF ByRuleDead, ByRuleCut
<1> QED BY <1>0, <1>2, <1>3, <1>4

ByIndexCut(b, n, X, i, Y, H) ==
         /\ IndexTable(n, Y) /\ IndexTable(n, H) /\ DOMAIN Y = DOMAIN X /\ DOMAIN H = DOMAIN X
         /\ \A x \in DOMAIN X : Y[x].prev = X[x].prev
         /\ i >= b => /\ Y[X[i].prev].next = X[i].next
                      /\ \A x \in DOMAIN X \ {X[i].prev} : Y[x] = X[x]
                      /\ \A x \in DOMAIN X : Y[x].tbl = X[x].tbl
         /\ ~(i >= b) => \A x \in DOMAIN X \ {i} : Y[x] = X[x]
         /\ ~(i >= b) /\ X[i].next = 0 => Y[i].next = 0 /\ Y[i].tbl = 0
         /\ ~(i >= b) /\ X[i].next # 0 => /\ Y[i].next = X[X[i].next].next
                                          /\ Y[i].tbl = X[X[i].next].tbl
         /\ H[i].tbl = X[X[i].next].tbl
         /\ \A x \in DOMAIN X : H[x].next = X[x].next
         /\ \A x \in DOMAIN X \ {i} : H[x] = X[x]
LEMMA IndexCutFields ==
  ASSUME NEW b, NEW n, NEW X, IndexTable(n, X), 0 \in DOMAIN X, NEW i \in DOMAIN X
  PROVE  ByIndexCut(b, n, X, i, IndexCut(b, X, i), IndexHalf(X, i))
<1> DEFINE Y == IndexCut(b, X, i)
           H == IndexHalf(X, i)
<1>0. Y = IndexCut(b, X, i) /\ H = IndexHalf(X, i)
  OBVIOUS
<1> HIDE DEF Y, H
<1> DEFINE m == X[i].next
<1>1. m \in DOMAIN X /\ X[i].prev \in DOMAIN X /\ X[m].next \in DOMAIN X /\ X[m].tbl \in DOMAIN X
  BY IndexTypes
<1>2. ByIndexTbl(n, X, i, X[m].tbl, H)
  BY <1>1, IndexTbl, <1>0 DEF IndexHalf
<1>3. ASSUME i >= b
      PROVE  ByIndexCut(b, n, X, i, Y, H)
  <2>1. ByIndexNext(n, X, X[i].prev, m, Y)
    BY <1>1, <1>3, IndexNext, <1>0 DEF IndexCut
  <2> QED BY <1>2, <1>3, <2>1 DEF ByIndexTbl, ByIndexNext, ByIndexCut
<1>4. ASSUME ~(i >= b) /\ m = 0
      PROVE  ByIndexCut(b, n, X, i, Y, H)
  <2>1. ByIndexTbl(n, X, i, 0, Y)
    BY <1>4, IndexTbl, <1>0 DEF IndexCut
  <2> QED BY <1>2, <1>4, <2>1 DEF ByIndexTbl, ByIndexCut
<1>5. ASSUME ~(i >= b) /\ m # 0
      PROVE  ByIndexCut(b, n, X, i, Y, H)
  <2>0. IndexTable(n, H) /\ DOMAIN H = DOMAIN X
    BY <1>2 DEF ByIndexTbl
  <2>1. ByIndexNext(n, H, i, X[m].next, Y)
    BY <1>1, <1>5, <2>0, IndexNext, <1>0 DEF IndexCut
  <2> QED BY <1>1, <1>2, <1>5, <2>1 DEF ByIndexTbl, ByIndexNext, ByIndexCut
<1> QED BY <1>0, <1>3, <1>4, <1>5
-----------------------------------------------------------------------------
(* A deletion as the hardware sees it: the rule it is about is not found any *)
(* more, by source before by destination, all the others are.              *)

Facts(b, n, R, X, P, Q) ==
         /\ Wired(R, b, Used(R) \union P, AtDst(b, R)) /\ Wired(X, b, UsedIx(X), AtSrc(b, R, X))
         /\ RuleTable(n, R) /\ IndexTable(n, X) /\ Threaded(R) /\ Threaded(X)
         /\ DOMAIN R = 0..(n - 1) /\ DOMAIN X = DOMAIN R /\ 0 \in DOMAIN R
         /\ b \in Nat /\ b >= 2 /\ n \in Nat /\ n > b
         /\ Used(R) \subseteq DOMAIN R /\ Live(R) \subseteq Used(R) /\ 0 \notin Used(R)
         /\ \A e \in Live(R) : R[e].of \in StoreRules /\ R[e].ix \in UsedIx(X) /\ X[R[e].ix].tbl = e
         /\ \A i \in UsedIx(X) : X[i].tbl \in Live(R) \union Q /\ R[X[i].tbl].ix = i
LEMMA CleanWired ==
  ASSUME NEW b, NEW n, NEW R, NEW X, NEW I, NEW C, NEW P, NEW Q, Clean(b, n, R, X, I, C, P, Q)
  PROVE  Facts(b, n, R, X, P, Q)
BY ArraysThread DEF Facts, Clean, RulesOK, IndicesOK, Room, Arrays, RuleTable, IndexTable, Used, Live, Wired

(* A live rule is in the chains its hashes lead to. *)
LEMMA LiveFound ==
  ASSUME NEW b, NEW n, NEW R, NEW X, NEW I, NEW C, NEW P, NEW Q, Clean(b, n, R, X, I, C, P, Q),
         NEW e \in Live(R)
  PROVE  /\ e \in Chain(R, HashOf(b, R[e].of.dst))
         /\ R[e].ix \in Chain(X, HashOf(b, R[e].of.src)) /\ X[R[e].ix].tbl = e
<1>0. Facts(b, n, R, X, P, Q)
  BY CleanWired
<1>1. e \in Chain(R, AtDst(b, R)[e]) /\ AtDst(b, R)[e] = HashOf(b, R[e].of.dst)
  BY <1>0 DEF Facts, Wired, AtDst
<1>2. R[e].ix \in UsedIx(X) /\ X[R[e].ix].tbl = e
  BY <1>0 DEF Facts
<1>3. R[e].ix \in Chain(X, AtSrc(b, R, X)[R[e].ix])
      /\ AtSrc(b, R, X)[R[e].ix] = HashOf(b, R[e].of.src)
  <2>1. R[e].ix \in DOMAIN X
    BY <1>2 DEF UsedIx
  <2> QED BY <1>2, <2>1, <1>0 DEF Facts, Wired, AtSrc
<1> QED BY <1>1, <1>2, <1>3

(* A rule is cut out of the rule table: no other one is.                     *)
LEMMA RuleCutChains ==
  ASSUME NEW b, NEW n, NEW R, NEW X, NEW I, NEW C, Clean(b, n, R, X, I, C, {}, {}),
         NEW d \in Live(R), NEW Y, Y = RuleCut(b, R, d), NEW h \in Base(b)
  PROVE  /\ Threaded(Y) /\ DOMAIN Y = DOMAIN R
         /\ \A e \in DOMAIN R : e # d => (e \in Chain(Y, h) <=> e \in Chain(R, h))
         /\ \A e \in DOMAIN R : Y[e].of = R[e].of
         /\ \A e \in DOMAIN R : e # d => Y[e].enabled = R[e].enabled /\ Y[e].dead = R[e].dead
         /\ ~(d \in Chain(Y, h) /\ Y[d].enabled /\ ~Y[d].dead)
<1>0. Facts(b, n, R, X, {}, {})
  BY CleanWired
<1>1. /\ Wired(R, b, Used(R), AtDst(b, R)) /\ d \in Used(R) /\ d \in DOMAIN R /\ RuleTable(n, R)
      /\ Threaded(R) /\ b \in Nat /\ h \in DOMAIN R \ {0} /\ DOMAIN R = 0..(n - 1)
      /\ n \in Nat /\ n > 0
  <2>1. Used(R) \union {} = Used(R)
    OBVIOUS
  <2> QED BY <2>1, <1>0 DEF Facts, Base
<1>1a. ByRuleCut(b, n, R, d, Y)
  BY <1>1, RuleCutFields
<1>2. RuleTable(n, Y) /\ DOMAIN Y = DOMAIN R /\ Threaded(Y)
  <2>1. RuleTable(n, Y) /\ DOMAIN Y = DOMAIN R
    BY <1>1, <1>1a DEF ByRuleCut
  <2>2. \A x \in DOMAIN Y : Y[x].next \in DOMAIN Y
    BY <2>1, RuleTypes
  <2> QED BY <1>1, <2>1, <2>2 DEF Threaded
<1>3. CASE d >= b
  <2>1. /\ Y[R[d].prev].next = R[d].next
        /\ \A x \in DOMAIN R \ {R[d].prev} : Y[x] = R[x]
        /\ \A x \in DOMAIN R : Y[x].enabled = R[x].enabled /\ Y[x].dead = R[x].dead /\ Y[x].of = R[x].of
    BY <1>1, <1>3, <1>1a DEF ByRuleCut
  <2>2. \A x \in DOMAIN R \ {R[d].prev, d} : Y[x].next = R[x].next
    BY <2>1
  <2>3. Chain(Y, h) = Chain(R, h) \ {d}
    BY <1>1, <1>2, <1>3, <2>1, <2>2, UnlinkedChains
  <2> QED BY <1>2, <2>1, <2>3
<1>4. CASE ~(d >= b)
  <2>1. /\ \A x \in DOMAIN R : Y[x].next = R[x].next /\ Y[x].of = R[x].of
        /\ \A x \in DOMAIN R \ {d} : Y[x] = R[x]
        /\ ~Y[d].enabled \/ Y[d].dead
    BY <1>1, <1>4, <1>1a DEF ByRuleCut
  <2>2. \A x \in Chain(R, h) : Y[x].next = R[x].next
    BY <1>1, <2>1, ChainFacts
  <2>3. Chain(Y, h) = Chain(R, h)
    BY <1>1, <1>2, <2>2, ChainSame
  <2> QED BY <1>2, <2>1, <2>3
<1> QED BY <1>3, <1>4

LEMMA IndexCutShows ==
  ASSUME NEW b, NEW n, NEW R, NEW X, NEW I, NEW C, Clean(b, n, R, X, I, C, {}, {}),
         NEW d \in Live(R), NEW Y,
         \/ Y = IndexCut(b, X, R[d].ix)
         \/ Y = IndexHalf(X, R[d].ix) /\ ~(R[d].ix >= b) /\ X[R[d].ix].next # 0
  PROVE  /\ Threaded(Y) /\ DOMAIN Y = DOMAIN X
         /\ \A e \in Live(R) : e # d => \E j \in Chain(Y, HashOf(b, R[e].of.src)) : Y[j].tbl = e
         /\ \A h \in Base(b) : \A j \in Chain(Y, h) : Y[j].tbl # d
<1> DEFINE i == R[d].ix
           m == X[i].next
           U == UsedIx(X)
           at == AtSrc(b, R, X)
<1>0. Facts(b, n, R, X, {}, {})
  BY CleanWired
<1>1. /\ Wired(X, b, U, at) /\ IndexTable(n, X) /\ Threaded(X) /\ 0 \in DOMAIN X
      /\ b \in Nat /\ DOMAIN X = 0..(n - 1) /\ n \in Nat /\ n > 0 /\ i \in U /\ X[i].tbl = d
      /\ d # 0 /\ U \subseteq DOMAIN X
  BY <1>0 DEF Facts, UsedIx
<1>0a. b \in Nat /\ b >= 2
  BY <1>0 DEF Facts
<1>1a. ByIndexCut(b, n, X, i, IndexCut(b, X, i), IndexHalf(X, i))
  BY <1>1, IndexCutFields
<1>2. \A j \in U : j # i => X[j].tbl # d
  BY DEF Clean, IndicesOK
<1>3. IndexTable(n, Y) /\ DOMAIN Y = DOMAIN X /\ Threaded(Y)
  <2>1. IndexTable(n, Y) /\ DOMAIN Y = DOMAIN X
    BY <1>1, <1>1a DEF ByIndexCut
  <2>2. \A x \in DOMAIN Y : Y[x].next \in DOMAIN Y
    BY <2>1, IndexTypes
  <2> QED BY <1>1, <2>1, <2>2 DEF Threaded
<1>4. ASSUME NEW e \in Live(R), e # d
      PROVE  /\ R[e].ix \in Chain(X, HashOf(b, R[e].of.src)) /\ X[R[e].ix].tbl = e /\ R[e].ix # i
             /\ HashOf(b, R[e].of.src) \in Base(b)
  <2>1. R[e].of.src \in Nat
    BY <1>0, NatTableAssumption DEF Facts
  <2>2. HashOf(b, R[e].of.src) \in Base(b)
    BY <2>1, <1>0a, HashIn
  <2> QED BY <1>1, <1>4, <2>2, LiveFound
<1>5. \A h \in Base(b) : h \in DOMAIN X \ {0} /\ Chain(X, h) \subseteq DOMAIN X
  <2>1. Base(b) \subseteq DOMAIN X \ {0}
    BY <1>1 DEF Wired, Spans, Base
  <2> QED BY <1>1, <2>1, ChainFacts
<1>6. \A h \in Base(b) : \A j \in Chain(X, h) : j # i => X[j].tbl # d
  BY <1>1, <1>2, <1>5 DEF UsedIx
<1>7. ASSUME \A x \in DOMAIN X : Y[x].next = X[x].next,
             \A x \in DOMAIN X \ {i} : Y[x] = X[x], Y[i].tbl # d
      PROVE  /\ \A e \in Live(R) : e # d => \E j \in Chain(Y, HashOf(b, R[e].of.src)) : Y[j].tbl = e
             /\ \A h \in Base(b) : \A j \in Chain(Y, h) : Y[j].tbl # d
  <2>1. ASSUME NEW h \in Base(b) PROVE Chain(Y, h) = Chain(X, h)
    <3>1. \A x \in Chain(X, h) : Y[x].next = X[x].next
      BY <1>5, <1>7
    <3> QED BY <1>1, <1>3, <1>5, <3>1, ChainSame
  <2>2. ASSUME NEW e \in Live(R), e # d
        PROVE  \E j \in Chain(Y, HashOf(b, R[e].of.src)) : Y[j].tbl = e
    BY <1>4, <1>5, <1>7, <2>1, <2>2
  <2>3. ASSUME NEW h \in Base(b), NEW j \in Chain(Y, h) PROVE Y[j].tbl # d
    BY <1>5, <1>6, <1>7, <2>1
  <2> QED BY <2>2, <2>3
<1>8. CASE i >= b
  <2>0. Y = IndexCut(b, X, i)
    BY <1>8, SMTT(30)
  <2>1. /\ Y[X[i].prev].next = X[i].next
        /\ \A x \in DOMAIN X \ {X[i].prev} : Y[x] = X[x]
        /\ \A x \in DOMAIN X : Y[x].tbl = X[x].tbl
    BY <1>1, <1>8, <2>0, <1>1a DEF ByIndexCut
  <2>2. \A x \in DOMAIN X \ {X[i].prev, i} : Y[x].next = X[x].next
    BY <2>1
  <2>3. ASSUME NEW h \in Base(b) PROVE Chain(Y, h) = Chain(X, h) \ {i}
    BY <1>1, <1>3, <1>8, <2>1, <2>2, UnlinkedChains
  <2>4. ASSUME NEW e \in Live(R), e # d
        PROVE  \E j \in Chain(Y, HashOf(b, R[e].of.src)) : Y[j].tbl = e
    BY <1>4, <1>5, <2>1, <2>3, <2>4
  <2>5. ASSUME NEW h \in Base(b), NEW j \in Chain(Y, h) PROVE Y[j].tbl # d
    BY <1>5, <1>6, <2>1, <2>3
  <2> QED BY <1>3, <2>4, <2>5
<1>9. CASE ~(i >= b) /\ m = 0
  <2>0. Y = IndexCut(b, X, i)
    BY <1>9
  <2>1. /\ Y[i].next = 0 /\ Y[i].tbl = 0 /\ \A x \in DOMAIN X \ {i} : Y[x] = X[x]
    BY <1>1, <1>9, <2>0, <1>1a DEF ByIndexCut
  <2>2. \A x \in DOMAIN X : Y[x].next = X[x].next
    BY <1>9, <2>1
  <2> QED BY <1>1, <1>3, <1>7, <2>1, <2>2
<1>10. CASE ~(i >= b) /\ m # 0 /\ Y = IndexHalf(X, i)
  <2>1. /\ Y[i].tbl = X[m].tbl /\ \A x \in DOMAIN X : Y[x].next = X[x].next
        /\ \A x \in DOMAIN X \ {i} : Y[x] = X[x]
    BY <1>1, <1>10, <1>1a DEF ByIndexCut
  <2>2. m \in U /\ m # i
    BY <1>1, <1>10, SMTT(30) DEF Wired
  <2> QED BY <1>2, <1>3, <1>7, <2>1, <2>2, SMTT(30)
<1>11. CASE ~(i >= b) /\ m # 0 /\ Y = IndexCut(b, X, i)
  <2>1. /\ Y[i].next = X[m].next /\ Y[i].tbl = X[m].tbl
        /\ \A x \in DOMAIN X \ {i} : Y[x] = X[x]
    BY <1>1, <1>11, <1>1a DEF ByIndexCut
  <2>2. m \in U /\ m # i /\ m >= b /\ X[m].prev = i
    BY <1>1, <1>11 DEF Wired
  <2>3. \A x \in DOMAIN X \ {X[m].prev, m} : Y[x].next = X[x].next
    BY <2>1, <2>2
  <2>3a. Y[X[m].prev].next = X[m].next
    BY <2>1, <2>2
  <2>3b. Wired(X, b, U, at) /\ Threaded(Y) /\ DOMAIN Y = DOMAIN X /\ m \in U /\ m >= b
    BY <1>1, <1>3, <2>2
  <2>4. ASSUME NEW h \in Base(b) PROVE Chain(Y, h) = Chain(X, h) \ {m}
    <3> HIDE DEF U, at, m, i
    <3> QED BY <2>3, <2>3a, <2>3b, UnlinkedChains
  <2>5. ASSUME NEW e \in Live(R), e # d
        PROVE  \E j \in Chain(Y, HashOf(b, R[e].of.src)) : Y[j].tbl = e
    <3> DEFINE h == HashOf(b, R[e].of.src)
               j == R[e].ix
    <3>1. j \in Chain(X, h) /\ X[j].tbl = e /\ j # i /\ h \in Base(b)
      BY <1>4, <2>5
    <3>2. CASE j # m
      BY <1>5, <2>1, <2>4, <3>1, <3>2
    <3>3. CASE j = m
      <4>1. h \in U
        BY <1>1, <2>2, <3>1, <3>3, NotInChain DEF Base
      <4>2. Chain(X, h) = {x \in U : at[x] = h}
        BY <1>1, <3>1, <4>1, ChainOf
      <4>3. at[i] = at[m]
        BY <1>1, <2>2, <1>11, SMTT(30) DEF Wired
      <4>4. i \in Chain(Y, h) /\ Y[i].tbl = e
        BY <1>1, <2>1, <2>2, <2>4, <3>1, <3>3, <4>2, <4>3
      <4> QED BY <4>4
    <3> QED BY <3>2, <3>3
  <2>6. ASSUME NEW h \in Base(b), NEW j \in Chain(Y, h) PROVE Y[j].tbl # d
    <3>1. j \in Chain(X, h) /\ j \in DOMAIN X
      BY <1>5, <2>4
    <3> QED BY <1>2, <1>6, <2>1, <2>2, <3>1
  <2> QED BY <1>3, <2>5, <2>6
<1> QED BY <1>8, <1>9, <1>10, <1>11
-----------------------------------------------------------------------------
(* What the driver does to the index table once the commands are done.     *)

ClearRule(f, e) == [f EXCEPT ![e] = NoEntry]
ClearIndex(f, e) == [f EXCEPT ![e] = NoIndex]

ByRuleClear(n, R, e, G) ==
  /\ RuleTable(n, G) /\ DOMAIN G = DOMAIN R
  /\ ~G[e].enabled /\ ~G[e].dead /\ G[e].next = 0
  /\ \A x \in DOMAIN R \ {e} : G[x] = R[x]
LEMMA RuleClear ==
  ASSUME NEW n, NEW R, RuleTable(n, R), NEW e \in DOMAIN R, 0 \in DOMAIN R
  PROVE  ByRuleClear(n, R, e, ClearRule(R, e))
<1> DEFINE G == ClearRule(R, e)
<1>1. DOMAIN R = 0..(n - 1)
  BY DEF RuleTable
<1>2. NoEntry \in RuleEntries(n) /\ ~NoEntry.enabled /\ ~NoEntry.dead /\ NoEntry.next = 0
  BY <1>1 DEF NoEntry, RuleEntries
<1>3. PICK w : w = NoEntry
  OBVIOUS
<1>4. G = [R EXCEPT ![e] = w]
  BY <1>3 DEF ClearRule
<1>5. /\ RuleTable(n, G) /\ DOMAIN G = DOMAIN R /\ G[e] = w
      /\ \A x \in DOMAIN R \ {e} : G[x] = R[x]
  BY <1>2, <1>3, <1>4 DEF RuleTable
<1> HIDE DEF G
<1>6. ByRuleClear(n, R, e, G)
  BY <1>2, <1>3, <1>5 DEF ByRuleClear
<1> QED BY <1>6 DEF G

ByIndexClear(n, X, i, G) ==
  /\ IndexTable(n, G) /\ DOMAIN G = DOMAIN X
  /\ G[i].tbl = 0 /\ G[i].next = 0
  /\ \A x \in DOMAIN X \ {i} : G[x] = X[x]
LEMMA IndexClear ==
  ASSUME NEW n, NEW X, IndexTable(n, X), NEW i \in DOMAIN X, 0 \in DOMAIN X
  PROVE  ByIndexClear(n, X, i, ClearIndex(X, i))
<1> DEFINE G == ClearIndex(X, i)
<1>1. DOMAIN X = 0..(n - 1)
  BY DEF IndexTable
<1>2. NoIndex \in IndexEntries(n) /\ NoIndex.tbl = 0 /\ NoIndex.next = 0
  BY <1>1 DEF NoIndex, IndexEntries
<1>3. PICK w : w = NoIndex
  OBVIOUS
<1>4. G = [X EXCEPT ![i] = w]
  BY <1>3 DEF ClearIndex
<1>5. /\ IndexTable(n, G) /\ DOMAIN G = DOMAIN X /\ G[i] = w
      /\ \A x \in DOMAIN X \ {i} : G[x] = X[x]
  BY <1>2, <1>3, <1>4 DEF IndexTable
<1> HIDE DEF G
<1>6. ByIndexClear(n, X, i, G)
  BY <1>2, <1>3, <1>5 DEF ByIndexClear
<1> QED BY <1>6 DEF G

(* What IndexMoved and IndexRemoved make of an index table.                  *)
PrevSet(f, e, v) == IF e = 0 THEN f ELSE SetPrev(f, e, v)
MovedIndex(Y, i, m) == ClearIndex(PrevSet(Y, Y[m].next, i), m)
RemovedIndex(b, Y, i) == ClearIndex(PrevSet(Y, IF i >= b THEN Y[i].next ELSE 0, Y[i].prev), i)
IndexLeft(b, X, i, Y) ==
  IF i < b /\ X[i].next # 0 THEN MovedIndex(Y, i, X[i].next) ELSE RemovedIndex(b, Y, i)
Gone(b, X, i) == IF i < b /\ X[i].next # 0 THEN X[i].next ELSE i

ByPrevSet(n, X, e, v, G) ==
  /\ IndexTable(n, G) /\ DOMAIN G = DOMAIN X
  /\ e # 0 => G[e].prev = v
  /\ \A x \in DOMAIN X \ {e} : G[x].prev = X[x].prev
  /\ \A x \in DOMAIN X : G[x].tbl = X[x].tbl /\ G[x].next = X[x].next
  /\ e = 0 => \A x \in DOMAIN X : G[x].prev = X[x].prev
LEMMA IndexPrevSet ==
  ASSUME NEW n, NEW X, IndexTable(n, X), NEW e \in DOMAIN X, NEW v \in DOMAIN X
  PROVE  ByPrevSet(n, X, e, v, PrevSet(X, e, v))
<1> DEFINE G == PrevSet(X, e, v)
<1>1. ASSUME e # 0 PROVE ByPrevSet(n, X, e, v, G)
  <2>1. G = SetPrev(X, e, v)
    BY <1>1 DEF PrevSet
  <2> HIDE DEF G
  <2>2. ByIndexPrev(n, X, e, v, G)
    BY <2>1, IndexPrev
  <2> QED BY <1>1, <2>2 DEF ByIndexPrev, ByPrevSet
<1>2. ASSUME e = 0 PROVE ByPrevSet(n, X, e, v, G)
  <2>1. G = X
    BY <1>2 DEF PrevSet
  <2> HIDE DEF G
  <2> QED BY <1>2, <2>1 DEF ByPrevSet
<1> QED BY <1>1, <1>2

ByRulePrevSet(n, R, e, v, G) ==
  /\ RuleTable(n, G) /\ DOMAIN G = DOMAIN R
  /\ e # 0 => G[e].prev = v
  /\ \A x \in DOMAIN R \ {e} : G[x].prev = R[x].prev
  /\ \A x \in DOMAIN R : /\ G[x].of = R[x].of /\ G[x].enabled = R[x].enabled /\ G[x].dead = R[x].dead
                       /\ G[x].next = R[x].next /\ G[x].ix = R[x].ix
  /\ e = 0 => \A x \in DOMAIN R : G[x].prev = R[x].prev
LEMMA RulePrevSet ==
  ASSUME NEW n, NEW R, RuleTable(n, R), NEW e \in DOMAIN R, NEW v \in DOMAIN R
  PROVE  ByRulePrevSet(n, R, e, v, PrevSet(R, e, v))
<1> DEFINE G == PrevSet(R, e, v)
<1>1. ASSUME e # 0 PROVE ByRulePrevSet(n, R, e, v, G)
  <2>1. G = SetPrev(R, e, v)
    BY <1>1 DEF PrevSet
  <2> HIDE DEF G
  <2>2. ByRulePrev(n, R, e, v, G)
    BY <2>1, RulePrev
  <2> QED BY <1>1, <2>2 DEF ByRulePrev, ByRulePrevSet
<1>2. ASSUME e = 0 PROVE ByRulePrevSet(n, R, e, v, G)
  <2>1. G = R
    BY <1>2 DEF PrevSet
  <2> HIDE DEF G
  <2> QED BY <1>2, <2>1 DEF ByRulePrevSet
<1> QED BY <1>1, <1>2

ByIndexLeft(b, n, X, i, at, G) ==
  LET e == Gone(b, X, i)
  IN /\ IndexTable(n, G) /\ DOMAIN G = DOMAIN X
     /\ e \in UsedIx(X) /\ Wired(G, b, UsedIx(X) \ {e}, at)
     /\ G[e].tbl = 0 /\ (e # i => G[i].tbl = X[e].tbl)
     /\ \A x \in DOMAIN X \ {e, i} : G[x].tbl = X[x].tbl
LEMMA IndexLeftWired ==
  ASSUME NEW b, NEW n, NEW X, NEW at, IndexTable(n, X), Wired(X, b, UsedIx(X), at),
         NEW i \in UsedIx(X)
  PROVE  ByIndexLeft(b, n, X, i, at, IndexLeft(b, X, i, IndexCut(b, X, i)))
<1> DEFINE Y == IndexCut(b, X, i)
           U == UsedIx(X)
           m == X[i].next
           l == X[i].prev
           G == IndexLeft(b, X, i, Y)
<1>1. /\ 0 \in DOMAIN X /\ U \subseteq DOMAIN X /\ i \in DOMAIN X /\ i # 0 /\ b \in Nat
      /\ DOMAIN X \subseteq Nat
  BY DEF Wired, Spans, Threaded
<1>2. ByIndexCut(b, n, X, i, Y, IndexHalf(X, i))
  BY <1>1, IndexCutFields
<1>3. m \in DOMAIN X /\ l \in DOMAIN X /\ X[m].next \in DOMAIN X
  BY <1>1, IndexTypes
<1>4. /\ IndexTable(n, Y) /\ DOMAIN Y = DOMAIN X
      /\ \A x \in DOMAIN X : Y[x].prev = X[x].prev
  BY <1>2 DEF ByIndexCut
<1>5. ASSUME i >= b PROVE ByIndexLeft(b, n, X, i, at, G)
  <2> DEFINE V == PrevSet(Y, m, l)
  <2>1. /\ l \in U \ {i, 0} /\ X[l].next = i /\ m # i
    BY <1>1, <1>5, Before
  <2>2. /\ Y[l].next = m /\ \A x \in DOMAIN X \ {l} : Y[x] = X[x]
        /\ \A x \in DOMAIN X : Y[x].tbl = X[x].tbl
    BY <1>2, <1>5 DEF ByIndexCut
  <2>3. Y[i].next = m /\ Y[i].prev = l
    BY <1>1, <1>4, <2>1, <2>2
  <2>4. G = ClearIndex(V, i) /\ Gone(b, X, i) = i
    BY <1>1, <1>5, <2>3 DEF IndexLeft, RemovedIndex, Gone
  <2> HIDE DEF Y
  <2>5. ByPrevSet(n, Y, m, l, V)
    BY <1>3, <1>4, IndexPrevSet
  <2> HIDE DEF V
  <2>6. /\ IndexTable(n, V) /\ DOMAIN V = DOMAIN X
        /\ m # 0 => V[m].prev = l
        /\ \A x \in DOMAIN X \ {m} : V[x].prev = X[x].prev
        /\ \A x \in DOMAIN X : V[x].tbl = X[x].tbl /\ V[x].next = Y[x].next
    BY <1>4, <2>2, <2>5 DEF ByPrevSet
  <2>7. ByIndexClear(n, V, i, ClearIndex(V, i))
    BY <1>1, <2>6, IndexClear
  <2>8. ByIndexClear(n, V, i, G)
    BY <2>4, <2>7
  <2> HIDE DEF G, U
  <2>9. /\ IndexTable(n, G) /\ DOMAIN G = DOMAIN X /\ G[i].tbl = 0 /\ G[i].next = 0
        /\ \A x \in DOMAIN X \ {i} : G[x] = V[x]
    BY <2>6, <2>8 DEF ByIndexClear
  <2>10. /\ G[X[i].prev].next = X[i].next /\ G[i].next \in DOMAIN X
         /\ \A x \in DOMAIN X \ {X[i].prev, i} : G[x].next = X[x].next
         /\ X[i].next # 0 => G[X[i].next].prev = X[i].prev
         /\ \A x \in DOMAIN X \ {X[i].next, i} : G[x].prev = X[x].prev
    BY <1>1, <1>3, <2>1, <2>2, <2>6, <2>9
  <2>11. Wired(G, b, U \ {i}, at)
    BY <1>1, <1>5, <2>9, <2>10, Unlinked DEF U
  <2>12. \A x \in DOMAIN X \ {i} : G[x].tbl = X[x].tbl
    BY <2>6, <2>9
  <2> QED BY <2>4, <2>9, <2>11, <2>12 DEF ByIndexLeft, U
<1>6. ASSUME i < b, m = 0 PROVE ByIndexLeft(b, n, X, i, at, G)
  <2>1. Y[i].next = 0 /\ Y[i].tbl = 0 /\ \A x \in DOMAIN X \ {i} : Y[x] = X[x]
    BY <1>1, <1>2, <1>6 DEF ByIndexCut
  <2>2. G = ClearIndex(Y, i) /\ Gone(b, X, i) = i
    BY <1>1, <1>6 DEF IndexLeft, RemovedIndex, Gone, PrevSet
  <2> HIDE DEF Y
  <2>3. ByIndexClear(n, Y, i, ClearIndex(Y, i))
    BY <1>1, <1>4, IndexClear
  <2>4. ByIndexClear(n, Y, i, G)
    BY <2>2, <2>3
  <2> HIDE DEF G, U
  <2>5. /\ IndexTable(n, G) /\ DOMAIN G = DOMAIN X /\ G[i].tbl = 0 /\ G[i].next = 0
        /\ \A x \in DOMAIN X \ {i} : G[x] = X[x]
    BY <1>4, <2>1, <2>4 DEF ByIndexClear
  <2>6. i \in UsedIx(X) \intersect Base(b)
    BY <1>1, <1>6 DEF Base, UsedIx
  <2>7. Wired(G, b, U \ {i}, at)
    BY <1>6, <2>5, <2>6, Beheaded DEF U
  <2> QED BY <2>2, <2>5, <2>7 DEF ByIndexLeft, U
<1>7. ASSUME i < b, m # 0 PROVE ByIndexLeft(b, n, X, i, at, G)
  <2> DEFINE k == X[m].next
             V == PrevSet(Y, k, i)
  <2>1. m \in U /\ m >= b /\ X[m].prev = i /\ m # i /\ m \in DOMAIN X /\ m # 0
    BY <1>1, <1>7 DEF Wired
  <2>2. k # m
    BY <2>1, Before
  <2>3. Y[i].next = k /\ Y[i].tbl = X[m].tbl /\ \A x \in DOMAIN X \ {i} : Y[x] = X[x]
    BY <1>1, <1>2, <1>7 DEF ByIndexCut
  <2>4. Y[m].next = k
    BY <2>1, <2>3
  <2>5. G = ClearIndex(V, m) /\ Gone(b, X, i) = m
    BY <1>1, <1>7, <2>4 DEF IndexLeft, MovedIndex, Gone
  <2> HIDE DEF Y
  <2>6. ByPrevSet(n, Y, k, i, V)
    BY <1>1, <1>3, <1>4, IndexPrevSet
  <2> HIDE DEF V
  <2>7. /\ IndexTable(n, V) /\ DOMAIN V = DOMAIN X
        /\ k # 0 => V[k].prev = i
        /\ \A x \in DOMAIN X \ {k} : V[x].prev = X[x].prev
        /\ \A x \in DOMAIN X : V[x].tbl = Y[x].tbl /\ V[x].next = Y[x].next
    BY <1>4, <2>6 DEF ByPrevSet
  <2>8. ByIndexClear(n, V, m, ClearIndex(V, m))
    BY <1>1, <2>1, <2>7, IndexClear
  <2>9. ByIndexClear(n, V, m, G)
    BY <2>5, <2>8
  <2> HIDE DEF G, U
  <2>10. /\ IndexTable(n, G) /\ DOMAIN G = DOMAIN X /\ G[m].tbl = 0 /\ G[m].next = 0
         /\ \A x \in DOMAIN X \ {m} : G[x] = V[x]
    BY <2>7, <2>9 DEF ByIndexClear
  <2>11. /\ G[X[m].prev].next = X[m].next /\ G[m].next \in DOMAIN X
         /\ \A x \in DOMAIN X \ {X[m].prev, m} : G[x].next = X[x].next
         /\ X[m].next # 0 => G[X[m].next].prev = X[m].prev
         /\ \A x \in DOMAIN X \ {X[m].next, m} : G[x].prev = X[x].prev
    BY <1>1, <1>3, <2>1, <2>2, <2>3, <2>7, <2>10
  <2>12. Wired(G, b, U \ {m}, at)
    BY <2>1, <2>10, <2>11, Unlinked DEF U
  <2>13. G[i].tbl = X[m].tbl /\ \A x \in DOMAIN X \ {m, i} : G[x].tbl = X[x].tbl
    BY <1>1, <2>1, <2>3, <2>7, <2>10
  <2> QED BY <2>1, <2>5, <2>10, <2>12, <2>13 DEF ByIndexLeft, U
<1> QED BY <1>1, <1>5, <1>6, <1>7
-----------------------------------------------------------------------------
(* What it does to the rule table, and the heads it frees.                 *)

RemovedRule(f, e) == ClearRule(PrevSet(f, f[e].next, f[e].prev), e)
RuleLeft(b, R, d, Y) == IF d < b /\ R[d].next # 0 THEN Y ELSE RemovedRule(Y, d)

\* a rule table whose dead heads may be followed by nothing
Sound(b, n, G) ==
  /\ RuleTable(n, G) /\ Wired(G, b, Used(G), AtDst(b, G))
  /\ \A e \in Used(G) : G[e].of \in StoreRules
  /\ \A e \in DOMAIN G : G[e].dead => G[e].enabled /\ e < b
ByRuleLeft(b, n, R, d, G) ==
  /\ Sound(b, n, G) /\ DOMAIN G = DOMAIN R
  /\ Used(G) \subseteq Used(R) /\ Live(G) = Live(R) \ {d}
  /\ \A x \in Used(G) : G[x].of = R[x].of
  /\ \A x \in Live(G) : G[x].ix = R[x].ix
  /\ \A x, y \in DOMAIN G : G[x].dead /\ G[x].next = 0 /\ G[y].dead /\ G[y].next = 0 => x = y

LEMMA SameHashes ==
  ASSUME NEW b, NEW R, NEW G, DOMAIN G = DOMAIN R, NEW V, V \subseteq DOMAIN R,
         \A x \in V : G[x].of = R[x].of, Wired(G, b, V, AtDst(b, R))
  PROVE  Wired(G, b, V, AtDst(b, G))
<1>1. \A x \in V : AtDst(b, G)[x] = AtDst(b, R)[x]
  BY DEF AtDst
<1>2. Threaded(G)
  BY DEF Wired, Spans
<1> QED BY <1>1, <1>2, WiredSame

LEMMA RuleLeftSound ==
  ASSUME NEW b, NEW n, NEW R, NEW d \in Live(R), Sound(b, n, R),
         \A e \in DOMAIN R : R[e].dead => R[e].next # 0
  PROVE  ByRuleLeft(b, n, R, d, RuleLeft(b, R, d, RuleCut(b, R, d)))
<1> DEFINE Y == RuleCut(b, R, d)
           U == Used(R)
           m == R[d].next
           l == R[d].prev
           at == AtDst(b, R)
           G == RuleLeft(b, R, d, Y)
<1>1. /\ RuleTable(n, R) /\ Wired(R, b, U, at) /\ 0 \in DOMAIN R /\ U \subseteq DOMAIN R
      /\ d \in DOMAIN R /\ d \in U /\ d # 0 /\ b \in Nat /\ DOMAIN R \subseteq Nat /\ 0 \notin U
      /\ R[d].enabled /\ ~R[d].dead /\ Threaded(R)
      /\ \A e \in U : R[e].of \in StoreRules
      /\ \A e \in DOMAIN R : R[e].dead => R[e].enabled /\ e < b
  BY DEF Wired, Spans, Threaded, Sound, Live, Used
<1>2. ByRuleCut(b, n, R, d, Y)
  BY <1>1, RuleCutFields
<1>3. m \in DOMAIN R /\ l \in DOMAIN R
  BY <1>1, RuleTypes
<1>4. /\ RuleTable(n, Y) /\ DOMAIN Y = DOMAIN R
      /\ \A x \in DOMAIN R : Y[x].of = R[x].of /\ Y[x].prev = R[x].prev /\ Y[x].ix = R[x].ix
  BY <1>2 DEF ByRuleCut
<1>5. ASSUME d >= b PROVE ByRuleLeft(b, n, R, d, G)
  <2> DEFINE V == PrevSet(Y, m, l)
  <2>1. l \in U \ {d, 0} /\ R[l].next = d /\ m # d
    BY <1>1, <1>5, Before
  <2>2. /\ Y[l].next = m /\ \A x \in DOMAIN R \ {l} : Y[x] = R[x]
        /\ \A x \in DOMAIN R : Y[x].enabled = R[x].enabled /\ Y[x].dead = R[x].dead
    BY <1>2, <1>5 DEF ByRuleCut
  <2>3. Y[d].next = m /\ Y[d].prev = l
    BY <1>1, <1>4, <2>1, <2>2
  <2>4. G = ClearRule(V, d)
    BY <1>1, <1>5, <2>3 DEF RuleLeft, RemovedRule
  <2> HIDE DEF Y
  <2>5. ByRulePrevSet(n, Y, m, l, V)
    BY <1>3, <1>4, RulePrevSet
  <2> HIDE DEF V
  <2>6. /\ RuleTable(n, V) /\ DOMAIN V = DOMAIN R
        /\ m # 0 => V[m].prev = l
        /\ \A x \in DOMAIN R \ {m} : V[x].prev = R[x].prev
        /\ \A x \in DOMAIN R : /\ V[x].of = R[x].of /\ V[x].enabled = R[x].enabled
                             /\ V[x].dead = R[x].dead /\ V[x].next = Y[x].next /\ V[x].ix = R[x].ix
    BY <1>4, <2>2, <2>5 DEF ByRulePrevSet
  <2>7. ByRuleClear(n, V, d, ClearRule(V, d))
    BY <1>1, <2>6, RuleClear
  <2>8. ByRuleClear(n, V, d, G)
    BY <2>4, <2>7
  <2> HIDE DEF G, U
  <2>9. /\ RuleTable(n, G) /\ DOMAIN G = DOMAIN R /\ ~G[d].enabled /\ ~G[d].dead /\ G[d].next = 0
        /\ \A x \in DOMAIN R \ {d} : G[x] = V[x]
    BY <2>6, <2>8 DEF ByRuleClear
  <2>10. /\ G[R[d].prev].next = R[d].next /\ G[d].next \in DOMAIN R
         /\ \A x \in DOMAIN R \ {R[d].prev, d} : G[x].next = R[x].next
         /\ R[d].next # 0 => G[R[d].next].prev = R[d].prev
         /\ \A x \in DOMAIN R \ {R[d].next, d} : G[x].prev = R[x].prev
    BY <1>1, <1>3, <2>1, <2>2, <2>6, <2>9
  <2>11. Wired(G, b, U \ {d}, at)
    BY <1>1, <1>5, <2>9, <2>10, Unlinked DEF U
  <2>12. \A x \in DOMAIN R \ {d} : /\ G[x].of = R[x].of /\ G[x].enabled = R[x].enabled
                                   /\ G[x].dead = R[x].dead /\ G[x].ix = R[x].ix
    BY <2>6, <2>9
  <2>13. Used(G) = U \ {d} /\ Live(G) = Live(R) \ {d}
    BY <1>1, <2>9, <2>12 DEF Used, Live, U
  <2>14. U \ {d} \subseteq DOMAIN R /\ \A x \in U \ {d} : G[x].of = R[x].of
    BY <1>1, <2>12
  <2>15. Wired(G, b, U \ {d}, AtDst(b, G))
    BY <2>9, <2>11, <2>14, SameHashes
  <2>16. Sound(b, n, G)
    BY <1>1, <2>9, <2>12, <2>13, <2>14, <2>15 DEF Sound
  <2>17. \A x \in DOMAIN G : G[x].dead /\ G[x].next = 0 => x = l
    BY <2>9, <2>10, <2>12
  <2>18. \A x \in Live(G) : G[x].ix = R[x].ix
    BY <2>9, <2>12, <2>13 DEF Live
  <2> QED BY <2>9, <2>13, <2>14, <2>16, <2>17, <2>18 DEF ByRuleLeft, U
<1>6. ASSUME d < b, m = 0 PROVE ByRuleLeft(b, n, R, d, G)
  <2>1. /\ \A x \in DOMAIN R : Y[x].next = R[x].next
        /\ \A x \in DOMAIN R \ {d} : Y[x] = R[x]
    BY <1>1, <1>2, <1>6 DEF ByRuleCut
  <2>2. G = ClearRule(Y, d)
    BY <1>1, <1>6, <2>1 DEF RuleLeft, RemovedRule, PrevSet
  <2> HIDE DEF Y
  <2>3. ByRuleClear(n, Y, d, ClearRule(Y, d))
    BY <1>1, <1>4, RuleClear
  <2>4. ByRuleClear(n, Y, d, G)
    BY <2>2, <2>3
  <2> HIDE DEF G, U
  <2>9. /\ RuleTable(n, G) /\ DOMAIN G = DOMAIN R /\ ~G[d].enabled /\ ~G[d].dead /\ G[d].next = 0
        /\ \A x \in DOMAIN R \ {d} : G[x] = R[x]
    BY <1>4, <2>1, <2>4 DEF ByRuleClear
  <2>10. d \in Used(R) \intersect Base(b)
    BY <1>1, <1>6 DEF Base, U
  <2>11. Wired(G, b, U \ {d}, at)
    BY <1>6, <1>1, <2>9, <2>10, Beheaded DEF U
  <2>13. Used(G) = U \ {d} /\ Live(G) = Live(R) \ {d}
    BY <1>1, <2>9 DEF Used, Live, U
  <2>14. U \ {d} \subseteq DOMAIN R /\ \A x \in U \ {d} : G[x].of = R[x].of
    BY <1>1, <2>9
  <2>15. Wired(G, b, U \ {d}, AtDst(b, G))
    BY <2>9, <2>11, <2>14, SameHashes
  <2>16. Sound(b, n, G)
    BY <1>1, <2>9, <2>13, <2>14, <2>15 DEF Sound
  <2>17. \A x \in DOMAIN G : ~(G[x].dead /\ G[x].next = 0)
    BY <2>9
  <2>18. \A x \in Live(G) : G[x].ix = R[x].ix
    BY <2>9, <2>13 DEF Live
  <2> QED BY <2>9, <2>13, <2>14, <2>16, <2>17, <2>18 DEF ByRuleLeft, U
<1>7. ASSUME d < b, m # 0 PROVE ByRuleLeft(b, n, R, d, G)
  <2>1. /\ \A x \in DOMAIN R : Y[x].next = R[x].next
        /\ \A x \in DOMAIN R \ {d} : Y[x] = R[x]
        /\ Y[d].dead /\ Y[d].enabled = R[d].enabled
    <3> HIDE DEF Y
    <3>1. ~(d >= b) /\ R[d].next # 0
      BY <1>1, <1>7
    <3> QED BY <1>2, <3>1 DEF ByRuleCut
  <2>2. G = Y
    BY <1>7 DEF RuleLeft
  <2> HIDE DEF Y, G, U
  <2>3. R[d].enabled
    BY <1>1
  <2>4. Y[d].enabled = R[d].enabled
    BY <2>1
  <2>5. Y[d].enabled
    BY <2>3, <2>4, Zenon
  <2>9. /\ RuleTable(n, G) /\ DOMAIN G = DOMAIN R /\ G[d].enabled /\ G[d].dead
        /\ \A x \in DOMAIN R : G[x].next = R[x].next /\ G[x].prev = R[x].prev
                             /\ G[x].of = R[x].of /\ G[x].ix = R[x].ix
        /\ \A x \in DOMAIN R \ {d} : G[x] = R[x]
    BY <1>4, <2>1, <2>2, <2>5
  <2>10. Threaded(G)
    BY <1>1, <2>9 DEF Threaded
  <2>11. Wired(G, b, U, at)
    <3>1. /\ \A x \in U \union Base(b) : G[x].next = R[x].next
          /\ \A x \in U : G[x].prev = R[x].prev /\ at[x] = at[x]
      <4>1. U \union Base(b) \subseteq DOMAIN R
        BY <1>1 DEF Wired, Spans
      <4> QED BY <4>1, <2>9
    <3> QED BY <1>1, <2>9, <2>10, <3>1, WiredSame
  <2>13. Used(G) = U /\ Live(G) = Live(R) \ {d}
    BY <1>1, <2>9 DEF Used, Live, U
  <2>14. U \subseteq DOMAIN R /\ \A x \in U : G[x].of = R[x].of
    BY <1>1, <2>9
  <2>15. Wired(G, b, U, AtDst(b, G))
    BY <2>9, <2>11, <2>14, SameHashes
  <2>16. Sound(b, n, G)
    BY <1>1, <1>7, <2>9, <2>13, <2>14, <2>15 DEF Sound
  <2>17. \A x \in DOMAIN G : ~(G[x].dead /\ G[x].next = 0)
    BY <1>7, <2>9
  <2>18. \A x \in Live(G) : G[x].ix = R[x].ix
    BY <2>9, <2>13 DEF Live
  <2> QED BY <2>9, <2>13, <2>14, <2>16, <2>17, <2>18 DEF ByRuleLeft, U
<1> QED BY <1>1, <1>5, <1>6, <1>7

(* FreedHeads: at most one dead head is followed by nothing.                 *)
Freed(b, f) == [e \in DOMAIN f |-> IF e < b /\ f[e].dead /\ f[e].next = 0 THEN NoEntry ELSE f[e]]
ByFreed(b, n, G, F) ==
  /\ RuleTable(n, F) /\ RulesOK(b, F, {}) /\ DOMAIN F = DOMAIN G /\ Live(F) = Live(G)
  /\ \A x \in Live(G) : F[x].of = G[x].of /\ F[x].ix = G[x].ix
LEMMA FreedSound ==
  ASSUME NEW b, NEW n, NEW G, Sound(b, n, G),
         \A x, y \in DOMAIN G : G[x].dead /\ G[x].next = 0 /\ G[y].dead /\ G[y].next = 0 => x = y
  PROVE  ByFreed(b, n, G, Freed(b, G))
<1> DEFINE F == Freed(b, G)
           U == Used(G)
<1>1. /\ RuleTable(n, G) /\ Wired(G, b, U, AtDst(b, G)) /\ 0 \in DOMAIN G /\ U \subseteq DOMAIN G
      /\ b \in Nat /\ DOMAIN G \subseteq Nat /\ 0 \notin U
      /\ \A e \in U : G[e].of \in StoreRules
      /\ \A e \in DOMAIN G : G[e].dead => G[e].enabled /\ e < b
  BY DEF Wired, Spans, Threaded, Sound
<1>2. ASSUME NEW p \in DOMAIN G, G[p].dead, G[p].next = 0
      PROVE  ByFreed(b, n, G, F)
  <2>1. ByRuleClear(n, G, p, ClearRule(G, p))
    BY <1>1, RuleClear
  <2>2. F = ClearRule(G, p)
    <3>1. \A e \in DOMAIN G : e < b /\ G[e].dead /\ G[e].next = 0 <=> e = p
      BY <1>1, <1>2
    <3>2. G = [e \in DOMAIN G |-> G[e]]
      BY <1>1 DEF RuleTable
    <3> QED BY <3>1, <3>2 DEF Freed, ClearRule
  <2>3. ByRuleClear(n, G, p, F)
    BY <2>1, <2>2
  <2> HIDE DEF F, U
  <2>4. /\ RuleTable(n, F) /\ DOMAIN F = DOMAIN G /\ ~F[p].enabled /\ ~F[p].dead /\ F[p].next = 0
        /\ \A x \in DOMAIN G \ {p} : F[x] = G[x]
    BY <2>3 DEF ByRuleClear
  <2>5. p \in Used(G) \intersect Base(b)
    BY <1>1, <1>2 DEF Base, U, Used
  <2>6. Wired(F, b, U \ {p}, AtDst(b, G))
    BY <1>1, <1>2, <2>4, <2>5, Beheaded DEF U
  <2>7. Used(F) = U \ {p} /\ Live(F) = Live(G)
    BY <1>1, <1>2, <2>4 DEF Used, Live, U
  <2>8. U \ {p} \subseteq DOMAIN G /\ \A x \in U \ {p} : F[x].of = G[x].of
    BY <1>1, <2>4
  <2>9. Wired(F, b, U \ {p}, AtDst(b, F))
    BY <2>4, <2>6, <2>8, SameHashes
  <2>10. \A x \in DOMAIN F : F[x].dead => F[x].enabled /\ x < b /\ F[x].next # 0
    BY <1>1, <1>2, <2>4
  <2>11. Used(F) \union {} = U \ {p}
    BY <2>7
  <2>12. RulesOK(b, F, {})
    BY <1>1, <2>8, <2>9, <2>10, <2>11 DEF RulesOK
  <2>13. p \notin Live(G)
    BY <1>2 DEF Live
  <2>14. \A x \in Live(G) : F[x] = G[x]
    BY <2>4, <2>13 DEF Live
  <2> QED BY <2>4, <2>7, <2>12, <2>14 DEF ByFreed
<1>3. ASSUME \A p \in DOMAIN G : ~(G[p].dead /\ G[p].next = 0)
      PROVE  ByFreed(b, n, G, F)
  <2>1. F = G
    <3>1. G = [e \in DOMAIN G |-> G[e]]
      BY <1>1 DEF RuleTable
    <3> QED BY <1>3, <3>1 DEF Freed
  <2> HIDE DEF F
  <2>2. Used(F) \union {} = Used(F)
    OBVIOUS
  <2>3. RulesOK(b, F, {})
    BY <1>1, <1>3, <2>1, <2>2 DEF RulesOK
  <2> QED BY <1>1, <2>1, <2>3 DEF ByFreed
<1> QED BY <1>2, <1>3
-----------------------------------------------------------------------------
(* Both, with the link of the rule whose index was moved: the table is clean. *)

\* RuleOfMoved: the rule whose index took the place of the head
Follows(b, X, i) == i < b /\ X[i].next # 0
Tagged(b, X, i, t, f) == IF Follows(b, X, i) THEN SetIx(f, t, i) ELSE f
ByTagged(b, n, X, i, t, L, T) ==
  /\ RuleTable(n, T) /\ DOMAIN T = DOMAIN L
  /\ \A x \in DOMAIN L : /\ T[x].of = L[x].of /\ T[x].enabled = L[x].enabled /\ T[x].dead = L[x].dead
                       /\ T[x].next = L[x].next /\ T[x].prev = L[x].prev
  /\ Follows(b, X, i) => T[t].ix = i
  /\ \A x \in DOMAIN L : ~(Follows(b, X, i) /\ x = t) => T[x].ix = L[x].ix
LEMMA TaggedIs ==
  ASSUME NEW b, NEW n, NEW X, NEW i, NEW t, NEW L, RuleTable(n, L),
         Follows(b, X, i) => t \in DOMAIN L /\ i \in DOMAIN L
  PROVE  ByTagged(b, n, X, i, t, L, Tagged(b, X, i, t, L))
<1> DEFINE T == Tagged(b, X, i, t, L)
<1>1. ASSUME Follows(b, X, i) PROVE ByTagged(b, n, X, i, t, L, T)
  <2>1. T = SetIx(L, t, i)
    BY <1>1 DEF Tagged
  <2> HIDE DEF T
  <2>2. ByRuleIx(n, L, t, i, T)
    BY <1>1, <2>1, RuleIx
  <2> QED BY <1>1, <2>2 DEF ByRuleIx, ByTagged
<1>2. ASSUME ~Follows(b, X, i) PROVE ByTagged(b, n, X, i, t, L, T)
  <2>1. T = L
    BY <1>2 DEF Tagged
  <2> HIDE DEF T
  <2> QED BY <1>2, <2>1 DEF ByTagged
<1> QED BY <1>1, <1>2

LEMMA TaggedSound ==
  ASSUME NEW b, NEW n, NEW X, NEW i, NEW t, NEW L, NEW T, Sound(b, n, L),
         ByTagged(b, n, X, i, t, L, T)
  PROVE  Sound(b, n, T) /\ Used(T) = Used(L) /\ Live(T) = Live(L)
<1>1. /\ RuleTable(n, T) /\ DOMAIN T = DOMAIN L
      /\ \A x \in DOMAIN L : /\ T[x].of = L[x].of /\ T[x].enabled = L[x].enabled
                             /\ T[x].dead = L[x].dead
                             /\ T[x].next = L[x].next /\ T[x].prev = L[x].prev
  BY DEF ByTagged
<1>2. Used(T) = Used(L) /\ Live(T) = Live(L)
  BY <1>1 DEF Used, Live
<1>3. /\ Wired(L, b, Used(L), AtDst(b, L)) /\ Threaded(L) /\ Used(L) \subseteq DOMAIN L
      /\ Base(b) \subseteq DOMAIN L
  BY DEF Sound, Wired, Spans
<1>4. Threaded(T)
  BY <1>1, <1>3 DEF Threaded
<1>5. \A x \in Used(L) : AtDst(b, T)[x] = AtDst(b, L)[x]
  BY <1>1, <1>3 DEF AtDst
<1>6. /\ \A x \in Used(L) \union Base(b) : T[x].next = L[x].next
      /\ \A x \in Used(L) : T[x].prev = L[x].prev /\ AtDst(b, T)[x] = AtDst(b, L)[x]
  BY <1>1, <1>3, <1>5
<1>7. Wired(T, b, Used(L), AtDst(b, T))
  BY <1>1, <1>3, <1>4, <1>6, WiredSame
<1>8. Wired(T, b, Used(T), AtDst(b, T))
  BY <1>2, <1>7
<1>9. \A e \in Used(T) : T[e].of \in StoreRules
  BY <1>1, <1>2, <1>3 DEF Sound
<1>10. \A e \in DOMAIN T : T[e].dead => T[e].enabled /\ e < b
  BY <1>1 DEF Sound
<1> QED BY <1>1, <1>2, <1>8, <1>9, <1>10 DEF Sound

(* What is left of the table after a rule is deleted. *)
RulesLeft(b, R, X, d) ==
  Freed(b, Tagged(b, X, R[d].ix, X[X[R[d].ix].next].tbl, RuleLeft(b, R, d, RuleCut(b, R, d))))
IndicesLeft(b, R, X, d) == IndexLeft(b, X, R[d].ix, IndexCut(b, X, R[d].ix))

ByRulesLeft(b, n, R, X, d, F) ==
  LET i == R[d].ix
      t == X[X[i].next].tbl
  IN /\ RuleTable(n, F) /\ RulesOK(b, F, {}) /\ DOMAIN F = DOMAIN R /\ Live(F) = Live(R) \ {d}
     /\ \A x \in Live(F) : F[x].of = R[x].of
     /\ \A x \in Live(F) : F[x].ix = IF Follows(b, X, i) /\ x = t THEN i ELSE R[x].ix
LEMMA RulesLeftAre ==
  ASSUME NEW b, NEW n, NEW R, NEW X, NEW I, NEW C, Clean(b, n, R, X, I, C, {}, {}),
         NEW d \in Live(R)
  PROVE  ByRulesLeft(b, n, R, X, d, RulesLeft(b, R, X, d))
<1> DEFINE i == R[d].ix
           t == X[X[i].next].tbl
           L == RuleLeft(b, R, d, RuleCut(b, R, d))
           T == Tagged(b, X, i, t, L)
           F == Freed(b, T)
<1>1. Facts(b, n, R, X, {}, {})
  BY CleanWired
<1>2. /\ RuleTable(n, R) /\ IndexTable(n, X) /\ DOMAIN X = DOMAIN R /\ i \in DOMAIN R
      /\ 0 \in DOMAIN R /\ Used(R) \union {} = Used(R)
  BY <1>1 DEF Facts, UsedIx
<1>3. t \in DOMAIN R
  BY <1>2, IndexTypes
<1>4. Sound(b, n, R) /\ \A e \in DOMAIN R : R[e].dead => R[e].next # 0
  BY <1>2 DEF Clean, RulesOK, Sound
<1>5. ByRuleLeft(b, n, R, d, L)
  BY <1>4, RuleLeftSound
<1> HIDE DEF L, t, i
<1>6. Sound(b, n, L) /\ DOMAIN L = DOMAIN R /\ RuleTable(n, L)
  BY <1>5 DEF ByRuleLeft, Sound
<1>7. ByTagged(b, n, X, i, t, L, T)
  BY <1>2, <1>3, <1>6, TaggedIs
<1> HIDE DEF T
<1>8. Sound(b, n, T) /\ Used(T) = Used(L) /\ Live(T) = Live(L)
  BY <1>6, <1>7, TaggedSound
<1>9. \A x, y \in DOMAIN T : T[x].dead /\ T[x].next = 0 /\ T[y].dead /\ T[y].next = 0 => x = y
  BY <1>5, <1>6, <1>7 DEF ByRuleLeft, ByTagged
<1>10. ByFreed(b, n, T, F)
  BY <1>8, <1>9, FreedSound
<1> HIDE DEF F
<1>11. /\ RuleTable(n, F) /\ RulesOK(b, F, {}) /\ DOMAIN F = DOMAIN R /\ Live(F) = Live(R) \ {d}
       /\ Live(F) = Live(T) /\ Live(F) = Live(L)
  BY <1>5, <1>6, <1>7, <1>8, <1>10 DEF ByFreed, ByTagged, ByRuleLeft
<1>12. \A x \in Live(F) : x \in DOMAIN L /\ x \in Used(L)
  BY <1>11 DEF Live, Used
<1>13. ASSUME NEW x \in Live(F)
       PROVE  F[x].of = R[x].of /\ F[x].ix = IF Follows(b, X, i) /\ x = t THEN i ELSE R[x].ix
  <2>1. F[x].of = T[x].of /\ F[x].ix = T[x].ix
    BY <1>10, <1>11 DEF ByFreed
  <2>2. /\ T[x].of = L[x].of /\ (Follows(b, X, i) /\ x = t => T[x].ix = i)
        /\ ~(Follows(b, X, i) /\ x = t) => T[x].ix = L[x].ix
    BY <1>7, <1>12 DEF ByTagged
  <2>3. L[x].of = R[x].of /\ L[x].ix = R[x].ix
    BY <1>5, <1>11, <1>12 DEF ByRuleLeft
  <2> QED BY <2>1, <2>2, <2>3
<1>14. ByRulesLeft(b, n, R, X, d, F)
  BY <1>11, <1>13 DEF ByRulesLeft, i, t
<1> QED BY <1>14 DEF F, T, L, RulesLeft, i, t

LEMMA IndicesLeftAre ==
  ASSUME NEW b, NEW n, NEW R, NEW X, NEW I, NEW C, Clean(b, n, R, X, I, C, {}, {}),
         NEW d \in Live(R)
  PROVE  ByIndexLeft(b, n, X, R[d].ix, AtSrc(b, R, X), IndicesLeft(b, R, X, d))
<1>1. Facts(b, n, R, X, {}, {})
  BY CleanWired
<1>2. /\ IndexTable(n, X) /\ R[d].ix \in UsedIx(X) /\ Wired(X, b, UsedIx(X), AtSrc(b, R, X))
  BY <1>1 DEF Facts
<1> QED BY <1>2, IndexLeftWired DEF IndicesLeft

Put(f, h, v) == [f EXCEPT ![h] = v]
LEMMA HandleFreed ==
  ASSUME NEW b, NEW n, NEW R, NEW X, NEW I, NEW C, Clean(b, n, R, X, I, C, {}, {}),
         NEW d \in Live(R), NEW h \in 1..n, I[h] = IdOf(b, d), C[h] = R[d].of,
         NEW F, Live(F) = Live(R) \ {d}, \A x \in Live(F) : F[x].of = R[x].of
  PROVE  HandlesOK(b, n, F, Put(I, h, 0), Put(C, h, NoRule))
<1> DEFINE J == Put(I, h, 0)
           D == Put(C, h, NoRule)
<1>1. Facts(b, n, R, X, {}, {}) /\ HandlesOK(b, n, R, I, C)
  BY CleanWired DEF Clean
<1>2. Live(R) \subseteq Nat /\ b \in Nat /\ R[d].of \in StoreRules /\ NoRule \notin StoreRules
  BY <1>1, NatTableAssumption DEF Facts
<1>3. \A e \in Live(R) : IdOf(b, e) = IdOf(b, d) => e = d
  BY <1>2, IdOfOne
<1>4. /\ DOMAIN I = 1..n /\ DOMAIN C = 1..n
      /\ \A g \in 1..n : C[g] = NoRule => I[g] = 0
      /\ \A g \in 1..n : C[g] # NoRule =>
           g < n /\ \E e \in Live(R) : I[g] = IdOf(b, e) /\ R[e].of = C[g]
      /\ \A e \in Live(R) : \E g \in 1..n : I[g] = IdOf(b, e) /\ C[g] = R[e].of
      /\ \A g, k \in 1..n : C[g] = C[k] /\ C[g] # NoRule => g = k
  BY <1>1 DEF HandlesOK
<1>5. /\ DOMAIN J = 1..n /\ DOMAIN D = 1..n /\ J[h] = 0 /\ D[h] = NoRule
      /\ \A g \in 1..n : g # h => J[g] = I[g] /\ D[g] = C[g]
  BY <1>4 DEF Put
<1> HIDE DEF J, D
<1>6. ASSUME NEW g \in 1..n, D[g] # NoRule
      PROVE  g < n /\ \E e \in Live(F) : J[g] = IdOf(b, e) /\ F[e].of = D[g]
  <2>1. g # h /\ D[g] = C[g] /\ J[g] = I[g]
    BY <1>5, <1>6
  <2>2. PICK e \in Live(R) : I[g] = IdOf(b, e) /\ R[e].of = C[g]
    BY <1>4, <1>6, <2>1
  <2>3. e # d
    BY <1>2, <1>4, <2>1, <2>2
  <2> QED BY <1>4, <1>6, <2>1, <2>2, <2>3
<1>7. ASSUME NEW e \in Live(F)
      PROVE  \E g \in 1..n : J[g] = IdOf(b, e) /\ D[g] = F[e].of
  <2>1. e \in Live(R) /\ e # d
    OBVIOUS
  <2>2. PICK g \in 1..n : I[g] = IdOf(b, e) /\ C[g] = R[e].of
    BY <1>4, <2>1
  <2>3. g # h
    BY <1>3, <2>1, <2>2
  <2> QED BY <1>5, <2>2, <2>3
<1>8. \A g \in 1..n : D[g] = NoRule => J[g] = 0
  BY <1>4, <1>5
<1>9. \A g, k \in 1..n : D[g] = D[k] /\ D[g] # NoRule => g = k
  BY <1>4, <1>5
<1>10. HandlesOK(b, n, F, J, D)
  BY <1>5, <1>6, <1>7, <1>8, <1>9 DEF HandlesOK
<1> QED BY <1>10 DEF J, D

LEMMA RuleDeletedClean ==
  ASSUME NEW b, NEW n, NEW R, NEW X, NEW I, NEW C, Clean(b, n, R, X, I, C, {}, {}),
         NEW d \in Live(R), NEW h \in 1..n, I[h] = IdOf(b, d), C[h] = R[d].of
  PROVE  Clean(b, n, RulesLeft(b, R, X, d), IndicesLeft(b, R, X, d),
               Put(I, h, 0), Put(C, h, NoRule), {}, {})
<1> DEFINE J == Put(I, h, 0)
           D == Put(C, h, NoRule)
<1> DEFINE F == RulesLeft(b, R, X, d)
           G == IndicesLeft(b, R, X, d)
           i == R[d].ix
           m == X[i].next
           t == X[m].tbl
           e == Gone(b, X, i)
           U == UsedIx(X)
<1>1. Facts(b, n, R, X, {}, {}) /\ Room(b, n)
  BY CleanWired DEF Clean
<1>2a. ByRulesLeft(b, n, R, X, d, RulesLeft(b, R, X, d))
  BY RulesLeftAre
<1>2b. ByIndexLeft(b, n, X, R[d].ix, AtSrc(b, R, X), IndicesLeft(b, R, X, d))
  BY IndicesLeftAre
<1>2. ByRulesLeft(b, n, R, X, d, F) /\ ByIndexLeft(b, n, X, i, AtSrc(b, R, X), G)
  BY <1>2a, <1>2b
<1> HIDE DEF F, G
<1>3. /\ RuleTable(n, F) /\ RulesOK(b, F, {}) /\ DOMAIN F = DOMAIN R /\ Live(F) = Live(R) \ {d}
      /\ \A x \in Live(F) : F[x].of = R[x].of
      /\ \A x \in Live(F) : F[x].ix = IF Follows(b, X, i) /\ x = t THEN i ELSE R[x].ix
  BY <1>2 DEF ByRulesLeft
<1>4. /\ IndexTable(n, G) /\ DOMAIN G = DOMAIN X
      /\ e \in U /\ Wired(G, b, U \ {e}, AtSrc(b, R, X))
      /\ G[e].tbl = 0 /\ (e # i => G[i].tbl = X[e].tbl)
      /\ \A x \in DOMAIN X \ {e, i} : G[x].tbl = X[x].tbl
  BY <1>2 DEF ByIndexLeft
<1>5. HandlesOK(b, n, F, J, D)
  BY <1>3, HandleFreed
<1>6. /\ i \in U /\ U \subseteq DOMAIN X /\ X[i].tbl = d /\ DOMAIN X = DOMAIN R
      /\ Wired(X, b, U, AtSrc(b, R, X))
      /\ \A j \in U : X[j].tbl \in Live(R) /\ R[X[j].tbl].ix = j
      /\ \A y \in Live(R) : R[y].ix \in U /\ X[R[y].ix].tbl = y
  BY <1>1 DEF Facts, UsedIx
<1>7. /\ Follows(b, X, i) => e = m /\ e # i /\ t = X[e].tbl /\ AtSrc(b, R, X)[e] = AtSrc(b, R, X)[i]
      /\ ~Follows(b, X, i) => e = i
  <2>1. ASSUME Follows(b, X, i) PROVE m >= b /\ AtSrc(b, R, X)[m] = AtSrc(b, R, X)[i]
    BY <1>6, <2>1 DEF Wired, Follows
  <2>2. b \in Nat /\ i \in Nat
    BY <1>6 DEF Wired, Spans
  <2> QED BY <2>1, <2>2 DEF Follows, Gone
<1>8. UsedIx(G) = U \ {e}
  BY <1>4, <1>6 DEF UsedIx
<1> HIDE DEF U, e, t, m, i, J, D
<1>9. ASSUME NEW j \in UsedIx(G)
      PROVE  /\ G[j].tbl \in Live(F) /\ F[G[j].tbl].ix = j
             /\ AtSrc(b, F, G)[j] = AtSrc(b, R, X)[j]
  <2>1. j \in U /\ j # e /\ j \in DOMAIN G /\ j \in DOMAIN X
    BY <1>4, <1>6, <1>8
  <2>2. AtSrc(b, F, G)[j] = HashOf(b, F[G[j].tbl].of.src)
    BY <2>1 DEF AtSrc
  <2>3. \A k \in U : AtSrc(b, R, X)[k] = HashOf(b, R[X[k].tbl].of.src)
    BY <1>6 DEF AtSrc
  <2>4. CASE j = i
    <3>1. Follows(b, X, i) /\ G[j].tbl = t /\ t = X[e].tbl
      BY <1>4, <1>7, <2>1, <2>4
    <3>2. t \in Live(R) /\ t # d
      BY <1>4, <1>6, <1>7, <3>1
    <3>3. t \in Live(F)
      BY <1>3, <3>2
    <3>4. F[t].ix = i /\ F[t].of = R[t].of
      BY <1>3, <3>1, <3>3
    <3>5. AtSrc(b, R, X)[e] = HashOf(b, R[t].of.src)
      BY <1>4, <2>3, <3>1
    <3> QED BY <1>7, <2>2, <2>4, <3>1, <3>3, <3>4, <3>5
  <2>5. CASE j # i
    <3> DEFINE y == X[j].tbl
    <3>1. G[j].tbl = y
      BY <1>4, <2>1, <2>5
    <3>2. y \in Live(R) /\ R[y].ix = j
      BY <1>6, <2>1
    <3>3. y # d
      BY <1>6, <2>5, <3>2 DEF i
    <3>4. Follows(b, X, i) => y # t
      BY <1>4, <1>6, <1>7, <2>1, <3>2
    <3> HIDE DEF y
    <3>5. y \in Live(F)
      BY <1>3, <3>2, <3>3
    <3>6. F[y].ix = j /\ F[y].of = R[y].of
      BY <1>3, <3>2, <3>4, <3>5
    <3> QED BY <2>1, <2>2, <2>3, <3>1, <3>5, <3>6 DEF y
  <2> QED BY <2>4, <2>5
<1>10. ASSUME NEW y \in Live(F)
       PROVE  F[y].ix \in UsedIx(G) /\ G[F[y].ix].tbl = y
  <2>1. y \in Live(R) /\ y # d /\ R[y].ix \in U /\ X[R[y].ix].tbl = y
    BY <1>3, <1>6
  <2>2. CASE Follows(b, X, i) /\ y = t
    <3>1. F[y].ix = i
      BY <1>3, <2>2
    <3> QED BY <1>4, <1>6, <1>7, <1>8, <2>2, <3>1
  <2>3. CASE ~(Follows(b, X, i) /\ y = t)
    <3>1. F[y].ix = R[y].ix
      BY <1>3, <2>3
    <3>2. R[y].ix # i
      BY <1>6, <2>1
    <3>3. R[y].ix # e
      BY <1>7, <2>1, <2>3, <3>2
    <3>4. G[R[y].ix].tbl = y
      BY <1>4, <1>6, <2>1, <3>2, <3>3
    <3> QED BY <1>8, <2>1, <3>1, <3>3, <3>4
  <2> QED BY <2>2, <2>3
<1>11. Wired(G, b, UsedIx(G), AtSrc(b, F, G))
  <2>1. Wired(G, b, UsedIx(G), AtSrc(b, R, X)) /\ Threaded(G)
    BY <1>4, <1>8 DEF Wired, Spans
  <2>2. \A j \in UsedIx(G) : AtSrc(b, F, G)[j] = AtSrc(b, R, X)[j]
    BY <1>9
  <2> QED BY <2>1, <2>2, WiredSame
<1>12. IndicesOK(b, F, G, {})
  <2>1. Live(F) \union {} = Live(F)
    OBVIOUS
  <2> QED BY <1>9, <1>10, <1>11, <2>1 DEF IndicesOK
<1>13. Arrays(n, F, G)
  BY <1>3, <1>4 DEF Arrays, RuleTable, IndexTable
<1>14. Clean(b, n, F, G, J, D, {}, {})
  BY <1>1, <1>3, <1>5, <1>12, <1>13 DEF Clean
<1> QED BY <1>14 DEF F, G, J, D
-----------------------------------------------------------------------------
(* The rules the hardware finds by destination and by source.              *)

DstOf(b, R, r) ==
  \E e \in Chain(R, HashOf(b, r.dst)) : R[e].of = r /\ R[e].enabled /\ ~R[e].dead
SrcOf(b, R, X, r) ==
  \E j \in Chain(X, HashOf(b, r.src)) :
    R[X[j].tbl].of = r /\ R[X[j].tbl].enabled /\ ~R[X[j].tbl].dead
Holds(R, S, r) == \E e \in S : R[e].of = r

LEMMA StoredHeads ==
  ASSUME NEW b, NEW n, NEW R, NEW X, NEW I, NEW C, NEW P, NEW Q, Clean(b, n, R, X, I, C, P, Q),
         NEW r \in StoreRules
  PROVE  /\ HashOf(b, r.dst) \in Base(b) /\ HashOf(b, r.src) \in Base(b)
         /\ Base(b) \subseteq DOMAIN R \ {0} /\ DOMAIN X = DOMAIN R
         /\ Threaded(R) /\ Threaded(X) /\ IndexTable(n, X)
<1>1. Facts(b, n, R, X, P, Q)
  BY CleanWired
<1>2. b \in Nat /\ b >= 2 /\ r.dst \in Nat /\ r.src \in Nat
  BY <1>1, NatTableAssumption DEF Facts
<1>3. HashOf(b, r.dst) \in Base(b) /\ HashOf(b, r.src) \in Base(b)
  BY <1>2, HashIn
<1>4. Base(b) \subseteq DOMAIN R \ {0} /\ DOMAIN X = DOMAIN R
  BY <1>1 DEF Facts, Base
<1> QED BY <1>1, <1>3, <1>4 DEF Facts

(* The hardware finds the live rules of a clean table. *)
LEMMA StoredClean ==
  ASSUME NEW b, NEW n, NEW R, NEW X, NEW I, NEW C, NEW P, NEW Q, Clean(b, n, R, X, I, C, P, Q),
         NEW r \in StoreRules
  PROVE  /\ DstOf(b, R, r) <=> Holds(R, Live(R), r)
         /\ SrcOf(b, R, X, r) <=> Holds(R, Live(R), r)
<1>1. /\ HashOf(b, r.dst) \in Base(b) /\ HashOf(b, r.src) \in Base(b)
      /\ Base(b) \subseteq DOMAIN R \ {0} /\ DOMAIN X = DOMAIN R
      /\ Threaded(R) /\ Threaded(X) /\ IndexTable(n, X)
  BY StoredHeads
<1>2. Chain(R, HashOf(b, r.dst)) \subseteq DOMAIN R /\ Chain(X, HashOf(b, r.src)) \subseteq DOMAIN X
  BY <1>1, ChainFacts
<1>3. ASSUME NEW e \in Live(R), R[e].of = r PROVE DstOf(b, R, r) /\ SrcOf(b, R, X, r)
  <2>1. /\ e \in Chain(R, HashOf(b, r.dst))
        /\ R[e].ix \in Chain(X, HashOf(b, r.src)) /\ X[R[e].ix].tbl = e
    BY <1>3, LiveFound
  <2> QED BY <1>3, <2>1 DEF DstOf, SrcOf, Live
<1>4. DstOf(b, R, r) => Holds(R, Live(R), r)
  BY <1>2 DEF DstOf, Live, Holds
<1>5. ASSUME SrcOf(b, R, X, r) PROVE Holds(R, Live(R), r)
  <2>1. PICK j \in Chain(X, HashOf(b, r.src)) :
          R[X[j].tbl].of = r /\ R[X[j].tbl].enabled /\ ~R[X[j].tbl].dead
    BY <1>5 DEF SrcOf
  <2>2. X[j].tbl \in DOMAIN R
    BY <1>1, <1>2, IndexTypes
  <2> QED BY <2>1, <2>2 DEF Live, Holds
<1> QED BY <1>3, <1>4, <1>5 DEF Holds

(* A rule that is cut out of one of the tables is not found there, the others are. *)
LEMMA StoredRuleCut ==
  ASSUME NEW b, NEW n, NEW R, NEW X, NEW I, NEW C, Clean(b, n, R, X, I, C, {}, {}),
         NEW d \in Live(R), NEW r \in StoreRules, NEW Y, Y = RuleCut(b, R, d)
  PROVE  /\ DstOf(b, Y, r) <=> Holds(R, Live(R) \ {d}, r)
         /\ DOMAIN Y = DOMAIN R
         /\ \A e \in DOMAIN R : Y[e].of = R[e].of
         /\ \A e \in DOMAIN R : e # d => Y[e].enabled = R[e].enabled /\ Y[e].dead = R[e].dead
<1>1. /\ HashOf(b, r.dst) \in Base(b) /\ Base(b) \subseteq DOMAIN R \ {0}
  BY StoredHeads
<1> DEFINE h == HashOf(b, r.dst)
<1>2. /\ Threaded(Y) /\ DOMAIN Y = DOMAIN R
      /\ \A e \in DOMAIN R : e # d => (e \in Chain(Y, h) <=> e \in Chain(R, h))
      /\ \A e \in DOMAIN R : Y[e].of = R[e].of
      /\ \A e \in DOMAIN R : e # d => Y[e].enabled = R[e].enabled /\ Y[e].dead = R[e].dead
      /\ ~(d \in Chain(Y, h) /\ Y[d].enabled /\ ~Y[d].dead)
  BY <1>1, RuleCutChains
<1>3. Chain(Y, h) \subseteq DOMAIN R
  BY <1>1, <1>2, ChainFacts
<1>4. ASSUME NEW e \in Live(R), e # d, R[e].of = r PROVE DstOf(b, Y, r)
  <2>1. e \in Chain(R, h) /\ e \in DOMAIN R
    BY <1>4, LiveFound DEF Live
  <2>2. e \in Chain(Y, h) /\ Y[e].of = r /\ Y[e].enabled = R[e].enabled /\ Y[e].dead = R[e].dead
    BY <1>2, <1>4, <2>1
  <2>3. R[e].enabled /\ ~R[e].dead
    BY DEF Live
  <2>4. Y[e].enabled /\ ~Y[e].dead
    BY <2>2, <2>3, Zenon
  <2> QED BY <2>2, <2>4 DEF DstOf
<1>5. ASSUME DstOf(b, Y, r) PROVE Holds(R, Live(R) \ {d}, r)
  <2>1. PICK e \in Chain(Y, h) : Y[e].of = r /\ Y[e].enabled /\ ~Y[e].dead
    BY <1>5 DEF DstOf
  <2>2. e # d /\ e \in DOMAIN R
    BY <1>2, <1>3, <2>1
  <2>3. R[e].of = r /\ Y[e].enabled = R[e].enabled /\ Y[e].dead = R[e].dead
    BY <1>2, <2>1, <2>2
  <2>4. R[e].enabled /\ ~R[e].dead
    BY <2>1, <2>3, Zenon
  <2>5. e \in Live(R) \ {d}
    BY <2>2, <2>4 DEF Live
  <2> QED BY <2>3, <2>5 DEF Holds
<1> QED BY <1>2, <1>4, <1>5 DEF Holds

CutSame(R, d, Y) ==
  /\ \A e \in DOMAIN R : Y[e].of = R[e].of
  /\ \A e \in DOMAIN R : e # d => Y[e].enabled = R[e].enabled /\ Y[e].dead = R[e].dead
LEMMA RuleCutSame ==
  ASSUME NEW b, NEW n, NEW R, RuleTable(n, R), NEW d \in DOMAIN R
  PROVE  CutSame(R, d, RuleCut(b, R, d))
<1>1. ByRuleCut(b, n, R, d, RuleCut(b, R, d))
  BY RuleCutFields
<1> DEFINE Y == RuleCut(b, R, d)
<1> HIDE DEF Y
<1>2. ByRuleCut(b, n, R, d, Y)
  BY <1>1 DEF Y
<1>3. CutSame(R, d, Y)
  <2>1. CASE d >= b
    BY <1>2, <2>1 DEF ByRuleCut, CutSame
  <2>2. CASE ~(d >= b)
    BY <1>2, <2>2 DEF ByRuleCut, CutSame
  <2> QED BY <2>1, <2>2
<1> QED BY <1>3 DEF Y

LEMMA StoredIndexCut ==
  ASSUME NEW b, NEW n, NEW R, NEW X, NEW I, NEW C, Clean(b, n, R, X, I, C, {}, {}),
         NEW d \in Live(R), NEW r \in StoreRules, NEW Y,
         \/ Y = IndexCut(b, X, R[d].ix)
         \/ Y = IndexHalf(X, R[d].ix) /\ ~(R[d].ix >= b) /\ X[R[d].ix].next # 0,
         NEW Z, Z = R \/ Z = RuleCut(b, R, d)
  PROVE  SrcOf(b, Z, Y, r) <=> Holds(R, Live(R) \ {d}, r)
<1>1. /\ HashOf(b, r.src) \in Base(b) /\ Base(b) \subseteq DOMAIN R \ {0} /\ DOMAIN X = DOMAIN R
      /\ IndexTable(n, X)
  BY StoredHeads
<1> DEFINE h == HashOf(b, r.src)
<1>2. /\ Threaded(Y) /\ DOMAIN Y = DOMAIN X
      /\ \A e \in Live(R) : e # d => \E j \in Chain(Y, HashOf(b, R[e].of.src)) : Y[j].tbl = e
      /\ \A k \in Base(b) : \A j \in Chain(Y, k) : Y[j].tbl # d
  BY IndexCutShows
<1>3. Chain(Y, h) \subseteq DOMAIN Y
  BY <1>1, <1>2, ChainFacts
<1>4. /\ \A e \in DOMAIN R : Z[e].of = R[e].of
      /\ \A e \in DOMAIN R : e # d => Z[e].enabled = R[e].enabled /\ Z[e].dead = R[e].dead
  <2>1. CASE Z = R
    BY <2>1
  <2>2. CASE Z = RuleCut(b, R, d)
    <3>1. Facts(b, n, R, X, {}, {})
      BY CleanWired
    <3>2. RuleTable(n, R) /\ d \in DOMAIN R
      BY <3>1 DEF Facts, Live
    <3>3. CutSame(R, d, RuleCut(b, R, d))
      BY <3>2, RuleCutSame
    <3> QED BY <2>2, <3>3 DEF CutSame
  <2> QED BY <2>1, <2>2
<1>5. IndexTable(n, Y)
  <2>1. Facts(b, n, R, X, {}, {})
    BY CleanWired
  <2>2. 0 \in DOMAIN X /\ R[d].ix \in DOMAIN X
    BY <2>1 DEF Facts, UsedIx
  <2>3. ByIndexCut(b, n, X, R[d].ix, IndexCut(b, X, R[d].ix), IndexHalf(X, R[d].ix))
    BY <1>1, <2>2, IndexCutFields
  <2>4. IndexTable(n, IndexCut(b, X, R[d].ix)) /\ IndexTable(n, IndexHalf(X, R[d].ix))
    BY <2>3 DEF ByIndexCut
  <2> QED BY <2>4
<1>6. ASSUME NEW e \in Live(R), e # d, R[e].of = r PROVE SrcOf(b, Z, Y, r)
  <2>1. PICK j \in Chain(Y, h) : Y[j].tbl = e
    BY <1>2, <1>6
  <2>2. Z[e].of = r /\ Z[e].enabled = R[e].enabled /\ Z[e].dead = R[e].dead
    BY <1>4, <1>6 DEF Live
  <2>3. R[e].enabled /\ ~R[e].dead
    BY DEF Live
  <2>4. Z[e].enabled /\ ~Z[e].dead
    BY <2>2, <2>3, Zenon
  <2> QED BY <2>1, <2>2, <2>4 DEF SrcOf
<1>7. ASSUME SrcOf(b, Z, Y, r) PROVE Holds(R, Live(R) \ {d}, r)
  <2>1. PICK j \in Chain(Y, h) :
          Z[Y[j].tbl].of = r /\ Z[Y[j].tbl].enabled /\ ~Z[Y[j].tbl].dead
    BY <1>7 DEF SrcOf
  <2> DEFINE e == Y[j].tbl
  <2>2. e # d /\ e \in DOMAIN R
    BY <1>1, <1>2, <1>3, <1>5, IndexTypes
  <2>3. R[e].of = r /\ Z[e].enabled = R[e].enabled /\ Z[e].dead = R[e].dead
    BY <1>4, <2>1, <2>2
  <2>4. R[e].enabled /\ ~R[e].dead
    BY <2>1, <2>3, Zenon
  <2>5. e \in Live(R) \ {d}
    BY <2>2, <2>4 DEF Live
  <2> QED BY <2>3, <2>5 DEF Holds
<1> QED BY <1>6, <1>7 DEF Holds
-----------------------------------------------------------------------------
(* The invariant.  Between two operations the table is clean; in the middle of *)
(* one it is what that operation has made of a clean one so far.           *)

All == size.base + size.expn
CleanNow(P, Q) == Clean(size.base, All, rule, index, ids, client, P, Q)

\* a rule is being added: its entry is written, the hardware does not see it yet
Pending ==
  /\ op.e \in 1..(All - 1) /\ ~rule[op.e].enabled /\ rule[op.e].of = op.of
  /\ op.of \in StoreRules /\ \A h \in DOMAIN client : client[h] # op.of
InIndex ==
  /\ op.do = "index" /\ Pending /\ rule[op.e].ix = op.place.e
  /\ Placed(index, size.base, UsedIx(index), AtSrc(size.base, rule, index),
            HashOf(size.base, op.of.src), op.place)
  /\ CleanNow(IF broken THEN {} ELSE {op.e}, {})
InEnable ==
  /\ op.do = "enable" /\ Pending /\ Room(size.base, All) /\ Arrays(All, rule, index)
  /\ broken \/ CleanNow({op.e}, {op.e})

\* a rule is being deleted: the commands of the batch, and how far they are
RuleCommand(b, R, d) ==
  IF d >= b THEN Write("rule", R[d].prev, "next", R[d].next)
  ELSE IF R[d].next = 0 THEN Write("rule", d, "enabled", FALSE) ELSE Write("rule", d, "proto", 0)
IndexCommand(b, X, i) ==
  IF i >= b THEN Write("index", X[i].prev, "next", X[i].next) ELSE Write("index", i, "tbl", 0)
HalfCommand(X, i) == Write("index", i, "tbl", X[X[i].next].tbl)
RestCommand(X, i) == Write("index", i, "next", X[X[i].next].next)
Stage(b, R, X, d, w) ==
  LET i == R[d].ix
  IN \/ /\ rule = R /\ index = X
        /\ w = IF Follows(b, X, i) THEN <<HalfCommand(X, i), RestCommand(X, i), RuleCommand(b, R, d)>>
               ELSE <<IndexCommand(b, X, i), RuleCommand(b, R, d)>>
     \/ /\ Follows(b, X, i) /\ rule = R /\ index = IndexHalf(X, i)
        /\ w = <<RestCommand(X, i), RuleCommand(b, R, d)>>
     \/ rule = R /\ index = IndexCut(b, X, i) /\ w = <<RuleCommand(b, R, d)>>
     \/ rule = RuleCut(b, R, d) /\ index = IndexCut(b, X, i) /\ w = <<>>
Deletion(b, R, X, d, h, w) ==
  [do |-> "delete", h |-> h, e |-> d, i |-> R[d].ix, wasHead |-> (d < b /\ R[d].next # 0),
   next |-> X[R[d].ix].next, moved |-> Follows(b, X, R[d].ix), writes |-> w]
Deletes(R, X, d, h, w) ==
  /\ Clean(size.base, All, R, X, ids, client, {}, {})
  /\ d \in Live(R) /\ h \in 1..All /\ ids[h] = IdOf(size.base, d) /\ client[h] = R[d].of
  /\ op = Deletion(size.base, R, X, d, h, w) /\ Stage(size.base, R, X, d, w)
InDelete == ~broken /\ \E R, X, d, h, w : Deletes(R, X, d, h, w)

SizeIn == size.base \in Nat /\ size.expn \in Nat
TInv ==
  /\ SizeIn
  /\ size = NoTable => Idle /\ ~broken /\ DOMAIN client = {}
  /\ size # NoTable =>
       \/ Idle /\ (broken \/ CleanNow({}, {}))
       \/ InIndex \/ InEnable \/ InDelete

LEMMA AllEntries == SizeIn => EntriesOf(size) = 0..(All - 1) /\ All \in Nat
BY DEF EntriesOf, All, SizeIn

LEMMA InitTInv == TableInit => TInv
BY DEF TableInit, TInv, Idle, SizeIn, NoTable

LEMMA SizesOf ==
  ASSUME NEW k \in Requests
  PROVE  /\ SizeFor(k).base \in Nat /\ SizeFor(k).expn \in Nat
         /\ SizeFor(k).base >= 2 /\ SizeFor(k).expn >= 2
<1>1. k \in 1..1000
  BY NatTableAssumption
<1> DEFINE m == IF k * 8 < 20 THEN 1 ELSE (k * 8) \div 10
<1>2. m \in 1..800
  BY <1>1
<1>3. \E p \in Powers : p >= m /\ (p = 2 \/ p \div 2 < m)
  <2> HIDE DEF m
  <2>1. CASE m <= 2 BY <1>2, <2>1 DEF Powers
  <2>2. CASE m > 2 /\ m <= 4 BY <1>2, <2>2 DEF Powers
  <2>3. CASE m > 4 /\ m <= 8 BY <1>2, <2>3 DEF Powers
  <2>4. CASE m > 8 /\ m <= 16 BY <1>2, <2>4 DEF Powers
  <2>5. CASE m > 16 /\ m <= 32 BY <1>2, <2>5 DEF Powers
  <2>6. CASE m > 32 /\ m <= 64 BY <1>2, <2>6 DEF Powers
  <2>7. CASE m > 64 /\ m <= 128 BY <1>2, <2>7 DEF Powers
  <2>8. CASE m > 128 /\ m <= 256 BY <1>2, <2>8 DEF Powers
  <2>9. CASE m > 256 /\ m <= 512 BY <1>2, <2>9 DEF Powers
  <2>10. CASE m > 512 BY <1>2, <2>10 DEF Powers
  <2> QED BY <1>2, <2>1, <2>2, <2>3, <2>4, <2>5, <2>6, <2>7, <2>8, <2>9, <2>10
<1>4. BaseEntries(k) \in Powers
  BY <1>3 DEF BaseEntries
<1>5. BaseEntries(k) \in Nat /\ BaseEntries(k) >= 2
  BY <1>4 DEF Powers
<1>6. ExpnEntries(k) \in Nat /\ ExpnEntries(k) >= 2
  BY <1>1 DEF ExpnEntries
<1> QED BY <1>5, <1>6 DEF SizeFor

Blank(n, R, X, I, C) ==
  /\ R = [e \in 0..(n - 1) |-> NoEntry] /\ X = [e \in 0..(n - 1) |-> NoIndex]
  /\ I = [h \in 1..n |-> 0] /\ C = [h \in 1..n |-> NoRule]
LEMMA EmptyClean ==
  ASSUME NEW b, NEW n, Room(b, n), NEW R, NEW X, NEW I, NEW C, Blank(n, R, X, I, C)
  PROVE  Clean(b, n, R, X, I, C, {}, {})
<1>1. b \in Nat /\ n \in Nat /\ b >= 2 /\ n > b /\ n > 0
  BY DEF Room
<1>2. Arrays(n, R, X)
  BY <1>1 DEF Blank, Arrays, RuleEntries, IndexEntries, NoEntry, NoIndex
<1>3. Threaded(R) /\ Threaded(X) /\ DOMAIN R = 0..(n - 1) /\ DOMAIN X = 0..(n - 1)
  BY <1>1, <1>2, ArraysThread
<1>4. /\ \A e \in DOMAIN R : ~R[e].enabled /\ ~R[e].dead /\ R[e].next = 0
      /\ \A e \in DOMAIN X : X[e].tbl = 0 /\ X[e].next = 0
  BY <1>3 DEF Blank, NoEntry, NoIndex
<1>5. Used(R) \union {} = {} /\ UsedIx(X) = {} /\ Live(R) = {} /\ Live(R) \union {} = {}
  BY <1>4 DEF Used, UsedIx, Live
<1>6. Base(b) \subseteq DOMAIN R /\ Base(b) \subseteq DOMAIN X
  BY <1>1, <1>3 DEF Base
<1>7. ASSUME NEW f \in {R, X}, NEW at PROVE Wired(f, b, {}, at)
  <2>1. Spans(f, b)
    BY <1>1, <1>3, <1>6 DEF Spans
  <2>2. \A h \in Base(b) : f[h].next = 0
    BY <1>4, <1>6
  <2> QED BY <2>1, <2>2 DEF Wired
<1>8. RulesOK(b, R, {}) /\ IndicesOK(b, R, X, {})
  BY <1>4, <1>5, <1>7 DEF RulesOK, IndicesOK
<1>9. HandlesOK(b, n, R, I, C)
  BY <1>1, <1>5 DEF Blank, HandlesOK
<1> QED BY <1>2, <1>8, <1>9 DEF Clean

LEMMA CreateTInv ==
  ASSUME TInv, NEW k \in Requests, CreateTable(k)
  PROVE  TInv' /\ size' # NoTable /\ CleanNow({}, {})'
<1> DEFINE s == SizeFor(k)
<1>1. s.base \in Nat /\ s.expn \in Nat /\ s.base >= 2 /\ s.expn >= 2
  BY SizesOf
<1>2. Idle /\ op' = op /\ size' = s
  BY DEF TInv, CreateTable
<1> HIDE DEF s
<1>3. size' # NoTable
  BY <1>1, <1>2 DEF NoTable
<1>4. Room(s.base, s.base + s.expn)
  BY <1>1 DEF Room
<1>5. Clean(s.base, s.base + s.expn, rule', index', ids', client', {}, {})
  <2>1. /\ rule' = [e \in 0..(s.base + s.expn - 1) |-> NoEntry]
        /\ index' = [e \in 0..(s.base + s.expn - 1) |-> NoIndex]
        /\ ids' = [h \in 1..(s.base + s.expn) |-> 0]
        /\ client' = [h \in 1..(s.base + s.expn) |-> NoRule]
    BY DEF CreateTable, Zeroed, NewIds, EntriesOf, s
  <2>2. Blank(s.base + s.expn, rule', index', ids', client')
    <3>1. PICK n : n = s.base + s.expn
      OBVIOUS
    <3>2. s.base + s.expn - 1 = n - 1
      BY <1>1, <3>1
    <3>3. Blank(n, rule', index', ids', client')
      BY <2>1, <3>1, <3>2, Zenon DEF Blank
    <3> QED BY <3>1, <3>3
  <2> QED BY <1>4, <2>2, EmptyClean
<1>6. CleanNow({}, {})'
  BY <1>2, <1>5 DEF CleanNow, All
<1> QED BY <1>1, <1>2, <1>3, <1>6 DEF TInv, Idle, SizeIn

LEMMA DeleteTableTInv == ASSUME TInv, DeleteTable PROVE TInv'
BY DEF TInv, DeleteTable, Idle, SizeIn, NoTable

(* ipa_nati_generate_tbl_rule and ipa_nati_generate_index_rule find a place. *)
LEMMA LeastIn ==
  ASSUME NEW S \in SUBSET Nat, FirstOf(S) # 0
  PROVE  FirstOf(S) \in S
<1>1. S # {}
  BY DEF FirstOf
<1>2. PICK k \in S : TRUE
  BY <1>1
<1>3. \E x \in S : \A y \in S : x <= y
  BY <1>2, LeastOf
<1> QED BY <1>1, <1>3 DEF FirstOf, Min

LEMMA RulePlaced ==
  ASSUME SizeIn, CleanNow({}, {}), NEW r \in StoreRules, RulePlace(r).e # 0
  PROVE  Placed(rule, size.base, Used(rule), AtDst(size.base, rule),
                HashOf(size.base, r.dst), RulePlace(r))
<1> DEFINE b == size.base
           h == HashOf(b, r.dst)
           U == Used(rule)
           at == AtDst(b, rule)
<1>1. Facts(b, All, rule, index, {}, {})
  BY CleanWired DEF CleanNow
<1>2. /\ Wired(rule, b, U, at) /\ DOMAIN rule = 0..(All - 1) /\ b \in Nat /\ b >= 2
      /\ All \in Nat
  <2>1. U \union {} = U
    OBVIOUS
  <2> QED BY <1>1, <2>1 DEF Facts
<1>3. h \in Base(b) /\ h = DstHash(r)
  BY <1>2, HashIn, NatTableAssumption DEF DstHash, Hash, HashOf
<1>4. h \in DOMAIN rule
  BY <1>2, <1>3 DEF Wired, Spans
<1>5. CASE ~rule[h].enabled
  <2>1. RulePlace(r) = [e |-> h, prev |-> 0]
    BY <1>3, <1>5 DEF RulePlace, InUseRule
  <2>2. h \in Base(b) \ U
    BY <1>3, <1>5 DEF Used
  <2> QED BY <2>1, <2>2 DEF Placed
<1>6. CASE rule[h].enabled
  <2>1. RulePlace(r) = [e |-> FirstOf(FreeRule), prev |-> Last(rule, h)]
    BY <1>3, <1>6 DEF RulePlace, InUseRule
  <2>2. h \in U \intersect Base(b)
    BY <1>3, <1>4, <1>6 DEF Used
  <2>3. Last(rule, h) \in U /\ at[Last(rule, h)] = h /\ rule[Last(rule, h)].next = 0
    BY <1>2, <2>2, LastIs
  <2>4. FirstOf(FreeRule) \in FreeRule
    <3>1. FirstOf(FreeRule) # 0
      BY <2>1
    <3>2. FreeRule \in SUBSET Nat
      BY <1>2, AllEntries DEF FreeRule
    <3> QED BY <3>1, <3>2, LeastIn
  <2>5. FirstOf(FreeRule) \in DOMAIN rule \ U /\ FirstOf(FreeRule) >= b
    <3>1. PICK e : e = FirstOf(FreeRule)
      OBVIOUS
    <3>2. e \in EntriesOf(size) /\ e > b /\ ~InUseRule(e)
      BY <2>4, <3>1 DEF FreeRule
    <3>3. e \in DOMAIN rule /\ e > b /\ e \in Nat
      <4>1. e \in DOMAIN rule
        BY <1>2, <3>2, AllEntries
      <4> QED BY <1>2, <3>2, <4>1
    <3>4. e \notin U
      BY <3>2 DEF InUseRule, Used
    <3> QED BY <1>2, <3>1, <3>3, <3>4
  <2>6. RulePlace(r).e = FirstOf(FreeRule) /\ RulePlace(r).prev = Last(rule, h)
    BY <2>1
  <2> QED BY <2>3, <2>5, <2>6 DEF Placed
<1> QED BY <1>5, <1>6

LEMMA IndexPlaced ==
  ASSUME SizeIn, CleanNow({}, {}), NEW r \in StoreRules, IndexPlace(r).e # 0
  PROVE  Placed(index, size.base, UsedIx(index), AtSrc(size.base, rule, index),
                HashOf(size.base, r.src), IndexPlace(r))
<1> DEFINE b == size.base
           h == HashOf(b, r.src)
           U == UsedIx(index)
           at == AtSrc(b, rule, index)
<1>1. Facts(b, All, rule, index, {}, {})
  BY CleanWired DEF CleanNow
<1>2. /\ Wired(index, b, U, at) /\ DOMAIN index = 0..(All - 1) /\ b \in Nat /\ b >= 2
      /\ All \in Nat
  BY <1>1 DEF Facts
<1>3. h \in Base(b) /\ h = SrcHash(r)
  BY <1>2, HashIn, NatTableAssumption DEF SrcHash, Hash, HashOf
<1>4. h \in DOMAIN index
  BY <1>2, <1>3 DEF Wired, Spans
<1>5. CASE index[h].tbl = 0
  <2>1. IndexPlace(r) = [e |-> h, prev |-> 0]
    BY <1>3, <1>5 DEF IndexPlace, InUseIndex
  <2>2. h \in Base(b) \ U
    BY <1>3, <1>5 DEF UsedIx
  <2> QED BY <2>1, <2>2 DEF Placed
<1>6. CASE index[h].tbl # 0
  <2>1. IndexPlace(r) = [e |-> FirstOf(FreeIndex), prev |-> Last(index, h)]
    BY <1>3, <1>6 DEF IndexPlace, InUseIndex
  <2>2. h \in U \intersect Base(b)
    BY <1>3, <1>4, <1>6 DEF UsedIx
  <2>3. Last(index, h) \in U /\ at[Last(index, h)] = h /\ index[Last(index, h)].next = 0
    BY <1>2, <2>2, LastIs
  <2>4. FirstOf(FreeIndex) \in FreeIndex
    <3>1. FirstOf(FreeIndex) # 0
      BY <2>1
    <3>2. FreeIndex \in SUBSET Nat
      BY <1>2, AllEntries DEF FreeIndex
    <3> QED BY <3>1, <3>2, LeastIn
  <2>5. FirstOf(FreeIndex) \in DOMAIN index \ U /\ FirstOf(FreeIndex) >= b
    <3>1. PICK e : e = FirstOf(FreeIndex)
      OBVIOUS
    <3>2. e \in EntriesOf(size) /\ e > b /\ ~InUseIndex(e)
      BY <2>4, <3>1 DEF FreeIndex
    <3>3. e \in DOMAIN index /\ e > b /\ e \in Nat
      <4>1. e \in DOMAIN index
        BY <1>2, <3>2, AllEntries
      <4> QED BY <1>2, <3>2, <4>1
    <3>4. e \notin U
      BY <3>2 DEF InUseIndex, UsedIx
    <3> QED BY <1>2, <3>1, <3>3, <3>4
  <2>6. IndexPlace(r).e = FirstOf(FreeIndex) /\ IndexPlace(r).prev = Last(index, h)
    BY <2>1
  <2> QED BY <2>3, <2>5, <2>6 DEF Placed
<1> QED BY <1>5, <1>6
-----------------------------------------------------------------------------
(* Every step keeps it: a rule is added.                                   *)

LEMMA IndexStillPlaced ==
  ASSUME NEW b, NEW n, NEW R, NEW X, NEW I, NEW C, Clean(b, n, R, X, I, C, {}, {}),
         NEW G, \A x \in Live(R) : G[x].of = R[x].of, NEW h, NEW q,
         Placed(X, b, UsedIx(X), AtSrc(b, R, X), h, q)
  PROVE  Placed(X, b, UsedIx(X), AtSrc(b, G, X), h, q)
<1>1. IndicesOK(b, R, X, {})
  BY DEF Clean
<1>2. \A i \in UsedIx(X) : X[i].tbl \in Live(R)
  BY <1>1 DEF IndicesOK
<1>3. \A i \in UsedIx(X) : AtSrc(b, G, X)[i] = AtSrc(b, R, X)[i]
  BY <1>2 DEF AtSrc, UsedIx
<1> QED BY <1>3 DEF Placed

\* what an idle driver's table is
LEMMA IdleClean ==
  ASSUME TInv, size # NoTable, Idle, ~broken
  PROVE  SizeIn /\ CleanNow({}, {})
<1>1. ~InIndex /\ ~InEnable
  BY DEF Idle, InIndex, InEnable
<1>2. ~InDelete
  <2>1. ASSUME NEW R, NEW X, NEW d, NEW h, NEW w, Deletes(R, X, d, h, w) PROVE FALSE
    <3>1. op = Deletion(size.base, R, X, d, h, w)
      BY <2>1 DEF Deletes
    <3>2. op.do = "delete"
      BY <3>1 DEF Deletion
    <3> QED BY <3>2 DEF Idle
  <2> QED BY <2>1 DEF InDelete
<1> QED BY <1>1, <1>2 DEF TInv

LEMMA WrittenIs == \A p, r, i : RuleWritten(p, r, i) = Written(rule, p, r, i)
<1> SUFFICES ASSUME NEW p, NEW r, NEW i PROVE RuleWritten(p, r, i) = Written(rule, p, r, i)
  OBVIOUS
<1>1. [NoEntry EXCEPT !.of = r, !.prev = p.prev, !.ix = i]
        = [of |-> r, enabled |-> FALSE, dead |-> FALSE, next |-> 0, prev |-> p.prev, ix |-> i]
  <2> DEFINE e == p.prev
  <2> HIDE DEF e
  <2>1. PICK u : u = [NoEntry EXCEPT !.of = r]
    OBVIOUS
  <2>2. u = [of |-> r, enabled |-> FALSE, dead |-> FALSE, next |-> 0, prev |-> 0, ix |-> 0]
    BY <2>1 DEF NoEntry
  <2>3. PICK v : v = [u EXCEPT !.prev = e]
    OBVIOUS
  <2>4. v = [of |-> r, enabled |-> FALSE, dead |-> FALSE, next |-> 0, prev |-> e, ix |-> 0]
    BY <2>2, <2>3
  <2>5. PICK w : w = [v EXCEPT !.ix = i]
    OBVIOUS
  <2>6. w = [of |-> r, enabled |-> FALSE, dead |-> FALSE, next |-> 0, prev |-> e, ix |-> i]
    BY <2>4, <2>5
  <2>7. [NoEntry EXCEPT !.of = r, !.prev = e, !.ix = i] = w
    BY <2>1, <2>3, <2>5
  <2> QED BY <2>6, <2>7 DEF e
<1> QED BY <1>1, Zenon DEF RuleWritten, Written

LEMMA AddRuleTInv ==
  ASSUME TInv, NEW r \in StoreRules, NEW linked \in BOOLEAN, AddRule(r, linked)
  PROVE  /\ TInv' /\ InIndex' /\ CleanNow({}, {}) /\ Live(rule') = Live(rule)
         /\ \A x \in Live(rule) : rule'[x].of = rule[x].of
<1> DEFINE b == size.base
           p == RulePlace(r)
           q == IndexPlace(r)
<1>1. /\ size # NoTable /\ Idle /\ ~broken /\ \A h \in DOMAIN client : client[h] # r
      /\ p.e # 0 /\ q.e # 0 /\ (linked \/ p.prev # 0)
      /\ rule' = IF linked THEN Linked(RuleWritten(p, r, q.e), p) ELSE RuleWritten(p, r, q.e)
      /\ broken' = ~linked
      /\ op' = [do |-> "index", of |-> r, e |-> p.e, place |-> q]
      /\ size' = size /\ index' = index /\ ids' = ids /\ client' = client
  BY DEF AddRule
<1>2. SizeIn /\ CleanNow({}, {})
  BY <1>1, IdleClean
<1> HIDE DEF p, q
<1>3. /\ Placed(rule, b, Used(rule), AtDst(b, rule), HashOf(b, r.dst), p)
      /\ Placed(index, b, UsedIx(index), AtSrc(b, rule, index), HashOf(b, r.src), q)
  BY <1>1, <1>2, RulePlaced, IndexPlaced DEF p, q
<1>4. q.e \in 0..(All - 1)
  <2>1. Facts(b, All, rule, index, {}, {})
    BY <1>2, CleanWired DEF CleanNow
  <2>2. Wired(index, b, UsedIx(index), AtSrc(b, rule, index)) /\ DOMAIN index = 0..(All - 1)
    BY <2>1 DEF Facts
  <2>3. Base(b) \subseteq DOMAIN index
    BY <2>2 DEF Wired, Spans
  <2>4. q.e \in DOMAIN index
    BY <1>3, <2>3 DEF Placed
  <2> QED BY <2>2, <2>4
<1>5. IsAdded(rule, p, r, q.e, linked, RuleWritten(p, r, q.e), rule')
  BY <1>1, WrittenIs DEF IsAdded
<1>6. ByAdded(b, All, rule, index, ids, client, p, r, q.e, linked, rule')
  BY <1>2, <1>3, <1>4, <1>5, RuleAdded DEF CleanNow
<1>7. /\ Clean(b, All, rule', index, ids, client, IF linked THEN {p.e} ELSE {}, {})
      /\ p.e \in 1..(All - 1) /\ ~rule'[p.e].enabled /\ rule'[p.e].of = r /\ rule'[p.e].ix = q.e
      /\ p.e \notin Live(rule) /\ Live(rule') = Live(rule)
      /\ \A x \in DOMAIN rule \ {p.e} : rule'[x].of = rule[x].of
  BY <1>6 DEF ByAdded
<1>8. All' = All
  BY <1>1 DEF All
<1>9. op'.do = "index" /\ op'.of = r /\ op'.e = p.e /\ op'.place = q
  BY <1>1
<1>10. Pending'
  BY <1>1, <1>7, <1>8, <1>9 DEF Pending
<1>11. Placed(index, b, UsedIx(index), AtSrc(b, rule', index), HashOf(b, r.src), q)
  <2>1. \A x \in Live(rule) : rule'[x].of = rule[x].of
    BY <1>7 DEF Live
  <2>2. Clean(b, All, rule, index, ids, client, {}, {})
    BY <1>2 DEF CleanNow
  <2> HIDE DEF b
  <2> QED BY <1>3, <2>1, <2>2, IndexStillPlaced
<1>12. Placed(index', size'.base, UsedIx(index'), AtSrc(size'.base, rule', index'),
              HashOf(size'.base, op'.of.src), op'.place)
  BY <1>1, <1>9, <1>11
<1>13. CleanNow(IF broken THEN {} ELSE {op.e}, {})'
  <2>1. (IF broken' THEN {} ELSE {op'.e}) = (IF linked THEN {p.e} ELSE {})
    BY <1>1, <1>9
  <2>2. Clean(size'.base, All', rule', index', ids', client',
              IF broken' THEN {} ELSE {op'.e}, {})
    BY <1>1, <1>7, <1>8, <2>1
  <2> QED BY <2>2 DEF CleanNow
<1>14. InIndex'
  BY <1>7, <1>9, <1>10, <1>12, <1>13 DEF InIndex
<1>15. SizeIn'
  BY <1>1, <1>2 DEF SizeIn
<1>16. \A x \in Live(rule) : rule'[x].of = rule[x].of
  BY <1>7 DEF Live
<1> QED BY <1>1, <1>2, <1>7, <1>14, <1>15, <1>16 DEF TInv
LEMMA AddIndexTInv ==
  ASSUME TInv, NEW linked \in BOOLEAN, AddIndex(linked)
  PROVE  /\ TInv' /\ InIndex /\ Arrays(All, rule, index')
         /\ Clean(size.base, All, rule, index, ids, client, IF broken THEN {} ELSE {op.e}, {})
         /\ linked => IndexPut(All, index, op.place, op.e, index')
         /\ ~linked => /\ op.place.prev # 0
                       /\ \A x \in DOMAIN index \ {op.place.e} : index'[x] = index[x]
<1> DEFINE b == size.base
           q == op.place
<1>1. /\ op.do = "index" /\ (linked \/ q.prev # 0)
      /\ index' = IF linked THEN Linked(IndexWritten(q, op.e), q) ELSE IndexWritten(q, op.e)
      /\ broken' = (broken \/ ~linked)
      /\ op' = [do |-> "enable", of |-> op.of, e |-> op.e]
      /\ size' = size /\ rule' = rule /\ ids' = ids /\ client' = client
  BY DEF AddIndex
<1>2. size # NoTable /\ InIndex /\ SizeIn
  <2>1. ~Idle /\ ~InEnable
    BY <1>1 DEF Idle, InEnable
  <2>2. ~InDelete
    BY <1>1 DEF InDelete, Deletes, Deletion
  <2> QED BY <2>1, <2>2 DEF TInv
<1>3. /\ op'.do = "enable" /\ op'.of = op.of /\ op'.e = op.e /\ op' # [do |-> "none"]
      /\ All' = All
  BY <1>1 DEF All
<1>4. Pending'
  BY <1>1, <1>2, <1>3 DEF Pending, InIndex
<1>5. Clean(b, All, rule, index, ids, client, IF broken THEN {} ELSE {op.e}, {})
  BY <1>2 DEF InIndex, CleanNow
<1>6. /\ Room(b, All) /\ Arrays(All, rule, index) /\ DOMAIN index = 0..(All - 1)
      /\ Wired(index, b, UsedIx(index), AtSrc(b, rule, index)) /\ IndexTable(All, index)
      /\ All \in Nat
  <2> DEFINE P == IF broken THEN {} ELSE {op.e}
  <2> HIDE DEF P
  <2>1. Clean(b, All, rule, index, ids, client, P, {})
    BY <1>5 DEF P
  <2>2. Facts(b, All, rule, index, P, {})
    BY <2>1, CleanWired
  <2> QED BY <2>1, <2>2 DEF Facts, Clean
<1>7. /\ op.e \in 1..(All - 1) /\ ~rule[op.e].enabled /\ rule[op.e].of \in StoreRules
      /\ rule[op.e].ix = q.e
      /\ Placed(index, b, UsedIx(index), AtSrc(b, rule, index), HashOf(b, rule[op.e].of.src), q)
  BY <1>2 DEF InIndex, Pending
<1>8. q.e \in DOMAIN index \ {0} /\ (q.prev # 0 => q.prev \in DOMAIN index \ {q.e})
  <2>1. /\ Base(b) \subseteq DOMAIN index /\ UsedIx(index) \subseteq DOMAIN index \ {0}
        /\ b \in Nat /\ b >= 2
    BY <1>6 DEF Wired, Spans
  <2>2. 0 \notin Base(b)
    BY DEF Base
  <2>3. DOMAIN index \subseteq Nat
    BY <1>6
  <2> QED BY <1>7, <2>1, <2>2, <2>3 DEF Placed
<1>9. index \in [0..(All - 1) -> IndexEntries(All)]
  BY <1>6 DEF Arrays
<1>10. ASSUME linked
       PROVE  IndexPut(All, index, q, op.e, index')
  <2>1. IsIndexed(index, q, op.e, index')
    BY <1>1, <1>10 DEF IsIndexed, IndexWritten, IndexWrittenAt
  <2> HIDE DEF q
  <2> QED BY <1>6, <1>7, <1>8, <1>9, <2>1, IndexLinked
<1>11. ASSUME ~linked
       PROVE  /\ q.prev # 0 /\ index' \in [0..(All - 1) -> IndexEntries(All)]
              /\ \A x \in DOMAIN index \ {q.e} : index'[x] = index[x]
  <2>1. q.prev # 0 /\ q.prev \in 0..(All - 1)
    BY <1>1, <1>6, <1>8, <1>11
  <2>2. PICK k : k = q.e
    OBVIOUS
  <2>3. PICK v : v = [tbl |-> op.e, next |-> 0, prev |-> q.prev]
    OBVIOUS
  <2>4. v \in IndexEntries(All)
    BY <1>6, <1>7, <2>1, <2>3 DEF IndexEntries
  <2>5. index' = [index EXCEPT ![k] = v]
    BY <1>1, <1>11, <2>2, <2>3 DEF IndexWritten
  <2> QED BY <1>8, <1>9, <2>1, <2>2, <2>4, <2>5
<1>12. Arrays(All, rule, index')
  <2>1. index' \in [0..(All - 1) -> IndexEntries(All)]
    BY <1>10, <1>11 DEF IndexPut
  <2> QED BY <1>6, <2>1 DEF Arrays
<1>13. ASSUME broken' PROVE TInv'
  BY <1>1, <1>2, <1>3, <1>4, <1>6, <1>12, <1>13 DEF TInv, InEnable, SizeIn
<1>14. ASSUME ~broken' PROVE TInv'
  <2>1. ~broken /\ linked
    BY <1>1, <1>14
  <2>2. Clean(b, All, rule, index, ids, client, {op.e}, {})
    BY <1>5, <2>1
  <2>3. Clean(b, All, rule, index', ids, client, {op.e}, {op.e})
    <3> HIDE DEF q
    <3> QED BY <1>7, <1>10, <2>1, <2>2, IndexAdded
  <2>4. CleanNow({op.e}, {op.e})'
    <3>1. Clean(size'.base, All', rule', index', ids', client', {op'.e}, {op'.e})
      BY <1>1, <1>3, <2>3
    <3> QED BY <3>1 DEF CleanNow
  <2>5. InEnable'
    BY <1>1, <1>3, <1>4, <1>6, <1>12, <2>4 DEF InEnable
  <2> QED BY <1>1, <1>2, <2>5 DEF TInv, SizeIn
<1>15. TInv'
  BY <1>13, <1>14
<1> QED BY <1>2, <1>5, <1>10, <1>11, <1>12, <1>15

LEMMA EnableTInv ==
  ASSUME TInv, Enable
  PROVE  TInv'
<1> DEFINE b == size.base
           S == {k \in DOMAIN ids : ids[k] = 0}
           h == FirstOf(S)
<1>1. /\ op.do = "enable" /\ rule' = [rule EXCEPT ![op.e].enabled = TRUE]
      /\ IF h = 0 THEN UNCHANGED <<ids, client>>
         ELSE ids' = [ids EXCEPT ![h] = RuleId(op.e)] /\ client' = [client EXCEPT ![h] = op.of]
      /\ op' = [do |-> "none"]
      /\ size' = size /\ index' = index /\ broken' = broken
  BY DEF Enable, Done
<1>2. size # NoTable /\ InEnable /\ SizeIn
  <2>1. ~Idle /\ ~InIndex
    BY <1>1 DEF Idle, InIndex
  <2>2. ~InDelete
    BY <1>1 DEF InDelete, Deletes, Deletion
  <2> QED BY <2>1, <2>2 DEF TInv
<1>3. CASE broken
  BY <1>1, <1>2, <1>3 DEF TInv, SizeIn, Idle
<1>4. CASE ~broken
  <2>1. /\ Clean(b, All, rule, index, ids, client, {op.e}, {op.e})
        /\ op.e \in 1..(All - 1) /\ ~rule[op.e].enabled /\ rule[op.e].of = op.of
        /\ op.of \in StoreRules /\ \A g \in DOMAIN client : client[g] # op.of
    BY <1>2, <1>4 DEF InEnable, Pending, CleanNow
  <2>2. rule' = Raised(rule, op.e)
    BY <1>1 DEF Raised
  <2>3. RuleId(op.e) = IdOf(b, op.e)
    BY DEF RuleId, IdOf, IsExpn
  <2> HIDE DEF b, S
  <2>4. PICK J : J = [ids EXCEPT ![h] = IdOf(b, op.e)]
    OBVIOUS
  <2>5. PICK B : B = [client EXCEPT ![h] = rule[op.e].of]
    OBVIOUS
  <2>6. h # 0 /\ Clean(b, All, rule', index, J, B, {}, {})
    <3>1. h = FirstOf({k \in DOMAIN ids : ids[k] = 0})
      BY DEF S
    <3> HIDE DEF h
    <3>2. Enables(b, rule, ids, client, op.e, h, rule', J, B)
      BY <2>2, <2>4, <2>5, <3>1 DEF Enables
    <3> QED BY <2>1, <3>2, RuleEnabled
  <2>7. ids' = J /\ client' = B
    <3>1. h # 0
      BY <2>6
    <3>2. ids' = [ids EXCEPT ![h] = RuleId(op.e)] /\ client' = [client EXCEPT ![h] = op.of]
      BY <1>1, <3>1 DEF S
    <3>3. op.of = rule[op.e].of
      BY <2>1
    <3> HIDE DEF h
    <3> QED BY <2>3, <2>4, <2>5, <3>2, <3>3
  <2>8. CleanNow({}, {})'
    BY <1>1, <2>6, <2>7 DEF CleanNow, All, b
  <2> QED BY <1>1, <1>2, <2>8 DEF TInv, SizeIn, Idle
<1> QED BY <1>3, <1>4

LEMMA EnableFailsTInv == ASSUME TInv, EnableFails PROVE TInv'
<1>1. size # NoTable /\ SizeIn
  BY DEF TInv, EnableFails, Idle
<1> QED BY <1>1 DEF TInv, EnableFails, Done, Idle, SizeIn
-----------------------------------------------------------------------------
(* A rule is deleted: the batch of commands.                               *)

LEMMA OneAndOne == ASSUME NEW u, NEW w PROVE <<u>> \o <<w>> = <<u, w>>
<1> DEFINE S == {u, w}
<1>1. <<u>> \in Seq(S) /\ <<w>> \in Seq(S) /\ <<u, w>> \in Seq(S)
  OBVIOUS
<1>2. Len(<<u>>) = 1 /\ Len(<<w>>) = 1 /\ Len(<<u, w>>) = 2
  OBVIOUS
<1> DEFINE z == <<u>> \o <<w>>
<1>3. z \in Seq(S) /\ Len(z) = 2
  BY <1>1, <1>2
<1>4. z[1] = u /\ z[2] = w
  BY <1>1, <1>2
<1>5. \A i \in 1..2 : z[i] = <<u, w>>[i]
  <2> HIDE DEF z
  <2>1. \A i \in 1..2 : i = 1 \/ i = 2
    OBVIOUS
  <2> QED BY <1>4, <2>1
<1> HIDE DEF z, S
<1>6. z = <<u, w>>
  BY <1>1, <1>2, <1>3, <1>5, SeqEqual
<1> QED BY <1>6 DEF z
LEMMA TwoAndOne == ASSUME NEW u, NEW v, NEW w PROVE <<u, v>> \o <<w>> = <<u, v, w>>
<1> DEFINE S == {u, v, w}
<1>1. <<u, v>> \in Seq(S) /\ <<w>> \in Seq(S) /\ <<u, v, w>> \in Seq(S)
  OBVIOUS
<1>2. Len(<<u, v>>) = 2 /\ Len(<<w>>) = 1 /\ Len(<<u, v, w>>) = 3
  OBVIOUS
<1> DEFINE z == <<u, v>> \o <<w>>
<1>3. z \in Seq(S) /\ Len(z) = 3
  BY <1>1, <1>2
<1>4. z[1] = u /\ z[2] = v /\ z[3] = w
  BY <1>1, <1>2
<1>5. \A i \in 1..3 : z[i] = <<u, v, w>>[i]
  <2> HIDE DEF z
  <2>1. \A i \in 1..3 : i = 1 \/ i = 2 \/ i = 3
    OBVIOUS
  <2> QED BY <1>4, <2>1
<1> HIDE DEF z, S
<1>6. z = <<u, v, w>>
  BY <1>1, <1>2, <1>3, <1>5, SeqEqual
<1> QED BY <1>6 DEF z

LEMMA DeletionTypes ==
  ASSUME NEW b, NEW n, NEW R, NEW X, NEW I, NEW C, Clean(b, n, R, X, I, C, {}, {}),
         NEW d \in Live(R)
  PROVE  /\ b \in Nat /\ d \in Nat /\ R[d].ix \in Nat /\ d \in DOMAIN R /\ R[d].ix \in DOMAIN X
         /\ d # 0 /\ DOMAIN R \subseteq Nat /\ DOMAIN X = DOMAIN R
         /\ RuleTable(n, R) /\ IndexTable(n, X) /\ X[R[d].ix].tbl = d /\ R[d].enabled /\ ~R[d].dead
<1>1. Facts(b, n, R, X, {}, {})
  BY CleanWired
<1>2. /\ DOMAIN R = 0..(n - 1) /\ DOMAIN X = DOMAIN R /\ b \in Nat /\ n \in Nat
      /\ Used(R) \subseteq DOMAIN R /\ Live(R) \subseteq Used(R) /\ 0 \notin Used(R)
      /\ \A e \in Live(R) : R[e].ix \in UsedIx(X) /\ X[R[e].ix].tbl = e
      /\ RuleTable(n, R) /\ IndexTable(n, X)
  BY <1>1 DEF Facts
<1>3. R[d].ix \in DOMAIN X
  BY <1>2 DEF UsedIx
<1>4. R[d].enabled /\ ~R[d].dead
  BY DEF Live
<1> QED BY <1>2, <1>3, <1>4

(* A rule's handle names its entry. *)
LEMMA HandleNames ==
  ASSUME SizeIn, NEW R, NEW X, NEW P, NEW Q, Clean(size.base, All, R, X, ids, client, P, Q),
         NEW h \in DOMAIN client, client[h] # NoRule
  PROVE  /\ h \in 1..All /\ EntryOf(h) \in Live(R) /\ ids[h] = IdOf(size.base, EntryOf(h))
         /\ R[EntryOf(h)].of = client[h]
<1>1. /\ HandlesOK(size.base, All, R, ids, client) /\ Facts(size.base, All, R, X, P, Q)
  BY CleanWired DEF Clean
<1>2. h \in 1..All
  BY <1>1 DEF HandlesOK
<1>3. PICK d \in Live(R) : h < All /\ ids[h] = IdOf(size.base, d) /\ R[d].of = client[h]
  BY <1>1, <1>2 DEF HandlesOK
<1>4. d \in Nat /\ size.base \in Nat
  <2>1. DOMAIN R = 0..(All - 1)
    BY <1>1 DEF Facts
  <2> QED BY <2>1 DEF Live, SizeIn
<1>5. EntryOf(h) = (ids[h] \div 2) + (IF ids[h] % 2 = 1 THEN size.base ELSE 0)
  <2>1. ~(h >= All)
    BY <1>2, <1>3, AllEntries
  <2> QED BY <2>1 DEF EntryOf, All
<1>6. EntryOf(h) = d
  BY <1>3, <1>4, <1>5, IdOfOne, ZenonT(40)
<1> QED BY <1>2, <1>3, <1>6

LEMMA BatchIs ==
  ASSUME NEW e \in Nat, rule[e].ix \in Nat, size.base \in Nat
  PROVE  Batch(e) = IF Follows(size.base, index, rule[e].ix)
                    THEN <<HalfCommand(index, rule[e].ix), RestCommand(index, rule[e].ix),
                           RuleCommand(size.base, rule, e)>>
                    ELSE <<IndexCommand(size.base, index, rule[e].ix), RuleCommand(size.base, rule, e)>>
<1> DEFINE i == rule[e].ix
           b == size.base
<1>1. RuleWrites(e) = <<RuleCommand(b, rule, e)>>
  <2>1. CASE e >= b
    <3>1. ~Alone(rule, e) /\ ~Heads(rule, e) /\ IsExpn(e)
      BY <2>1 DEF Alone, Heads, IsExpn
    <3> QED BY <2>1, <3>1 DEF RuleWrites, RuleCommand, Unlink
  <2>2. CASE ~(e >= b) /\ rule[e].next = 0
    <3>1. Alone(rule, e) /\ ~Heads(rule, e) /\ ~IsExpn(e)
      BY <2>2 DEF Alone, Heads, IsExpn
    <3> QED BY <2>2, <3>1 DEF RuleWrites, RuleCommand
  <2>3. CASE ~(e >= b) /\ rule[e].next # 0
    <3>1. ~Alone(rule, e) /\ Heads(rule, e) /\ ~IsExpn(e)
      BY <2>3 DEF Alone, Heads, IsExpn
    <3> QED BY <2>3, <3>1 DEF RuleWrites, RuleCommand
  <2> QED BY <2>1, <2>2, <2>3
<1>2. IndexWrites(i) = IF Follows(b, index, i) THEN <<HalfCommand(index, i), RestCommand(index, i)>>
                       ELSE <<IndexCommand(b, index, i)>>
  <2>1. CASE i >= b
    <3>1. ~Alone(index, i) /\ ~Heads(index, i) /\ IsExpn(i) /\ ~Follows(b, index, i)
      BY <2>1 DEF Alone, Heads, IsExpn, Follows
    <3> QED BY <2>1, <3>1 DEF IndexWrites, IndexCommand, Unlink
  <2>2. CASE ~(i >= b) /\ index[i].next = 0
    <3>1. Alone(index, i) /\ ~Heads(index, i) /\ ~IsExpn(i) /\ ~Follows(b, index, i)
      BY <2>2 DEF Alone, Heads, IsExpn, Follows
    <3> QED BY <2>2, <3>1 DEF IndexWrites, IndexCommand
  <2>3. CASE ~(i >= b) /\ index[i].next # 0
    <3>1. ~Alone(index, i) /\ Heads(index, i) /\ ~IsExpn(i) /\ Follows(b, index, i)
      BY <2>3 DEF Alone, Heads, IsExpn, Follows
    <3> QED BY <2>3, <3>1 DEF IndexWrites, HalfCommand, RestCommand
  <2> QED BY <2>1, <2>2, <2>3
<1>4. Batch(e) = IndexWrites(i) \o RuleWrites(e)
  BY DEF Batch
<1> QED BY <1>1, <1>2, <1>4, OneAndOne, TwoAndOne

LEMMA DeleteRuleTInv ==
  ASSUME TInv, NEW h \in DOMAIN client, DeleteRule(h)
  PROVE  TInv'
<1> DEFINE b == size.base
           e == EntryOf(h)
           i == rule[e].ix
<1>1. /\ size # NoTable /\ Idle /\ ~broken /\ client[h] # NoRule
      /\ op' = [do |-> "delete", h |-> h, e |-> e, i |-> i, wasHead |-> Heads(rule, e),
                next |-> index[i].next, moved |-> Heads(index, i), writes |-> Batch(e)]
      /\ size' = size /\ rule' = rule /\ index' = index /\ ids' = ids /\ client' = client
      /\ broken' = broken
  BY DEF DeleteRule
<1>2. SizeIn /\ Clean(b, All, rule, index, ids, client, {}, {})
  BY <1>1, IdleClean DEF CleanNow
<1> HIDE DEF e
<1>3. /\ h \in 1..All /\ e \in Live(rule) /\ ids[h] = IdOf(b, e) /\ rule[e].of = client[h]
  BY <1>1, <1>2, HandleNames DEF e
<1>4. b \in Nat /\ e \in Nat /\ i \in Nat
  BY <1>2, <1>3, DeletionTypes
<1>5. Heads(rule, e) = (e < b /\ rule[e].next # 0) /\ Heads(index, i) = Follows(b, index, i)
  BY <1>4 DEF Heads, IsExpn, Follows
<1>6. op' = Deletion(b, rule, index, e, h, Batch(e))
  BY <1>1, <1>5, Zenon DEF Deletion
<1>7. PICK R, X, d, w : R = rule /\ X = index /\ d = e /\ w = Batch(e)
  OBVIOUS
<1>8. /\ Clean(b, All, R, X, ids, client, {}, {}) /\ d \in Live(R)
      /\ ids[h] = IdOf(b, d) /\ client[h] = R[d].of
  BY <1>2, <1>3, <1>7
<1>9. op' = Deletion(b, R, X, d, h, w)
  BY <1>6, <1>7
<1>10. rule' = R /\ index' = X /\ size' = size /\ All' = All
  BY <1>1, <1>7 DEF All
<1>11. w = IF Follows(b, X, R[d].ix)
           THEN <<HalfCommand(X, R[d].ix), RestCommand(X, R[d].ix), RuleCommand(b, R, d)>>
           ELSE <<IndexCommand(b, X, R[d].ix), RuleCommand(b, R, d)>>
  BY <1>4, <1>7, BatchIs
<1>12. Stage(size.base, R, X, d, w)'
  BY <1>10, <1>11 DEF Stage
<1>13. Deletes(R, X, d, h, w)'
  BY <1>1, <1>3, <1>8, <1>9, <1>10, <1>12 DEF Deletes
<1>14. InDelete'
  BY <1>1, <1>13 DEF InDelete
<1> QED BY <1>1, <1>2, <1>14 DEF TInv, SizeIn

(* A field of an entry is written by the hardware. *)
LEMMA CommandApplied ==
  ASSUME NEW R, NEW X, NEW d, NEW b, NEW i
  PROVE  /\ RuleCommand(b, R, d).in = "rule"
         /\ Applied(R, RuleCommand(b, R, d)) = RuleCut(b, R, d)
         /\ HalfCommand(X, i).in = "index" /\ Applied(X, HalfCommand(X, i)) = IndexHalf(X, i)
         /\ RestCommand(X, i).in = "index"
         /\ Follows(b, X, i) /\ ~(i >= b) =>
              Applied(IndexHalf(X, i), RestCommand(X, i)) = IndexCut(b, X, i)
         /\ IndexCommand(b, X, i).in = "index"
         /\ ~Follows(b, X, i) /\ (i >= b \/ i < b) =>
              Applied(X, IndexCommand(b, X, i)) = IndexCut(b, X, i)
<1> DEFINE u == RuleCommand(b, R, d)
<1>1. \A f, at, data : /\ \A t : Applied(f, Write(t, at, "next", data)) = SetNext(f, at, data)
                       /\ \A t : Applied(f, Write(t, at, "tbl", data)) = SetTbl(f, at, data)
                       /\ \A t : Applied(f, Write(t, at, "enabled", FALSE)) = SetOff(f, at)
                       /\ \A t : Applied(f, Write(t, at, "proto", data)) = SetDead(f, at)
  BY DEF Applied, Write, SetNext, SetTbl, SetOff, SetDead
<1>2. \A t, at, field, data : Write(t, at, field, data).in = t
  BY DEF Write
<1>3. u.in = "rule" /\ Applied(R, u) = RuleCut(b, R, d)
  <2>1. CASE d >= b
    BY <1>1, <1>2, <2>1 DEF RuleCommand, RuleCut
  <2>2. CASE ~(d >= b) /\ R[d].next = 0
    BY <1>1, <1>2, <2>2 DEF RuleCommand, RuleCut
  <2>3. CASE ~(d >= b) /\ R[d].next # 0
    BY <1>1, <1>2, <2>3 DEF RuleCommand, RuleCut
  <2> QED BY <2>1, <2>2, <2>3
<1>4. HalfCommand(X, i).in = "index" /\ Applied(X, HalfCommand(X, i)) = IndexHalf(X, i)
  BY <1>1, <1>2 DEF HalfCommand, IndexHalf
<1>5. /\ RestCommand(X, i).in = "index"
      /\ Follows(b, X, i) /\ ~(i >= b) =>
           Applied(IndexHalf(X, i), RestCommand(X, i)) = IndexCut(b, X, i)
  BY <1>1, <1>2 DEF RestCommand, IndexCut, Follows
<1>6. /\ IndexCommand(b, X, i).in = "index"
      /\ ~Follows(b, X, i) /\ (i >= b \/ i < b) =>
           Applied(X, IndexCommand(b, X, i)) = IndexCut(b, X, i)
  BY <1>1, <1>2 DEF IndexCommand, IndexCut, Follows
<1> QED BY <1>3, <1>4, <1>5, <1>6
-----------------------------------------------------------------------------
(* A rule is deleted: the hardware carries a command out.                  *)

LEMMA Deleting ==
  ASSUME TInv, op.do = "delete"
  PROVE  SizeIn /\ size # NoTable /\ ~broken /\ \E R, X, d, h, w : Deletes(R, X, d, h, w)
<1>1. ~Idle /\ ~InIndex /\ ~InEnable
  BY DEF Idle, InIndex, InEnable
<1> QED BY <1>1 DEF TInv, InDelete

LEMMA DmaTInv ==
  ASSUME TInv, Dma
  PROVE  TInv' /\ \E R, X, d, h, w : Deletes(R, X, d, h, w) /\ \E v : Deletes(R, X, d, h, v)'
<1> DEFINE b == size.base
<1>1. /\ op.do = "delete" /\ op.writes # <<>>
      /\ rule' = RuleAfter(Head(op.writes)) /\ index' = IndexAfter(Head(op.writes))
      /\ op' = [op EXCEPT !.writes = Tail(op.writes)]
      /\ size' = size /\ ids' = ids /\ client' = client /\ broken' = broken
  BY DEF Dma
<1>2. SizeIn /\ size # NoTable /\ ~broken
  BY <1>1, Deleting
<1>3. PICK R, X, d, h, w : Deletes(R, X, d, h, w)
  BY <1>1, Deleting
<1> DEFINE i == R[d].ix
<1>4. /\ Clean(b, All, R, X, ids, client, {}, {})
      /\ d \in Live(R) /\ h \in 1..All /\ ids[h] = IdOf(b, d) /\ client[h] = R[d].of
      /\ op = Deletion(b, R, X, d, h, w) /\ Stage(b, R, X, d, w)
  BY <1>3 DEF Deletes
<1>5. op.writes = w /\ op' = Deletion(b, R, X, d, h, Tail(w))
  <2>1. op.writes = w
    BY <1>4 DEF Deletion
  <2> DEFINE v == Tail(w)
  <2> HIDE DEF v
  <2>2. op' = [op EXCEPT !.writes = v]
    BY <1>1, <2>1 DEF v
  <2>3. op' = Deletion(b, R, X, d, h, v)
    BY <2>2, <1>4 DEF Deletion
  <2> QED BY <2>1, <2>3 DEF v
<1>6. b \in Nat /\ i \in Nat
  BY <1>4, DeletionTypes
<1>7. i < b <=> ~(i >= b)
  BY <1>6
<1>8. All' = All
  BY <1>1 DEF All
<1> DEFINE half == HalfCommand(X, i)
           rest == RestCommand(X, i)
           cut == IndexCommand(b, X, i)
           u == RuleCommand(b, R, d)
<1>9. /\ u.in = "rule" /\ Applied(R, u) = RuleCut(b, R, d)
      /\ half.in = "index" /\ Applied(X, half) = IndexHalf(X, i)
      /\ rest.in = "index"
      /\ Follows(b, X, i) => Applied(IndexHalf(X, i), rest) = IndexCut(b, X, i)
      /\ cut.in = "index"
      /\ ~Follows(b, X, i) => Applied(X, cut) = IndexCut(b, X, i)
  <2>1. /\ u.in = "rule" /\ Applied(R, u) = RuleCut(b, R, d)
        /\ half.in = "index" /\ Applied(X, half) = IndexHalf(X, i)
        /\ rest.in = "index"
        /\ Follows(b, X, i) /\ ~(i >= b) => Applied(IndexHalf(X, i), rest) = IndexCut(b, X, i)
        /\ cut.in = "index"
        /\ ~Follows(b, X, i) /\ (i >= b \/ i < b) => Applied(X, cut) = IndexCut(b, X, i)
    <3> HIDE DEF i, b
    <3>1. u.in = "rule" /\ Applied(R, u) = RuleCut(b, R, d)
      BY CommandApplied, Zenon
    <3>2. half.in = "index" /\ Applied(X, half) = IndexHalf(X, i)
      BY CommandApplied, Zenon
    <3>3. /\ rest.in = "index"
          /\ Follows(b, X, i) /\ ~(i >= b) => Applied(IndexHalf(X, i), rest) = IndexCut(b, X, i)
      BY CommandApplied, Zenon
    <3>4. /\ cut.in = "index"
          /\ ~Follows(b, X, i) /\ (i >= b \/ i < b) => Applied(X, cut) = IndexCut(b, X, i)
      BY CommandApplied, Zenon
    <3> QED BY <3>1, <3>2, <3>3, <3>4
  <2>2. (Follows(b, X, i) => ~(i >= b)) /\ (i >= b \/ i < b)
    BY <1>7 DEF Follows
  <2> HIDE DEF half, rest, cut, u
  <2> QED BY <2>1, <2>2
<1> HIDE DEF half, rest, cut, u
<1>10. \/ /\ rule' = R /\ Follows(b, X, i) /\ index' = IndexHalf(X, i) /\ Tail(w) = <<rest, u>>
       \/ rule' = R /\ index' = IndexCut(b, X, i) /\ Tail(w) = <<u>>
       \/ rule' = RuleCut(b, R, d) /\ index' = IndexCut(b, X, i) /\ Tail(w) = <<>>
  <2>1. CASE rule = R /\ index = X /\ w = <<half, rest, u>> /\ Follows(b, X, i)
    <3>1. Head(w) = half /\ Tail(w) = <<rest, u>>
      BY <2>1
    <3> QED BY <1>1, <1>5, <1>9, <2>1, <3>1 DEF RuleAfter, IndexAfter
  <2>2. CASE rule = R /\ index = X /\ w = <<cut, u>> /\ ~Follows(b, X, i)
    <3>1. Head(w) = cut /\ Tail(w) = <<u>>
      BY <2>2
    <3> QED BY <1>1, <1>5, <1>9, <2>2, <3>1 DEF RuleAfter, IndexAfter
  <2>3. CASE Follows(b, X, i) /\ rule = R /\ index = IndexHalf(X, i) /\ w = <<rest, u>>
    <3>1. Head(w) = rest /\ Tail(w) = <<u>>
      BY <2>3
    <3> QED BY <1>1, <1>5, <1>9, <2>3, <3>1 DEF RuleAfter, IndexAfter
  <2>4. CASE rule = R /\ index = IndexCut(b, X, i) /\ w = <<u>>
    <3>1. Head(w) = u /\ Tail(w) = <<>>
      BY <2>4
    <3> QED BY <1>1, <1>5, <1>9, <2>4, <3>1 DEF RuleAfter, IndexAfter
  <2>5. w # <<>>
    BY <1>1, <1>5
  <2> QED BY <1>4, <2>1, <2>2, <2>3, <2>4, <2>5 DEF Stage, half, rest, cut, u
<1>11. PICK v : v = Tail(w)
  OBVIOUS
<1>12. Stage(size.base, R, X, d, v)'
  <2>1. \/ /\ rule' = R /\ Follows(b, X, i) /\ index' = IndexHalf(X, i) /\ v = <<rest, u>>
        \/ rule' = R /\ index' = IndexCut(b, X, i) /\ v = <<u>>
        \/ rule' = RuleCut(b, R, d) /\ index' = IndexCut(b, X, i) /\ v = <<>>
    BY <1>10, <1>11
  <2> QED BY <1>1, <2>1 DEF Stage, rest, u
<1>13. Deletes(R, X, d, h, v)'
  BY <1>1, <1>4, <1>5, <1>8, <1>11, <1>12 DEF Deletes
<1>14. InDelete'
  BY <1>1, <1>2, <1>13 DEF InDelete
<1>15. TInv'
  BY <1>1, <1>2, <1>14 DEF TInv, SizeIn
<1> QED BY <1>3, <1>13, <1>15

\* what the driver does at the end of a deletion
LEMMA RuleLeftIs ==
  ASSUME NEW b \in Nat, NEW R, NEW d \in Nat
  PROVE  RuleLeft(b, R, d, RuleCut(b, R, d))
           = IF d < b /\ R[d].next # 0 THEN RuleCut(b, R, d) ELSE RuleRemoved(RuleCut(b, R, d), d)
<1> DEFINE Y == RuleCut(b, R, d)
<1> HIDE DEF Y
<1>1. RuleRemoved(Y, d) = RemovedRule(Y, d)
  <2>1. CASE Y[d].next = 0
    BY <2>1 DEF RuleRemoved, RemovedRule, ClearRule, PrevSet
  <2>2. CASE Y[d].next # 0
    BY <2>2 DEF RuleRemoved, RemovedRule, ClearRule, PrevSet, SetPrev
  <2> QED BY <2>1, <2>2
<1>2. RuleLeft(b, R, d, Y) = IF d < b /\ R[d].next # 0 THEN Y ELSE RuleRemoved(Y, d)
  BY <1>1 DEF RuleLeft
<1> QED BY <1>2 DEF Y

LEMMA IndexLeftIs ==
  ASSUME NEW X, NEW i \in Nat, size.base \in Nat
  PROVE  IndexLeft(size.base, X, i, index)
           = IF Follows(size.base, X, i) THEN IndexMoved(i, X[i].next) ELSE IndexRemoved(i)
<1> DEFINE b == size.base
<1>1. IndexMoved(i, X[i].next) = MovedIndex(index, i, X[i].next)
  <2>1. ASSUME NEW m PROVE IndexMoved(i, m) = MovedIndex(index, i, m)
    <3>1. CASE index[m].next = 0
      BY <3>1 DEF IndexMoved, MovedIndex, ClearIndex, PrevSet
    <3>2. CASE index[m].next # 0
      BY <3>2 DEF IndexMoved, MovedIndex, ClearIndex, PrevSet, SetPrev
    <3> QED BY <3>1, <3>2
  <2> QED BY <2>1
<1>2. IndexRemoved(i) = RemovedIndex(b, index, i)
  <2>1. CASE i >= b /\ index[i].next # 0
    BY <2>1 DEF IndexRemoved, RemovedIndex, ClearIndex, PrevSet, SetPrev, IsExpn
  <2>2. CASE ~(i >= b) \/ index[i].next = 0
    BY <2>2 DEF IndexRemoved, RemovedIndex, ClearIndex, PrevSet, SetPrev, IsExpn
  <2> QED BY <2>1, <2>2
<1>3. IndexLeft(b, X, i, index) = IF Follows(b, X, i) THEN IndexMoved(i, X[i].next) ELSE IndexRemoved(i)
  BY <1>1, <1>2 DEF IndexLeft, Follows
<1> QED BY <1>3
-----------------------------------------------------------------------------
(* A rule is deleted: the driver clears the entries.                       *)

LEMMA RuleDeletedIs ==
  ASSUME TInv, RuleDeleted, NEW R, NEW X, NEW d, NEW h, NEW w, Deletes(R, X, d, h, w)
  PROVE  /\ rule' = RulesLeft(size.base, R, X, d) /\ index' = IndicesLeft(size.base, R, X, d)
         /\ ids' = Put(ids, h, 0) /\ client' = Put(client, h, NoRule)
         /\ op' = [do |-> "none"] /\ size' = size /\ broken' = broken
<1> DEFINE b == size.base
           i == R[d].ix
           m == X[i].next
           n == All
           Z == RuleCut(b, R, d)
           Y == IndexCut(b, X, i)
           L == RuleLeft(b, R, d, Z)
           removed == IF op.wasHead THEN rule ELSE RuleRemoved(rule, op.e)
<1>1. /\ op.do = "delete" /\ op.writes = <<>>
      /\ rule' = FreedHeads(IF op.moved THEN RuleOfMoved(removed, op.i) ELSE removed)
      /\ index' = IF op.moved THEN IndexMoved(op.i, op.next) ELSE IndexRemoved(op.i)
      /\ ids' = [ids EXCEPT ![op.h] = 0] /\ client' = [client EXCEPT ![op.h] = NoRule]
      /\ op' = [do |-> "none"] /\ size' = size /\ broken' = broken
  BY DEF RuleDeleted, Done
<1>2. /\ Clean(b, n, R, X, ids, client, {}, {}) /\ d \in Live(R)
      /\ op = Deletion(b, R, X, d, h, w) /\ Stage(b, R, X, d, w)
  BY DEF Deletes
<1>3. /\ op.e = d /\ op.h = h /\ op.i = i /\ (op.wasHead <=> d < b /\ R[d].next # 0)
      /\ op.next = m /\ (op.moved <=> Follows(b, X, i)) /\ op.writes = w
  BY <1>2 DEF Deletion
<1>4. rule = Z /\ index = Y
  <2>1. w = <<>>
    BY <1>1, <1>3
  <2> QED BY <1>2, <2>1 DEF Stage
<1>5. /\ b \in Nat /\ d \in Nat /\ i \in Nat /\ DOMAIN R \subseteq Nat
  BY <1>2, DeletionTypes
<1>6. removed = L
  <2>1. L = IF d < b /\ R[d].next # 0 THEN Z ELSE RuleRemoved(Z, d)
    <3> HIDE DEF b
    <3> QED BY <1>5, RuleLeftIs
  <2> HIDE DEF Z, L, b
  <2> QED BY <1>3, <1>4, <2>1
<1>7. index' = IndicesLeft(b, R, X, d)
  <2>1. IndexLeft(b, X, i, index) = IF Follows(b, X, i) THEN IndexMoved(i, m) ELSE IndexRemoved(i)
    <3> HIDE DEF i
    <3> QED BY <1>5, IndexLeftIs DEF m
  <2>2. index' = IndexLeft(b, X, i, index)
    <3> HIDE DEF i, m, b
    <3> QED BY <1>1, <1>3, <2>1
  <2> QED BY <1>4, <2>2 DEF IndicesLeft
<1>8. \A f : RuleOfMoved(f, i) = SetIx(f, index[i].tbl, i)
  BY DEF RuleOfMoved, SetIx
<1>9. Follows(b, X, i) => index[i].tbl = X[m].tbl
  <2>1. IndexTable(n, X) /\ i \in DOMAIN X /\ 0 \in DOMAIN X
    <3>1. Facts(b, n, R, X, {}, {})
      BY <1>2, CleanWired
    <3> QED BY <1>2, <3>1, DeletionTypes DEF Facts
  <2>2. ByIndexCut(b, n, X, i, Y, IndexHalf(X, i))
    <3> HIDE DEF i
    <3> QED BY <2>1, IndexCutFields
  <2> HIDE DEF Y, i
  <2>3. ~(i >= b) /\ X[i].next # 0 => Y[i].tbl = X[m].tbl
    BY <2>2 DEF ByIndexCut
  <2> QED BY <1>4, <1>5, <2>3 DEF Follows, i
<1>10. (IF op.moved THEN RuleOfMoved(removed, op.i) ELSE removed) = Tagged(b, X, i, X[m].tbl, L)
  <2> HIDE DEF b, i, m, L, removed
  <2> QED BY <1>3, <1>6, <1>8, <1>9 DEF Tagged
<1>11. DOMAIN Tagged(b, X, i, X[m].tbl, L) \subseteq Nat
  <2> DEFINE T == Tagged(b, X, i, X[m].tbl, L)
  <2>1. ByRulesLeft(b, n, R, X, d, RulesLeft(b, R, X, d))
    <3> HIDE DEF b, n
    <3> QED BY <1>2, RulesLeftAre
  <2>2. DOMAIN RulesLeft(b, R, X, d) = DOMAIN R
    BY <2>1 DEF ByRulesLeft
  <2>3. RulesLeft(b, R, X, d) = Freed(b, T)
    BY DEF RulesLeft
  <2> HIDE DEF T
  <2>4. DOMAIN Freed(b, T) = DOMAIN T
    BY DEF Freed
  <2>5. DOMAIN T = DOMAIN R
    BY <2>2, <2>3, <2>4
  <2> QED BY <1>5, <2>5 DEF T
<1>12. \A f : DOMAIN f \subseteq Nat => FreedHeads(f) = Freed(b, f)
  <2> SUFFICES ASSUME NEW f, DOMAIN f \subseteq Nat PROVE FreedHeads(f) = Freed(b, f)
    OBVIOUS
  <2>1. \A e \in DOMAIN f : ~IsExpn(e) <=> e < b
    BY <1>5 DEF IsExpn
  <2> QED BY <2>1 DEF FreedHeads, Freed
<1>13. rule' = RulesLeft(b, R, X, d)
  <2>1. rule' = FreedHeads(Tagged(b, X, i, X[m].tbl, L))
    <3> HIDE DEF b, i, m, L, removed
    <3> QED BY <1>1, <1>10
  <2>2. rule' = Freed(b, Tagged(b, X, i, X[m].tbl, L))
    <3> HIDE DEF b, i, m, L
    <3> QED BY <2>1, <1>11, <1>12
  <2> QED BY <2>2 DEF RulesLeft
<1>14. ids' = Put(ids, h, 0) /\ client' = Put(client, h, NoRule)
  BY <1>1, <1>3 DEF Put
<1> QED BY <1>1, <1>7, <1>13, <1>14

LEMMA RuleDeletedTInv ==
  ASSUME TInv, RuleDeleted
  PROVE  TInv'
<1> DEFINE b == size.base
<1>1. op.do = "delete"
  BY DEF RuleDeleted
<1>2. SizeIn /\ size # NoTable /\ ~broken
  BY <1>1, Deleting
<1>3. PICK R, X, d, h, w : Deletes(R, X, d, h, w)
  BY <1>1, Deleting
<1>4. /\ rule' = RulesLeft(b, R, X, d) /\ index' = IndicesLeft(b, R, X, d)
      /\ ids' = Put(ids, h, 0) /\ client' = Put(client, h, NoRule)
      /\ op' = [do |-> "none"] /\ size' = size /\ broken' = broken
  BY <1>3, RuleDeletedIs
<1>5. /\ Clean(b, All, R, X, ids, client, {}, {}) /\ d \in Live(R) /\ h \in 1..All
      /\ ids[h] = IdOf(b, d) /\ client[h] = R[d].of
  BY <1>3 DEF Deletes
<1>6. Clean(b, All, rule', index', ids', client', {}, {})
  BY <1>4, <1>5, RuleDeletedClean
<1>7. CleanNow({}, {})'
  BY <1>4, <1>6 DEF CleanNow, All
<1> QED BY <1>2, <1>4, <1>7 DEF TInv, SizeIn, Idle

LEMMA StutterTInv == ASSUME TInv, UNCHANGED tableVars PROVE TInv'
<1>1. /\ size' = size /\ rule' = rule /\ index' = index /\ ids' = ids /\ op' = op
      /\ client' = client /\ broken' = broken /\ All' = All
  BY DEF tableVars, All
<1>2. Pending => Pending'
  BY <1>1 DEF Pending
<1>3. InIndex => InIndex'
  BY <1>1, <1>2 DEF InIndex, CleanNow
<1>4. InEnable => InEnable'
  BY <1>1, <1>2 DEF InEnable, CleanNow
<1>5. ASSUME NEW R, NEW X, NEW d, NEW h, NEW w, Deletes(R, X, d, h, w)
      PROVE  Deletes(R, X, d, h, w)'
  BY <1>1, <1>5 DEF Deletes, Stage
<1>6. InDelete => InDelete'
  BY <1>1, <1>5 DEF InDelete
<1>7. CleanNow({}, {}) => CleanNow({}, {})'
  BY <1>1 DEF CleanNow
<1> QED BY <1>1, <1>3, <1>4, <1>6, <1>7 DEF TInv, Idle, SizeIn

(* Every table the driver makes is clean, or what the operation it is in the *)
(* middle of has made of a clean one so far (ipa_nati_add_ipv4_rule,         *)
(* ipa_nati_post_del_dma_cmd).                                               *)
THEOREM TableInv == TableSpec => []TInv
<1>1. TInv /\ [TableNext]_tableVars => TInv'
  <2> SUFFICES ASSUME TInv, [TableNext]_tableVars PROVE TInv'
    OBVIOUS
  <2>1. CASE UNCHANGED tableVars
    BY <2>1, StutterTInv
  <2>2. CASE \E k \in Requests : CreateTable(k)
    BY <2>2, CreateTInv
  <2>3. CASE DeleteTable
    BY <2>3, DeleteTableTInv
  <2>4. CASE \E r \in StoreRules, linked \in BOOLEAN : AddRule(r, linked)
    BY <2>4, AddRuleTInv
  <2>5. CASE \E linked \in BOOLEAN : AddIndex(linked)
    BY <2>5, AddIndexTInv
  <2>6. CASE Enable
    BY <2>6, EnableTInv
  <2>7. CASE EnableFails
    BY <2>7, EnableFailsTInv
  <2>8. CASE \E h \in DOMAIN client : DeleteRule(h)
    BY <2>8, DeleteRuleTInv
  <2>9. CASE Dma
    BY <2>9, DmaTInv
  <2>10. CASE RuleDeleted
    BY <2>10, RuleDeletedTInv
  <2> QED
    BY <2>1, <2>2, <2>3, <2>4, <2>5, <2>6, <2>7, <2>8, <2>9, <2>10 DEF TableNext
<1> QED BY <1>1, InitTInv, PTL DEF TableSpec
-----------------------------------------------------------------------------
(* What the client has a handle of is found, and nothing else takes room.  *)

(* What the hardware finds, in a table. *)
LEMMA FoundIs ==
  ASSUME size # NoTable, NEW r
  PROVE  /\ FoundByDst(r) <=> DstOf(size.base, rule, r)
         /\ FoundBySrc(r) <=> SrcOf(size.base, rule, index, r)
<1>1. DstHash(r) = HashOf(size.base, r.dst) /\ SrcHash(r) = HashOf(size.base, r.src)
  BY DEF DstHash, SrcHash, Hash, HashOf
<1>2. FoundByDst(r) <=> DstOf(size.base, rule, r)
  BY <1>1 DEF FoundByDst, DstOf, Matches
<1>3. FoundBySrc(r) <=> SrcOf(size.base, rule, index, r)
  BY <1>1 DEF FoundBySrc, SrcOf, Matches
<1> QED BY <1>2, <1>3

\* the rules of a client are rules, each of one entry
LEMMA OneEntry ==
  ASSUME NEW b, NEW n, NEW R, NEW X, NEW I, NEW C, NEW P, NEW Q, Clean(b, n, R, X, I, C, P, Q)
  PROVE  /\ \A e \in Live(R) : R[e].of \in StoreRules
         /\ \A e, d \in Live(R) : R[e].of = R[d].of => e = d
<1>1. HandlesOK(b, n, R, I, C) /\ Facts(b, n, R, X, P, Q)
  BY CleanWired DEF Clean
<1>2. /\ \A e \in Live(R) : R[e].of \in StoreRules
      /\ Live(R) \subseteq Nat /\ b \in Nat
  BY <1>1 DEF Facts
<1>3. ASSUME NEW e \in Live(R), NEW d \in Live(R), R[e].of = R[d].of PROVE e = d
  <2>1. PICK h \in 1..n : I[h] = IdOf(b, e) /\ C[h] = R[e].of
    BY <1>1 DEF HandlesOK
  <2>2. PICK g \in 1..n : I[g] = IdOf(b, d) /\ C[g] = R[d].of
    BY <1>1 DEF HandlesOK
  <2>3. h = g
    BY <1>1, <1>2, <1>3, <2>1, <2>2, NatTableAssumption DEF HandlesOK
  <2>4. e \in Nat /\ d \in Nat
    BY <1>2
  <2> QED BY <1>2, <2>1, <2>2, <2>3, <2>4, IdOfOne
<1> QED BY <1>2, <1>3

(* The stages of a deletion as the hardware sees them. *)
LEMMA StageFound ==
  ASSUME size # NoTable, NEW R, NEW X, NEW d, NEW h, NEW w, Deletes(R, X, d, h, w),
         NEW r \in StoreRules
  PROVE  /\ rule = R \/ rule = RuleCut(size.base, R, d)
         /\ rule = R => (FoundByDst(r) <=> Holds(R, Live(R), r))
         /\ rule = RuleCut(size.base, R, d) => (FoundByDst(r) <=> Holds(R, Live(R) \ {d}, r))
         /\ \/ FoundBySrc(r) <=> Holds(R, Live(R), r)
            \/ FoundBySrc(r) <=> Holds(R, Live(R) \ {d}, r)
<1> DEFINE b == size.base
           Z == RuleCut(b, R, d)
           i == R[d].ix
<1>1. /\ Clean(b, All, R, X, ids, client, {}, {}) /\ d \in Live(R) /\ Stage(b, R, X, d, w)
  BY DEF Deletes
<1>2. i \in Nat /\ b \in Nat
  BY <1>1, DeletionTypes
<1>3. /\ DstOf(b, R, r) <=> Holds(R, Live(R), r)
      /\ SrcOf(b, R, X, r) <=> Holds(R, Live(R), r)
  <2> HIDE DEF b
  <2> QED BY <1>1, StoredClean
<1>4. DstOf(b, Z, r) <=> Holds(R, Live(R) \ {d}, r)
  <2> HIDE DEF b
  <2>1. PICK V : V = RuleCut(b, R, d)
    OBVIOUS
  <2>2. DstOf(b, V, r) <=> Holds(R, Live(R) \ {d}, r)
    BY <1>1, <2>1, StoredRuleCut
  <2> QED BY <2>1, <2>2
<1>5. ASSUME NEW V, V = R \/ V = Z, NEW Y,
             Y = IndexCut(b, X, i) \/ (Follows(b, X, i) /\ Y = IndexHalf(X, i))
      PROVE  SrcOf(b, V, Y, r) <=> Holds(R, Live(R) \ {d}, r)
  <2>1. \/ Y = IndexCut(b, X, R[d].ix)
        \/ Y = IndexHalf(X, R[d].ix) /\ ~(R[d].ix >= b) /\ X[R[d].ix].next # 0
    BY <1>2, <1>5 DEF Follows
  <2>2. V = R \/ V = RuleCut(b, R, d)
    BY <1>5
  <2> HIDE DEF b
  <2> QED BY <1>1, <2>1, <2>2, StoredIndexCut
<1>6. /\ FoundByDst(r) <=> DstOf(b, rule, r)
      /\ FoundBySrc(r) <=> SrcOf(b, rule, index, r)
  BY FoundIs
<1>7. \/ rule = R /\ index = X
      \/ /\ rule = R \/ rule = Z
         /\ index = IndexCut(b, X, i) \/ (Follows(b, X, i) /\ index = IndexHalf(X, i))
  BY <1>1 DEF Stage
<1> HIDE DEF b, Z, i
<1>8. \/ FoundBySrc(r) <=> Holds(R, Live(R), r)
      \/ FoundBySrc(r) <=> Holds(R, Live(R) \ {d}, r)
  BY <1>3, <1>5, <1>6, <1>7
<1>9. /\ rule = R \/ rule = Z
      /\ rule = R => (FoundByDst(r) <=> Holds(R, Live(R), r))
      /\ rule = Z => (FoundByDst(r) <=> Holds(R, Live(R) \ {d}, r))
  BY <1>3, <1>4, <1>6, <1>7
<1> QED BY <1>8, <1>9 DEF b, Z

LEMMA CleanFound ==
  ASSUME size # NoTable, NEW P, NEW Q, CleanNow(P, Q), NEW r \in StoreRules
  PROVE  /\ FoundByDst(r) <=> Holds(rule, Live(rule), r)
         /\ FoundBySrc(r) <=> Holds(rule, Live(rule), r)
<1>1. /\ DstOf(size.base, rule, r) <=> Holds(rule, Live(rule), r)
      /\ SrcOf(size.base, rule, index, r) <=> Holds(rule, Live(rule), r)
  BY StoredClean DEF CleanNow
<1> QED BY <1>1, FoundIs

LEMMA CleanOrDeleting ==
  ASSUME TInv, size # NoTable, ~broken
  PROVE  (\E P, Q : CleanNow(P, Q)) \/ (\E R, X, d, h, w : Deletes(R, X, d, h, w))
BY DEF TInv, InIndex, InEnable, InDelete

LEMMA TInvAlwaysFound == TInv => AlwaysFound
<1> SUFFICES ASSUME TInv, NEW h \in DOMAIN client, client[h] # NoRule, ~broken,
                    ~(op.do = "delete" /\ op.h = h)
             PROVE  FoundByDst(client[h]) /\ FoundBySrc(client[h]) /\ Matches(EntryOf(h), client[h])
  BY DEF AlwaysFound
<1>1. size # NoTable /\ SizeIn
  BY DEF TInv
<1> DEFINE r == client[h]
           e == EntryOf(h)
<1> HIDE DEF r, e
<1>2. ASSUME NEW P, NEW Q, CleanNow(P, Q)
      PROVE  FoundByDst(r) /\ FoundBySrc(r) /\ Matches(e, r)
  <2>1. e \in Live(rule) /\ rule[e].of = r
    BY <1>1, <1>2, HandleNames DEF CleanNow, r, e
  <2>2. r \in StoreRules
    BY <1>2, <2>1, OneEntry DEF CleanNow
  <2>3. Holds(rule, Live(rule), r)
    BY <2>1 DEF Holds
  <2>4. Matches(e, r)
    BY <2>1 DEF Matches, Live
  <2> QED BY <1>1, <1>2, <2>2, <2>3, <2>4, CleanFound
<1>3. ASSUME NEW R, NEW X, NEW d, NEW k, NEW w, Deletes(R, X, d, k, w)
      PROVE  FoundByDst(r) /\ FoundBySrc(r) /\ Matches(e, r)
  <2>1. /\ Clean(size.base, All, R, X, ids, client, {}, {}) /\ d \in Live(R) /\ k \in 1..All
        /\ client[k] = R[d].of /\ op.do = "delete" /\ op.h = k
    BY <1>3 DEF Deletes, Deletion
  <2>2. h \in 1..All /\ e \in Live(R) /\ R[e].of = r
    BY <1>1, <2>1, HandleNames DEF r, e
  <2>3. r \in StoreRules
    BY <2>1, <2>2, OneEntry
  <2>4. e # d
    <3>1. h # k
      BY <2>1
    <3>2. \A g, j \in 1..All : client[g] = client[j] /\ client[g] # NoRule => g = j
      BY <2>1 DEF Clean, HandlesOK
    <3> QED BY <2>1, <2>2, <3>1, <3>2 DEF r
  <2>5. Holds(R, Live(R), r) /\ Holds(R, Live(R) \ {d}, r)
    BY <2>2, <2>4 DEF Holds
  <2>6. rule = R \/ rule = RuleCut(size.base, R, d)
    BY <1>1, <1>3, <2>3, StageFound
  <2>7. FoundByDst(r) /\ FoundBySrc(r)
    BY <1>1, <1>3, <2>3, <2>5, <2>6, StageFound
  <2>8. rule[e].of = r /\ rule[e].enabled /\ ~rule[e].dead
    <3>1. CASE rule = R
      BY <2>2, <3>1 DEF Live
    <3>2. CASE rule = RuleCut(size.base, R, d)
      <4>1. RuleTable(All, R) /\ d \in DOMAIN R
        BY <2>1, DeletionTypes
      <4>2. CutSame(R, d, rule)
        BY <3>2, <4>1, RuleCutSame
      <4>3. rule[e].of = R[e].of /\ rule[e].enabled = R[e].enabled /\ rule[e].dead = R[e].dead
        BY <2>2, <2>4, <4>2 DEF CutSame, Live
      <4>4. R[e].enabled /\ ~R[e].dead
        BY <2>2 DEF Live
      <4> QED BY <2>2, <4>3, <4>4
    <3> QED BY <2>6, <3>1, <3>2
  <2> QED BY <2>7, <2>8 DEF Matches
<1> QED BY <1>1, <1>2, <1>3, CleanOrDeleting DEF r, e

(* The rules the client has handles of. *)
LEMMA RulesOfClient ==
  ASSUME CleanNow({}, {}), NEW rules, rules = {client[h] : h \in DOMAIN client} \ {NoRule}
  PROVE  rules = {rule[e].of : e \in Live(rule)}
<1>1. /\ HandlesOK(size.base, All, rule, ids, client)
      /\ \A e \in Live(rule) : rule[e].of # NoRule
  <2>1. \A e \in Live(rule) : rule[e].of \in StoreRules
    BY OneEntry DEF CleanNow
  <2> QED BY <2>1, NatTableAssumption DEF CleanNow, Clean
<1>2. /\ DOMAIN client = 1..All
      /\ \A h \in 1..All : client[h] # NoRule => \E e \in Live(rule) : rule[e].of = client[h]
      /\ \A e \in Live(rule) : \E h \in 1..All : client[h] = rule[e].of
  BY <1>1 DEF HandlesOK
<1>3. \A r : r \in rules <=> \E e \in Live(rule) : r = rule[e].of
  BY <1>1, <1>2
<1> QED BY <1>3

LEMMA TInvNothingLeft == TInv => NothingLeft
<1> DEFINE rules == {client[h] : h \in DOMAIN client} \ {NoRule}
<1> SUFFICES ASSUME TInv, Idle, ~broken, size # NoTable
             PROVE  /\ \A e \in DOMAIN rule : InUseRule(e) =>
                         IF rule[e].dead THEN rule[e].next # 0 /\ ~IsExpn(e)
                         ELSE rule[e].of \in rules
                    /\ \A r \in rules :
                         Cardinality({e \in DOMAIN rule :
                            rule[e].enabled /\ rule[e].of = r /\ ~rule[e].dead}) = 1
                    /\ Cardinality({i \in DOMAIN index : InUseIndex(i)}) = Cardinality(rules)
  BY DEF NothingLeft
<1>1. CleanNow({}, {}) /\ SizeIn
  BY IdleClean
<1> DEFINE W == Live(rule)
           U == UsedIx(index)
<1>2. rules = {rule[e].of : e \in W}
  BY <1>1, RulesOfClient
<1>3. \A e, d \in W : rule[e].of = rule[d].of => e = d
  BY <1>1, OneEntry DEF CleanNow
<1>4. Facts(size.base, All, rule, index, {}, {}) /\ RulesOK(size.base, rule, {})
  BY <1>1, CleanWired DEF CleanNow, Clean
<1> HIDE DEF rules
<1>5. ASSUME NEW e \in DOMAIN rule, InUseRule(e)
      PROVE  IF rule[e].dead THEN rule[e].next # 0 /\ ~IsExpn(e) ELSE rule[e].of \in rules
  <2>1. DOMAIN rule \subseteq Nat /\ size.base \in Nat
    BY <1>1, <1>4 DEF Facts, SizeIn
  <2>2. rule[e].dead => rule[e].next # 0 /\ e < size.base
    BY <1>4 DEF RulesOK
  <2>3. ~rule[e].dead => e \in W
    BY <1>5 DEF Live, InUseRule
  <2> QED BY <1>2, <2>1, <2>2, <2>3 DEF IsExpn
<1>6. ASSUME NEW r \in rules
      PROVE  Cardinality({e \in DOMAIN rule :
                rule[e].enabled /\ rule[e].of = r /\ ~rule[e].dead}) = 1
  <2> DEFINE T == {e \in DOMAIN rule : rule[e].enabled /\ rule[e].of = r /\ ~rule[e].dead}
  <2>1. PICK d \in W : rule[d].of = r
    BY <1>2
  <2>2. T = {d}
    BY <1>3, <2>1 DEF Live
  <2> HIDE DEF T
  <2>3. Cardinality(T) = 1
    BY <2>2, FS_Singleton
  <2> QED BY <2>3 DEF T
<1>7. Cardinality({i \in DOMAIN index : InUseIndex(i)}) = Cardinality(rules)
  <2>1. {i \in DOMAIN index : InUseIndex(i)} = U
    BY DEF UsedIx, InUseIndex
  <2>2. IsFiniteSet(U)
    <3>1. IsFiniteSet(DOMAIN index)
      BY <1>4 DEF Facts, Threaded
    <3>2. U \subseteq DOMAIN index
      BY DEF UsedIx
    <3> QED BY <3>1, <3>2, FS_Subset
  <2>3. /\ \A i \in U : index[i].tbl \in W /\ rule[index[i].tbl].ix = i
        /\ \A e \in W : rule[e].ix \in U /\ index[rule[e].ix].tbl = e
    BY <1>4 DEF Facts
  <2> HIDE DEF U, W
  <2> DEFINE f == [i \in U |-> rule[index[i].tbl].of]
  <2>4. f \in [U -> rules]
    BY <1>2, <2>3
  <2>5. \A i, j \in U : f[i] = f[j] => i = j
    BY <1>3, <2>3
  <2>6. \A r \in rules : \E i \in U : f[i] = r
    <3> SUFFICES ASSUME NEW r \in rules PROVE \E i \in U : f[i] = r
      OBVIOUS
    <3>1. PICK e \in W : rule[e].of = r
      BY <1>2
    <3>2. rule[e].ix \in U /\ f[rule[e].ix] = r
      BY <2>3, <3>1
    <3> QED BY <3>2
  <2> HIDE DEF f
  <2>7. f \in Injection(U, rules) /\ f \in Surjection(U, rules)
    BY <2>4, <2>5, <2>6 DEF Injection, Surjection, IsInjective
  <2>8. Cardinality(rules) = Cardinality(U)
    BY <2>2, <2>7, FS_Surjection
  <2> QED BY <2>1, <2>8
<1> QED BY <1>5, <1>6, <1>7

(* The hardware finds every rule the client has a handle of, by destination  *)
(* and by source, between any two commands of the addition or the deletion   *)
(* of another one, and no entry stays in use for a rule that is gone          *)
(* (ipa_nati_post_del_dma_cmd, ipa_nati_del_dead_ipv4_head_nodes).           *)
THEOREM TableChainsSound == TableSpec => []ChainsSound
<1>1. TInv => ChainsSound
  BY TInvAlwaysFound, TInvNothingLeft DEF ChainsSound
<1> QED BY <1>1, TableInv, PTL
-----------------------------------------------------------------------------
(* The refinement: every step changes what the hardware finds by one rule, by *)
(* none, or empties it.                                                    *)

(* The tables as the hardware sees them: the rules it finds by destination   *)
(* and by source.                                                            *)
DstSet(b, R) == {r \in StoreRules : DstOf(b, R, r)}
SrcSet(b, R, X) == {r \in StoreRules : SrcOf(b, R, X, r)}
HeldSet(R, S) == {r \in StoreRules : Holds(R, S, r)}
ByDstNow == {r \in StoreRules : FoundByDst(r)}
BySrcNow == {r \in StoreRules : FoundBySrc(r)}
OneStep(S, T) == T = S \/ T = {} \/ \E r \in StoreRules : T = S \union {r} \/ T = S \ {r}

LEMMA NowIs ==
  /\ size # NoTable => /\ ByDstNow = DstSet(size.base, rule)
                       /\ BySrcNow = SrcSet(size.base, rule, index)
  /\ size = NoTable => ByDstNow = {} /\ BySrcNow = {}
<1>1. ASSUME size # NoTable
      PROVE  ByDstNow = DstSet(size.base, rule) /\ BySrcNow = SrcSet(size.base, rule, index)
  BY <1>1, FoundIs DEF ByDstNow, BySrcNow, DstSet, SrcSet
<1>2. ASSUME size = NoTable PROVE ByDstNow = {} /\ BySrcNow = {}
  BY <1>2 DEF ByDstNow, BySrcNow, FoundByDst, FoundBySrc
<1> QED BY <1>1, <1>2

LEMMA NowIsNext ==
  (/\ size # NoTable => /\ ByDstNow = DstSet(size.base, rule)
                        /\ BySrcNow = SrcSet(size.base, rule, index)
   /\ size = NoTable => ByDstNow = {} /\ BySrcNow = {})'
BY NowIs, PTL

LEMMA CleanSets ==
  ASSUME NEW b, NEW n, NEW R, NEW X, NEW I, NEW C, NEW P, NEW Q, Clean(b, n, R, X, I, C, P, Q)
  PROVE  DstSet(b, R) = HeldSet(R, Live(R)) /\ SrcSet(b, R, X) = HeldSet(R, Live(R))
BY StoredClean DEF DstSet, SrcSet, HeldSet

LEMMA SameHeld ==
  ASSUME NEW R, NEW G, NEW S, \A x \in S : G[x].of = R[x].of
  PROVE  HeldSet(G, S) = HeldSet(R, S)
BY DEF HeldSet, Holds

\* one of the entries less
LEMMA OneLess ==
  ASSUME NEW b, NEW n, NEW R, NEW X, NEW I, NEW C, NEW P, NEW Q, Clean(b, n, R, X, I, C, P, Q),
         NEW d \in Live(R)
  PROVE  /\ R[d].of \in StoreRules
         /\ HeldSet(R, Live(R) \ {d}) = HeldSet(R, Live(R)) \ {R[d].of}
         /\ HeldSet(R, Live(R)) = HeldSet(R, Live(R) \ {d}) \union {R[d].of}
<1>1. /\ \A e \in Live(R) : R[e].of \in StoreRules
      /\ \A e \in Live(R) : R[e].of = R[d].of => e = d
  BY OneEntry
<1>2. \A r : Holds(R, Live(R) \ {d}, r) <=> Holds(R, Live(R), r) /\ r # R[d].of
  BY <1>1 DEF Holds
<1>3. Holds(R, Live(R), R[d].of)
  BY DEF Holds
<1> QED BY <1>1, <1>2, <1>3 DEF HeldSet

Staged(b, R, X, d, G, Y) ==
  \/ G = R /\ Y = X
  \/ /\ G = R \/ G = RuleCut(b, R, d)
     /\ Y = IndexCut(b, X, R[d].ix) \/ (Follows(b, X, R[d].ix) /\ Y = IndexHalf(X, R[d].ix))
Either(R, d, S) == S = HeldSet(R, Live(R)) \/ S = HeldSet(R, Live(R) \ {d})
LEMMA StagedSets ==
  ASSUME NEW b, NEW n, NEW R, NEW X, NEW I, NEW C, Clean(b, n, R, X, I, C, {}, {}),
         NEW d \in Live(R), NEW G, NEW Y, Staged(b, R, X, d, G, Y)
  PROVE  Either(R, d, DstSet(b, G)) /\ Either(R, d, SrcSet(b, G, Y))
<1> DEFINE i == R[d].ix
<1>1. i \in Nat /\ b \in Nat
  BY DeletionTypes
<1>2. CASE G = R /\ Y = X
  BY <1>2, CleanSets DEF Either
<1>3. CASE /\ G = R \/ G = RuleCut(b, R, d)
           /\ Y = IndexCut(b, X, i) \/ (Follows(b, X, i) /\ Y = IndexHalf(X, i))
  <2>1. \/ Y = IndexCut(b, X, R[d].ix)
        \/ Y = IndexHalf(X, R[d].ix) /\ ~(R[d].ix >= b) /\ X[R[d].ix].next # 0
    BY <1>1, <1>3 DEF Follows
  <2>2. SrcSet(b, G, Y) = HeldSet(R, Live(R) \ {d})
    BY <1>3, <2>1, StoredIndexCut DEF SrcSet, HeldSet
  <2>3. CASE G = R
    BY <2>2, <2>3, CleanSets DEF Either
  <2>4. CASE G = RuleCut(b, R, d)
    <3>1. DstSet(b, G) = HeldSet(R, Live(R) \ {d})
      BY <2>4, StoredRuleCut DEF DstSet, HeldSet
    <3> QED BY <2>2, <3>1 DEF Either
  <2> QED BY <1>3, <2>3, <2>4
<1> QED BY <1>2, <1>3 DEF Staged

LEMMA EitherStep ==
  ASSUME NEW b, NEW n, NEW R, NEW X, NEW I, NEW C, Clean(b, n, R, X, I, C, {}, {}),
         NEW d \in Live(R), NEW S, Either(R, d, S), NEW T, Either(R, d, T)
  PROVE  OneStep(S, T)
<1>1. /\ R[d].of \in StoreRules
      /\ HeldSet(R, Live(R) \ {d}) = HeldSet(R, Live(R)) \ {R[d].of}
      /\ HeldSet(R, Live(R)) = HeldSet(R, Live(R) \ {d}) \union {R[d].of}
  <2>1. PICK P, Q : Clean(b, n, R, X, I, C, P, Q)
    OBVIOUS
  <2> QED BY <2>1, OneLess
<1> DEFINE A == HeldSet(R, Live(R))
           B == HeldSet(R, Live(R) \ {d})
           r == R[d].of
<1>2. (S = A \/ S = B) /\ (T = A \/ T = B)
  BY DEF Either
<1>3. r \in StoreRules /\ B = A \ {r} /\ A = B \union {r}
  BY <1>1
<1> HIDE DEF A, B, r
<1> QED BY <1>2, <1>3 DEF OneStep

LEMMA DmaStep ==
  ASSUME TInv, Dma
  PROVE  OneStep(ByDstNow, ByDstNow') /\ OneStep(BySrcNow, BySrcNow')
<1> DEFINE b == size.base
<1>1. op.do = "delete" /\ size' = size
  BY DEF Dma
<1>2. size # NoTable
  BY <1>1, Deleting
<1>3. PICK R, X, d, h, w : Deletes(R, X, d, h, w) /\ \E v : Deletes(R, X, d, h, v)'
  BY DmaTInv
<1>4. PICK v : Deletes(R, X, d, h, v)'
  BY <1>3
<1>5. Clean(b, All, R, X, ids, client, {}, {}) /\ d \in Live(R) /\ Stage(b, R, X, d, w)
  BY <1>3 DEF Deletes
<1>6. Staged(b, R, X, d, rule, index)
  BY <1>5 DEF Stage, Staged
<1>7. Staged(b, R, X, d, rule', index')
  <2>1. Stage(size.base, R, X, d, v)'
    BY <1>4 DEF Deletes
  <2> QED BY <1>1, <2>1 DEF Stage, Staged
<1>8. /\ Either(R, d, DstSet(b, rule)) /\ Either(R, d, SrcSet(b, rule, index))
      /\ Either(R, d, DstSet(b, rule')) /\ Either(R, d, SrcSet(b, rule', index'))
  <2> HIDE DEF b
  <2> QED BY <1>5, <1>6, <1>7, StagedSets
<1>9. /\ ByDstNow = DstSet(b, rule) /\ BySrcNow = SrcSet(b, rule, index)
      /\ ByDstNow' = DstSet(b, rule') /\ BySrcNow' = SrcSet(b, rule', index')
  BY <1>1, <1>2, NowIs, NowIsNext
<1> HIDE DEF b
<1> QED BY <1>5, <1>8, <1>9, EitherStep

LEMMA RuleDeletedStep ==
  ASSUME TInv, RuleDeleted
  PROVE  OneStep(ByDstNow, ByDstNow') /\ OneStep(BySrcNow, BySrcNow')
<1> DEFINE b == size.base
<1>1. op.do = "delete"
  BY DEF RuleDeleted
<1>2. size # NoTable
  BY <1>1, Deleting
<1>3. PICK R, X, d, h, w : Deletes(R, X, d, h, w)
  BY <1>1, Deleting
<1>4. /\ rule' = RulesLeft(b, R, X, d) /\ index' = IndicesLeft(b, R, X, d)
      /\ ids' = Put(ids, h, 0) /\ client' = Put(client, h, NoRule) /\ size' = size
  BY <1>3, RuleDeletedIs
<1>5. /\ Clean(b, All, R, X, ids, client, {}, {}) /\ d \in Live(R) /\ h \in 1..All
      /\ ids[h] = IdOf(b, d) /\ client[h] = R[d].of /\ Stage(b, R, X, d, w)
  BY <1>3 DEF Deletes
<1>6. Clean(b, All, rule', index', ids', client', {}, {})
  BY <1>4, <1>5, RuleDeletedClean
<1>7. Live(rule') = Live(R) \ {d} /\ \A x \in Live(rule') : rule'[x].of = R[x].of
  <2>1. ByRulesLeft(b, All, R, X, d, RulesLeft(b, R, X, d))
    <3> HIDE DEF b
    <3> QED BY <1>5, RulesLeftAre
  <2> QED BY <1>4, <2>1 DEF ByRulesLeft
<1>8. HeldSet(rule', Live(rule')) = HeldSet(R, Live(R) \ {d})
  BY <1>7, SameHeld
<1>9. Either(R, d, DstSet(b, rule')) /\ Either(R, d, SrcSet(b, rule', index'))
  <2> HIDE DEF b
  <2>1. /\ DstSet(b, rule') = HeldSet(rule', Live(rule'))
        /\ SrcSet(b, rule', index') = HeldSet(rule', Live(rule'))
    BY <1>6, CleanSets
  <2> QED BY <1>8, <2>1 DEF Either
<1>10. Either(R, d, DstSet(b, rule)) /\ Either(R, d, SrcSet(b, rule, index))
  <2>1. Staged(b, R, X, d, rule, index)
    BY <1>5 DEF Stage, Staged
  <2> HIDE DEF b
  <2> QED BY <1>5, <2>1, StagedSets
<1>11. /\ ByDstNow = DstSet(b, rule) /\ BySrcNow = SrcSet(b, rule, index)
       /\ ByDstNow' = DstSet(b, rule') /\ BySrcNow' = SrcSet(b, rule', index')
  BY <1>2, <1>4, NowIs, NowIsNext
<1> HIDE DEF b
<1> QED BY <1>5, <1>9, <1>10, <1>11, EitherStep

OneStepEach == OneStep(ByDstNow, ByDstNow') /\ OneStep(BySrcNow, BySrcNow')

LEMMA SameTables ==
  ASSUME size' = size, rule' = rule, index' = index
  PROVE  OneStepEach
<1>1. CASE size # NoTable
  BY <1>1, NowIs, NowIsNext DEF OneStepEach, OneStep
<1>2. CASE size = NoTable
  BY <1>2, NowIs, NowIsNext DEF OneStepEach, OneStep
<1> QED BY <1>1, <1>2

LEMMA CreateStep == ASSUME TInv, NEW k \in Requests, CreateTable(k) PROVE OneStepEach
<1>1. size = NoTable /\ ByDstNow = {} /\ BySrcNow = {}
  BY NowIs DEF CreateTable
<1>2. size' # NoTable /\ CleanNow({}, {})'
  BY CreateTInv
<1>3. Live(rule') = {}
  <2>1. \A e \in DOMAIN rule' : ~rule'[e].enabled
    BY DEF CreateTable, Zeroed, NoEntry
  <2> QED BY <2>1 DEF Live
<1>4. HeldSet(rule', Live(rule')) = {}
  BY <1>3 DEF HeldSet, Holds
<1>5. DstSet(size'.base, rule') = {} /\ SrcSet(size'.base, rule', index') = {}
  BY <1>2, <1>4, CleanSets DEF CleanNow
<1> QED BY <1>1, <1>2, <1>5, NowIsNext DEF OneStepEach, OneStep

LEMMA DeleteTableStep == ASSUME DeleteTable PROVE OneStepEach
<1>1. size' = NoTable
  BY DEF DeleteTable
<1>2. ByDstNow' = {} /\ BySrcNow' = {}
  BY <1>1, NowIsNext
<1> QED BY <1>2 DEF OneStepEach, OneStep

LEMMA AddRuleStep ==
  ASSUME TInv, NEW r \in StoreRules, NEW linked \in BOOLEAN, AddRule(r, linked)
  PROVE  OneStepEach
<1>1. /\ InIndex' /\ CleanNow({}, {}) /\ Live(rule') = Live(rule)
      /\ \A x \in Live(rule) : rule'[x].of = rule[x].of
  BY AddRuleTInv
<1>2. size # NoTable /\ size' = size
  BY DEF AddRule
<1>3. PICK P : Clean(size.base, All', rule', index', ids', client', P, {})
  BY <1>1, <1>2 DEF InIndex, CleanNow
<1>4. HeldSet(rule', Live(rule')) = HeldSet(rule, Live(rule))
  BY <1>1, SameHeld
<1>5. /\ DstSet(size.base, rule') = HeldSet(rule', Live(rule'))
      /\ SrcSet(size.base, rule', index') = HeldSet(rule', Live(rule'))
  BY <1>3, CleanSets
<1>6. /\ DstSet(size.base, rule) = HeldSet(rule, Live(rule))
      /\ SrcSet(size.base, rule, index) = HeldSet(rule, Live(rule))
  BY <1>1, CleanSets DEF CleanNow
<1> QED BY <1>2, <1>4, <1>5, <1>6, NowIs, NowIsNext DEF OneStepEach, OneStep

\* an index entry that nothing leads to
LEMMA UnlinkedIndex ==
  ASSUME NEW b, NEW n, NEW R, NEW X, NEW I, NEW C, NEW P, Clean(b, n, R, X, I, C, P, {}),
         NEW Y, Arrays(n, R, Y), NEW k \in DOMAIN X \ UsedIx(X), k >= b,
         \A x \in DOMAIN X \ {k} : Y[x] = X[x]
  PROVE  SrcSet(b, R, Y) = SrcSet(b, R, X)
<1>1. /\ Wired(X, b, UsedIx(X), AtSrc(b, R, X)) /\ Threaded(X) /\ DOMAIN X = 0..(n - 1)
      /\ b \in Nat /\ b >= 2 /\ n \in Nat /\ n > b
  <2>1. Facts(b, n, R, X, P, {})
    BY CleanWired
  <2> QED BY <2>1 DEF Facts
<1>2. Threaded(Y) /\ DOMAIN Y = DOMAIN X
  <2>1. n > 0
    BY <1>1
  <2> QED BY <1>1, <2>1, ArraysThread
<1>3. ASSUME NEW h \in Base(b)
      PROVE  Chain(Y, h) = Chain(X, h) /\ \A j \in Chain(X, h) : Y[j] = X[j]
  <2>1. k \notin Chain(X, h)
    <3>1. k # h
      BY <1>1 DEF Base
    <3> QED BY <1>1, <3>1, NotInChain
  <2>2. h \in DOMAIN X \ {0}
    BY <1>1 DEF Base, Wired, Spans
  <2>3. \A j \in Chain(X, h) : Y[j] = X[j]
    BY <1>1, <2>1, <2>2, ChainFacts
  <2>4. \A j \in Chain(X, h) : Y[j].next = X[j].next
    BY <2>3
  <2> QED BY <1>1, <1>2, <2>2, <2>3, <2>4, ChainSame
<1>4. ASSUME NEW r \in StoreRules PROVE SrcOf(b, R, Y, r) <=> SrcOf(b, R, X, r)
  <2>1. HashOf(b, r.src) \in Base(b)
    BY StoredHeads
  <2> QED BY <1>3, <2>1 DEF SrcOf
<1> QED BY <1>4 DEF SrcSet

LEMMA AddIndexStep ==
  ASSUME TInv, NEW linked \in BOOLEAN, AddIndex(linked)
  PROVE  OneStepEach
<1> DEFINE b == size.base
           q == op.place
           P == IF broken THEN {} ELSE {op.e}
<1>1. size' = size /\ rule' = rule
  BY DEF AddIndex
<1>2. /\ InIndex /\ Arrays(All, rule, index') /\ Clean(b, All, rule, index, ids, client, P, {})
      /\ linked => IndexPut(All, index, q, op.e, index')
      /\ ~linked => q.prev # 0 /\ \A x \in DOMAIN index \ {q.e} : index'[x] = index[x]
  BY AddIndexTInv
<1>3. /\ op.e \in 1..(All - 1) /\ ~rule[op.e].enabled /\ rule[op.e].of \in StoreRules
      /\ rule[op.e].ix = q.e
      /\ Placed(index, b, UsedIx(index), AtSrc(b, rule, index), HashOf(b, rule[op.e].of.src), q)
  BY <1>2 DEF InIndex, Pending
<1> HIDE DEF b, q, P
<1>4. SrcSet(b, rule, index') = SrcSet(b, rule, index)
  <2>1. CASE linked
    <3>1. Clean(b, All, rule, index', ids, client, P, {op.e})
      BY <1>2, <1>3, <2>1, IndexAdded
    <3> QED BY <1>2, <3>1, CleanSets
  <2>2. CASE ~linked
    <3>1. q.e \in DOMAIN index \ UsedIx(index) /\ q.e >= b
      BY <1>2, <1>3, <2>2 DEF Placed
    <3> QED BY <1>2, <2>2, <3>1, UnlinkedIndex
  <2> QED BY <2>1, <2>2
<1>5. CASE size # NoTable
  BY <1>1, <1>4, <1>5, NowIs, NowIsNext DEF OneStepEach, OneStep, b
<1>6. CASE size = NoTable
  BY <1>1, <1>6, NowIs, NowIsNext DEF OneStepEach, OneStep
<1> QED BY <1>5, <1>6

\* a rule that is enabled appears, wherever its entry is linked
LEMMA RaisedSets ==
  ASSUME NEW b, NEW n, NEW R, NEW X, Room(b, n), Arrays(n, R, X),
         NEW e \in 1..(n - 1), R[e].of \in StoreRules, ~R[e].enabled
  PROVE  /\ OneStep(DstSet(b, R), DstSet(b, Raised(R, e)))
         /\ OneStep(SrcSet(b, R, X), SrcSet(b, Raised(R, e), X))
<1> DEFINE G == Raised(R, e)
<1>1. /\ DOMAIN R = 0..(n - 1) /\ DOMAIN X = 0..(n - 1) /\ Threaded(R) /\ Threaded(X)
      /\ b \in Nat /\ b >= 2 /\ n \in Nat /\ n > b /\ e \in DOMAIN R
      /\ \A x \in DOMAIN R : R[x] \in RuleEntries(n)
      /\ \A x \in DOMAIN X : X[x].tbl \in DOMAIN R
  <2>1. b \in Nat /\ b >= 2 /\ n \in Nat /\ n > b
    BY DEF Room
  <2>2. n > 0
    BY <2>1
  <2>3. DOMAIN R = 0..(n - 1) /\ DOMAIN X = 0..(n - 1) /\ Threaded(R) /\ Threaded(X)
    BY <2>1, <2>2, ArraysThread
  <2>4. \A x \in DOMAIN X : X[x].tbl \in DOMAIN R
    BY <2>3 DEF Arrays, IndexEntries
  <2> QED BY <2>1, <2>3, <2>4 DEF Arrays
<1>2. /\ DOMAIN G = DOMAIN R /\ G[e].enabled
      /\ \A x \in DOMAIN R \ {e} : G[x] = R[x]
      /\ \A x \in DOMAIN R : G[x].of = R[x].of /\ G[x].dead = R[x].dead /\ G[x].next = R[x].next
  <2>1. R[e] \in RuleEntries(n)
    BY <1>1
  <2>2. PICK v : v = [R[e] EXCEPT !.enabled = TRUE]
    OBVIOUS
  <2>3. v.enabled /\ v.dead = R[e].dead /\ v.of = R[e].of /\ v.next = R[e].next
    BY <2>1, <2>2 DEF RuleEntries
  <2>4. G = [R EXCEPT ![e] = v]
    BY <1>1, <2>2 DEF Raised
  <2> QED BY <1>1, <2>3, <2>4
<1> HIDE DEF G
<1>3. Threaded(G)
  BY <1>1, <1>2 DEF Threaded
<1>4. ASSUME NEW r \in StoreRules
      PROVE  /\ HashOf(b, r.dst) \in DOMAIN R \ {0} /\ HashOf(b, r.src) \in DOMAIN X \ {0}
             /\ Chain(R, HashOf(b, r.dst)) \subseteq DOMAIN R
             /\ Chain(X, HashOf(b, r.src)) \subseteq DOMAIN X
  <2>0. r.dst \in Nat /\ r.src \in Nat
    BY NatTableAssumption
  <2>0a. b \in Nat /\ b >= 2
    BY <1>1
  <2>1. HashOf(b, r.dst) \in Base(b) /\ HashOf(b, r.src) \in Base(b)
    BY <2>0, <2>0a, HashIn
  <2>2. HashOf(b, r.dst) \in DOMAIN R \ {0} /\ HashOf(b, r.src) \in DOMAIN X \ {0}
    BY <1>1, <2>1 DEF Base
  <2>3. Chain(R, HashOf(b, r.dst)) \subseteq DOMAIN R
    BY <1>1, <2>2, ChainFacts
  <2>4. Chain(X, HashOf(b, r.src)) \subseteq DOMAIN X
    BY <1>1, <2>2, ChainFacts
  <2> QED BY <2>2, <2>3, <2>4
<1>5. ASSUME NEW r \in StoreRules, r # R[e].of
      PROVE  (DstOf(b, G, r) <=> DstOf(b, R, r)) /\ (SrcOf(b, G, X, r) <=> SrcOf(b, R, X, r))
  <2>1. Chain(G, HashOf(b, r.dst)) = Chain(R, HashOf(b, r.dst))
    <3>1. PICK h : h = HashOf(b, r.dst)
      OBVIOUS
    <3>2. h \in DOMAIN R \ {0} /\ \A x \in Chain(R, h) : G[x].next = R[x].next
      BY <1>2, <1>4, <3>1
    <3> QED BY <1>1, <1>2, <1>3, <3>1, <3>2, ChainSame
  <2>2. \A x \in DOMAIN R : G[x].of = r /\ G[x].enabled /\ ~G[x].dead
                              <=> R[x].of = r /\ R[x].enabled /\ ~R[x].dead
    BY <1>2, <1>5
  <2>3. \A x \in Chain(R, HashOf(b, r.dst)) : x \in DOMAIN R
    BY <1>4
  <2>4. \A j \in Chain(X, HashOf(b, r.src)) : X[j].tbl \in DOMAIN R
    BY <1>1, <1>4
  <2> QED BY <2>1, <2>2, <2>3, <2>4 DEF DstOf, SrcOf
<1>6. ASSUME NEW r \in StoreRules, r = R[e].of
      PROVE  (DstOf(b, R, r) => DstOf(b, G, r)) /\ (SrcOf(b, R, X, r) => SrcOf(b, G, X, r))
  <2>1. Chain(G, HashOf(b, r.dst)) = Chain(R, HashOf(b, r.dst))
    <3>1. PICK h : h = HashOf(b, r.dst)
      OBVIOUS
    <3>2. h \in DOMAIN R \ {0} /\ \A x \in Chain(R, h) : G[x].next = R[x].next
      BY <1>2, <1>4, <3>1
    <3> QED BY <1>1, <1>2, <1>3, <3>1, <3>2, ChainSame
  <2>2. \A x \in DOMAIN R : R[x].of = r /\ R[x].enabled /\ ~R[x].dead
                              => G[x].of = r /\ G[x].enabled /\ ~G[x].dead
    BY <1>2
  <2>3. \A x \in Chain(R, HashOf(b, r.dst)) : x \in DOMAIN R
    BY <1>4
  <2>4. \A j \in Chain(X, HashOf(b, r.src)) : X[j].tbl \in DOMAIN R
    BY <1>1, <1>4
  <2> QED BY <2>1, <2>2, <2>3, <2>4 DEF DstOf, SrcOf
<1>7. DstSet(b, G) \in {DstSet(b, R), DstSet(b, R) \union {R[e].of}}
  BY <1>5, <1>6 DEF DstSet
<1>8. SrcSet(b, G, X) \in {SrcSet(b, R, X), SrcSet(b, R, X) \union {R[e].of}}
  BY <1>5, <1>6 DEF SrcSet
<1> QED BY <1>7, <1>8 DEF OneStep, G

LEMMA EnableStep == ASSUME TInv, Enable PROVE OneStepEach
<1>1. /\ op.do = "enable" /\ rule' = Raised(rule, op.e) /\ size' = size /\ index' = index
  BY DEF Enable, Raised
<1>2. size # NoTable /\ InEnable
  <2>1. ~Idle /\ ~InIndex
    BY <1>1 DEF Idle, InIndex
  <2>2. ~InDelete
    BY <1>1 DEF InDelete, Deletes, Deletion
  <2> QED BY <2>1, <2>2 DEF TInv
<1>3. /\ op.e \in 1..(All - 1) /\ ~rule[op.e].enabled /\ rule[op.e].of \in StoreRules
      /\ Room(size.base, All) /\ Arrays(All, rule, index)
  BY <1>2 DEF InEnable, Pending
<1>4. /\ OneStep(DstSet(size.base, rule), DstSet(size.base, rule'))
      /\ OneStep(SrcSet(size.base, rule, index), SrcSet(size.base, rule', index'))
  BY <1>1, <1>3, RaisedSets
<1> QED BY <1>1, <1>2, <1>4, NowIs, NowIsNext DEF OneStepEach

LEMMA EachStep == ASSUME TInv, [TableNext]_tableVars PROVE OneStepEach
<1>1. CASE UNCHANGED tableVars
  BY <1>1, SameTables DEF tableVars
<1>2. CASE \E k \in Requests : CreateTable(k)
  BY <1>2, CreateStep
<1>3. CASE DeleteTable
  BY <1>3, DeleteTableStep
<1>4. CASE \E r \in StoreRules, linked \in BOOLEAN : AddRule(r, linked)
  BY <1>4, AddRuleStep
<1>5. CASE \E linked \in BOOLEAN : AddIndex(linked)
  BY <1>5, AddIndexStep
<1>6. CASE Enable
  BY <1>6, EnableStep
<1>7. CASE EnableFails
  BY <1>7, SameTables DEF EnableFails
<1>8. CASE \E h \in DOMAIN client : DeleteRule(h)
  BY <1>8, SameTables DEF DeleteRule
<1>9. CASE Dma
  BY <1>9, DmaStep DEF OneStepEach
<1>10. CASE RuleDeleted
  BY <1>10, RuleDeletedStep DEF OneStepEach
<1> QED
  BY <1>1, <1>2, <1>3, <1>4, <1>5, <1>6, <1>7, <1>8, <1>9, <1>10 DEF TableNext

(* Seen by the hardware the table is RuleStore: no command adds or removes   *)
(* more than one rule, by destination or by source.                          *)
THEOREM TableImplementsStore == TableSpec => ImplementsStore
<1>1. TableInit => ByDst!Init /\ BySrc!Init
  BY DEF TableInit, ByDst!Init, BySrc!Init, FoundByDst, FoundBySrc
<1>2. TInv /\ [TableNext]_tableVars =>
        /\ [ByDst!Next]_({r \in StoreRules : FoundByDst(r)})
        /\ [BySrc!Next]_({r \in StoreRules : FoundBySrc(r)})
  <2> SUFFICES ASSUME TInv, [TableNext]_tableVars
               PROVE  /\ [ByDst!Next]_({r \in StoreRules : FoundByDst(r)})
                      /\ [BySrc!Next]_({r \in StoreRules : FoundBySrc(r)})
    OBVIOUS
  <2>1. OneStep(ByDstNow, ByDstNow') /\ OneStep(BySrcNow, BySrcNow')
    BY EachStep DEF OneStepEach
  <2> QED
    BY <2>1 DEF OneStep, ByDstNow, BySrcNow, ByDst!Next, ByDst!Add, ByDst!Delete,
       ByDst!DeleteTable, BySrc!Next, BySrc!Add, BySrc!Delete, BySrc!DeleteTable
<1> QED
  BY <1>1, <1>2, TableInv, PTL DEF TableSpec, ImplementsStore, ByDst!Spec, BySrc!Spec
=============================================================================
