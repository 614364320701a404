---------------------------- MODULE Uplink_proofs ----------------------------
(***************************************************************************)
(* What MCLanUplink guarantees for any number of rules, addresses, lives,  *)
(* interfaces and subnets: the uplink rules of a tethered interface follow *)
(* the WAN and are accounted for, and the table of private subnets agrees  *)
(* with the interfaces and their rules.                                    *)
(*                                                                         *)
(* For the uplink, every operation on the rules of a family keeps their    *)
(* balance with FltRuleCount (Kept).  UlInv adds that the one event under  *)
(* way is true of the WAN, that rules are there for a family with an       *)
(* address only, and which refusal left an address without base rules.     *)
(***************************************************************************)
EXTENDS MCLanUplink, SequenceTheorems, TLAPS

-----------------------------------------------------------------------------
(* The rules of one family. *)

Oddities == {"refused", "blind", "missed", "hollow", "early"}
Groups == {"icmp", "init", "subnets"}
Records == [base : SUBSET Groups, modem : BOOLEAN, num : Nat, sta : BOOLEAN, staHdl : Handles,
            pfxHdl : Handles, count : Int, left : Nat, odd : SUBSET Oddities]

(* The flags of a family and the rules they stand for. *)
Consistent(s) ==
  /\ s.modem = FALSE => s.num = 0
  /\ s.staHdl = "live" => s.sta = TRUE
  /\ s.modem = TRUE => s.num = UlRules \/ "refused" \in s.odd

(* What an operation on the rules may do: it counts what it adds and deletes, *)
(* and forgets no oddity.                                                     *)
Balanced(s, t) ==
  \/ "blind" \in t.odd
  \/ t.count - Installed(t) - t.left = s.count - Installed(s) - s.left
Kept(s, t) ==
  /\ t \in Records /\ Consistent(t) /\ t.base = s.base /\ s.odd \subseteq t.odd
  /\ Balanced(s, t)

BaseRules(s) == Size(s.base)
StaRules(s)  == IF s.staHdl = "live" THEN 1 ELSE 0
PfxRules(s)  == IF s.pfxHdl = "live" THEN 1 ELSE 0

LEMMA SizeFacts ==
  ASSUME NEW b \in SUBSET Groups
  PROVE  /\ Size(b) \in Nat /\ (b = {} => Size(b) = 0)
         /\ \A g \in b : Size(b \ {g}) = Size(b) - 1 /\ b \ {g} \in SUBSET Groups
BY DEF Size, One, Groups

LEMMA InstalledType ==
  ASSUME NEW s \in Records
  PROVE  /\ Installed(s) = BaseRules(s) + s.num + StaRules(s) + PfxRules(s)
         /\ Uplinked(s) = s.num + StaRules(s) + PfxRules(s)
         /\ {Installed(s), Uplinked(s), s.num, s.left} \subseteq Nat /\ s.count \in Int
<1>1. s.base \in SUBSET Groups /\ s.num \in Nat /\ s.left \in Nat /\ s.count \in Int
  BY DEF Records
<1>2. One(s.staHdl = "live") = StaRules(s) /\ One(s.pfxHdl = "live") = PfxRules(s)
  BY DEF One, StaRules, PfxRules
<1>3. {StaRules(s), PfxRules(s)} \subseteq {0, 1} /\ BaseRules(s) \in Nat
  BY <1>1, SizeFacts DEF BaseRules, StaRules, PfxRules
<1> QED BY <1>1, <1>2, <1>3 DEF Installed, Uplinked, BaseRules

\* no rule for the uplink, in terms of the handles
LEMMA NoUplink ==
  ASSUME NEW s \in Records
  PROVE  Uplinked(s) = 0 <=> s.num = 0 /\ s.staHdl # "live" /\ s.pfxHdl # "live"
BY InstalledType DEF StaRules, PfxRules

\* the balance, from the differences in each kind of rules
LEMMA KeptIf ==
  ASSUME NEW s \in Records, NEW t \in Records, Consistent(t), t.base = s.base,
         s.odd \subseteq t.odd,
         \/ "blind" \in t.odd
         \/ t.count - (t.num + StaRules(t) + PfxRules(t)) - t.left
            = s.count - (s.num + StaRules(s) + PfxRules(s)) - s.left
  PROVE  Kept(s, t)
<1>1. BaseRules(s) = BaseRules(t)
  BY DEF BaseRules
<1>2. \A r \in Records : {StaRules(r), PfxRules(r)} \subseteq {0, 1} /\ BaseRules(r) \in Nat
  BY SizeFacts DEF BaseRules, StaRules, PfxRules, Records
<1> DEFINE b == BaseRules(s)
<1>3. /\ b \in Int /\ Installed(s) = b + s.num + StaRules(s) + PfxRules(s)
      /\ Installed(t) = b + t.num + StaRules(t) + PfxRules(t)
      /\ {s.num, StaRules(s), PfxRules(s), s.left, s.count} \subseteq Int
      /\ {t.num, StaRules(t), PfxRules(t), t.left, t.count} \subseteq Int
  BY <1>1, <1>2, InstalledType DEF Records
<1> HIDE DEF b
<1>4. Balanced(s, t)
  BY <1>3 DEF Balanced
<1> QED BY <1>4 DEF Kept

LEMMA KeptTrans ==
  ASSUME NEW s \in Records, NEW t, NEW u, Kept(s, t), Kept(t, u)
  PROVE  Kept(s, u)
<1>1. Installed(s) \in Int /\ Installed(t) \in Int /\ Installed(u) \in Int
  BY InstalledType DEF Kept
<1>2. \A r \in Records : r.count \in Int /\ r.left \in Int
  BY DEF Records
<1> QED BY <1>1, <1>2 DEF Kept, Balanced

LEMMA KeptSelf ==
  ASSUME NEW s \in Records, Consistent(s)
  PROVE  Kept(s, s)
BY DEF Kept, Balanced

LEMMA NoteKeeps ==
  ASSUME NEW s \in Records, Consistent(s), NEW what \in Oddities
  PROVE  /\ Kept(s, Note(s, what)) /\ what \in Note(s, what).odd
         /\ Uplinked(Note(s, what)) = Uplinked(s) /\ Note(s, what).left = s.left
         /\ Note(s, what).pfxHdl = s.pfxHdl /\ Note(s, what).num = s.num
         /\ Note(s, what).staHdl = s.staHdl
<1> DEFINE t == Note(s, what)
<1>1. /\ t \in Records /\ t.odd = s.odd \union {what} /\ t.base = s.base /\ t.modem = s.modem
      /\ t.num = s.num /\ t.sta = s.sta /\ t.staHdl = s.staHdl /\ t.pfxHdl = s.pfxHdl
      /\ t.count = s.count /\ t.left = s.left
  BY DEF Note, Records
<1> HIDE DEF t
<1>2. Consistent(t)
  BY <1>1 DEF Consistent
<1>3. Kept(s, t)
  BY <1>1, <1>2, KeptIf DEF StaRules, PfxRules
<1>4. Uplinked(t) = Uplinked(s)
  BY <1>1, InstalledType DEF StaRules, PfxRules
<1> QED BY <1>1, <1>3, <1>4 DEF t

LEMMA NeverWasKeeps ==
  ASSUME NEW s \in Records, Consistent(s), NEW t, t = NeverWas(s)
  PROVE  /\ Kept(s, t) /\ Uplinked(t) = Uplinked(s) /\ t.left = s.left
         /\ t.pfxHdl = s.pfxHdl /\ t.num = s.num /\ t.staHdl = s.staHdl
<1>1. CASE t = s
  BY <1>1, KeptSelf
<1>2. CASE t = [Note(s, "blind") EXCEPT !.count = @ - 1]
  <2> DEFINE u == Note(s, "blind")
  <2>1. /\ u \in Records /\ Consistent(u) /\ u.base = s.base /\ s.odd \subseteq u.odd
        /\ "blind" \in u.odd /\ u.left = s.left /\ u.pfxHdl = s.pfxHdl /\ u.num = s.num
        /\ u.staHdl = s.staHdl
    BY NoteKeeps DEF Kept, Oddities
  <2> HIDE DEF u
  <2>2. /\ t \in Records /\ t.odd = u.odd /\ t.base = u.base /\ t.modem = u.modem
        /\ t.num = u.num /\ t.sta = u.sta /\ t.staHdl = u.staHdl /\ t.pfxHdl = u.pfxHdl
        /\ t.left = u.left
    BY <1>2, <2>1 DEF u, Records
  <2>3. Consistent(t)
    BY <2>1, <2>2 DEF Consistent
  <2>4. Kept(s, t)
    BY <2>1, <2>2, <2>3, KeptIf
  <2>5. Uplinked(t) = Uplinked(s)
    BY <2>1, <2>2, InstalledType DEF StaRules, PfxRules
  <2> QED BY <2>1, <2>2, <2>4, <2>5
<1> QED BY <1>1, <1>2 DEF NeverWas

LEMMA UnsetKeeps ==
  ASSUME NEW s \in Records, Consistent(s), NEW t \in Unset(s)
  PROVE  /\ Kept(s, t) /\ Uplinked(t) = Uplinked(s) /\ t.left = s.left
         /\ t.pfxHdl = s.pfxHdl /\ t.num = s.num /\ t.staHdl = s.staHdl
<1>1. CASE t = s
  BY <1>1, KeptSelf
<1>2. CASE t = NeverWas(s)
  BY <1>2, NeverWasKeeps
<1> QED BY <1>1, <1>2 DEF Unset

\* the base rules come in, all of them or some
LEMMA BaseSetKeeps ==
  ASSUME NEW s \in Records, Consistent(s), s.base = {}, NEW f \in Families,
         NEW base \in SUBSET BaseOf(f), NEW r \in BaseSet(f, s, base)
  PROVE  /\ r \in Records /\ Consistent(r) /\ r.pfxHdl = s.pfxHdl
         /\ Uplinked(r) = Uplinked(s) /\ r.left = s.left /\ s.odd \subseteq r.odd
         /\ Balanced(s, r) /\ r.base = base
         /\ base # BaseOf(f) => "refused" \in r.odd
<1> DEFINE t == IF base = BaseOf(f) THEN s ELSE Note(s, "refused")
           in == [t EXCEPT !.base = base, !.count = @ + Size(base)]
<1>1. /\ t \in Records /\ Consistent(t) /\ s.odd \subseteq t.odd /\ t.count = s.count
      /\ t.base = {} /\ t.modem = s.modem /\ t.num = s.num /\ t.sta = s.sta
      /\ t.staHdl = s.staHdl /\ t.pfxHdl = s.pfxHdl /\ t.left = s.left
      /\ base # BaseOf(f) => "refused" \in t.odd
  <2>1. CASE t = s /\ base = BaseOf(f)
    BY <2>1
  <2>2. CASE t = Note(s, "refused")
    <3>1. /\ t.odd = s.odd \union {"refused"} /\ t.count = s.count /\ t.base = s.base
          /\ t.modem = s.modem /\ t.sta = s.sta
      BY <2>2 DEF Note, Records
    <3> HIDE DEF t
    <3>2. "refused" \in Oddities
      BY DEF Oddities
    <3> QED BY <2>2, <3>1, <3>2, NoteKeeps DEF Kept
  <2> QED BY <2>1, <2>2
<1>2. base \in SUBSET Groups /\ Size(base) \in Nat /\ Size(s.base) = 0
  BY SizeFacts DEF BaseOf, Groups
<1>3. r = in \/ r = [Note(in, "blind") EXCEPT !.count = @ + 1]
  BY DEF BaseSet
<1> DEFINE n == t.count + Size(base)
<1>4. n \in Int /\ s.count \in Int /\ s.left \in Nat /\ n = s.count + Size(base)
  BY <1>1, <1>2 DEF Records
<1>5. in = [t EXCEPT !.base = base, !.count = n]
  BY <1>1 DEF Records
<1> HIDE DEF n, in, t
<1>6. /\ in \in Records /\ in.odd = t.odd /\ in.base = base /\ in.modem = t.modem
      /\ in.num = t.num /\ in.sta = t.sta /\ in.staHdl = t.staHdl
      /\ in.pfxHdl = t.pfxHdl /\ in.left = t.left /\ in.count = n
  BY <1>1, <1>2, <1>4, <1>5 DEF Records
<1>7. Consistent(in)
  BY <1>1, <1>6 DEF Consistent
<1>8. Uplinked(in) = Uplinked(s) /\ Installed(in) = Installed(s) + Size(base)
      /\ Installed(s) \in Int
  <2>1. StaRules(in) = StaRules(s) /\ PfxRules(in) = PfxRules(s) /\ in.num = s.num
    BY <1>1, <1>6 DEF StaRules, PfxRules
  <2>2. BaseRules(in) = Size(base) /\ BaseRules(s) = 0
    BY <1>2, <1>6 DEF BaseRules
  <2>3. \A x \in Records : {StaRules(x), PfxRules(x)} \subseteq Nat /\ x.num \in Nat
    BY DEF StaRules, PfxRules, Records
  <2> QED BY <1>2, <1>6, <2>1, <2>2, <2>3, InstalledType
<1>9. CASE r = in
  <2>1. r.count - Installed(r) - r.left = s.count - Installed(s) - s.left
    BY <1>1, <1>2, <1>4, <1>6, <1>8, <1>9
  <2> QED BY <1>1, <1>6, <1>7, <1>8, <1>9, <2>1 DEF Balanced
<1>10. CASE r = [Note(in, "blind") EXCEPT !.count = @ + 1]
  <2> DEFINE u == Note(in, "blind")
             m == u.count + 1
  <2>1. /\ u.odd = in.odd \union {"blind"} /\ u.base = in.base /\ u.count = in.count
    BY <1>6 DEF Note, Records
  <2>2. /\ u \in Records /\ Consistent(u) /\ u.left = in.left /\ u.pfxHdl = in.pfxHdl
        /\ Uplinked(u) = Uplinked(in)
    <3>1. "blind" \in Oddities
      BY DEF Oddities
    <3> QED BY <1>6, <1>7, <3>1, NoteKeeps DEF Kept
  <2>3. m \in Int
    BY <2>2 DEF Records
  <2>4. r = [u EXCEPT !.count = m]
    BY <1>10, <2>2 DEF Records
  <2> HIDE DEF u, m
  <2>5. /\ r \in Records /\ r.odd = u.odd /\ r.base = u.base /\ r.modem = u.modem
        /\ r.num = u.num /\ r.sta = u.sta /\ r.staHdl = u.staHdl
        /\ r.pfxHdl = u.pfxHdl /\ r.left = u.left
    BY <2>2, <2>3, <2>4 DEF Records
  <2>6. Consistent(r)
    BY <2>2, <2>5 DEF Consistent
  <2>7. Uplinked(r) = Uplinked(u)
    BY <2>2, <2>5, InstalledType DEF StaRules, PfxRules
  <2> QED BY <1>1, <1>6, <1>8, <2>1, <2>2, <2>5, <2>6, <2>7 DEF Balanced
<1> QED BY <1>3, <1>9, <1>10

-----------------------------------------------------------------------------
LEMMA UplinkExKeeps ==
  ASSUME NEW s \in Records, Consistent(s), NEW t \in UplinkEx(s), UlRules \in Nat
  PROVE  Kept(s, t) /\ t.left = s.left /\ t.pfxHdl = s.pfxHdl
<1>1. CASE t = s
  BY <1>1, KeptSelf
<1>2. CASE s.modem = FALSE /\ t = UlRefused(s)
  <2> DEFINE u == Note(s, "refused")
  <2>1. /\ u \in Records /\ Consistent(u) /\ u.base = s.base /\ s.odd \subseteq u.odd
        /\ "refused" \in u.odd /\ u.left = s.left /\ u.pfxHdl = s.pfxHdl /\ u.num = s.num
        /\ u.staHdl = s.staHdl /\ Kept(s, u)
    BY NoteKeeps DEF Kept, Oddities
  <2> HIDE DEF u
  <2>2. /\ t \in Records /\ t.odd = u.odd /\ t.base = u.base /\ t.modem = TRUE
        /\ t.num = u.num /\ t.sta = u.sta /\ t.staHdl = u.staHdl /\ t.pfxHdl = u.pfxHdl
        /\ t.left = u.left /\ t.count = u.count
    BY <1>2, <2>1 DEF u, UlRefused, Records
  <2>3. Consistent(t)
    BY <2>1, <2>2 DEF Consistent
  <2>4. Kept(u, t)
    BY <2>1, <2>2, <2>3, KeptIf DEF StaRules, PfxRules
  <2> QED BY <2>1, <2>2, <2>4, KeptTrans
<1>3. CASE s.modem = FALSE /\ t = [s EXCEPT !.modem = TRUE, !.num = UlRules, !.count = @ + UlRules]
  <2> DEFINE n == s.count + UlRules
  <2>0. /\ n \in Int /\ s.count \in Int /\ s.left \in Nat /\ s.num = 0
        /\ t = [s EXCEPT !.modem = TRUE, !.num = UlRules, !.count = n]
    BY <1>3 DEF Records, Consistent
  <2> HIDE DEF n
  <2>1. /\ t \in Records /\ t.odd = s.odd /\ t.base = s.base /\ t.modem = TRUE
        /\ t.num = UlRules /\ t.sta = s.sta /\ t.staHdl = s.staHdl /\ t.pfxHdl = s.pfxHdl
        /\ t.left = s.left /\ t.count = n
    BY <2>0 DEF Records
  <2>2. Consistent(t)
    BY <2>1 DEF Consistent
  <2>3. StaRules(t) = StaRules(s) /\ PfxRules(t) = PfxRules(s)
        /\ {StaRules(s), PfxRules(s)} \subseteq Nat
    BY <2>1 DEF StaRules, PfxRules
  <2>5. t.count - (t.num + StaRules(t) + PfxRules(t)) - t.left
        = s.count - (s.num + StaRules(s) + PfxRules(s)) - s.left
    BY <2>0, <2>1, <2>2, <2>3 DEF n
  <2>4. Kept(s, t)
    BY <2>1, <2>2, <2>5, KeptIf
  <2> QED BY <2>1, <2>4
<1> QED BY <1>1, <1>2, <1>3 DEF UplinkEx, UlAdded, Records

LEMMA UplinkStaKeeps ==
  ASSUME NEW s \in Records, Consistent(s), NEW t \in UplinkSta(s)
  PROVE  Kept(s, t) /\ t.left = s.left /\ t.pfxHdl = s.pfxHdl
<1>1. CASE t = s
  BY <1>1, KeptSelf
<1>2. CASE s.sta = FALSE /\ t = [s EXCEPT !.sta = TRUE, !.staHdl = "live", !.count = @ + 1]
  <2> DEFINE n == s.count + 1
  <2>0. /\ n \in Int /\ s.count \in Int /\ s.num \in Nat /\ s.left \in Nat /\ s.staHdl # "live"
        /\ t = [s EXCEPT !.sta = TRUE, !.staHdl = "live", !.count = n]
    BY <1>2 DEF Records, Consistent
  <2> HIDE DEF n
  <2>1. /\ t \in Records /\ t.odd = s.odd /\ t.base = s.base /\ t.modem = s.modem
        /\ t.num = s.num /\ t.sta = TRUE /\ t.staHdl = "live" /\ t.pfxHdl = s.pfxHdl
        /\ t.left = s.left /\ t.count = n
    BY <2>0 DEF Records, Handles
  <2>2. Consistent(t)
    BY <2>1 DEF Consistent
  <2>3. StaRules(t) = 1 /\ StaRules(s) = 0 /\ PfxRules(t) = PfxRules(s)
        /\ PfxRules(s) \in Nat
    BY <2>0, <2>1 DEF StaRules, PfxRules
  <2>5. t.count - (t.num + StaRules(t) + PfxRules(t)) - t.left
        = s.count - (s.num + StaRules(s) + PfxRules(s)) - s.left
    BY <2>0, <2>1, <2>2, <2>3 DEF n
  <2>4. Kept(s, t)
    BY <2>1, <2>2, <2>5, KeptIf
  <2> QED BY <2>1, <2>4
<1> QED BY <1>1, <1>2 DEF UplinkSta, Records

LEMMA InstallPrefixKeeps ==
  ASSUME NEW s \in Records, Consistent(s), NEW t \in InstallPrefix(s)
  PROVE  Kept(s, t) /\ (t.left = s.left \/ s.pfxHdl = "live")
<1>1. CASE t = s
  BY <1>1, KeptSelf
<1>2. CASE t = [s EXCEPT !.pfxHdl = "live", !.count = @ + 1, !.left = @ + One(s.pfxHdl = "live")]
  <2> DEFINE n == s.count + 1
             l == s.left + PfxRules(s)
  <2>z. PfxRules(s) = One(s.pfxHdl = "live") /\ PfxRules(s) \in {0, 1} /\ StaRules(s) \in Nat
    BY DEF PfxRules, StaRules, One
  <2>0. /\ s.count \in Int /\ s.num \in Nat /\ s.left \in Nat
        /\ n \in Int /\ l \in Nat
        /\ t = [s EXCEPT !.pfxHdl = "live", !.count = n, !.left = l]
    BY <1>2, <2>z DEF Records
  <2> HIDE DEF n, l
  <2>1. /\ t \in Records /\ t.odd = s.odd /\ t.base = s.base /\ t.modem = s.modem
        /\ t.num = s.num /\ t.sta = s.sta /\ t.staHdl = s.staHdl /\ t.pfxHdl = "live"
        /\ t.left = l /\ t.count = n
    BY <2>0 DEF Records, Handles
  <2>2. Consistent(t)
    BY <2>1 DEF Consistent
  <2>3. StaRules(t) = StaRules(s) /\ PfxRules(t) = 1 /\ (PfxRules(s) = 0 \/ s.pfxHdl = "live")
    BY <2>1 DEF StaRules, PfxRules
  <2>5. t.count - (t.num + StaRules(t) + PfxRules(t)) - t.left
        = s.count - (s.num + StaRules(s) + PfxRules(s)) - s.left
    BY <2>z, <2>0, <2>1, <2>2, <2>3 DEF n, l
  <2>4. Kept(s, t)
    BY <2>1, <2>2, <2>5, KeptIf
  <2> QED BY <2>z, <2>0, <2>1, <2>3, <2>4 DEF l
<1> QED BY <1>1, <1>2 DEF InstallPrefix

\* rules are added: what is there stays counted
LEMMA InstallKeeps ==
  ASSUME NEW s \in Records, Consistent(s), NEW f \in Families, NEW isSta,
         NEW t \in Install(f, s, isSta), UlRules \in Nat
  PROVE  /\ Kept(s, t) /\ (t.left = s.left \/ s.pfxHdl = "live")
         /\ f = "v4" => t.pfxHdl = s.pfxHdl
<1>1. PICK u \in IF f = "v6" THEN InstallPrefix(s) ELSE {s} :
        t \in IF isSta THEN UplinkSta(u) ELSE UplinkEx(u)
  BY DEF Install
<1>2. /\ Kept(s, u) /\ (u.left = s.left \/ s.pfxHdl = "live")
      /\ f = "v4" => u.pfxHdl = s.pfxHdl
  BY <1>1, InstallPrefixKeeps, KeptSelf
<1>3. u \in Records /\ Consistent(u)
  BY <1>2 DEF Kept
<1>4. Kept(u, t) /\ t.left = u.left /\ t.pfxHdl = u.pfxHdl
  BY <1>1, <1>3, UplinkStaKeeps, UplinkExKeeps
<1> QED BY <1>2, <1>4, KeptTrans

-----------------------------------------------------------------------------
(* What deleting rules of the uplink does: none is added.                     *)
Shrunk(s, t) ==
  /\ Kept(s, t) /\ t.left = s.left /\ t.num \in {0, s.num}
  /\ t.staHdl = "live" => s.staHdl = "live"
  /\ t.pfxHdl = "live" => s.pfxHdl = "live"

LEMMA ShrunkTrans ==
  ASSUME NEW s \in Records, NEW t, NEW u, Shrunk(s, t), Shrunk(t, u)
  PROVE  Shrunk(s, u)
BY KeptTrans DEF Shrunk

LEMMA DeletePrefixKeeps ==
  ASSUME NEW s \in Records, Consistent(s), NEW t \in DeletePrefix(s)
  PROVE  Shrunk(s, t) /\ t.pfxHdl # "live"
<1>1. CASE t = s /\ s.pfxHdl = "stale"
  BY <1>1, KeptSelf DEF Shrunk
<1>2. CASE s.pfxHdl = "live" /\ t = [s EXCEPT !.pfxHdl = "stale", !.count = @ - 1]
  <2> DEFINE n == s.count - 1
  <2>0. /\ n \in Int /\ s.count \in Int /\ s.num \in Nat /\ s.left \in Nat
        /\ t = [s EXCEPT !.pfxHdl = "stale", !.count = n]
    BY <1>2 DEF Records
  <2> HIDE DEF n
  <2>1. /\ t \in Records /\ t.odd = s.odd /\ t.base = s.base /\ t.modem = s.modem
        /\ t.num = s.num /\ t.sta = s.sta /\ t.staHdl = s.staHdl /\ t.pfxHdl = "stale"
        /\ t.left = s.left /\ t.count = n
    BY <2>0 DEF Records, Handles
  <2>2. Consistent(t)
    BY <2>1 DEF Consistent
  <2>3. StaRules(t) = StaRules(s) /\ PfxRules(t) = 0 /\ PfxRules(s) = 1 /\ StaRules(s) \in Nat
    BY <1>2, <2>1 DEF StaRules, PfxRules
  <2>5. t.count - (t.num + StaRules(t) + PfxRules(t)) - t.left
        = s.count - (s.num + StaRules(s) + PfxRules(s)) - s.left
    BY <2>0, <2>1, <2>2, <2>3 DEF n
  <2>4. Kept(s, t)
    BY <2>1, <2>2, <2>5, KeptIf
  <2> QED BY <2>1, <2>4 DEF Shrunk
<1>3. CASE s.pfxHdl # "live" /\ t \in Unset(s)
  BY <1>3, UnsetKeeps DEF Shrunk
<1> QED BY <1>1, <1>2, <1>3 DEF DeletePrefix

LEMMA MissingKeeps ==
  ASSUME NEW s \in Records, Consistent(s), NEW u, u = s \/ u = Note(s, "missed")
  PROVE  /\ Shrunk(s, u) /\ u \in Records /\ Consistent(u) /\ u.pfxHdl = s.pfxHdl
         /\ u.num = s.num /\ u.staHdl = s.staHdl /\ (u # s => "missed" \in u.odd)
BY NoteKeeps, KeptSelf DEF Shrunk, Kept, Oddities

LEMMA UplinkGoneKeeps ==
  ASSUME NEW s \in Records, Consistent(s), NEW isSta, NEW t \in UplinkGone(s, isSta)
  PROVE  /\ Shrunk(s, t) /\ t.pfxHdl = s.pfxHdl
         /\ "missed" \in t.odd \/ (t.num = 0 /\ t.staHdl # "live")
<1> DEFINE u == IF s.staHdl = "live" THEN Note(s, "missed") ELSE s
           v == IF s.num > 0 THEN Note(s, "missed") ELSE s
<1>u. /\ Shrunk(s, u) /\ u \in Records /\ Consistent(u) /\ u.pfxHdl = s.pfxHdl
      /\ u.num = s.num /\ u.staHdl = s.staHdl /\ (s.staHdl = "live" => "missed" \in u.odd)
  BY MissingKeeps, NoteKeeps DEF Oddities
<1>v. /\ Shrunk(s, v) /\ v \in Records /\ Consistent(v) /\ v.pfxHdl = s.pfxHdl
      /\ v.num = s.num /\ v.staHdl = s.staHdl /\ (s.num > 0 => "missed" \in v.odd)
  BY MissingKeeps, NoteKeeps DEF Oddities
<1>n. s.num \in Nat
  BY DEF Records
<1>0. \/ s.num = 0 /\ t = u
      \/ s.num # 0 /\ s.modem /\ t = [u EXCEPT !.num = 0, !.modem = FALSE, !.count = @ - s.num]
      \/ s.staHdl = "live" /\ t = [v EXCEPT !.staHdl = "stale", !.sta = FALSE, !.count = @ - 1]
      \/ s.staHdl # "live" /\ t = v
      \/ s.staHdl # "live" /\ t \in Unset(v)
  BY DEF UplinkGone
<1> HIDE DEF u, v
<1>1. CASE s.num = 0 /\ t = u
  BY <1>1, <1>u
<1>2. CASE s.num # 0 /\ t = [u EXCEPT !.num = 0, !.modem = FALSE, !.count = @ - s.num]
  <2> DEFINE n == u.count - s.num
  <2>0. /\ n \in Int /\ u.count \in Int /\ u.num \in Nat /\ u.left \in Nat
        /\ t = [u EXCEPT !.num = 0, !.modem = FALSE, !.count = n]
    BY <1>2, <1>u, <1>n DEF Records
  <2> HIDE DEF n
  <2>1. /\ t \in Records /\ t.odd = u.odd /\ t.base = u.base /\ t.modem = FALSE
        /\ t.num = 0 /\ t.sta = u.sta /\ t.staHdl = u.staHdl /\ t.pfxHdl = u.pfxHdl
        /\ t.left = u.left /\ t.count = n
    BY <1>u, <2>0 DEF Records
  <2>2. Consistent(t)
    BY <1>u, <2>1 DEF Consistent
  <2>3. StaRules(t) = StaRules(u) /\ PfxRules(t) = PfxRules(u)
        /\ {StaRules(u), PfxRules(u)} \subseteq Nat
    BY <2>1 DEF StaRules, PfxRules
  <2>5. t.count - (t.num + StaRules(t) + PfxRules(t)) - t.left
        = u.count - (u.num + StaRules(u) + PfxRules(u)) - u.left
    BY <1>u, <2>0, <2>1, <2>2, <2>3 DEF n
  <2>4. Kept(u, t)
    BY <1>u, <2>1, <2>2, <2>5, KeptIf
  <2> QED BY <1>u, <2>1, <2>4, ShrunkTrans DEF Shrunk
<1>3. CASE s.staHdl = "live" /\ t = [v EXCEPT !.staHdl = "stale", !.sta = FALSE, !.count = @ - 1]
  <2> DEFINE n == v.count - 1
  <2>0. /\ n \in Int /\ v.count \in Int /\ v.num \in Nat /\ v.left \in Nat
        /\ t = [v EXCEPT !.staHdl = "stale", !.sta = FALSE, !.count = n]
    BY <1>3, <1>v DEF Records
  <2> HIDE DEF n
  <2>1. /\ t \in Records /\ t.odd = v.odd /\ t.base = v.base /\ t.modem = v.modem
        /\ t.num = v.num /\ t.sta = FALSE /\ t.staHdl = "stale" /\ t.pfxHdl = v.pfxHdl
        /\ t.left = v.left /\ t.count = n
    BY <1>v, <2>0 DEF Records, Handles
  <2>2. Consistent(t)
    BY <1>v, <2>1 DEF Consistent
  <2>3. StaRules(t) = 0 /\ StaRules(v) = 1 /\ PfxRules(t) = PfxRules(v) /\ PfxRules(v) \in Nat
    BY <1>v, <1>3, <2>1 DEF StaRules, PfxRules
  <2>5. t.count - (t.num + StaRules(t) + PfxRules(t)) - t.left
        = v.count - (v.num + StaRules(v) + PfxRules(v)) - v.left
    BY <1>v, <2>0, <2>1, <2>2, <2>3 DEF n
  <2>4. Kept(v, t)
    BY <1>v, <2>1, <2>2, <2>5, KeptIf
  <2> QED BY <1>v, <1>n, <2>1, <2>4, ShrunkTrans DEF Shrunk
<1>4. CASE s.staHdl # "live" /\ t = v
  BY <1>4, <1>v, <1>n
<1>5. CASE s.staHdl # "live" /\ t \in Unset(v)
  <2>1. /\ Shrunk(v, t) /\ t.pfxHdl = v.pfxHdl /\ t.num = v.num /\ t.staHdl = v.staHdl
        /\ v.odd \subseteq t.odd
    BY <1>5, <1>v, UnsetKeeps DEF Shrunk, Kept
  <2> QED BY <1>5, <1>v, <1>n, <2>1, ShrunkTrans
<1> QED BY <1>0, <1>1, <1>2, <1>3, <1>4, <1>5

\* rules are deleted: none of the uplink is left, or it shows
LEMMA RemoveKeeps ==
  ASSUME NEW s \in Records, Consistent(s), NEW f \in Families, NEW isSta,
         NEW t \in Remove(f, s, isSta), f = "v4" => s.pfxHdl # "live"
  PROVE  /\ Shrunk(s, t) /\ t.pfxHdl # "live"
         /\ Uplinked(t) = 0 \/ "missed" \in t.odd
         /\ Uplinked(s) = 0 => Uplinked(t) = 0
<1>1. PICK u \in IF f = "v6" THEN DeletePrefix(s) ELSE {s} : t \in UplinkGone(u, isSta)
  BY DEF Remove
<1>2. Shrunk(s, u) /\ u.pfxHdl # "live"
  BY <1>1, DeletePrefixKeeps, KeptSelf DEF Shrunk, Families
<1>3. u \in Records /\ Consistent(u)
  BY <1>2 DEF Shrunk, Kept
<1>4. /\ Shrunk(u, t) /\ t.pfxHdl = u.pfxHdl
      /\ "missed" \in t.odd \/ (t.num = 0 /\ t.staHdl # "live")
  BY <1>1, <1>3, UplinkGoneKeeps
<1>5. t \in Records /\ Shrunk(s, t)
  BY <1>2, <1>4, ShrunkTrans DEF Shrunk, Kept
<1>6. Uplinked(s) = 0 => Uplinked(t) = 0
  BY <1>5, NoUplink DEF Shrunk
<1> QED BY <1>2, <1>4, <1>5, <1>6, NoUplink

-----------------------------------------------------------------------------
(* The invariant. *)

Events == [ev : {"up", "down"}, fam : Families, sta : BOOLEAN] \union {[ev |-> "delete_self"]}
WanRecords == [up : BOOLEAN, hollow : BOOLEAN, via : WanKinds \union {"none"}]

UlType ==
  /\ fams \subseteq Families /\ wan \in [Families -> WanRecords] /\ sta \in BOOLEAN
  /\ queue = <<>> \/ \E e \in Events : queue = <<e>>
  /\ nat \subseteq Families /\ ipType \subseteq Families
  /\ up \subseteq Families /\ down \subseteq Families
  /\ dft \in Nat /\ sw \in BOOLEAN /\ flt \in [Families -> Records]

(* The one event under way: a WAN that came up is up, or hollow, until the    *)
(* event is handled.                                                          *)
EventTrue ==
  \A e : queue = <<e>> =>
    /\ e.ev = "up" => wan[e.fam].up = TRUE \/ wan[e.fam].hollow = TRUE
    /\ e.ev = "delete_self" => phase # "active"

(* Rules go with addresses: a family without one has none, and one that has   *)
(* an address but not all base rules was refused.                             *)
RulesGoWithAddress ==
  \A f \in Families :
    /\ Consistent(flt[f])
    /\ f = "v4" => flt[f].pfxHdl # "live"
    /\ f \notin ipType => Uplinked(flt[f]) = 0 /\ flt[f].base = {}
    /\ f = "v6" /\ flt[f].base # {} => dft # 0
    /\ f = "v6" /\ dft # 0 => f \in ipType
    /\ flt[f].base \subseteq BaseOf(f)
    /\ f \in ipType /\ flt[f].base # BaseOf(f) => "refused" \in flt[f].odd

OffWhenDown == phase # "active" => ipType = {} /\ down = {} /\ sw = FALSE /\ dft = 0

UlInv ==
  /\ UlType /\ EventTrue /\ RulesGoWithAddress /\ OffWhenDown
  /\ UplinkFollowsOffload /\ UpstreamTrue /\ LeavesNothing /\ FilterCountExact

Blame == {"refused", "missed", "hollow", "early"}

\* LeavesNothing and FilterCountExact in the terms of the lemmas
LEMMA Accounts ==
  /\ LeavesNothing <=> ((\E f \in Families : flt[f].left > 0) =>
                          \E g \in Families, b \in Blame : b \in flt[g].odd)
  /\ FilterCountExact <=> \A f \in Families :
       flt[f].count = Installed(flt[f]) + flt[f].left + One(sw) \/ "blind" \in flt[f].odd
BY DEF LeavesNothing, FilterCountExact, Blame

\* nothing but events and the WAN changes
LEMMA SameRules ==
  ASSUME UlInv, UNCHANGED <<flt, ipType, dft, sw>>
  PROVE  RulesGoWithAddress' /\ LeavesNothing' /\ FilterCountExact'
BY DEF UlInv, RulesGoWithAddress, LeavesNothing, FilterCountExact

(* An operation on the rules of one family.                                   *)
LEMMA OneFamily ==
  ASSUME UlInv, NEW f \in Families, NEW t, flt' = [flt EXCEPT ![f] = t],
         Kept(flt[f], t), f = "v4" => t.pfxHdl # "live",
         f \in ipType \/ Uplinked(t) = 0,
         t.left = flt[f].left \/ "missed" \in t.odd,
         UNCHANGED <<ipType, dft, sw>>
  PROVE  /\ flt' \in [Families -> Records] /\ RulesGoWithAddress'
         /\ LeavesNothing' /\ FilterCountExact'
         /\ flt'[f] = t /\ \A g \in Families : g # f => flt'[g] = flt[g]
         /\ \A g \in Families : flt[g].odd \subseteq flt'[g].odd
<1>1. flt \in [Families -> Records] /\ sw \in BOOLEAN
  BY DEF UlInv, UlType
<1>2. t \in Records /\ Consistent(t) /\ t.base = flt[f].base /\ flt[f].odd \subseteq t.odd
  BY DEF Kept
<1>3. /\ flt' \in [Families -> Records] /\ flt'[f] = t
      /\ \A g \in Families : g # f => flt'[g] = flt[g]
  BY <1>1, <1>2
<1>4. \A g \in Families : flt[g].odd \subseteq flt'[g].odd
  BY <1>2, <1>3
<1>5. RulesGoWithAddress'
  BY <1>2, <1>3 DEF UlInv, RulesGoWithAddress
<1>6. LeavesNothing'
  <2>1. ASSUME \E g \in Families : flt'[g].left > 0
        PROVE  \E g \in Families, b \in Blame : b \in flt'[g].odd
    <3>1. CASE "missed" \in t.odd
      BY <1>3, <3>1 DEF Blame
    <3>2. CASE t.left = flt[f].left
      <4>1. \E g \in Families : flt[g].left > 0
        BY <1>3, <2>1, <3>2
      <4>2. \E g \in Families, b \in Blame : b \in flt[g].odd
        BY <4>1 DEF UlInv, LeavesNothing, Blame
      <4> QED BY <1>4, <4>2
    <3> QED BY <3>1, <3>2
  <2> QED BY <2>1 DEF LeavesNothing, Blame
<1>7. FilterCountExact'
  <2>1. One(sw) \in {0, 1} /\ One(sw)' = One(sw)
    BY DEF One
  <2>2. flt[f].count = Installed(flt[f]) + flt[f].left + One(sw) \/ "blind" \in flt[f].odd
    BY DEF UlInv, FilterCountExact
  <2>3. t.count = Installed(t) + t.left + One(sw) \/ "blind" \in t.odd
    BY <1>1, <1>2, <2>1, <2>2, InstalledType DEF Kept, Balanced
  <2>4. ASSUME NEW g \in Families
        PROVE  flt'[g].count = Installed(flt'[g]) + flt'[g].left + One(sw)
               \/ "blind" \in flt'[g].odd
    BY <1>3, <2>3 DEF UlInv, FilterCountExact
  <2> QED BY <2>4, <2>1 DEF FilterCountExact
<1> QED BY <1>3, <1>4, <1>5, <1>6, <1>7

-----------------------------------------------------------------------------
(* The WAN. *)

LEMMA WanFields ==
  ASSUME NEW w \in WanRecords, NEW m \in WanKinds, NEW taken \in BOOLEAN
  PROVE  /\ Added(w, m, taken) \in WanRecords /\ Completed(w) \in WanRecords
         /\ Ended(w) \in WanRecords
         /\ Added(w, m, taken).up = TRUE \/ Added(w, m, taken).hollow = TRUE
         /\ Completed(w).up = TRUE
BY DEF WanRecords, Added, Completed, Ended, WanKinds

LEMMA WanStep ==
  ASSUME UlInv, WanMoves
  PROVE  UlInv'
<1>0. /\ UlType /\ Quiet /\ queue = <<>> /\ UNCHANGED <<fams, ifaceVars, flt>>
      /\ RulesGoWithAddress' /\ LeavesNothing' /\ FilterCountExact'
  <2>1. Quiet /\ UNCHANGED <<fams, ifaceVars, flt>>
    BY DEF WanMoves, WanRouteAdd, WanHeaderAdd, WanDown, WanOtherFamily
  <2> QED BY <2>1, SameRules DEF UlInv, Quiet, ifaceVars
<1>1. OffWhenDown' /\ UplinkFollowsOffload'
  BY <1>0 DEF UlInv, OffWhenDown, UplinkFollowsOffload, ifaceVars
<1>2. fams \subseteq Families /\ wan \in [Families -> WanRecords]
  BY <1>0 DEF UlType
<1>3. \A f \in up \ WanUp : phase = "active" => f \in Hollow \/ "early" \in flt[f].odd
  BY <1>0 DEF UlInv, UpstreamTrue, Coming
<1>4. ASSUME NEW f \in Families, NEW m \in WanKinds, NEW taken \in BOOLEAN, WanRouteAdd(f, m, taken)
      PROVE  UlInv'
  <2> DEFINE e == [ev |-> "up", fam |-> f, sta |-> (m = "sta")]
  <2>1. queue' = <<e>> /\ e \in Events
    BY <1>0, <1>4 DEF WanRouteAdd, Post, Events
  <2>2. /\ wan' \in [Families -> WanRecords]
        /\ wan'[f].up = TRUE \/ wan'[f].hollow = TRUE
        /\ \A g \in Families : g # f => wan'[g] = wan[g]
    BY <1>2, <1>4, WanFields DEF WanRouteAdd
  <2>3. UlType'
    <3>1. sta' \in BOOLEAN
      BY <1>4 DEF WanRouteAdd
    <3> HIDE DEF e
    <3> QED BY <1>0, <2>1, <2>2, <3>1 DEF UlType, ifaceVars
  <2>4. EventTrue'
    BY <2>1, <2>2 DEF EventTrue
  <2>5. UpstreamTrue'
    BY <1>0, <1>2, <1>3, <2>2 DEF UpstreamTrue, WanUp, Hollow, ifaceVars
  <2> QED BY <1>0, <1>1, <2>3, <2>4, <2>5 DEF UlInv
<1>5. ASSUME NEW f \in Families, WanHeaderAdd(f) PROVE UlInv'
  <2>2. /\ wan' \in [Families -> WanRecords] /\ wan'[f].up = TRUE /\ queue' = <<>>
        /\ \A g \in Families : g # f => wan'[g] = wan[g]
    BY <1>0, <1>2, <1>5, WanFields DEF WanHeaderAdd, WanKinds
  <2>3. UlType'
    BY <1>0, <1>5, <2>2 DEF UlType, ifaceVars, WanHeaderAdd
  <2>4. EventTrue'
    BY <2>2 DEF EventTrue
  <2>5. UpstreamTrue'
    BY <1>0, <1>2, <1>3, <2>2 DEF UpstreamTrue, WanUp, Hollow, ifaceVars
  <2> QED BY <1>0, <1>1, <2>3, <2>4, <2>5 DEF UlInv
<1>6. ASSUME NEW f \in Families, NEW m \in WanKinds, WanDown(f, m) PROVE UlInv'
  <2> DEFINE e == [ev |-> "down", fam |-> f, sta |-> (m = "sta")]
  <2>1. queue' = <<e>> /\ e \in Events /\ e.ev = "down" /\ e.fam = f
    BY <1>0, <1>6 DEF WanDown, Post, Events
  <2> HIDE DEF e
  <2>2. /\ wan' \in [Families -> WanRecords]
        /\ \A g \in Families : g # f => wan'[g] = wan[g]
    BY <1>2, <1>6, WanFields DEF WanDown, WanKinds
  <2>3. UlType'
    <3>1. sta' = sta
      BY <1>6 DEF WanDown
    <3> QED BY <1>0, <2>1, <2>2, <3>1 DEF UlType, ifaceVars
  <2>4. EventTrue'
    BY <2>1 DEF EventTrue
  <2>5. Coming(f)'
    <3>1. 1 \in DOMAIN queue' /\ queue'[1] = e
      BY <2>1
    <3> QED BY <2>1, <3>1 DEF Coming
  <2>6. UpstreamTrue'
    BY <1>0, <1>2, <1>3, <2>2, <2>5 DEF UpstreamTrue, WanUp, Hollow, ifaceVars
  <2> QED BY <1>0, <1>1, <2>3, <2>4, <2>6 DEF UlInv
<1>7. ASSUME NEW m \in WanKinds, WanOtherFamily(m) PROVE UlInv'
  <2>1. UNCHANGED <<wan, queue>> /\ sta' \in BOOLEAN
    BY <1>7 DEF WanOtherFamily
  <2>2. UlType' /\ EventTrue'
    BY <1>0, <2>1 DEF UlType, EventTrue, ifaceVars
  <2>3. UpstreamTrue'
    BY <1>0, <1>3, <2>1 DEF UpstreamTrue, WanUp, Hollow, ifaceVars
  <2> QED BY <1>0, <1>1, <2>2, <2>3 DEF UlInv
<1> QED BY <1>2, <1>4, <1>5, <1>6, <1>7 DEF WanMoves

-----------------------------------------------------------------------------
(* The events of the queue. *)

LEMMA TakenFacts ==
  ASSUME UlType, queue # <<>>, queue' = Tail(queue)
  PROVE  /\ queue' = <<>> /\ Head(queue) \in Events /\ queue = <<Head(queue)>>
         /\ EventTrue' /\ ~ \E f : Coming(f)'
         /\ \A f : Coming(f) => Head(queue).ev = "down" /\ Head(queue).fam = f
<1>1. PICK e \in Events : queue = <<e>>
  BY DEF UlType
<1>2. queue' = <<>> /\ Head(queue) = e
  BY <1>1
<1>3. EventTrue'
  BY <1>2 DEF EventTrue
<1>4. ~ \E f : Coming(f)'
  <2>1. DOMAIN queue' = {}
    BY <1>2
  <2> QED BY <2>1 DEF Coming
<1>5. \A f : Coming(f) => Head(queue).ev = "down" /\ Head(queue).fam = f
  <2>1. DOMAIN queue = {1} /\ queue[1] = e
    BY <1>1
  <2> QED BY <1>2, <2>1 DEF Coming
<1> QED BY <1>1, <1>2, <1>3, <1>4, <1>5

\* the event of a WAN that came up is taken, with the family's rules or without
Settled == UNCHANGED <<wanVars, born, nat, ipType, down, dft, sw>>
LEMMA SeenStep ==
  ASSUME UlInv, queue # <<>>, queue' = Tail(queue), Settled, phase' = phase,
         NEW f \in Families, Head(queue).ev = "up", Head(queue).fam = f,
         phase = "active", f \in ipType \ up, up' = up \union {f},
         \/ f \notin down /\ flt' = flt
         \/ \E t : /\ flt' = [flt EXCEPT ![f] = t] /\ Kept(flt[f], t)
                   /\ t.left = flt[f].left \/ flt[f].pfxHdl = "live"
                   /\ f = "v4" => t.pfxHdl = flt[f].pfxHdl
                   /\ f \in down
  PROVE  UlInv'
<1>0. UlType /\ flt \in [Families -> Records] /\ UNCHANGED <<fams, wan, sta, nat, ipType, down, dft, sw>>
  BY DEF UlInv, UlType, Settled, wanVars
<1>1. /\ queue' = <<>> /\ Head(queue) \in Events /\ queue = <<Head(queue)>>
      /\ EventTrue' /\ ~ \E g : Coming(g)'
      /\ \A g : ~Coming(g)
  BY <1>0, TakenFacts
<1>2. wan[f].up = TRUE \/ wan[f].hollow = TRUE
  BY <1>1 DEF UlInv, EventTrue
<1>3. Uplinked(flt[f]) = 0 \/ "missed" \in flt[f].odd
  BY DEF UlInv, UplinkFollowsOffload
<1>4. /\ flt' \in [Families -> Records] /\ RulesGoWithAddress'
      /\ LeavesNothing' /\ FilterCountExact'
      /\ \A g \in Families : g # f => flt'[g] = flt[g]
      /\ f \notin down => flt'[f] = flt[f]
      /\ \A g \in Families : flt[g].odd \subseteq flt'[g].odd
  <2>1. CASE f \notin down /\ flt' = flt
    BY <1>0, <2>1, SameRules
  <2>2. ASSUME NEW t, flt' = [flt EXCEPT ![f] = t], Kept(flt[f], t),
               t.left = flt[f].left \/ flt[f].pfxHdl = "live",
               f = "v4" => t.pfxHdl = flt[f].pfxHdl, f \in down
        PROVE  /\ flt' \in [Families -> Records] /\ RulesGoWithAddress'
               /\ LeavesNothing' /\ FilterCountExact'
               /\ \A g \in Families : g # f => flt'[g] = flt[g]
               /\ \A g \in Families : flt[g].odd \subseteq flt'[g].odd
    <3>1. f = "v4" => t.pfxHdl # "live"
      BY <2>2 DEF UlInv, RulesGoWithAddress
    <3>2. flt[f].pfxHdl = "live" => "missed" \in t.odd
      BY <1>0, <1>3, <2>2, NoUplink DEF Kept
    <3> QED BY <1>0, <2>2, <3>1, <3>2, OneFamily
  <2> QED BY <2>1, <2>2
<1>5. UlType'
  BY <1>0, <1>1, <1>4 DEF UlType
<1>6. OffWhenDown'
  BY <1>0 DEF OffWhenDown
<1>7. UplinkFollowsOffload'
  BY <1>0, <1>3, <1>4 DEF UlInv, UplinkFollowsOffload
<1>8. UpstreamTrue'
  <2>1. ASSUME NEW g \in up' \ WanUp' PROVE g \in Hollow' \/ "early" \in flt'[g].odd
    <3>0. g \in Families
      BY <1>0, <2>1 DEF UlType
    <3>1. CASE g = f
      BY <1>0, <1>2, <2>1, <3>0, <3>1 DEF WanUp, Hollow
    <3>2. CASE g # f
      <4>1. g \in up \ WanUp
        BY <1>0, <2>1, <3>2 DEF WanUp
      <4>2. g \in Hollow \/ "early" \in flt[g].odd
        BY <1>1, <4>1 DEF UlInv, UpstreamTrue
      <4> QED BY <1>0, <1>4, <3>0, <4>2 DEF Hollow
    <3> QED BY <3>1, <3>2
  <2> QED BY <2>1 DEF UpstreamTrue
<1> QED BY <1>1, <1>4, <1>5, <1>6, <1>7, <1>8 DEF UlInv

\* the event of a WAN that is gone is taken
LEMMA LostStep ==
  ASSUME UlInv, queue # <<>>, queue' = Tail(queue), Settled, phase' = phase,
         Head(queue).ev = "down", HandleWanDownTether(Head(queue))
  PROVE  UlInv'
<1> DEFINE f == Head(queue).fam
<1>0. UlType /\ flt \in [Families -> Records] /\ UNCHANGED <<fams, wan, sta, nat, ipType, down, dft, sw>>
  BY DEF UlInv, UlType, Settled, wanVars
<1>1. /\ queue' = <<>> /\ Head(queue) \in Events /\ queue = <<Head(queue)>>
      /\ EventTrue' /\ ~ \E g : Coming(g)'
      /\ \A g : Coming(g) => g = f
  BY <1>0, TakenFacts
<1>2. f \in Families
  BY <1>1 DEF Events
<1>3. OffWhenDown'
  BY <1>0 DEF UlInv, OffWhenDown
<1>4. \A g \in up : phase = "active" /\ g # f /\ g \notin WanUp => g \in Hollow \/ "early" \in flt[g].odd
  BY <1>1 DEF UlInv, UpstreamTrue
<1>5. CASE phase = "active" /\ f \in ipType \intersect up
  <2>1. up' = up \ {f}
    BY <1>5 DEF HandleWanDownTether
  <2>2. /\ flt' \in [Families -> Records] /\ RulesGoWithAddress'
        /\ LeavesNothing' /\ FilterCountExact'
        /\ \A g \in Families : g # f => flt'[g] = flt[g]
        /\ Uplinked(flt'[f]) = 0 \/ "missed" \in flt'[f].odd
    <3>1. CASE f \notin down
      <4>1. flt' = flt
        BY <1>5, <3>1 DEF HandleWanDownTether
      <4> QED BY <1>0, <1>2, <1>5, <3>1, <4>1, SameRules DEF UlInv, UplinkFollowsOffload
    <3>2. CASE f \in down
      <4>1. PICK t \in Remove(f, flt[f], Head(queue).sta) : flt' = [flt EXCEPT ![f] = t]
        BY <1>5, <3>2 DEF HandleWanDownTether
      <4>2. flt[f] \in Records /\ Consistent(flt[f]) /\ (f = "v4" => flt[f].pfxHdl # "live")
        BY <1>0, <1>2 DEF UlInv, RulesGoWithAddress
      <4> HIDE DEF f
      <4>3. /\ Kept(flt[f], t) /\ t.left = flt[f].left /\ t.pfxHdl # "live"
            /\ Uplinked(t) = 0 \/ "missed" \in t.odd
        BY <1>2, <4>1, <4>2, RemoveKeeps DEF Shrunk
      <4> QED BY <1>0, <1>2, <1>5, <4>1, <4>3, OneFamily
    <3> QED BY <3>1, <3>2
  <2>3. UlType'
    BY <1>0, <1>1, <2>1, <2>2 DEF UlType
  <2>4. UplinkFollowsOffload'
    BY <1>0, <1>2, <1>5, <2>1, <2>2 DEF UlInv, UplinkFollowsOffload
  <2>5. UpstreamTrue'
    BY <1>0, <1>4, <1>5, <2>1, <2>2 DEF UlType, UpstreamTrue, WanUp, Hollow
  <2> QED BY <1>1, <1>3, <2>2, <2>3, <2>4, <2>5 DEF UlInv
<1>6. CASE ~(phase = "active" /\ f \in ipType \intersect up) /\ ~(phase = "active" /\ f \in up)
  <2>1. up' = up /\ flt' = flt
    BY <1>6 DEF HandleWanDownTether
  <2>2. RulesGoWithAddress' /\ LeavesNothing' /\ FilterCountExact'
    BY <1>0, <2>1, SameRules
  <2>3. UlType'
    BY <1>0, <1>1, <2>1 DEF UlType
  <2>4. UplinkFollowsOffload'
    BY <1>0, <2>1 DEF UlInv, UplinkFollowsOffload
  <2>5. UpstreamTrue'
    BY <1>0, <1>4, <1>6, <2>1 DEF UpstreamTrue, WanUp, Hollow
  <2> QED BY <1>1, <1>3, <2>2, <2>3, <2>4, <2>5 DEF UlInv
<1>7. CASE ~(phase = "active" /\ f \in ipType \intersect up) /\ phase = "active" /\ f \in up
  <2>1. up' = up /\ flt' = [flt EXCEPT ![f] = Note(flt[f], "early")]
    BY <1>0, <1>2, <1>7 DEF HandleWanDownTether
  <2> DEFINE t == Note(flt[f], "early")
  <2>2. flt[f] \in Records /\ Consistent(flt[f]) /\ (f = "v4" => flt[f].pfxHdl # "live")
        /\ f \notin ipType /\ Uplinked(flt[f]) = 0
    BY <1>0, <1>2, <1>7 DEF UlInv, RulesGoWithAddress
  <2> HIDE DEF f
  <2>3. /\ Kept(flt[f], t) /\ t.left = flt[f].left /\ t.pfxHdl = flt[f].pfxHdl
        /\ Uplinked(t) = 0 /\ "early" \in t.odd
    BY <2>2, NoteKeeps DEF Oddities
  <2> HIDE DEF t
  <2>4. /\ flt' \in [Families -> Records] /\ RulesGoWithAddress'
        /\ LeavesNothing' /\ FilterCountExact' /\ flt'[f] = t
        /\ \A g \in Families : g # f => flt'[g] = flt[g]
    BY <1>0, <1>2, <2>1, <2>2, <2>3, OneFamily DEF t
  <2>5. UlType'
    BY <1>0, <1>1, <2>1, <2>4 DEF UlType
  <2>6. UplinkFollowsOffload'
    BY <1>0, <2>1, <2>3, <2>4 DEF UlInv, UplinkFollowsOffload
  <2>7. UpstreamTrue'
    BY <1>0, <1>4, <1>7, <2>1, <2>3, <2>4 DEF UlType, UpstreamTrue, WanUp, Hollow
  <2> QED BY <1>1, <1>3, <2>4, <2>5, <2>6, <2>7 DEF UlInv
<1> QED BY <1>5, <1>6, <1>7

\* an event that changes nothing but the phase of an interface that is down
LEMMA IdleStep ==
  ASSUME UlInv, queue # <<>>, queue' = Tail(queue), Settled, Head(queue).ev # "down",
         UNCHANGED <<up, flt>>,
         phase' = phase \/ (Head(queue).ev = "delete_self" /\ phase' = "none")
  PROVE  UlInv'
<1>0. UlType /\ UNCHANGED <<fams, wan, sta, nat, ipType, down, dft, sw>>
  BY DEF UlInv, Settled, wanVars
<1>1. /\ queue' = <<>> /\ queue = <<Head(queue)>> /\ EventTrue' /\ \A g : ~Coming(g)
  BY <1>0, TakenFacts
<1>2. phase' = "active" => phase = "active"
  OBVIOUS
<1>3. phase' # "active" => phase # "active"
  BY <1>1 DEF UlInv, EventTrue
<1>4. RulesGoWithAddress' /\ LeavesNothing' /\ FilterCountExact'
  BY <1>0, SameRules
<1>5. UlType' /\ OffWhenDown' /\ UplinkFollowsOffload'
  BY <1>0, <1>1, <1>2, <1>3 DEF UlInv, UlType, OffWhenDown, UplinkFollowsOffload
<1>6. UpstreamTrue'
  BY <1>0, <1>1, <1>2 DEF UlInv, UpstreamTrue, WanUp, Hollow
<1> QED BY <1>1, <1>4, <1>5, <1>6 DEF UlInv

LEMMA EventStep ==
  ASSUME UlInv, Process \/ WlanProcess
  PROVE  UlInv'
<1> DEFINE e == Head(queue)
<1>0. queue # <<>> /\ queue' = Tail(queue) /\ Settled /\ UlRules \in Nat
  BY LanUplinkAssumption DEF Process, WlanProcess, Settled, LanUplinkAssumption
<1>1. /\ e \in Events /\ (e.ev \in {"up", "down"} => e.fam \in Families)
  BY <1>0, TakenFacts DEF UlInv, Events
<1>a. flt \in [Families -> Records] /\ \A f \in Families : Consistent(flt[f])
  BY DEF UlInv, UlType, RulesGoWithAddress
<1>2. ASSUME e.ev = "up", e.fam = "v4", phase' = phase,
             HandleWanUpTether(e) \/ WlanWanUpTether(e)
      PROVE  UlInv'
  <2>1. CASE UNCHANGED <<up, flt>>
    BY <1>0, <1>2, <2>1, IdleStep
  <2>2. CASE phase = "active" /\ "v4" \in ipType \ up /\ up' = up \union {"v4"}
             /\ "v4" \notin down /\ flt' = flt
    BY <1>0, <1>1, <1>2, <2>2, SeenStep
  <2>3. ASSUME phase = "active", "v4" \in ipType \ up, up' = up \union {"v4"}, "v4" \in down,
               NEW t, flt' = [flt EXCEPT !["v4"] = t], Kept(flt["v4"], t),
               t.left = flt["v4"].left, t.pfxHdl = flt["v4"].pfxHdl
        PROVE  UlInv'
    BY <1>0, <1>1, <1>2, <2>3, SeenStep
  <2>4. flt["v4"] \in Records /\ Consistent(flt["v4"]) /\ "v4" # "v6"
    BY <1>a DEF Families
  <2>5. \A t \in UplinkEx(flt["v4"]) \union UplinkSta(flt["v4"]) :
          Kept(flt["v4"], t) /\ t.left = flt["v4"].left /\ t.pfxHdl = flt["v4"].pfxHdl
    BY <1>0, <2>4, UplinkExKeeps, UplinkStaKeeps
  <2>6. Install("v4", flt["v4"], e.sta) \subseteq UplinkEx(flt["v4"]) \union UplinkSta(flt["v4"])
    BY <2>4 DEF Install
  <2> QED BY <1>2, <2>1, <2>2, <2>3, <2>5, <2>6 DEF HandleWanUpTether, WlanWanUpTether
<1>3. ASSUME e.ev = "up", e.fam = "v6", phase' = phase, HandleWanUpV6Tether(e)
      PROVE  UlInv'
  <2>1. CASE UNCHANGED <<up, flt>>
    BY <1>0, <1>3, <2>1, IdleStep
  <2>2. CASE phase = "active" /\ "v6" \in ipType \ up /\ up' = up \union {"v6"}
             /\ "v6" \notin down /\ flt' = flt
    BY <1>0, <1>1, <1>3, <2>2, SeenStep
  <2>3. ASSUME phase = "active", "v6" \in ipType \ up, up' = up \union {"v6"}, "v6" \in down,
               NEW t \in Install("v6", flt["v6"], e.sta), flt' = [flt EXCEPT !["v6"] = t]
        PROVE  UlInv'
    <3>1. Kept(flt["v6"], t) /\ (t.left = flt["v6"].left \/ flt["v6"].pfxHdl = "live")
      BY <1>0, <1>1, <1>3, <1>a, <2>3, InstallKeeps
    <3> QED BY <1>0, <1>1, <1>3, <2>3, <3>1, SeenStep
  <2> QED BY <1>3, <2>1, <2>2, <2>3 DEF HandleWanUpV6Tether
<1>4. ASSUME e.ev = "down", HandleWanDownTether(e), phase' = phase PROVE UlInv'
  BY <1>0, <1>4, LostStep
<1>5. ASSUME e.ev = "delete_self", DeleteSelf PROVE UlInv'
  BY <1>0, <1>5, IdleStep DEF DeleteSelf
<1>6. \/ e.ev = "up" /\ e.fam = "v4" /\ phase' = phase
         /\ (HandleWanUpTether(e) \/ WlanWanUpTether(e))
      \/ e.ev = "up" /\ e.fam = "v6" /\ phase' = phase /\ HandleWanUpV6Tether(e)
      \/ e.ev = "down" /\ phase' = phase /\ HandleWanDownTether(e)
      \/ e.ev = "delete_self" /\ DeleteSelf
  BY DEF Process, WlanProcess, WlanWanUpV6Tether, WlanWanDownTether, WlanDeleteSelf
<1> QED BY <1>2, <1>3, <1>4, <1>5, <1>6

-----------------------------------------------------------------------------
(* Addresses, offload and software routing. *)

\* nothing is under way, and the WAN stays as it is
Calm == Quiet /\ UNCHANGED <<wanVars, queue, born>>
LEMMA CalmFacts ==
  ASSUME UlInv, Calm, phase' = phase
  PROVE  /\ EventTrue' /\ (\A f : ~Coming(f)) /\ UNCHANGED <<fams, wan, sta>>
         /\ WanUp' = WanUp /\ Hollow' = Hollow /\ queue' = <<>>
BY DEF UlInv, Calm, Quiet, wanVars, EventTrue, Coming, WanUp, Hollow

\* a family gets an address, or is refused one
LEMMA AddressStep ==
  ASSUME UlInv, NEW f \in Families, HandleAddrAdd(f)
  PROVE  UlInv'
<1> DEFINE t == flt'[f]
<1>0. /\ UlType /\ flt \in [Families -> Records] /\ sw \in BOOLEAN /\ dft \in Nat
      /\ Calm /\ UNCHANGED <<phase, down, sw>> /\ phase = "active" /\ TakesAddr(f)
  BY DEF UlInv, UlType, HandleAddrAdd, Calm
<1>1. /\ EventTrue' /\ (\A g : ~Coming(g)) /\ UNCHANGED <<fams, wan, sta>>
      /\ WanUp' = WanUp /\ Hollow' = Hollow /\ queue' = <<>>
  BY <1>0, CalmFacts
<1>2. /\ ipType' = ipType \union {f}
      /\ \/ /\ UNCHANGED <<nat, up, dft>> /\ flt' = [flt EXCEPT ![f] = Note(flt[f], "refused")]
         \/ /\ nat' = nat \union {f} /\ up' = up \union WanUp
            /\ \/ /\ (f = "v4" /\ dft' = dft) \/ (f = "v6" /\ dft = 0 /\ dft' = dft + 1)
                  /\ \E base \in SUBSET BaseOf(f) : \E r \in BaseSet(f, flt[f], base) :
                       flt' = [flt EXCEPT ![f] = r]
               \/ f = "v6" /\ dft # 0 /\ dft' = dft + 1 /\ flt' = flt
  <2>1. ipType' = ipType \union {f}
    BY DEF HandleAddrAdd, AddrRefused
  <2>2. CASE AddrRefused(f)
    BY <2>1, <2>2 DEF AddrRefused
  <2>3. CASE /\ IF f = "v4" THEN AddrTakenV4 ELSE AddrTakenV6
             /\ nat' = nat \union {f} /\ up' = SeenUp
    <3>1. f = "v4" \/ f = "v6"
      BY DEF Families
    <3>2. CASE f = "v4"
      BY <2>1, <2>3, <3>2 DEF AddrTakenV4, InstallBaseV4, SeenUp
    <3>3. CASE f = "v6" /\ dft = 0
      BY <2>1, <2>3, <3>3 DEF AddrTakenV6, InstallBaseV6, SeenUp
    <3>4. CASE f = "v6" /\ dft # 0
      BY <2>1, <2>3, <3>4 DEF AddrTakenV6, SeenUp
    <3> QED BY <3>1, <3>2, <3>3, <3>4
  <2> QED BY <2>2, <2>3 DEF HandleAddrAdd
<1>3. /\ flt[f] \in Records /\ Consistent(flt[f]) /\ (f = "v4" => flt[f].pfxHdl # "live")
      /\ f \notin ipType => Uplinked(flt[f]) = 0 /\ flt[f].base = {}
      /\ f = "v6" /\ dft # 0 => f \in ipType
      /\ f = "v6" /\ flt[f].base # {} => dft # 0
      /\ flt[f].base \subseteq BaseOf(f)
      /\ f \in ipType /\ flt[f].base # BaseOf(f) => "refused" \in flt[f].odd
      /\ f = "v4" => f \notin ipType
  BY <1>0 DEF UlInv, RulesGoWithAddress, TakesAddr
\* what becomes of the family's record, in every case
<1> DEFINE Taken ==
      /\ t \in Records /\ Consistent(t) /\ (f = "v4" => t.pfxHdl # "live")
      /\ flt' = [flt EXCEPT ![f] = t]
      /\ Uplinked(t) = Uplinked(flt[f]) /\ t.left = flt[f].left /\ flt[f].odd \subseteq t.odd
      /\ Balanced(flt[f], t)
      /\ f = "v6" /\ t.base # {} => dft' # 0
      /\ t.base \subseteq BaseOf(f)
      /\ t.base # BaseOf(f) => "refused" \in t.odd
<1>4. Taken
  <2>1. CASE UNCHANGED <<nat, up, dft>> /\ flt' = [flt EXCEPT ![f] = Note(flt[f], "refused")]
    <3>1. t = Note(flt[f], "refused") /\ flt' = [flt EXCEPT ![f] = t]
      BY <1>0, <2>1
    <3> HIDE DEF t
    <3>2. /\ Kept(flt[f], t) /\ "refused" \in t.odd /\ Uplinked(t) = Uplinked(flt[f])
          /\ t.left = flt[f].left /\ t.pfxHdl = flt[f].pfxHdl
      BY <1>3, <3>1, NoteKeeps DEF Oddities
    <3> QED BY <1>3, <2>1, <3>1, <3>2 DEF Kept
  <2>2. ASSUME (f = "v4" /\ dft' = dft) \/ (f = "v6" /\ dft = 0 /\ dft' = dft + 1),
               NEW base \in SUBSET BaseOf(f), NEW r \in BaseSet(f, flt[f], base),
               flt' = [flt EXCEPT ![f] = r]
        PROVE  Taken
    <3>1. t = r /\ flt' = [flt EXCEPT ![f] = t]
      BY <1>0, <2>2
    <3> HIDE DEF t
    <3>2. flt[f].base = {}
      BY <1>0, <1>3, <2>2
    <3>3. /\ t \in Records /\ Consistent(t) /\ t.pfxHdl = flt[f].pfxHdl
          /\ Uplinked(t) = Uplinked(flt[f]) /\ t.left = flt[f].left /\ flt[f].odd \subseteq t.odd
          /\ Balanced(flt[f], t) /\ t.base = base
          /\ base # BaseOf(f) => "refused" \in t.odd
      BY <1>3, <2>2, <3>1, <3>2, BaseSetKeeps
    <3>4. f = "v6" => dft' # 0
      BY <1>0, <2>2
    <3> QED BY <1>3, <3>1, <3>3, <3>4
  <2>3. CASE f = "v6" /\ dft # 0 /\ dft' = dft + 1 /\ flt' = flt
    <3>1. t = flt[f] /\ flt' = [flt EXCEPT ![f] = t]
      BY <1>0, <2>3
    <3> HIDE DEF t
    <3>2. Kept(flt[f], t)
      BY <1>3, <3>1, KeptSelf
    <3>3. dft' # 0
      BY <1>0, <2>3
    <3>4. f \in ipType
      BY <1>0, <2>3 DEF UlInv, RulesGoWithAddress
    <3> QED BY <1>3, <2>3, <3>1, <3>2, <3>3, <3>4 DEF Kept
  <2> QED BY <1>2, <2>1, <2>2, <2>3
<1> HIDE DEF t
<1>5. /\ flt' \in [Families -> Records] /\ flt'[f] = t
      /\ \A g \in Families : g # f => flt'[g] = flt[g]
      /\ \A g \in Families : /\ flt[g].odd \subseteq flt'[g].odd /\ flt'[g].left = flt[g].left
                             /\ Uplinked(flt'[g]) = Uplinked(flt[g])
  BY <1>0, <1>4
<1>6. /\ up \subseteq up' /\ up' \subseteq up \union WanUp /\ up' \subseteq Families
      /\ dft' \in Nat /\ (f # "v6" => dft' = dft)
  <2>1. up' = up \/ up' = up \union WanUp
    BY <1>2
  <2>2. dft' = dft \/ (f = "v6" /\ dft' = dft + 1)
    BY <1>2
  <2>3. up \subseteq Families /\ WanUp \subseteq Families /\ dft \in Nat
    BY <1>0 DEF UlType, WanUp
  <2> QED BY <2>1, <2>2, <2>3
<1>7. UlType'
  BY <1>0, <1>1, <1>2, <1>5, <1>6 DEF UlType
<1>8. RulesGoWithAddress'
  <2>1. ASSUME NEW g \in Families, g # f
        PROVE  /\ Consistent(flt'[g])
               /\ g = "v4" => flt'[g].pfxHdl # "live"
               /\ g \notin ipType' => Uplinked(flt'[g]) = 0 /\ flt'[g].base = {}
               /\ g = "v6" /\ flt'[g].base # {} => dft' # 0
               /\ g = "v6" /\ dft' # 0 => g \in ipType'
               /\ flt'[g].base \subseteq BaseOf(g)
               /\ g \in ipType' /\ flt'[g].base # BaseOf(g) => "refused" \in flt'[g].odd
    <3>1. flt'[g] = flt[g] /\ (g \in ipType' <=> g \in ipType) /\ (g = "v6" => dft' = dft)
      BY <1>2, <1>5, <1>6, <2>1
    <3> QED BY <3>1 DEF UlInv, RulesGoWithAddress
  <2> QED BY <1>2, <1>4, <1>5, <2>1 DEF RulesGoWithAddress
<1>9. FilterCountExact'
  <2>1. One(sw) \in {0, 1} /\ One(sw)' = One(sw)
    BY <1>0 DEF One
  <2>2. flt[f].count = Installed(flt[f]) + flt[f].left + One(sw) \/ "blind" \in flt[f].odd
    BY DEF UlInv, FilterCountExact
  <2>3. t.count = Installed(t) + t.left + One(sw) \/ "blind" \in t.odd
    BY <1>3, <1>4, <2>1, <2>2, InstalledType DEF Balanced
  <2>4. ASSUME NEW g \in Families
        PROVE  flt'[g].count = Installed(flt'[g]) + flt'[g].left + One(sw)
               \/ "blind" \in flt'[g].odd
    BY <1>5, <2>3 DEF UlInv, FilterCountExact
  <2> QED BY <2>4, <2>1 DEF FilterCountExact
<1>10. LeavesNothing'
  BY <1>5 DEF UlInv, LeavesNothing
<1>11. OffWhenDown'
  BY <1>0 DEF OffWhenDown
<1>12. UplinkFollowsOffload'
  BY <1>0, <1>5, <1>6 DEF UlInv, UplinkFollowsOffload
<1>13. UpstreamTrue'
  BY <1>0, <1>1, <1>5, <1>6 DEF UlInv, UpstreamTrue
<1> QED BY <1>1, <1>7, <1>8, <1>9, <1>10, <1>11, <1>12, <1>13 DEF UlInv

\* the offload of a family begins or ends
LEMMA OffloadStep ==
  ASSUME UlInv, NEW f \in Families, HandleDownstreamAdd(f) \/ HandleDownstreamDel(f)
  PROVE  UlInv'
<1>0. /\ UlType /\ flt \in [Families -> Records] /\ UlRules \in Nat /\ sta \in BOOLEAN
      /\ Calm /\ UNCHANGED <<phase, nat, ipType, up, dft, sw>> /\ phase = "active"
  BY LanUplinkAssumption
     DEF UlInv, UlType, HandleDownstreamAdd, HandleDownstreamDel, Calm, LanUplinkAssumption
<1>1. /\ EventTrue' /\ (\A g : ~Coming(g)) /\ UNCHANGED <<fams, wan, sta>>
      /\ WanUp' = WanUp /\ Hollow' = Hollow /\ queue' = <<>>
  BY <1>0, CalmFacts
<1>2. /\ flt[f] \in Records /\ Consistent(flt[f]) /\ (f = "v4" => flt[f].pfxHdl # "live")
      /\ f \notin ipType => Uplinked(flt[f]) = 0
      /\ f \notin up \intersect down => Uplinked(flt[f]) = 0 \/ "missed" \in flt[f].odd
  BY <1>0 DEF UlInv, RulesGoWithAddress, UplinkFollowsOffload
<1> DEFINE Outcome ==
      /\ flt' \in [Families -> Records] /\ RulesGoWithAddress'
      /\ LeavesNothing' /\ FilterCountExact' /\ down' \subseteq Families
      /\ \A g \in Families : g # f => flt'[g] = flt[g]
      /\ \A g \in Families : flt[g].odd \subseteq flt'[g].odd
      /\ f \notin up \intersect down' => Uplinked(flt'[f]) = 0 \/ "missed" \in flt'[f].odd
      /\ \A g \in Families : g # f => (g \in down' <=> g \in down)
<1>3. Outcome
  <2>0. down' \subseteq Families /\ \A g \in Families : g # f => (g \in down' <=> g \in down)
    BY <1>0 DEF UlType, HandleDownstreamAdd, HandleDownstreamDel
  <2>1. CASE flt' = flt /\ f \notin up \intersect down
    BY <1>0, <1>2, <2>0, <2>1, SameRules
  <2>2. ASSUME f \in up \intersect down', f \in ipType, f \notin down,
               NEW t \in Install(f, flt[f], sta), flt' = [flt EXCEPT ![f] = t]
        PROVE  Outcome
    <3>1. /\ Kept(flt[f], t) /\ (t.left = flt[f].left \/ flt[f].pfxHdl = "live")
          /\ f = "v4" => t.pfxHdl = flt[f].pfxHdl
      BY <1>0, <1>2, <2>2, InstallKeeps
    <3>2. flt[f].pfxHdl = "live" => "missed" \in t.odd
      BY <1>2, <2>2, <3>1, NoUplink DEF Kept
    <3> QED BY <1>0, <1>2, <2>0, <2>2, <3>1, <3>2, OneFamily
  <2>3. ASSUME NEW t \in Remove(f, flt[f], sta), flt' = [flt EXCEPT ![f] = t]
        PROVE  Outcome
    <3>1. /\ Kept(flt[f], t) /\ t.left = flt[f].left /\ t.pfxHdl # "live"
          /\ Uplinked(t) = 0 \/ "missed" \in t.odd
          /\ Uplinked(flt[f]) = 0 => Uplinked(t) = 0
      BY <1>2, <2>3, RemoveKeeps DEF Shrunk
    <3> QED BY <1>0, <1>2, <2>0, <2>3, <3>1, OneFamily
  <2> QED BY <2>1, <2>2, <2>3 DEF HandleDownstreamAdd, HandleDownstreamDel
<1>4. UlType'
  BY <1>0, <1>1, <1>3 DEF UlType
<1>5. OffWhenDown'
  BY <1>0 DEF OffWhenDown
<1>6. UplinkFollowsOffload'
  BY <1>0, <1>3 DEF UlInv, UplinkFollowsOffload
<1>7. UpstreamTrue'
  BY <1>0, <1>1, <1>3 DEF UlInv, UlType, UpstreamTrue
<1> QED BY <1>1, <1>3, <1>4, <1>5, <1>6, <1>7 DEF UlInv

\* the rule of software routing is the host's own
LEMMA RecountStep ==
  ASSUME UlInv, Calm, UNCHANGED <<phase, nat, ipType, up, down, dft>>, phase = "active",
         \/ ~sw /\ sw' = TRUE /\ flt' = Recount(1)
         \/ sw /\ sw' = FALSE /\ flt' = Recount(-1)
  PROVE  UlInv'
<1>0. UlType /\ flt \in [Families -> Records] /\ sw' \in BOOLEAN
  BY DEF UlInv, UlType
<1>1. /\ EventTrue' /\ (\A g : ~Coming(g)) /\ UNCHANGED <<fams, wan, sta>>
      /\ WanUp' = WanUp /\ Hollow' = Hollow /\ queue' = <<>>
  BY <1>0, CalmFacts
<1>2. \E n \in Int : flt' = Recount(n) /\ One(sw') = One(sw) + n /\ One(sw) \in Int
  BY DEF One
<1>3. PICK n \in Int : flt' = Recount(n) /\ One(sw') = One(sw) + n /\ One(sw) \in Int
  BY <1>2
<1>4. ASSUME NEW f \in Families
      PROVE  /\ flt'[f] \in Records /\ Consistent(flt'[f]) = Consistent(flt[f])
             /\ flt'[f].odd = flt[f].odd /\ flt'[f].base = flt[f].base
             /\ flt'[f].pfxHdl = flt[f].pfxHdl /\ flt'[f].left = flt[f].left
             /\ Uplinked(flt'[f]) = Uplinked(flt[f])
             /\ Installed(flt'[f]) = Installed(flt[f])
             /\ flt'[f].count = flt[f].count + n
  <2> DEFINE s == flt[f]
             c == s.count + n
             t == flt'[f]
  <2>1. s \in Records /\ s.count \in Int /\ c \in Int /\ t = [s EXCEPT !.count = c]
    BY <1>0, <1>3 DEF Recount, Records
  <2> HIDE DEF s, t, c
  <2>2. /\ t \in Records /\ t.odd = s.odd /\ t.base = s.base /\ t.modem = s.modem
        /\ t.num = s.num /\ t.sta = s.sta /\ t.staHdl = s.staHdl
        /\ t.pfxHdl = s.pfxHdl /\ t.left = s.left /\ t.count = c
    BY <2>1 DEF Records
  <2>3. Consistent(t) = Consistent(s)
    BY <2>2 DEF Consistent
  <2>4. Uplinked(t) = Uplinked(s) /\ Installed(t) = Installed(s)
    BY <2>1, <2>2, InstalledType, ZenonT(30) DEF StaRules, PfxRules, BaseRules
  <2> QED BY <2>2, <2>3, <2>4 DEF s, t, c
<1>5. DOMAIN flt' = Families /\ flt' = [f \in Families |-> flt'[f]]
  BY <1>3 DEF Recount
<1>6. UlType'
  <2>1. flt' \in [Families -> Records]
    BY <1>4, <1>5
  <2> QED BY <1>0, <1>1, <2>1 DEF UlType
<1>7. RulesGoWithAddress' /\ LeavesNothing' /\ OffWhenDown'
  BY <1>0, <1>4 DEF UlInv, RulesGoWithAddress, LeavesNothing, OffWhenDown
<1>8. FilterCountExact'
  <2>1. ASSUME NEW f \in Families
        PROVE  flt'[f].count = Installed(flt'[f]) + flt'[f].left + One(sw')
               \/ "blind" \in flt'[f].odd
    <3>1. /\ flt[f].count = Installed(flt[f]) + flt[f].left + One(sw) \/ "blind" \in flt[f].odd
          /\ Installed(flt[f]) \in Nat /\ flt[f].left \in Nat /\ flt[f].count \in Int
      BY <1>0, InstalledType DEF UlInv, FilterCountExact, Records
    <3> QED BY <1>3, <1>4, <3>1
  <2> QED BY <2>1 DEF FilterCountExact
<1>9. UplinkFollowsOffload' /\ UpstreamTrue'
  BY <1>0, <1>1, <1>4 DEF UlInv, UlType, UplinkFollowsOffload, UpstreamTrue
<1> QED BY <1>1, <1>6, <1>7, <1>8, <1>9 DEF UlInv

\* half of software routing is left without a handle
LEMMA HalfStep ==
  ASSUME UlInv, Calm, UNCHANGED <<phase, nat, ipType, up, down, dft, sw>>, phase = "active",
         flt' = [flt EXCEPT !["v4"] = HalfRouted(flt["v4"])]
  PROVE  UlInv'
<1>0. UlType /\ flt \in [Families -> Records] /\ sw \in BOOLEAN /\ "v4" \in Families
  BY DEF UlInv, UlType, Families
<1>1. /\ EventTrue' /\ (\A g : ~Coming(g)) /\ UNCHANGED <<fams, wan, sta>>
      /\ WanUp' = WanUp /\ Hollow' = Hollow /\ queue' = <<>>
  BY <1>0, CalmFacts
<1> DEFINE s == flt["v4"]
           u == Note(s, "refused")
           n == s.count + 1
           l == s.left + 1
           t == HalfRouted(s)
<1>2. s \in Records /\ Consistent(s) /\ n \in Int /\ l \in Nat /\ s.count \in Int /\ s.left \in Nat
  BY <1>0 DEF UlInv, RulesGoWithAddress, Records
<1>3. /\ u \in Records /\ Consistent(u) /\ u.base = s.base /\ s.odd \subseteq u.odd
      /\ "refused" \in u.odd /\ u.num = s.num /\ u.staHdl = s.staHdl
      /\ u.pfxHdl = s.pfxHdl /\ u.left = s.left /\ u.count = s.count
  <2>1. u.count = s.count
    BY <1>2 DEF Note, Records
  <2> QED BY <1>2, <2>1, NoteKeeps DEF Kept, Oddities
<1>4. t = [u EXCEPT !.count = n, !.left = l]
  BY <1>3 DEF HalfRouted, Records
<1> HIDE DEF s, u, n, l, t
<1>5. /\ t \in Records /\ t.odd = u.odd /\ t.base = u.base /\ t.modem = u.modem
      /\ t.num = u.num /\ t.sta = u.sta /\ t.staHdl = u.staHdl
      /\ t.pfxHdl = u.pfxHdl /\ t.left = l /\ t.count = n
  BY <1>2, <1>3, <1>4 DEF Records
<1>6. Consistent(t)
  BY <1>3, <1>5 DEF Consistent
<1>7. Uplinked(t) = Uplinked(s) /\ Installed(t) = Installed(s)
  BY <1>2, <1>3, <1>5, InstalledType, ZenonT(30) DEF StaRules, PfxRules, BaseRules
<1>8. flt' = [flt EXCEPT !["v4"] = t]
  BY DEF t, s
<1>9. /\ flt' \in [Families -> Records] /\ flt'["v4"] = t /\ flt["v4"] = s
      /\ \A g \in Families : g # "v4" => flt'[g] = flt[g]
  BY <1>0, <1>5, <1>8 DEF s
<1>10. UlType' /\ OffWhenDown'
  BY <1>0, <1>1, <1>9 DEF UlType, UlInv, OffWhenDown
<1>11. RulesGoWithAddress'
  <2>1. /\ t.pfxHdl = s.pfxHdl /\ t.base = s.base /\ s.odd \subseteq t.odd
        /\ "refused" \in t.odd
    BY <1>3, <1>5
  <2> QED BY <1>6, <1>7, <1>9, <2>1 DEF UlInv, RulesGoWithAddress
<1>12. LeavesNothing'
  BY <1>0, <1>3, <1>5, <1>9 DEF LeavesNothing
<1>13. FilterCountExact'
  <2>1. t.count = Installed(t) + t.left + One(sw) \/ "blind" \in t.odd
    <3>1. s.count = Installed(s) + s.left + One(sw) \/ "blind" \in s.odd
      BY <1>0, <1>9 DEF UlInv, FilterCountExact
    <3>2. Installed(s) \in Nat /\ One(sw) \in Nat
      BY <1>2, InstalledType DEF One
    <3> QED BY <1>2, <1>3, <1>5, <1>7, <3>1, <3>2 DEF n, l
  <2>2. One(sw') = One(sw)
    OBVIOUS
  <2> QED BY <1>9, <2>1, <2>2 DEF UlInv, FilterCountExact
<1>14. UplinkFollowsOffload' /\ UpstreamTrue'
  BY <1>0, <1>1, <1>3, <1>5, <1>7, <1>9 DEF UlInv, UlType, UplinkFollowsOffload, UpstreamTrue
<1> QED BY <1>1, <1>10, <1>11, <1>12, <1>13, <1>14 DEF UlInv

LEMMA RoutingStep ==
  ASSUME UlInv, HandleSoftwareRoutingEnable \/ HandleSoftwareRoutingDisable
  PROVE  UlInv'
<1>1. /\ Calm /\ UNCHANGED <<phase, nat, ipType, up, down, dft>> /\ phase = "active"
  BY DEF HandleSoftwareRoutingEnable, HandleSoftwareRoutingDisable, Calm
<1>2. CASE \/ ~sw /\ sw' = TRUE /\ flt' = Recount(1)
           \/ sw /\ sw' = FALSE /\ flt' = Recount(-1)
  BY <1>1, <1>2, RecountStep
<1>3. CASE ~sw /\ sw' = FALSE /\ flt' = [flt EXCEPT !["v4"] = HalfRouted(flt["v4"])]
  <2>1. sw \in BOOLEAN /\ sw' = sw
    BY <1>3 DEF UlInv, UlType
  <2> QED BY <1>1, <1>3, <2>1, HalfStep
<1> QED BY <1>2, <1>3 DEF HandleSoftwareRoutingEnable, HandleSoftwareRoutingDisable

-----------------------------------------------------------------------------
(* The interface comes and goes. *)

LEMMA CreateStep ==
  ASSUME UlInv, Create \/ Created(WanUp)
  PROVE  UlInv'
<1>0. /\ UlType /\ phase = "none" /\ phase' = "active" /\ up' \subseteq WanUp /\ queue = <<>>
      /\ UNCHANGED <<fams, wan, sta, queue, nat, ipType, down, dft, sw, flt>>
  BY DEF UlInv, Create, Created, wanVars, Quiet
<1>1. ipType = {} /\ down = {}
  BY <1>0 DEF UlInv, OffWhenDown
<1>2. RulesGoWithAddress' /\ LeavesNothing' /\ FilterCountExact'
  BY <1>0, SameRules
<1>3. UlType' /\ EventTrue' /\ OffWhenDown'
  BY <1>0 DEF UlType, EventTrue, OffWhenDown, WanUp
<1>4. UplinkFollowsOffload'
  BY <1>0, <1>1, <1>2 DEF UplinkFollowsOffload, RulesGoWithAddress
<1>5. UpstreamTrue'
  BY <1>0 DEF UpstreamTrue, WanUp
<1> QED BY <1>2, <1>3, <1>4, <1>5 DEF UlInv

LEMMA NatStep ==
  ASSUME UlInv, WlanSsr \/ WlanCfgChange
  PROVE  UlInv'
<1>0. /\ UlType /\ nat' \subseteq Families /\ queue = <<>>
      /\ UNCHANGED <<fams, wan, sta, queue, phase, ipType, up, down, dft, sw, flt>>
  BY DEF UlInv, UlType, WlanSsr, WlanCfgChange, wanVars, Quiet
<1>1. RulesGoWithAddress' /\ LeavesNothing' /\ FilterCountExact'
  BY <1>0, SameRules
<1>2. UlType' /\ EventTrue' /\ OffWhenDown' /\ UplinkFollowsOffload'
  BY <1>0 DEF UlInv, UlType, EventTrue, OffWhenDown, UplinkFollowsOffload
<1>3. UpstreamTrue'
  BY <1>0 DEF UlInv, UpstreamTrue, WanUp, Hollow, Coming
<1> QED BY <1>1, <1>2, <1>3 DEF UlInv

(* What handle_down_evt does to the rules of a family before the rest is      *)
(* forgotten.                                                                 *)
Ends(s, t) ==
  /\ t \in Records /\ Consistent(t) /\ s.odd \subseteq t.odd /\ t.left = s.left
  /\ Balanced(s, t)

\* one group of base rules after another
Shed(s, t) ==
  /\ Ends(s, t) /\ Uplinked(t) = Uplinked(s) /\ t.base \subseteq s.base

LEMMA ShedTrans ==
  ASSUME NEW s \in Records, NEW t, NEW u, Shed(s, t), Shed(t, u)
  PROVE  Shed(s, u)
<1>1. \A r \in Records : r.count \in Int /\ r.left \in Int /\ Installed(r) \in Int
  BY InstalledType DEF Records
<1> QED BY <1>1 DEF Shed, Ends, Balanced

LEMMA DownGroupEnds ==
  ASSUME NEW g \in Groups, NEW s \in Records, Consistent(s), NEW r \in DownGroup(g, s)
  PROVE  /\ Shed(s, r[1]) /\ r[1].base = s.base \ {g}
         /\ r[2] = TRUE \/ (r[2] = FALSE /\ g \notin s.base)
<1>1. CASE g \in s.base
  <2> DEFINE n == s.count - 1
             b == s.base \ {g}
             t == [s EXCEPT !.base = b, !.count = n]
  <2>0. r = <<[s EXCEPT !.base = @ \ {g}, !.count = @ - 1], TRUE>>
    BY <1>1 DEF DownGroup
  <2>1. n \in Int /\ s.count \in Int /\ s.left \in Nat /\ b \in SUBSET Groups
        /\ Size(b) = Size(s.base) - 1 /\ Size(b) \in Nat /\ Size(s.base) \in Nat
    BY <1>1, SizeFacts DEF Records
  <2>t. r[1] = t /\ r[2] = TRUE
    BY <2>0 DEF Records
  <2>b. b = s.base \ {g}
    OBVIOUS
  <2>k. t = [s EXCEPT !.base = b, !.count = n]
    OBVIOUS
  <2>n. n = s.count - 1
    OBVIOUS
  <2> HIDE DEF n, b, t
  <2>2. /\ t \in Records /\ t.odd = s.odd /\ t.base = b /\ t.modem = s.modem
        /\ t.num = s.num /\ t.sta = s.sta /\ t.staHdl = s.staHdl
        /\ t.pfxHdl = s.pfxHdl /\ t.left = s.left /\ t.count = n
    BY <2>1, <2>k DEF Records
  <2>3. Consistent(t)
    BY <2>2 DEF Consistent
  <2>4. /\ BaseRules(t) = Size(b) /\ BaseRules(s) = Size(s.base)
        /\ StaRules(t) = StaRules(s) /\ PfxRules(t) = PfxRules(s)
        /\ StaRules(s) \in Nat /\ PfxRules(s) \in Nat /\ s.num \in Nat
    BY <2>2 DEF StaRules, PfxRules, BaseRules, Records
  <2>5. Uplinked(t) = Uplinked(s) /\ Installed(t) = Installed(s) - 1 /\ Installed(s) \in Int
    BY <2>1, <2>2, <2>4, InstalledType
  <2>6. t.count - Installed(t) - t.left = s.count - Installed(s) - s.left
    BY <2>1, <2>2, <2>5, <2>n
  <2>7. Ends(s, t)
    BY <2>2, <2>3, <2>6 DEF Ends, Balanced
  <2>8. Shed(s, t) /\ t.base = s.base \ {g}
    BY <2>2, <2>5, <2>7, <2>b DEF Shed
  <2> QED BY <2>8, <2>t
<1>2. CASE r = <<s, TRUE>> /\ g \notin s.base
  BY <1>2, KeptSelf DEF Shed, Ends, Kept
<1>3. CASE r = <<s, FALSE>> /\ g \notin s.base
  BY <1>3, KeptSelf DEF Shed, Ends, Kept
<1>4. CASE r = <<NeverWas(s), TRUE>> /\ g \notin s.base
  <2> DEFINE t == NeverWas(s)
  <2>1. t = NeverWas(s) /\ r[1] = t /\ r[2] = TRUE
    BY <1>4
  <2> HIDE DEF t
  <2>2. Kept(s, t) /\ Uplinked(t) = Uplinked(s) /\ t.left = s.left
    BY <2>1, NeverWasKeeps
  <2>3. t.base = s.base \ {g}
    BY <1>4, <2>2 DEF Kept
  <2> QED BY <2>1, <2>2, <2>3 DEF Shed, Ends, Kept
<1>5. CASE g \notin s.base /\ g = "init"
  BY <1>2, <1>5 DEF DownGroup
<1>6. CASE g \notin s.base /\ g # "init"
  BY <1>3, <1>4, <1>6 DEF DownGroup
<1> QED BY <1>1, <1>5, <1>6

\* the group comes after what was done before
LEMMA ThenEnds ==
  ASSUME NEW g \in Groups, NEW s \in Records, NEW o, Shed(s, o[1]),
         o[2] = TRUE \/ o[2] = FALSE, NEW r \in Then(o, g)
  PROVE  /\ Shed(s, r[1]) /\ (r[2] = TRUE \/ r[2] = FALSE)
         /\ r[2] = TRUE => o[2] = TRUE /\ r[1].base = o[1].base \ {g}
         /\ r[2] = FALSE => o[2] = FALSE \/ g \notin o[1].base
<1>1. CASE o[2] = TRUE
  <2> DEFINE t == o[1]
  <2>1. r \in DownGroup(g, t) /\ t \in Records /\ Consistent(t) /\ Shed(s, t)
    BY <1>1 DEF Then, Shed, Ends
  <2>t. t = o[1]
    OBVIOUS
  <2> HIDE DEF t
  <2>2. /\ Shed(t, r[1]) /\ r[1].base = t.base \ {g}
        /\ r[2] = TRUE \/ (r[2] = FALSE /\ g \notin t.base)
    BY <2>1, DownGroupEnds
  <2>3. Shed(s, r[1])
    BY <2>1, <2>2, ShedTrans
  <2> QED BY <1>1, <2>2, <2>3, <2>t
<1>2. CASE o[2] = FALSE
  <2>1. r = o
    BY <1>2 DEF Then
  <2> QED BY <1>2, <2>1
<1> QED BY <1>1, <1>2

LEMMA DownBaseEnds ==
  ASSUME NEW f \in Families, NEW s \in Records, Consistent(s), s.base \subseteq BaseOf(f),
         NEW r \in DownBase(f, s)
  PROVE  /\ Ends(s, r[1]) /\ Uplinked(r[1]) = Uplinked(s)
         /\ (r[2] = TRUE /\ r[1].base = {}) \/ (r[2] = FALSE /\ s.base # BaseOf(f))
<1>0. {"icmp", "init", "subnets"} \subseteq Groups
  BY DEF Groups
<1>1. ASSUME NEW p \in DownDefaults(s)
      PROVE  /\ Shed(s, p[1]) /\ (p[2] = TRUE \/ p[2] = FALSE)
             /\ p[2] = TRUE => p[1].base = s.base \ {"icmp", "init"}
             /\ p[2] = FALSE => "icmp" \notin s.base \/ "init" \notin s.base
  <2>1. PICK o \in DownGroup("icmp", s) : p \in Then(o, "init")
    BY DEF DownDefaults
  <2>2. /\ Shed(s, o[1]) /\ o[1].base = s.base \ {"icmp"}
        /\ o[2] = TRUE \/ (o[2] = FALSE /\ "icmp" \notin s.base)
    BY <1>0, DownGroupEnds
  <2>3. /\ Shed(s, p[1]) /\ (p[2] = TRUE \/ p[2] = FALSE)
        /\ p[2] = TRUE => o[2] = TRUE /\ p[1].base = o[1].base \ {"init"}
        /\ p[2] = FALSE => o[2] = FALSE \/ "init" \notin o[1].base
    BY <1>0, <2>1, <2>2, ThenEnds
  <2> QED BY <2>2, <2>3
<1>2. CASE f = "v4"
  <2>1. PICK p \in DownDefaults(s) : r \in Then(p, "subnets")
    BY <1>2 DEF DownBase
  <2>2. /\ Shed(s, r[1]) /\ (r[2] = TRUE \/ r[2] = FALSE)
        /\ r[2] = TRUE => p[2] = TRUE /\ r[1].base = p[1].base \ {"subnets"}
        /\ r[2] = FALSE => p[2] = FALSE \/ "subnets" \notin p[1].base
    BY <1>0, <1>1, <2>1, ThenEnds
  <2>3. BaseOf(f) = {"icmp", "init", "subnets"}
    BY <1>2 DEF BaseOf
  <2>4. CASE r[2] = TRUE
    BY <1>1, <2>2, <2>3, <2>4 DEF Shed
  <2>5. CASE r[2] = FALSE
    <3>1. p[2] = TRUE => "subnets" \notin s.base
      BY <1>1, <2>1, <2>2, <2>5
    <3> QED BY <1>1, <2>1, <2>2, <2>3, <2>5, <3>1 DEF Shed
  <2> QED BY <2>2, <2>4, <2>5
<1>3. CASE f = "v6"
  <2>1. r \in DownDefaults(s) /\ BaseOf(f) = {"icmp", "init"}
    BY <1>3 DEF DownBase, BaseOf
  <2> QED BY <1>1, <2>1 DEF Shed
<1> QED BY <1>2, <1>3 DEF Families

\* the rules of the uplink are deleted, or it shows why not
LEMMA DownUplinkEnds ==
  ASSUME UlInv, Quiet, phase = "active", NEW f \in Families, NEW t \in DownUplink(f)
  PROVE  /\ Kept(flt[f], t) /\ t.left = flt[f].left
         /\ Uplinked(t) = 0 \/ \E b \in Blame : b \in t.odd
<1>0. /\ flt[f] \in Records /\ Consistent(flt[f]) /\ (f = "v4" => flt[f].pfxHdl # "live")
      /\ f \notin up \intersect down => Uplinked(flt[f]) = 0 \/ "missed" \in flt[f].odd
      /\ f \in up \ WanUp => f \in Hollow \/ "early" \in flt[f].odd
  BY DEF UlInv, UlType, RulesGoWithAddress, UplinkFollowsOffload, UpstreamTrue, Quiet, Coming
<1>1. CASE f \in WanUp /\ t \in Remove(f, flt[f], sta)
  BY <1>0, <1>1, RemoveKeeps DEF Shrunk, Blame
<1>2. CASE f \notin WanUp /\ f \in up \intersect down \intersect Hollow /\ t = Note(flt[f], "hollow")
  BY <1>0, <1>2, NoteKeeps DEF Oddities, Blame
<1>3. CASE f \notin WanUp /\ f \notin up \intersect down \intersect Hollow /\ t = flt[f]
  BY <1>0, <1>3, KeptSelf DEF Blame
<1> QED BY <1>1, <1>2, <1>3 DEF DownUplink

LEMMA NoRules ==
  ASSUME NEW s \in Records, s.base = {}, s.num = 0, s.staHdl # "live", s.pfxHdl # "live"
  PROVE  Installed(s) = 0 /\ Uplinked(s) = 0
<1>1. BaseRules(s) = 0 /\ StaRules(s) = 0 /\ PfxRules(s) = 0
  BY SizeFacts DEF BaseRules, StaRules, PfxRules, Records
<1> QED BY <1>1, InstalledType

LEMMA GoneFields ==
  ASSUME NEW s \in Records, sw \in BOOLEAN, NEW seen
  PROVE  /\ Gone(s, seen) \in Records /\ Consistent(Gone(s, seen))
         /\ Gone(s, seen).base = {} /\ Gone(s, seen).pfxHdl # "live"
         /\ Uplinked(Gone(s, seen)) = 0 /\ Installed(Gone(s, seen)) = 0
         /\ Gone(s, seen).left = s.left + Installed(s)
         /\ Gone(s, seen).count = s.count - One(sw)
         /\ Gone(s, seen).odd = s.odd \intersect seen
<1> DEFINE l == s.left + Installed(s)
           c == s.count - One(sw)
           o == s.odd \intersect seen
           t == Gone(s, seen)
<1>1. /\ l \in Nat /\ c \in Int /\ o \subseteq Oddities
  BY InstalledType DEF Records, One
<1>2. t = [[s EXCEPT !.count = c] EXCEPT !.base = {}, !.modem = FALSE, !.num = 0,
             !.sta = FALSE, !.staHdl = "unset", !.pfxHdl = "unset", !.left = l, !.odd = o]
  BY DEF Gone, Renewed, Remains, Records
<1> HIDE DEF l, c, o, t
<1>3. /\ t \in Records /\ t.base = {} /\ t.modem = FALSE /\ t.num = 0 /\ t.sta = FALSE
      /\ t.staHdl = "unset" /\ t.pfxHdl = "unset" /\ t.left = l /\ t.odd = o /\ t.count = c
  BY <1>1, <1>2 DEF Records, Handles
<1>4. Consistent(t)
  BY <1>3 DEF Consistent
<1>5. Uplinked(t) = 0 /\ Installed(t) = 0
  BY <1>3, NoRules
<1> QED BY <1>3, <1>4, <1>5 DEF l, c, o, t

\* all is forgotten, and what is left of the rules has its reason
LEMMA GoneStep ==
  ASSUME UlInv, NEW ends, ends \in [Families -> Records], AllGone(ends),
         \A f \in Families : Ends(flt[f], ends[f]),
         \A f \in Families : Installed(ends[f]) = 0
           \/ \E g \in Families, b \in Blame : b \in ends[g].odd,
         Quiet, phase' = "down", nat' = {}, queue' = Append(queue, [ev |-> "delete_self"]),
         ipType' = {}, up' = {}, down' = {}, dft' = 0, sw' = FALSE, UNCHANGED <<wanVars, born>>
  PROVE  UlInv'
<1>0. UlType /\ sw \in BOOLEAN /\ UNCHANGED <<fams, wan, sta>>
  BY DEF UlInv, UlType, wanVars
<1>1. /\ queue' = <<[ev |-> "delete_self"]>> /\ [ev |-> "delete_self"] \in Events
  BY DEF Quiet, Events
<1> DEFINE seen == IF \A f \in Families : Remains(ends[f]) = 0
                   THEN {"blind"} ELSE UNION {ends[f].odd : f \in Families}
<1>2. flt' = [f \in Families |-> Gone(ends[f], seen)]
  BY DEF AllGone
<1> HIDE DEF seen
<1>3. ASSUME NEW f \in Families
      PROVE  /\ flt'[f] \in Records /\ Consistent(flt'[f]) /\ flt'[f].base = {}
             /\ flt'[f].pfxHdl # "live" /\ Uplinked(flt'[f]) = 0 /\ Installed(flt'[f]) = 0
             /\ flt'[f].left = ends[f].left + Installed(ends[f])
             /\ flt'[f].count = ends[f].count - One(sw)
             /\ flt'[f].odd = ends[f].odd \intersect seen
  <2> DEFINE s == ends[f]
  <2>1. flt'[f] = Gone(s, seen) /\ s \in Records
    BY <1>2
  <2> HIDE DEF s
  <2>2. /\ Gone(s, seen) \in Records /\ Consistent(Gone(s, seen))
        /\ Gone(s, seen).base = {} /\ Gone(s, seen).pfxHdl # "live"
        /\ Uplinked(Gone(s, seen)) = 0 /\ Installed(Gone(s, seen)) = 0
        /\ Gone(s, seen).left = s.left + Installed(s)
        /\ Gone(s, seen).count = s.count - One(sw)
        /\ Gone(s, seen).odd = s.odd \intersect seen
    BY <1>0, <2>1, GoneFields
  <2> QED BY <2>1, <2>2 DEF s
<1>l. \A f \in Families : flt'[f].left = ends[f].left + Installed(ends[f])
  BY <1>3
<1>o. \A f \in Families : flt'[f].odd = ends[f].odd \intersect seen
  BY <1>3
<1>c. \A f \in Families : flt'[f].count = ends[f].count - One(sw) /\ Installed(flt'[f]) = 0
  BY <1>3
<1>n. \A f \in Families : Installed(ends[f]) \in Nat /\ ends[f].left \in Nat /\ ends[f].count \in Int
  BY InstalledType DEF Records
<1>4. UlType'
  <2>1. flt' \in [Families -> Records]
    BY <1>2, <1>3
  <2> QED BY <1>0, <1>1, <2>1 DEF UlType
<1>5. EventTrue'
  BY <1>1 DEF EventTrue
<1>6. RulesGoWithAddress' /\ OffWhenDown'
  BY <1>3 DEF RulesGoWithAddress, OffWhenDown
<1>7. UplinkFollowsOffload' /\ UpstreamTrue'
  BY DEF UplinkFollowsOffload, UpstreamTrue
<1>8. LeavesNothing'
  <2>1. ASSUME NEW f \in Families, flt'[f].left > 0
        PROVE  \E g \in Families, b \in Blame : b \in flt'[g].odd
    <3>1. Remains(ends[f]) # 0
      BY <1>l, <1>n, <2>1 DEF Remains
    <3>2. \A g \in Families : flt'[g].odd = ends[g].odd
      <4>1. seen = UNION {ends[g].odd : g \in Families}
        BY <3>1 DEF seen
      <4>2. \A g \in Families : ends[g].odd \subseteq seen
        BY <4>1
      <4> QED BY <1>o, <4>2
    <3>3. /\ ends[f].left = flt[f].left /\ flt[f].left \in Nat /\ Installed(ends[f]) \in Nat
          /\ \A g \in Families : flt[g].odd \subseteq ends[g].odd
      BY <1>0, InstalledType DEF Ends, UlType, Records
    <3>4. CASE Installed(ends[f]) = 0
      <4>1. flt[f].left > 0
        BY <1>l, <2>1, <3>3, <3>4
      <4>2. \E g \in Families, b \in Blame : b \in flt[g].odd
        BY <4>1 DEF UlInv, LeavesNothing, Blame
      <4> QED BY <3>2, <3>3, <4>2
    <3>5. CASE Installed(ends[f]) # 0
      BY <3>2, <3>5
    <3> QED BY <3>4, <3>5
  <2> QED BY <2>1 DEF LeavesNothing, Blame
<1>9. FilterCountExact'
  <2>1. ASSUME NEW f \in Families
        PROVE  flt'[f].count = Installed(flt'[f]) + flt'[f].left + 0 \/ "blind" \in flt'[f].odd
    <3>1. /\ flt[f].count = Installed(flt[f]) + flt[f].left + One(sw) \/ "blind" \in flt[f].odd
          /\ flt[f] \in Records /\ One(sw) \in Int
      BY <1>0 DEF UlInv, UlType, FilterCountExact, One
    <3>2. ends[f] \in Records /\ flt[f].odd \subseteq ends[f].odd /\ Balanced(flt[f], ends[f])
      BY DEF Ends
    <3>3. "blind" \in ends[f].odd \/ ends[f].count = Installed(ends[f]) + ends[f].left + One(sw)
      <4>1. \A r \in Records : r.count \in Int /\ r.left \in Int /\ Installed(r) \in Int
        BY InstalledType DEF Records
      <4>2. CASE "blind" \in flt[f].odd \/ "blind" \in ends[f].odd
        BY <3>2, <4>2
      <4>3. CASE /\ flt[f].count = Installed(flt[f]) + flt[f].left + One(sw)
                 /\ ends[f].count - Installed(ends[f]) - ends[f].left
                    = flt[f].count - Installed(flt[f]) - flt[f].left
        <5> DEFINE a == ends[f].count
                   b == Installed(ends[f])
                   c == ends[f].left
                   d == flt[f].count
                   e == Installed(flt[f])
                   g == flt[f].left
                   o == One(sw)
        <5>1. {a, b, c, d, e, g, o} \subseteq Int /\ d = e + g + o /\ a - b - c = d - e - g
          BY <3>1, <3>2, <4>1, <4>3
        <5> HIDE DEF a, b, c, d, e, g, o
        <5>2. a = b + c + o
          BY <5>1
        <5> QED BY <5>2 DEF a, b, c, o
      <4> QED BY <3>1, <3>2, <4>2, <4>3 DEF Balanced
    <3>4. "blind" \in ends[f].odd => "blind" \in seen
      BY DEF seen
    <3>5. CASE "blind" \in ends[f].odd
      BY <1>o, <3>4, <3>5
    <3>6. CASE ends[f].count = Installed(ends[f]) + ends[f].left + One(sw)
      BY <1>l, <1>c, <1>n, <3>1, <3>6
    <3> QED BY <3>3, <3>5, <3>6
  <2>2. One(sw') = 0
    BY DEF One
  <2> QED BY <2>1, <2>2 DEF FilterCountExact
<1> QED BY <1>4, <1>5, <1>6, <1>7, <1>8, <1>9 DEF UlInv

LEMMA DownStep ==
  ASSUME UlInv, HandleDown
  PROVE  UlInv'
<1>0. /\ Quiet /\ phase = "active" /\ flt \in [Families -> Records]
      /\ phase' = "down" /\ nat' = {} /\ queue' = Append(queue, [ev |-> "delete_self"])
      /\ ipType' = {} /\ up' = {} /\ down' = {} /\ dft' = 0 /\ sw' = FALSE
      /\ UNCHANGED <<wanVars, born>>
  BY DEF UlInv, UlType, HandleDown
<1>1. \A f \in Families : /\ flt[f] \in Records /\ Consistent(flt[f])
                          /\ f \notin ipType => flt[f].base = {} /\ Uplinked(flt[f]) = 0
                          /\ flt[f].base \subseteq BaseOf(f)
                          /\ f \in ipType /\ flt[f].base # BaseOf(f) => "refused" \in flt[f].odd
  BY <1>0 DEF UlInv, RulesGoWithAddress
<1>i. \A s \in Records : s.base = {} => Installed(s) = Uplinked(s)
  BY SizeFacts DEF Installed, Uplinked, Records, One
<1>2. CASE ipType = {} /\ AllGone(flt)
  <2>1. \A f \in Families : Ends(flt[f], flt[f]) /\ Installed(flt[f]) = 0
    BY <1>1, <1>2, <1>i DEF Ends, Balanced
  <2> QED BY <1>0, <1>2, <2>1, GoneStep
<1>3. ASSUME NEW u4 \in DownUplink("v4"), NEW u6 \in DownUplink("v6"),
             NEW b4 \in IF "v4" \in ipType THEN DownBase("v4", u4) ELSE {<<u4, TRUE>>},
             NEW b6 \in IF "v6" \in ipType /\ b4[2] THEN DownBase("v6", u6) ELSE {<<u6, b4[2]>>},
             AllGone([f \in Families |-> IF f = "v4" THEN b4[1] ELSE b6[1]])
      PROVE  UlInv'
  <2> DEFINE e4 == b4[1]
             e6 == b6[1]
             ends == [f \in Families |-> IF f = "v4" THEN e4 ELSE e6]
  <2>1. "v4" \in Families /\ "v6" \in Families /\ \A f \in Families : f = "v4" \/ f = "v6"
    BY DEF Families
  <2>2. /\ Kept(flt["v4"], u4) /\ u4.left = flt["v4"].left
        /\ Uplinked(u4) = 0 \/ \E b \in Blame : b \in u4.odd
    BY <1>0, <2>1, DownUplinkEnds
  <2>3. /\ Kept(flt["v6"], u6) /\ u6.left = flt["v6"].left
        /\ Uplinked(u6) = 0 \/ \E b \in Blame : b \in u6.odd
    BY <1>0, <2>1, DownUplinkEnds
  <2>4. /\ Ends(u4, e4) /\ Uplinked(e4) = Uplinked(u4)
        /\ (b4[2] = TRUE /\ e4.base = {}) \/ (b4[2] = FALSE /\ "refused" \in e4.odd)
    <3>1. CASE "v4" \in ipType
      <4>1. b4 \in DownBase("v4", u4)
        BY <3>1
      <4>2. u4 \in Records /\ Consistent(u4) /\ u4.base \subseteq BaseOf("v4")
            /\ (u4.base # BaseOf("v4") => "refused" \in u4.odd)
        BY <1>1, <2>1, <2>2, <3>1 DEF Kept
      <4>3. /\ Ends(u4, e4) /\ Uplinked(e4) = Uplinked(u4)
            /\ (b4[2] = TRUE /\ e4.base = {}) \/ (b4[2] = FALSE /\ u4.base # BaseOf("v4"))
        BY <2>1, <4>1, <4>2, DownBaseEnds
      <4> QED BY <4>2, <4>3 DEF Ends
    <3>2. CASE "v4" \notin ipType
      <4>1. e4 = u4 /\ b4[2] = TRUE
        <5>1. b4 = <<u4, TRUE>>
          BY <3>2
        <5> QED BY <5>1
      <4>2. u4.base = {}
        BY <1>1, <2>1, <2>2, <3>2 DEF Kept
      <4> QED BY <2>2, <4>1, <4>2 DEF Ends, Kept, Balanced
    <3> QED BY <3>1, <3>2
  <2>5. /\ Ends(u6, e6) /\ Uplinked(e6) = Uplinked(u6)
        /\ e6.base = {} \/ b4[2] # TRUE \/ "refused" \in e6.odd
    <3>1. CASE "v6" \in ipType /\ b4[2]
      <4>1. b6 \in DownBase("v6", u6)
        BY <3>1
      <4>2. u6 \in Records /\ Consistent(u6) /\ u6.base \subseteq BaseOf("v6")
            /\ (u6.base # BaseOf("v6") => "refused" \in u6.odd)
        BY <1>1, <2>1, <2>3, <3>1 DEF Kept
      <4>3. /\ Ends(u6, e6) /\ Uplinked(e6) = Uplinked(u6)
            /\ (b6[2] = TRUE /\ e6.base = {}) \/ (b6[2] = FALSE /\ u6.base # BaseOf("v6"))
        BY <2>1, <4>1, <4>2, DownBaseEnds
      <4> QED BY <4>2, <4>3 DEF Ends
    <3>2. CASE ~("v6" \in ipType /\ b4[2])
      <4>1. e6 = u6
        BY <3>2
      <4>2. "v6" \notin ipType => u6.base = {}
        BY <1>1, <2>1, <2>3 DEF Kept
      <4>3. b4[2] = TRUE => "v6" \notin ipType
        BY <3>2
      <4> QED BY <2>3, <4>1, <4>2, <4>3 DEF Ends, Kept, Balanced
    <3> QED BY <3>1, <3>2
  <2> HIDE DEF e4, e6
  <2>6. ends["v4"] = e4 /\ ends["v6"] = e6 /\ ends \in [Families -> Records]
    BY <2>1, <2>4, <2>5 DEF Ends
  <2>7. AllGone(ends)
    BY <1>3 DEF e4, e6
  <2> HIDE DEF ends
  <2>8. \A f \in Families : Ends(flt[f], ends[f])
    <3>1. \A s, t, u : s \in Records /\ Kept(s, t) /\ t.left = s.left /\ Ends(t, u) => Ends(s, u)
      <4>1. \A r \in Records : r.count \in Int /\ r.left \in Int /\ Installed(r) \in Int
        BY InstalledType DEF Records
      <4> QED BY <4>1 DEF Kept, Ends, Balanced
    <3> QED BY <1>1, <2>1, <2>2, <2>3, <2>4, <2>5, <2>6, <3>1
  <2>9. Installed(e4) = 0 \/ \E b \in Blame : b \in e4.odd
    BY <1>i, <2>2, <2>4 DEF Ends, Blame
  <2>10. Installed(e6) = 0 \/ \E g \in Families, b \in Blame : b \in ends[g].odd
    <3>1. CASE e6.base = {}
      BY <1>i, <2>1, <2>3, <2>5, <2>6, <3>1 DEF Ends
    <3>2. CASE b4[2] # TRUE
      <4>1. "refused" \in ends["v4"].odd
        BY <2>4, <2>6, <3>2
      <4> QED BY <2>1, <4>1 DEF Blame
    <3>3. CASE "refused" \in e6.odd
      BY <2>1, <2>6, <3>3 DEF Blame
    <3> QED BY <2>5, <3>1, <3>2, <3>3
  <2>11. \A f \in Families : Installed(ends[f]) = 0
           \/ \E g \in Families, b \in Blame : b \in ends[g].odd
    BY <2>1, <2>6, <2>9, <2>10
  <2> QED BY <1>0, <2>6, <2>7, <2>8, <2>11, GoneStep
<1> QED BY <1>2, <1>3 DEF HandleDown

-----------------------------------------------------------------------------
(* The uplink as a whole. *)

LEMMA UlInitial ==
  ASSUME AnyInit
  PROVE  UlInv
<1>0. Init /\ queue = <<>> /\ fams \subseteq Families
  BY LanUplinkAssumption DEF AnyInit, Init, LanUplinkAssumption
<1>1. \A f \in Families : /\ flt[f] \in Records /\ flt[f].base = {} /\ flt[f].modem = FALSE
                          /\ flt[f].num = 0 /\ flt[f].staHdl = "unset" /\ flt[f].pfxHdl = "unset"
                          /\ flt[f].count = 0 /\ flt[f].left = 0
  BY <1>0 DEF Init, Records, Handles
<1>2. \A f \in Families : Consistent(flt[f]) /\ Uplinked(flt[f]) = 0 /\ Installed(flt[f]) = 0
  BY <1>1, NoRules DEF Consistent
<1>3. UlType
  <2>1. NoWanYet \in WanRecords
    BY DEF NoWanYet, WanRecords
  <2>2. flt \in [Families -> Records]
    BY <1>0, <1>1 DEF Init
  <2> QED BY <1>0, <2>1, <2>2 DEF Init, UlType
<1>4. EventTrue /\ OffWhenDown /\ UplinkFollowsOffload /\ UpstreamTrue
  BY <1>0 DEF Init, EventTrue, OffWhenDown, UplinkFollowsOffload, UpstreamTrue
<1>5. RulesGoWithAddress
  BY <1>0, <1>1, <1>2 DEF Init, RulesGoWithAddress
<1>6. One(sw) = 0
  BY <1>0 DEF Init, One
<1>7. LeavesNothing /\ FilterCountExact
  BY <1>1, <1>2, <1>6 DEF LeavesNothing, FilterCountExact
<1> QED BY <1>3, <1>4, <1>5, <1>7 DEF UlInv

LEMMA UlInductive ==
  ASSUME UlInv, AnyNext \/ UNCHANGED <<vars, kind>>
  PROVE  UlInv'
<1>0. fams \subseteq Families
  BY DEF UlInv, UlType
<1>1. CASE UNCHANGED <<vars, kind>>
  <2>1. UNCHANGED <<wanVars, queue, ifaceVars, flt>>
    BY <1>1 DEF vars
  <2>2. UlType' /\ EventTrue' /\ OffWhenDown' /\ UplinkFollowsOffload'
    BY <2>1 DEF UlInv, UlType, EventTrue, OffWhenDown, UplinkFollowsOffload, wanVars, ifaceVars
  <2>3. UpstreamTrue'
    BY <2>1 DEF UlInv, UpstreamTrue, WanUp, Hollow, Coming, wanVars, ifaceVars
  <2>4. RulesGoWithAddress' /\ LeavesNothing' /\ FilterCountExact'
    BY <2>1, SameRules DEF ifaceVars
  <2> QED BY <2>2, <2>3, <2>4 DEF UlInv
<1>2. CASE WanMoves
  BY <1>2, WanStep
<1>3. CASE Process \/ WlanProcess
  BY <1>3, EventStep
<1>4. ASSUME NEW f \in fams,
             HandleAddrAdd(f) \/ HandleDownstreamAdd(f) \/ HandleDownstreamDel(f)
      PROVE  UlInv'
  BY <1>0, <1>4, AddressStep, OffloadStep
<1>5. CASE HandleSoftwareRoutingEnable \/ HandleSoftwareRoutingDisable
  BY <1>5, RoutingStep
<1>6. CASE HandleDown \/ Create \/ Created(WanUp)
  BY <1>6, DownStep, CreateStep
<1>7. CASE WlanSsr \/ WlanCfgChange
  BY <1>7, NatStep
<1>8. CASE Next
  BY <1>2, <1>3, <1>4, <1>5, <1>6, <1>8 DEF Next, WanMoves
<1>9. CASE WlanNext
  BY <1>2, <1>3, <1>4, <1>5, <1>6, <1>7, <1>9
     DEF WlanNext, WlanAddrAdd, WlanDownstreamAdd, WlanDownstreamDel, WlanLinkDown, WlanCreate
<1> QED BY <1>1, <1>8, <1>9 DEF AnyNext

LEMMA UlInvariant == AllSpec => []UlInv
<1>1. AllInit => UlInv
  BY UlInitial DEF AllInit
<1>2. UlInv /\ [AllNext]_allVars => UlInv'
  BY UlInductive DEF AllNext, allVars
<1> QED BY <1>1, <1>2, PTL DEF AllSpec

(* Uplink traffic of a family goes through the hardware only under a WAN that *)
(* is up, and the interface knows when it is not (handle_wan_down).           *)
THEOREM UplinkAlwaysFollowsWan == AllSpec => []UplinkFollowsWan
<1>1. UlInv => UplinkFollowsWan
  BY DEF UlInv, UplinkFollowsWan
<1> QED BY <1>1, UlInvariant, PTL

(* Every rule of the interface's pipe is counted, none outlives it without a  *)
(* reason, and those told to the modem are there                              *)
(* (install_wan_filtering_rule of the WAN).                                   *)
THEOREM RulesAlwaysAccounted == AllSpec => []RulesAccounted
<1>1. UlInv => RulesAccounted
  <2> SUFFICES ASSUME UlInv PROVE RulesAccounted
    OBVIOUS
  <2>1. ModemFlagTrue
    BY DEF UlInv, UlType, Records, RulesGoWithAddress, Consistent, ModemFlagTrue
  <2> QED BY <2>1 DEF UlInv, RulesAccounted
<1> QED BY <1>1, UlInvariant, PTL

-----------------------------------------------------------------------------
(* The private subnets: the table has no entry twice, at most one change is   *)
(* on its way, and the interface it comes from has its rules from the table.  *)

TetherRecords == [here : BOOLEAN, net : Subnets \union {NoSubnet},
                  rules : [1..MaxSubnets -> Subnets \union {NoSubnet}], set : BOOLEAN]
Follows(t, table) ==
  \A n \in 1..MaxSubnets : t.rules[n] = IF n <= Len(table) THEN table[n] ELSE NoSubnet

SubType ==
  /\ subnets \in Seq(Subnets) /\ tether \in [Tethers -> TetherRecords]
  /\ changed = <<>> \/ \E i \in Tethers : changed = <<i>>
  /\ \A i \in Tethers : tether[i].set = TRUE => tether[i].here = TRUE /\ tether[i].net # NoSubnet
Following ==
  /\ changed = <<>> => \A i \in Tethers : tether[i].set = TRUE => Follows(tether[i], subnets)
  /\ \A i \in Tethers :
       changed = <<i>> /\ tether[i].set = TRUE => Follows(tether[i], subnets)
SubInv == SubType /\ Following /\ TableOfSubnets

LEMMA AddFacts ==
  ASSUME SubType, IsInjective(subnets), NEW s \in Subnets
  PROVE  /\ AddPrivateSubnet(s) \in Seq(Subnets) /\ IsInjective(AddPrivateSubnet(s))
         /\ Range(subnets) \subseteq Range(AddPrivateSubnet(s))
         /\ Range(AddPrivateSubnet(s)) \subseteq Range(subnets) \union {s}
<1>0. subnets \in Seq(Subnets)
  BY DEF SubType
<1>1. CASE AddPrivateSubnet(s) = subnets
  BY <1>0, <1>1
<1>2. CASE s \notin Range(subnets) /\ AddPrivateSubnet(s) = Append(subnets, s)
  <2> DEFINE t == Append(subnets, s)
             k == Len(subnets)
  <2>1. /\ k \in Nat /\ DOMAIN subnets = 1..k /\ t \in Seq(Subnets) /\ DOMAIN t = 1..(k + 1)
        /\ \A n \in 1..k : t[n] = subnets[n]
        /\ t[k + 1] = s
    BY <1>0
  <2> HIDE DEF t, k
  <2>2. \A n \in 1..k : subnets[n] # s
    BY <1>2, <2>1 DEF Range
  <2>3. \A n \in 1..(k + 1) : n \in 1..k \/ n = k + 1
    BY <2>1
  <2>4. IsInjective(t)
    BY <2>1, <2>2, <2>3 DEF IsInjective
  <2>5. Range(subnets) \subseteq Range(t) /\ Range(t) \subseteq Range(subnets) \union {s}
    BY <2>1, <2>3 DEF Range
  <2> QED BY <1>2, <2>1, <2>4, <2>5 DEF t
<1> QED BY <1>1, <1>2 DEF AddPrivateSubnet

LEMMA DelFacts ==
  ASSUME SubType, IsInjective(subnets), NEW s
  PROVE  /\ DelPrivateSubnet(s) \in Seq(Subnets) /\ IsInjective(DelPrivateSubnet(s))
         /\ Range(DelPrivateSubnet(s)) = Range(subnets) \ {s}
<1>0. subnets \in Seq(Subnets)
  BY DEF SubType
<1>1. CASE s \notin Range(subnets)
  BY <1>0, <1>1 DEF DelPrivateSubnet
<1>2. CASE s \in Range(subnets)
  <2> DEFINE k == Len(subnets)
             c == CHOOSE n \in DOMAIN subnets : subnets[n] = s
             t == [n \in 1..(k - 1) |-> subnets[IF n < c THEN n ELSE n + 1]]
  <2>1. k \in Nat /\ DOMAIN subnets = 1..k /\ \A n \in 1..k : subnets[n] \in Subnets
    BY <1>0
  <2>2. c \in 1..k /\ subnets[c] = s
    BY <1>2, <2>1 DEF Range
  <2>3. DelPrivateSubnet(s) = t
    BY <1>2 DEF DelPrivateSubnet
  <2> HIDE DEF k, c
  <2>4. /\ k - 1 \in Nat
        /\ DOMAIN t = 1..(k - 1)
        /\ \A n \in 1..(k - 1) : n < c => n \in 1..k /\ n # c
        /\ \A n \in 1..(k - 1) : ~(n < c) => n + 1 \in 1..k /\ n + 1 # c
    BY <2>1, <2>2
  <2>5. /\ \A n \in 1..(k - 1) : n < c => t[n] = subnets[n]
        /\ \A n \in 1..(k - 1) : ~(n < c) => t[n] = subnets[n + 1]
    OBVIOUS
  <2>6. t \in Seq(Subnets)
    BY <2>1, <2>4, IsASeq
  <2> HIDE DEF t
  <2>7. \A n \in 1..k : subnets[n] = s => n = c
    BY <2>1, <2>2 DEF IsInjective
  <2>8. \A n \in DOMAIN t : t[n] \in Range(subnets) /\ t[n] # s
    BY <2>1, <2>4, <2>5, <2>7 DEF Range
  <2>9. \A n \in 1..k : n # c => subnets[n] \in Range(t)
    <3>1. ASSUME NEW n \in 1..k, n < c
          PROVE  subnets[n] \in Range(t)
      <4>1. n \in 1..(k - 1)
        BY <2>1, <2>2, <3>1
      <4> QED BY <2>4, <2>5, <3>1, <4>1 DEF Range
    <3>2. ASSUME NEW n \in 1..k, n > c
          PROVE  subnets[n] \in Range(t)
      <4>1. n - 1 \in 1..(k - 1) /\ ~(n - 1 < c) /\ (n - 1) + 1 = n
        BY <2>1, <2>2, <3>2
      <4>2. t[n - 1] = subnets[n]
        BY <2>5, <4>1
      <4> QED BY <2>4, <4>1, <4>2 DEF Range
    <3> QED BY <2>1, <2>2, <3>1, <3>2
  <2>10. Range(t) = Range(subnets) \ {s}
    BY <2>1, <2>2, <2>8, <2>9 DEF Range
  <2>11. IsInjective(t)
    <3>1. \A a, b \in 1..k : subnets[a] = subnets[b] => a = b
      BY <2>1 DEF IsInjective
    <3>2. ASSUME NEW a \in 1..(k - 1), NEW b \in 1..(k - 1), t[a] = t[b]
          PROVE  a = b
      <4>1. CASE a < c /\ b < c
        BY <2>4, <2>5, <3>1, <3>2, <4>1
      <4>2. CASE ~(a < c) /\ ~(b < c)
        <5>1. a + 1 = b + 1
          BY <2>4, <2>5, <3>1, <3>2, <4>2
        <5> QED BY <5>1
      <4>3. CASE a < c /\ ~(b < c)
        <5>1. a = b + 1
          BY <2>4, <2>5, <3>1, <3>2, <4>3
        <5> QED BY <2>1, <2>2, <4>3, <5>1
      <4>4. CASE ~(a < c) /\ b < c
        <5>1. a + 1 = b
          BY <2>4, <2>5, <3>1, <3>2, <4>4
        <5> QED BY <2>1, <2>2, <4>4, <5>1
      <4> QED BY <4>1, <4>2, <4>3, <4>4
    <3> QED BY <2>4, <3>2 DEF IsInjective
  <2> QED BY <2>3, <2>6, <2>10, <2>11
<1> QED BY <1>1, <1>2

LEMMA OverlaidFollows ==
  ASSUME NEW t \in TetherRecords, NEW table \in Seq(Subnets)
  PROVE  /\ Refreshed(t, table) \in TetherRecords
         /\ Refreshed(t, table).here = t.here /\ Refreshed(t, table).net = t.net
         /\ Refreshed(t, table).set = t.set
         /\ t.set = TRUE => Follows(Refreshed(t, table), table)
<1> DEFINE r == Overlaid(Dummies, table)
<1>1. r = [n \in 1..MaxSubnets |-> IF n <= Len(table) THEN table[n] ELSE NoSubnet]
  BY DEF Overlaid, Dummies
<1>2. r \in [1..MaxSubnets -> Subnets \union {NoSubnet}]
  BY <1>1, PrivateSubnetsAssumption DEF PrivateSubnetsAssumption
<1> HIDE DEF r
<1>3. CASE t.set = TRUE
  <2> DEFINE u == [t EXCEPT !.rules = r]
  <2>1. u \in TetherRecords /\ u.here = t.here /\ u.net = t.net /\ u.set = t.set /\ u.rules = r
    BY <1>2 DEF TetherRecords
  <2>2. Refreshed(t, table) = u
    BY <1>3 DEF Refreshed, r
  <2> HIDE DEF u
  <2>3. Follows(u, table)
    BY <1>1, <2>1 DEF Follows
  <2> QED BY <2>1, <2>2, <2>3
<1>4. CASE t.set = FALSE
  BY <1>4 DEF Refreshed
<1> QED BY <1>3, <1>4 DEF TetherRecords

LEMMA TetherAddrAddStep ==
  ASSUME SubInv, NEW i \in Tethers, NEW s \in Subnets, TetherAddrAdd(i, s)
  PROVE  SubInv'
<1> DEFINE table == AddPrivateSubnet(s)
           t == [tether[i] EXCEPT !.net = s]
           w == Refreshed(WithDummies(t), table)
<1>0. /\ SubType /\ Following /\ IsInjective(subnets) /\ changed = <<>>
      /\ tether[i] \in TetherRecords /\ tether[i].here = TRUE /\ tether[i].net = NoSubnet
      /\ tether \in [Tethers -> TetherRecords] /\ s # NoSubnet
  BY PrivateSubnetsAssumption
     DEF SubInv, SubType, TableOfSubnets, TetherAddrAdd, Idle, TetherRecords, PrivateSubnetsAssumption
<1>1. /\ table \in Seq(Subnets) /\ IsInjective(table) /\ Range(subnets) \subseteq Range(table)
      /\ Range(table) \subseteq Range(subnets) \union {s}
  BY <1>0, AddFacts
<1>2. /\ t \in TetherRecords /\ t.here = TRUE /\ t.net = s /\ t.set = tether[i].set
  BY <1>0 DEF TetherRecords
<1>3. tether[i].set = FALSE
  BY <1>0 DEF SubType, TetherRecords
<1>4. /\ subnets' = table
      /\ changed' = IF table = subnets THEN changed ELSE Append(changed, i)
      /\ lost' = lost \union IF s \in Range(table) THEN {} ELSE {"full"}
      /\ tether' = [tether EXCEPT ![i] = w] \/ tether' = [tether EXCEPT ![i] = t]
  BY DEF TetherAddrAdd, PostChange
<1>5. /\ w \in TetherRecords /\ w.here = TRUE /\ w.net = s /\ Follows(w, table)
  <2>1. /\ WithDummies(t) \in TetherRecords /\ WithDummies(t).here = TRUE
        /\ WithDummies(t).net = s /\ WithDummies(t).set = TRUE
    BY <1>2 DEF WithDummies, TetherRecords
  <2> QED BY <1>1, <2>1, OverlaidFollows
<1> HIDE DEF table, t, w
<1>6. PICK u \in {w, t} : tether' = [tether EXCEPT ![i] = u]
  BY <1>4
<1>7. /\ u \in TetherRecords /\ u.here = TRUE /\ u.net = s
      /\ u.set = TRUE => Follows(u, table)
  BY <1>2, <1>3, <1>5
<1>8. /\ tether' \in [Tethers -> TetherRecords] /\ tether'[i] = u
      /\ \A j \in Tethers : j # i => tether'[j] = tether[j]
  BY <1>0, <1>6, <1>7
<1>9. changed' = IF table = subnets THEN <<>> ELSE <<i>>
  BY <1>0, <1>4
<1>10. SubType'
  <2>1. changed' = <<>> \/ \E j \in Tethers : changed' = <<j>>
    BY <1>9
  <2>2. \A j \in Tethers :
          tether'[j].set = TRUE => tether'[j].here = TRUE /\ tether'[j].net # NoSubnet
    BY <1>0, <1>7, <1>8 DEF SubType
  <2> QED BY <1>1, <1>4, <1>8, <2>1, <2>2 DEF SubType
<1>11. Following'
  <2>1. CASE table = subnets
    <3>1. \A j \in Tethers : tether'[j].set = TRUE => Follows(tether'[j], subnets)
      BY <1>0, <1>7, <1>8, <2>1 DEF Following
    <3>2. subnets' = subnets
      BY <1>4, <2>1
    <3> QED BY <3>1, <3>2 DEF Following, Follows
  <2>2. CASE table # subnets
    <3>1. changed' = <<i>> /\ changed' # <<>>
      BY <1>9, <2>2
    <3>2. \A j \in Tethers : changed' = <<j>> => j = i
      BY <3>1
    <3>3. tether'[i].set = TRUE => Follows(tether'[i], table)
      BY <1>7, <1>8
    <3> QED BY <1>4, <3>1, <3>2, <3>3 DEF Following, Follows
  <2> QED BY <2>1, <2>2
<1>12. TableOfSubnets'
  <2>1. NetsInUse' = NetsInUse \union {s}
    BY <1>0, <1>7, <1>8 DEF NetsInUse
  <2>2. s \in Range(table) \/ "full" \in lost'
    BY <1>4
  <2>3. lost \subseteq lost'
    BY <1>4
  <2>4. /\ NetsInUse \subseteq Range(subnets) \/ lost \intersect {"full", "twin"} # {}
        /\ Range(subnets) \subseteq NetsInUse \/ "kept" \in lost
    BY DEF SubInv, TableOfSubnets
  <2>5. NetsInUse' \subseteq Range(table) \/ lost' \intersect {"full", "twin"} # {}
    BY <1>1, <2>1, <2>2, <2>3, <2>4
  <2>6. Range(table) \subseteq NetsInUse' \/ "kept" \in lost'
    BY <1>1, <2>1, <2>3, <2>4
  <2> QED BY <1>1, <1>4, <2>5, <2>6 DEF TableOfSubnets
<1> QED BY <1>10, <1>11, <1>12 DEF SubInv

LEMMA TetherDownStep ==
  ASSUME SubInv, NEW i \in Tethers, TetherDown(i)
  PROVE  SubInv'
<1> DEFINE table == DelPrivateSubnet(tether[i].net)
<1>0. /\ SubType /\ Following /\ IsInjective(subnets) /\ changed = <<>>
      /\ tether \in [Tethers -> TetherRecords] /\ tether' = [tether EXCEPT ![i] = NoTether]
  BY DEF SubInv, SubType, TableOfSubnets, TetherDown, Idle
<1>1. NoTether \in TetherRecords /\ NoTether.set = FALSE /\ NoTether.net = NoSubnet
  BY DEF NoTether, TetherRecords, Dummies
<1>2. /\ tether' \in [Tethers -> TetherRecords] /\ tether'[i] = NoTether
      /\ \A j \in Tethers : j # i => tether'[j] = tether[j]
  BY <1>0, <1>1
<1>3. /\ table \in Seq(Subnets) /\ IsInjective(table)
      /\ Range(table) = Range(subnets) \ {tether[i].net}
  BY <1>0, DelFacts
<1> HIDE DEF table
<1>4. PICK next \in {table, subnets} :
        /\ subnets' = next
        /\ changed' = IF next = subnets THEN <<>> ELSE <<i>>
  <2>1. CASE PostChange(i, table)
    BY <1>0, <2>1 DEF PostChange
  <2>2. CASE UNCHANGED <<subnets, changed>>
    BY <1>0, <2>2
  <2> QED BY <2>1, <2>2 DEF TetherDown, table
<1>5. SubType'
  <2>1. changed' = <<>> \/ \E j \in Tethers : changed' = <<j>>
    BY <1>4
  <2>2. \A j \in Tethers :
          tether'[j].set = TRUE => tether'[j].here = TRUE /\ tether'[j].net # NoSubnet
    BY <1>0, <1>1, <1>2 DEF SubType
  <2> QED BY <1>0, <1>2, <1>3, <1>4, <2>1, <2>2 DEF SubType
<1>6. Following'
  <2>1. CASE next = subnets
    <3>1. \A j \in Tethers : tether'[j].set = TRUE => Follows(tether'[j], subnets)
      BY <1>0, <1>1, <1>2 DEF Following
    <3> QED BY <1>4, <2>1, <3>1 DEF Following, Follows
  <2>2. CASE next # subnets
    <3>1. changed' = <<i>> /\ changed' # <<>>
      BY <1>4, <2>2
    <3>2. \A j \in Tethers : changed' = <<j>> => j = i
      BY <3>1
    <3>3. ~(tether'[i].set = TRUE)
      BY <1>1, <1>2
    <3> QED BY <3>1, <3>2, <3>3 DEF Following
  <2> QED BY <2>1, <2>2
<1>7. TableOfSubnets'
  <2> DEFINE net == tether[i].net
             use == NetsInUse
             others == {tether[j].net : j \in Tethers \ {i}} \ {NoSubnet}
  <2>0. /\ use = others \union ({net} \ {NoSubnet}) /\ NoSubnet \notin Range(subnets)
        /\ use \subseteq Range(subnets) \/ lost \intersect {"full", "twin"} # {}
        /\ Range(subnets) \subseteq use \/ "kept" \in lost
    <3>1. NoSubnet \notin Range(subnets)
      BY <1>0, PrivateSubnetsAssumption DEF SubType, Range, PrivateSubnetsAssumption
    <3> QED BY <3>1 DEF SubInv, TableOfSubnets, NetsInUse
  <2>1. NetsInUse' = others
    BY <1>1, <1>2 DEF NetsInUse
  <2> HIDE DEF use
  <2>2. CASE /\ PostChange(i, table)
             /\ lost' = lost \union
                  IF \E j \in Tethers \ {i} : tether[j].net = tether[i].net /\ tether[j].net # NoSubnet
                  THEN {"twin"} ELSE {}
    <3>1. net \notin others \/ "twin" \in lost'
      BY <2>2
    <3>2. lost \subseteq lost'
      BY <2>2
    <3> HIDE DEF others
    <3>3. Range(table) = Range(subnets) \ {net}
      BY <1>3
    <3> HIDE DEF net
    <3>4. others \subseteq Range(table) \/ lost' \intersect {"full", "twin"} # {}
      BY <2>0, <3>1, <3>2, <3>3
    <3>5. Range(table) \subseteq others \/ "kept" \in lost'
      BY <2>0, <3>2, <3>3
    <3>6. subnets' = table
      BY <2>2 DEF PostChange
    <3> QED BY <1>3, <2>1, <3>4, <3>5, <3>6 DEF TableOfSubnets
  <2>3. CASE lost' = lost \union {"kept"} /\ subnets' = subnets
    <3>1. others \subseteq Range(subnets) \/ lost' \intersect {"full", "twin"} # {}
      BY <2>0, <2>3
    <3>2. "kept" \in lost'
      BY <2>3
    <3> QED BY <1>0, <2>1, <2>3, <3>1, <3>2 DEF TableOfSubnets
  <2> QED BY <2>2, <2>3 DEF TetherDown, table
<1> QED BY <1>5, <1>6, <1>7 DEF SubInv

LEMMA SubnetChangeStep ==
  ASSUME SubInv, HandleSubnetChange
  PROVE  SubInv'
<1>0. /\ SubType /\ Following /\ tether \in [Tethers -> TetherRecords] /\ subnets \in Seq(Subnets)
      /\ UNCHANGED <<subnets, lost>>
  BY DEF SubInv, SubType, HandleSubnetChange
<1>1. PICK i \in Tethers : changed = <<i>>
  BY <1>0 DEF SubType, HandleSubnetChange, Idle
<1>2. changed' = <<>>
  BY <1>1 DEF HandleSubnetChange
<1>3. ASSUME NEW j \in Tethers
      PROVE  /\ tether'[j] \in TetherRecords /\ tether'[j].here = tether[j].here
             /\ tether'[j].net = tether[j].net /\ tether'[j].set = tether[j].set
             /\ tether[j].set = TRUE => Follows(tether'[j], subnets)
  <2>1. tether'[j] = IF j # i /\ tether[j].here THEN Refreshed(tether[j], subnets) ELSE tether[j]
    BY <1>1 DEF HandleSubnetChange, Hearers
  <2>2. tether[j] \in TetherRecords
    BY <1>0
  <2>3. CASE j # i /\ tether[j].here = TRUE
    <3> DEFINE t == tether[j]
               u == Refreshed(t, subnets)
    <3>1. t \in TetherRecords /\ tether'[j] = u
      BY <2>1, <2>2, <2>3
    <3> HIDE DEF t
    <3>2. /\ u \in TetherRecords /\ u.here = t.here /\ u.net = t.net /\ u.set = t.set
          /\ t.set = TRUE => Follows(u, subnets)
      BY <1>0, <3>1, OverlaidFollows
    <3> HIDE DEF u
    <3> QED BY <3>1, <3>2 DEF t
  <2>4. CASE j = i
    BY <1>0, <1>1, <2>1, <2>2, <2>4 DEF Following
  <2>5. CASE tether[j].here = FALSE
    BY <1>0, <2>1, <2>2, <2>5 DEF SubType
  <2> QED BY <2>2, <2>3, <2>4, <2>5 DEF TetherRecords
<1>4. tether' \in [Tethers -> TetherRecords]
  <2> DEFINE T(j) == IF j \in Hearers(Head(changed)) /\ tether[j].here
                     THEN Refreshed(tether[j], subnets) ELSE tether[j]
  <2>1. tether' = [j \in Tethers |-> T(j)]
    BY DEF HandleSubnetChange
  <2> HIDE DEF T
  <2>2. \A j \in Tethers : T(j) \in TetherRecords
    BY <1>3, <2>1
  <2> QED BY <2>1, <2>2
<1>5. SubType'
  BY <1>0, <1>2, <1>3, <1>4 DEF SubType
<1>6. Following'
  <2>1. \A j \in Tethers : tether'[j].set = TRUE => Follows(tether'[j], subnets)
    BY <1>3
  <2>2. \A j \in Tethers : changed' # <<j>>
    BY <1>2
  <2> QED BY <1>0, <2>1, <2>2 DEF Following, Follows
<1>7. TableOfSubnets'
  <2>1. NetsInUse' = NetsInUse
    BY <1>3, ZenonT(30) DEF NetsInUse
  <2> QED BY <1>0, <2>1 DEF SubInv, TableOfSubnets
<1> QED BY <1>5, <1>6, <1>7 DEF SubInv

LEMMA TetherCreateStep ==
  ASSUME SubInv, NEW i \in Tethers, TetherCreate(i)
  PROVE  SubInv'
<1>0. /\ SubType /\ Following /\ tether \in [Tethers -> TetherRecords] /\ changed = <<>>
      /\ UNCHANGED <<subnets, changed, lost>>
  BY DEF SubInv, SubType, TetherCreate, Idle
<1>1. ASSUME NEW j \in Tethers
      PROVE  /\ tether'[j] \in TetherRecords /\ tether[j].here = TRUE => tether'[j].here = TRUE
             /\ tether'[j].net = tether[j].net /\ tether'[j].set = tether[j].set
             /\ tether'[j].rules = tether[j].rules
  BY <1>0 DEF TetherCreate, TetherRecords
<1>2. SubType'
  <2> DEFINE t == [tether[i] EXCEPT !.here = TRUE]
  <2>1. tether' = [tether EXCEPT ![i] = t] /\ t \in TetherRecords
    BY <1>0 DEF TetherCreate, TetherRecords
  <2> HIDE DEF t
  <2>2. tether' \in [Tethers -> TetherRecords]
    BY <1>0, <2>1
  <2> QED BY <1>0, <1>1, <2>2 DEF SubType
<1>3. Following'
  BY <1>0, <1>1, ZenonT(40) DEF Following, Follows
<1>4. TableOfSubnets'
  <2>1. NetsInUse' = NetsInUse
    BY <1>1 DEF NetsInUse
  <2> QED BY <1>0, <2>1 DEF SubInv, TableOfSubnets
<1> QED BY <1>2, <1>3, <1>4 DEF SubInv

(* The table of private subnets, the interfaces that make it and the rules    *)
(* they make from it agree (IPACM_Config::AddPrivateSubnet and the event).    *)
THEOREM SubnetsAlwaysAgree == AllSpec => []SubnetsAgree
<1>1. AllInit => SubInv
  <2> SUFFICES ASSUME SubnetInit PROVE SubInv
    BY DEF AllInit
  <2>1. NoTether \in TetherRecords /\ NoTether.set = FALSE /\ NoTether.net = NoSubnet
    BY DEF NoTether, TetherRecords, Dummies
  <2>2. SubType /\ Following
    BY <2>1 DEF SubnetInit, SubType, Following
  <2>3. NetsInUse = {} /\ Range(subnets) = {} /\ IsInjective(subnets)
    BY <2>1 DEF SubnetInit, NetsInUse, Range, IsInjective
  <2> QED BY <2>2, <2>3 DEF SubInv, TableOfSubnets
<1>2. SubInv /\ [AllNext]_allVars => SubInv'
  <2> SUFFICES ASSUME SubInv, [AllNext]_allVars PROVE SubInv'
    OBVIOUS
  <2>1. CASE UNCHANGED subnetVars
    BY <2>1 DEF subnetVars, SubInv, SubType, Following, TableOfSubnets, NetsInUse, Follows
  <2>2. CASE SubnetNext
    BY <2>2, TetherCreateStep, TetherDownStep, TetherAddrAddStep, SubnetChangeStep DEF SubnetNext
  <2> QED BY <2>1, <2>2 DEF AllNext, allVars
<1>3. SubInv => SubnetsAgree
  BY DEF SubInv, SubType, Following, SubnetsAgree, SubnetRulesFollow, Idle, Follows
<1> QED BY <1>1, <1>2, <1>3, PTL DEF AllSpec
=============================================================================
