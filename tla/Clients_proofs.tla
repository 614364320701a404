-------------------------- MODULE Clients_proofs --------------------------
(***************************************************************************)
(* What holds of the cache of neighbours and of the clients of a tethered  *)
(* interface, for any number of hardware addresses, devices, addresses and *)
(* entries.                                                                *)
(*                                                                         *)
(* NeighborInv: every neighbour has one entry at most, which is of the     *)
(* device and the address it was last seen with.                           *)
(*                                                                         *)
(* TableInv: the handles of a client are of rules for its own addresses,   *)
(* and no two clients hold the same.  That the driver has those rules ends *)
(* where an address without a rule is deleted, through whatever handle is  *)
(* in its place, and that a client which sleeps holds none where one that  *)
(* leaves mixes up the flags of those after it.                            *)
(***************************************************************************)
EXTENDS MCTetherClients, SequenceTheorems, FiniteSetTheorems, WellFoundedInduction, TLAPS

-----------------------------------------------------------------------------
(* Sequences: one entry more, one less, one that changes.                     *)
LEMMA Lengths ==
  ASSUME NEW S, NEW s \in Seq(S)
  PROVE  /\ Len(s) \in Nat /\ DOMAIN s = 1..Len(s)
         /\ \A i \in 1..Len(s) : s[i] \in S
BY LenProperties, ElementOfSeq

LEMMA Appended ==
  ASSUME NEW S, NEW s \in Seq(S), NEW e \in S
  PROVE  /\ Append(s, e) \in Seq(S) /\ DOMAIN Append(s, e) = 1..(Len(s) + 1)
         /\ Len(Append(s, e)) = Len(s) + 1
         /\ \A k \in 1..Len(s) : Append(s, e)[k] = s[k]
         /\ Append(s, e)[Len(s) + 1] = e
<1>1. Append(s, e) \in Seq(S) /\ Len(Append(s, e)) = Len(s) + 1
      /\ (\A k \in 1..Len(s) : Append(s, e)[k] = s[k])
      /\ Append(s, e)[Len(s) + 1] = e
  BY AppendProperties
<1>2. DOMAIN Append(s, e) = 1..Len(Append(s, e))
  BY <1>1, LenProperties
<1> QED BY <1>1, <1>2

LEMMA Removed ==
  ASSUME NEW S, NEW s \in Seq(S), NEW i \in 1..Len(s)
  PROVE  /\ RemoveAt(s, i) \in Seq(S) /\ DOMAIN RemoveAt(s, i) = 1..(Len(s) - 1)
         /\ Len(RemoveAt(s, i)) = Len(s) - 1
         /\ \A k \in 1..(Len(s) - 1) : RemoveAt(s, i)[k] = IF k < i THEN s[k] ELSE s[k + 1]
<1> DEFINE a == SubSeq(s, 1, i - 1)
           b == SubSeq(s, i + 1, Len(s))
<1>1. Len(s) \in Nat /\ i \in Nat /\ i >= 1 /\ i <= Len(s) /\ \A k \in 1..Len(s) : s[k] \in S
  BY Lengths
<1>2. /\ a \in Seq(S) /\ Len(a) = i - 1
      /\ \A k \in 1..(i - 1) : a[k] = s[k]
  <2>1. \A k \in 1..(i - 1) : s[k] \in S
    BY <1>1
  <2>2. 1 \in Int /\ i - 1 \in Int
    BY <1>1
  <2>3. /\ a \in Seq(S) /\ Len(a) = IF 1 <= i - 1 THEN (i - 1) - 1 + 1 ELSE 0
        /\ \A k \in 1..((i - 1) - 1 + 1) : a[k] = s[1 + k - 1]
    BY <2>1, <2>2, SubSeqProperties
  <2> HIDE DEF a
  <2> QED BY <2>3, <1>1
<1>3. /\ b \in Seq(S) /\ Len(b) = Len(s) - i
      /\ \A k \in 1..(Len(s) - i) : b[k] = s[i + k]
  <2>1. \A k \in (i + 1)..Len(s) : s[k] \in S
    BY <1>1
  <2>2. i + 1 \in Int /\ Len(s) \in Int
    BY <1>1
  <2>3. /\ b \in Seq(S) /\ Len(b) = IF i + 1 <= Len(s) THEN Len(s) - (i + 1) + 1 ELSE 0
        /\ \A k \in 1..(Len(s) - (i + 1) + 1) : b[k] = s[i + 1 + k - 1]
    BY <2>1, <2>2, SubSeqProperties
  <2> HIDE DEF b
  <2> QED BY <2>3, <1>1
<1>4. RemoveAt(s, i) = a \o b
  BY DEF RemoveAt
<1> HIDE DEF a, b
<1> DEFINE r == a \o b
<1>5. /\ r \in Seq(S) /\ Len(r) = Len(a) + Len(b)
      /\ \A k \in 1..(Len(a) + Len(b)) : r[k] = IF k <= Len(a) THEN a[k] ELSE b[k - Len(a)]
  BY <1>2, <1>3, ConcatProperties
<1> HIDE DEF r
<1>6. r \in Seq(S) /\ Len(r) = Len(s) - 1 /\ DOMAIN r = 1..(Len(s) - 1)
  BY <1>1, <1>2, <1>3, <1>5, Lengths
<1>7. ASSUME NEW k \in 1..(Len(s) - 1) PROVE r[k] = IF k < i THEN s[k] ELSE s[k + 1]
  <2>1. r[k] = IF k <= i - 1 THEN a[k] ELSE b[k - (i - 1)]
    BY <1>1, <1>2, <1>3, <1>5
  <2>2. CASE k < i
    BY <2>1, <2>2, <1>1, <1>2
  <2>3. CASE ~(k < i)
    <3>1. k - (i - 1) \in 1..(Len(s) - i) /\ i + (k - (i - 1)) = k + 1
      BY <2>3, <1>1
    <3> QED BY <3>1, <2>1, <2>3, <1>1, <1>3
  <2> QED BY <2>2, <2>3
<1> QED BY <1>4, <1>6, <1>7 DEF r

LEMMA Changed ==
  ASSUME NEW S, NEW s \in Seq(S), NEW i \in 1..Len(s), NEW e \in S
  PROVE  /\ [s EXCEPT ![i] = e] \in Seq(S) /\ DOMAIN [s EXCEPT ![i] = e] = 1..Len(s)
         /\ Len([s EXCEPT ![i] = e]) = Len(s)
         /\ \A k \in 1..Len(s) : [s EXCEPT ![i] = e][k] = IF k = i THEN e ELSE s[k]
<1>1. [s EXCEPT ![i] = e] \in Seq(S) /\ Len([s EXCEPT ![i] = e]) = Len(s)
  BY ExceptSeq
<1>2. DOMAIN s = 1..Len(s) /\ DOMAIN [s EXCEPT ![i] = e] = 1..Len(s)
  BY <1>1, Lengths
<1> QED BY <1>1, <1>2

(***************************************************************************)
(* The neighbours.                                                         *)
(***************************************************************************)
Neighbors == [mac : NMacs, dev : Devices, num : Devices, v4 : NAddrs \union {Nil}]
Knowledge == [v4 : NAddrs \union {Nil}, dev : Devices \union {Nil}, here : BOOLEAN]

NeighborTypeOK ==
  /\ cache \in Seq(Neighbors) /\ Len(cache) <= MaxNeighbors
  /\ circular \in 0..(MaxNeighbors - 1)
  /\ known \in [NMacs -> Knowledge]
NeighborInv == NeighborTypeOK /\ NeighborsKept

HasMac(c, mac) == \E i \in DOMAIN c : c[i].mac = mac
OneEach(c) == \A i, j \in DOMAIN c : c[i].mac = c[j].mac => i = j
Lost(m) == m \intersect {"recycled", "bridged"} # {}

LEMMA NeighborsBegin == NeighborInit => NeighborInv
<1> SUFFICES ASSUME NeighborInit PROVE NeighborInv
  OBVIOUS
<1> USE NeighborAssumption DEF NeighborAssumption
<1>1. cache = <<>> /\ circular = 0 /\ mixed = {} /\ posted = Event(Nil, Nil, Nil)
      /\ known = [m \in NMacs |-> [v4 |-> Nil, dev |-> Nil, here |-> FALSE]]
  BY DEF NeighborInit
<1>2. cache \in Seq(Neighbors) /\ Len(cache) = 0 /\ DOMAIN cache = {}
  BY <1>1, EmptySeq
<1>3. [v4 |-> Nil, dev |-> Nil, here |-> FALSE] \in Knowledge
  BY DEF Knowledge
<1>4. NeighborTypeOK
  BY <1>1, <1>2, <1>3 DEF NeighborTypeOK
<1>5. posted.mac = Nil
  BY <1>1 DEF Event
<1>6. \A m \in NMacs : ~known[m].here
  BY <1>1
<1> QED BY <1>2, <1>4, <1>5, <1>6 DEF NeighborInv, NeighborsKept, CacheOfLast, NeighborsFound

\* what an event about the neighbour mac must see to
LEMMA NeighborStep ==
  ASSUME NeighborInv, NEW mac \in NMacs, NEW k \in [NMacs -> Knowledge], Remembered(k),
         cache' \in Seq(Neighbors), Len(cache') <= MaxNeighbors,
         circular' \in 0..(MaxNeighbors - 1), OneEach(cache'), mixed \subseteq mixed',
         \A m \in NMacs \ {mac} : k[m] = known[m],
         \A i \in DOMAIN cache' : cache'[i].mac # mac => \E j \in DOMAIN cache : cache'[i] = cache[j],
         \A i \in DOMAIN cache' : cache'[i].mac = mac =>
           /\ cache'[i].dev = k[mac].dev
           /\ cache'[i].v4 \in {Nil, k[mac].v4} \/ "late" \in mixed',
         \A m \in NMacs \ {mac} : HasMac(cache, m) => HasMac(cache', m) \/ Lost(mixed'),
         k[mac].here => HasMac(cache', mac) \/ Lost(mixed'),
         posted'.mac # Nil =>
           /\ posted'.mac = mac /\ HasMac(cache', mac) /\ posted'.dev = k[mac].dev
           /\ posted'.addr = k[mac].v4 \/ "late" \in mixed'
  PROVE  NeighborInv'
<1>1. /\ cache \in Seq(Neighbors) /\ known \in [NMacs -> Knowledge]
      /\ \A i \in DOMAIN cache :
           /\ cache[i].dev = known[cache[i].mac].dev
           /\ cache[i].v4 \in {Nil, known[cache[i].mac].v4} \/ "late" \in mixed
      /\ \A m \in NMacs : known[m].here => HasMac(cache, m) \/ Lost(mixed)
  BY DEF NeighborInv, NeighborTypeOK, NeighborsKept, CacheOfLast, NeighborsFound, CachedAt, HasMac,
         Lost
<1>2. /\ known' = [m \in NMacs |-> IF HasMac(cache', m) THEN k[m]
                                   ELSE [v4 |-> Nil, dev |-> Nil, here |-> k[m].here]]
  BY DEF Remembered, HasMac
<1>3. \A m \in NMacs : /\ known'[m] \in Knowledge /\ (known'[m].here <=> k[m].here)
                       /\ HasMac(cache', m) => known'[m] = k[m]
  <2> TAKE m \in NMacs
  <2>1. k[m] \in Knowledge
    OBVIOUS
  <2>3. known'[m] = IF HasMac(cache', m) THEN k[m]
                    ELSE [v4 |-> Nil, dev |-> Nil, here |-> k[m].here]
    BY <1>2
  <2>4. k[m].here \in BOOLEAN
    BY <2>1 DEF Knowledge
  <2>5. CASE HasMac(cache', m)
    BY <2>1, <2>3, <2>5
  <2>6. CASE ~HasMac(cache', m)
    <3>1. known'[m] = [v4 |-> Nil, dev |-> Nil, here |-> k[m].here]
      BY <2>3, <2>6
    <3> QED BY <3>1, <2>4, <2>6 DEF Knowledge
  <2> QED BY <2>5, <2>6
<1>4. NeighborTypeOK'
  BY <1>2, <1>3 DEF NeighborTypeOK
<1>5. ASSUME NEW i \in DOMAIN cache'
      PROVE  /\ cache'[i].dev = known'[cache'[i].mac].dev
             /\ cache'[i].v4 \in {Nil, known'[cache'[i].mac].v4} \/ "late" \in mixed'
  <2>1. cache'[i].mac \in NMacs /\ HasMac(cache', cache'[i].mac)
    <3>1. cache'[i] \in Neighbors
      BY Lengths
    <3> QED BY <3>1 DEF Neighbors, HasMac
  <2>2. known'[cache'[i].mac] = k[cache'[i].mac]
    BY <2>1, <1>3
  <2>3. CASE cache'[i].mac = mac
    BY <2>2, <2>3
  <2>4. CASE cache'[i].mac # mac
    <3>1. PICK j \in DOMAIN cache : cache'[i] = cache[j]
      BY <2>4
    <3>2. k[cache'[i].mac] = known[cache[j].mac]
      BY <2>1, <2>4, <3>1
    <3> QED BY <1>1, <2>2, <3>1, <3>2
  <2> QED BY <2>3, <2>4
<1>6. posted'.mac # Nil => /\ posted'.addr = known'[posted'.mac].v4 \/ "late" \in mixed'
                           /\ posted'.dev = known'[posted'.mac].dev
  BY <1>3
<1>7. ASSUME NEW m \in NMacs, known'[m].here PROVE HasMac(cache', m) \/ Lost(mixed')
  <2>1. k[m].here
    BY <1>3, <1>7
  <2>2. CASE m = mac
    BY <2>1, <2>2
  <2>3. CASE m # mac
    <3>1. HasMac(cache, m) \/ Lost(mixed)
      BY <2>1, <2>3, <1>1
    <3>2. Lost(mixed) => Lost(mixed')
      BY DEF Lost
    <3> QED BY <2>3, <3>1, <3>2
  <2> QED BY <2>2, <2>3
<1>8. NeighborsKept'
  <2>1. CacheOfLast'
    BY <1>5, <1>6 DEF CacheOfLast, OneEach
  <2>2. NeighborsFound'
    <3> SUFFICES ASSUME NEW m \in NMacs, known'[m].here
                 PROVE  (\E i \in DOMAIN cache' : cache'[i].mac = m)
                        \/ mixed' \intersect {"recycled", "bridged"} # {}
      BY DEF NeighborsFound, CachedAt
    <3> QED BY <1>7 DEF HasMac, Lost
  <2> QED BY <2>1, <2>2 DEF NeighborsKept
<1> QED BY <1>4, <1>8 DEF NeighborInv

\* what is known after Told and Left
LEMMA TellingKnown ==
  ASSUME known \in [NMacs -> Knowledge], NEW mac \in NMacs,
         NEW d \in Devices \union {Nil}, NEW a \in NAddrs \union {Nil}, Told(mac, d, a)
  PROVE  \E k \in [NMacs -> Knowledge] :
           /\ Remembered(k) /\ \A m \in NMacs \ {mac} : k[m] = known[m]
           /\ k[mac].v4 = (IF a = Nil THEN known[mac].v4 ELSE a)
           /\ k[mac].dev = (IF d = Nil THEN known[mac].dev ELSE d)
           /\ k[mac].here <=> (known[mac].here \/ d # Nil)
<1> DEFINE r == [v4 |-> IF a = Nil THEN known[mac].v4 ELSE a,
                 dev |-> IF d = Nil THEN known[mac].dev ELSE d,
                 here |-> known[mac].here \/ d # Nil]
           k == [known EXCEPT ![mac] = r]
<1>1. Remembered(k)
  BY DEF Told
<1>2. known[mac] \in Knowledge
  OBVIOUS
<1>3. r \in Knowledge
  BY <1>2 DEF Knowledge
<1>4. k \in [NMacs -> Knowledge] /\ k[mac] = r /\ \A m \in NMacs \ {mac} : k[m] = known[m]
  BY <1>3
<1> QED BY <1>1, <1>4

LEMMA LeavingKnown ==
  ASSUME known \in [NMacs -> Knowledge], NEW mac \in NMacs, Left(mac)
  PROVE  \E k \in [NMacs -> Knowledge] :
           /\ Remembered(k) /\ \A m \in NMacs \ {mac} : k[m] = known[m]
           /\ ~k[mac].here
<1> DEFINE r == [known[mac] EXCEPT !.here = FALSE]
           k == [known EXCEPT ![mac] = r]
<1>1. Remembered(k)
  BY DEF Left
<1>2. known[mac] \in Knowledge
  OBVIOUS
<1>3. r \in Knowledge /\ ~r.here
  BY <1>2 DEF Knowledge
<1>4. k \in [NMacs -> Knowledge] /\ k[mac] = r /\ \A m \in NMacs \ {mac} : k[m] = known[m]
  BY <1>3
<1> QED BY <1>1, <1>3, <1>4

LEMMA EntryFields ==
  ASSUME NEW m \in NMacs, NEW d \in Devices, NEW a \in NAddrs \union {Nil}
  PROVE  /\ Entry(m, d, a) \in Neighbors /\ Entry(m, d, a).mac = m /\ Entry(m, d, a).dev = d
         /\ Entry(m, d, a).v4 = a
BY DEF Entry, Neighbors

LEMMA NeighborFields ==
  ASSUME NeighborInv
  PROVE  /\ cache \in Seq(Neighbors) /\ Len(cache) \in Nat /\ DOMAIN cache = 1..Len(cache)
         /\ Len(cache) <= MaxNeighbors /\ circular \in 0..(MaxNeighbors - 1)
         /\ known \in [NMacs -> Knowledge] /\ OneEach(cache)
         /\ \A i \in DOMAIN cache :
              /\ cache[i] \in Neighbors /\ cache[i].mac \in NMacs /\ cache[i].dev \in Devices
              /\ cache[i].v4 \in NAddrs \union {Nil} /\ HasMac(cache, cache[i].mac)
              /\ cache[i].dev = known[cache[i].mac].dev
              /\ cache[i].v4 \in {Nil, known[cache[i].mac].v4} \/ "late" \in mixed
         /\ \A m \in NMacs : known[m].here => HasMac(cache, m) \/ Lost(mixed)
         /\ \A m : CachedAt(m) = {} <=> ~HasMac(cache, m)
<1>1. cache \in Seq(Neighbors) /\ known \in [NMacs -> Knowledge]
      /\ Len(cache) <= MaxNeighbors /\ circular \in 0..(MaxNeighbors - 1)
  BY DEF NeighborInv, NeighborTypeOK
<1>2. Len(cache) \in Nat /\ DOMAIN cache = 1..Len(cache)
      /\ \A i \in DOMAIN cache : cache[i] \in Neighbors
  BY <1>1, Lengths
<1>3. \A i \in DOMAIN cache : /\ cache[i].mac \in NMacs /\ cache[i].dev \in Devices
                              /\ cache[i].v4 \in NAddrs \union {Nil} /\ HasMac(cache, cache[i].mac)
  BY <1>2 DEF Neighbors, HasMac
<1>4. \A m : CachedAt(m) = {} <=> ~HasMac(cache, m)
  BY DEF CachedAt, HasMac
<1>5. /\ OneEach(cache)
      /\ \A i \in DOMAIN cache :
           /\ cache[i].dev = known[cache[i].mac].dev
           /\ cache[i].v4 \in {Nil, known[cache[i].mac].v4} \/ "late" \in mixed
  BY DEF NeighborInv, NeighborsKept, CacheOfLast, OneEach
<1>6. \A m \in NMacs : known[m].here => HasMac(cache, m) \/ Lost(mixed)
  BY <1>4 DEF NeighborInv, NeighborsKept, NeighborsFound, Lost
<1> QED BY <1>1, <1>2, <1>3, <1>4, <1>5, <1>6

\* a neighbour takes an entry
LEMMA EntryTaken ==
  ASSUME NeighborInv, NEW mac \in NMacs, NEW d \in Devices, NEW a \in NAddrs \union {Nil},
         ~HasMac(cache, mac), NewEntry(mac, d, a)
  PROVE  /\ cache' \in Seq(Neighbors) /\ Len(cache') <= MaxNeighbors
         /\ circular' \in 0..(MaxNeighbors - 1) /\ OneEach(cache') /\ mixed \subseteq mixed'
         /\ HasMac(cache', mac)
         /\ \A i \in DOMAIN cache' : cache'[i].mac # mac => \E j \in DOMAIN cache : cache'[i] = cache[j]
         /\ \A i \in DOMAIN cache' : cache'[i].mac = mac => cache'[i].dev = d /\ cache'[i].v4 \in {Nil, a}
         /\ \A m \in NMacs \ {mac} : HasMac(cache, m) => HasMac(cache', m) \/ Lost(mixed')
<1> USE NeighborAssumption DEF NeighborAssumption
<1>0. /\ cache \in Seq(Neighbors) /\ Len(cache) \in Nat /\ DOMAIN cache = 1..Len(cache)
      /\ Len(cache) <= MaxNeighbors /\ circular \in 0..(MaxNeighbors - 1) /\ OneEach(cache)
  BY NeighborFields
<1>1. CASE Len(cache) < MaxNeighbors
  <2> DEFINE e == Entry(mac, d, a)
  <2>1. cache' = Append(cache, e) /\ UNCHANGED <<circular, mixed>>
    BY <1>1 DEF NewEntry
  <2>2. e \in Neighbors /\ e.mac = mac /\ e.dev = d /\ e.v4 = a
    BY EntryFields
  <2> HIDE DEF e
  <2>3. /\ cache' \in Seq(Neighbors) /\ Len(cache') = Len(cache) + 1
        /\ DOMAIN cache' = 1..(Len(cache) + 1)
        /\ \A k \in 1..Len(cache) : cache'[k] = cache[k]
        /\ cache'[Len(cache) + 1] = e
    BY <1>0, <2>1, <2>2, Appended
  <2>4. OneEach(cache')
    BY <1>0, <2>2, <2>3 DEF OneEach, HasMac
  <2>5. /\ \A i \in DOMAIN cache' : cache'[i].mac # mac => \E j \in DOMAIN cache : cache'[i] = cache[j]
        /\ \A i \in DOMAIN cache' : cache'[i].mac = mac => cache'[i].dev = d /\ cache'[i].v4 \in {Nil, a}
    BY <1>0, <2>2, <2>3 DEF HasMac
  <2>6. HasMac(cache', mac) /\ \A m : HasMac(cache, m) => HasMac(cache', m)
    BY <1>0, <2>2, <2>3 DEF HasMac
  <2> QED BY <1>0, <1>1, <2>1, <2>3, <2>4, <2>5, <2>6
<1>2. CASE ~(Len(cache) < MaxNeighbors)
  <2> DEFINE e == Entry(mac, d, Nil)
             p == circular + 1
  <2>1. /\ cache' = [cache EXCEPT ![p] = e] /\ circular' = p % MaxNeighbors
        /\ mixed' = mixed \union {"recycled"}
    BY <1>2 DEF NewEntry
  <2>2. e \in Neighbors /\ e.mac = mac /\ e.dev = d /\ e.v4 = Nil
    BY EntryFields
  <2>3. p \in 1..Len(cache) /\ Len(cache) = MaxNeighbors /\ p % MaxNeighbors \in 0..(MaxNeighbors - 1)
    <3>1. p \in Nat /\ MaxNeighbors \in Nat \ {0}
      BY <1>0
    <3>2. p % MaxNeighbors \in 0..(MaxNeighbors - 1)
      BY <3>1
    <3>3. Len(cache) = MaxNeighbors /\ p \in 1..Len(cache)
      <4>1. /\ Len(cache) \in Nat /\ Len(cache) <= MaxNeighbors /\ ~(Len(cache) < MaxNeighbors)
            /\ circular \in 0..(MaxNeighbors - 1) /\ MaxNeighbors \in Nat
        BY <1>0, <1>2
      <4>2. Len(cache) = MaxNeighbors
        BY <4>1
      <4> QED BY <4>1, <4>2
    <3> HIDE DEF p
    <3> QED BY <3>2, <3>3
  <2> HIDE DEF e, p
  <2>4. /\ cache' \in Seq(Neighbors) /\ Len(cache') = Len(cache) /\ DOMAIN cache' = 1..Len(cache)
        /\ \A k \in 1..Len(cache) : cache'[k] = IF k = p THEN e ELSE cache[k]
    BY <1>0, <2>1, <2>2, <2>3, Changed
  <2>5. OneEach(cache')
    BY <1>0, <2>2, <2>4 DEF OneEach, HasMac
  <2>6. /\ \A i \in DOMAIN cache' : cache'[i].mac # mac => \E j \in DOMAIN cache : cache'[i] = cache[j]
        /\ \A i \in DOMAIN cache' : cache'[i].mac = mac => cache'[i].dev = d /\ cache'[i].v4 \in {Nil, a}
    BY <1>0, <2>2, <2>4 DEF HasMac
  <2>7. HasMac(cache', mac) /\ Lost(mixed') /\ mixed \subseteq mixed'
    BY <1>0, <2>1, <2>2, <2>3, <2>4 DEF HasMac, Lost
  <2> QED BY <1>0, <2>1, <2>3, <2>4, <2>5, <2>6, <2>7
<1> QED BY <1>1, <1>2

\* a neighbour's entry goes
LEMMA EntryDropped ==
  ASSUME NeighborInv, NEW mac \in NMacs, DropEntry(mac)
  PROVE  /\ cache' \in Seq(Neighbors) /\ Len(cache') <= MaxNeighbors /\ OneEach(cache')
         /\ \A i \in DOMAIN cache' : cache'[i].mac # mac /\ \E j \in DOMAIN cache : cache'[i] = cache[j]
         /\ \A m \in NMacs \ {mac} : HasMac(cache, m) => HasMac(cache', m)
<1>0. /\ cache \in Seq(Neighbors) /\ Len(cache) \in Nat /\ DOMAIN cache = 1..Len(cache)
      /\ Len(cache) <= MaxNeighbors /\ OneEach(cache) /\ MaxNeighbors \in Nat
      /\ CachedAt(mac) = {} <=> ~HasMac(cache, mac)
  BY NeighborFields, NeighborAssumption DEF NeighborAssumption
<1>1. CASE CachedAt(mac) = {}
  <2>1. cache' = cache
    BY <1>1 DEF DropEntry
  <2> QED BY <1>0, <1>1, <2>1 DEF HasMac
<1>2. CASE CachedAt(mac) # {}
  <2>1. PICK i \in CachedAt(mac) : cache' = RemoveAt(cache, i)
    BY <1>2 DEF DropEntry, WithoutEntry
  <2>2. i \in 1..Len(cache) /\ cache[i].mac = mac
    BY <1>0 DEF CachedAt
  <2>3. /\ cache' \in Seq(Neighbors) /\ Len(cache') = Len(cache) - 1
        /\ DOMAIN cache' = 1..(Len(cache) - 1)
        /\ \A k \in 1..(Len(cache) - 1) : cache'[k] = IF k < i THEN cache[k] ELSE cache[k + 1]
    BY <1>0, <2>1, <2>2, Removed
  <2>f. ASSUME NEW x \in DOMAIN cache'
        PROVE  \E j \in DOMAIN cache : cache'[x] = cache[j] /\ j = (IF x < i THEN x ELSE x + 1)
    <3>1. x \in 1..(Len(cache) - 1) /\ x \in DOMAIN cache /\ x + 1 \in DOMAIN cache
      BY <1>0, <2>3, <2>f
    <3> QED BY <3>1, <2>3
  <2>4. OneEach(cache')
    <3> SUFFICES ASSUME NEW x \in DOMAIN cache', NEW y \in DOMAIN cache',
                        cache'[x].mac = cache'[y].mac
                 PROVE  x = y
      BY DEF OneEach
    <3>1. PICK u \in DOMAIN cache : cache'[x] = cache[u] /\ u = (IF x < i THEN x ELSE x + 1)
      BY <2>f
    <3>2. PICK v \in DOMAIN cache : cache'[y] = cache[v] /\ v = (IF y < i THEN y ELSE y + 1)
      BY <2>f
    <3>3. u = v
      BY <3>1, <3>2, <1>0 DEF OneEach
    <3> QED BY <3>1, <3>2, <3>3, <2>2, <2>3, <1>0
  <2>5. ASSUME NEW x \in DOMAIN cache'
        PROVE  cache'[x].mac # mac /\ \E j \in DOMAIN cache : cache'[x] = cache[j]
    <3>1. PICK j \in DOMAIN cache : cache'[x] = cache[j] /\ j = (IF x < i THEN x ELSE x + 1)
      BY <2>f
    <3>2. j # i
      BY <3>1, <1>0, <2>2, <2>3
    <3> QED BY <3>1, <3>2, <1>0, <2>2 DEF OneEach
  <2>6. ASSUME NEW m \in NMacs, m # mac, HasMac(cache, m) PROVE HasMac(cache', m)
    <3>1. PICK j \in DOMAIN cache : cache[j].mac = m
      BY <2>6 DEF HasMac
    <3>2. j # i
      BY <3>1, <2>2, <2>6
    <3>3. CASE j < i
      BY <3>1, <3>3, <1>0, <2>2, <2>3 DEF HasMac
    <3>4. CASE j > i
      <4>1. j - 1 \in DOMAIN cache' /\ ~(j - 1 < i) /\ (j - 1) + 1 = j
        BY <3>4, <1>0, <2>2, <2>3
      <4> QED BY <3>1, <4>1, <2>3 DEF HasMac
    <3> QED BY <3>2, <3>3, <3>4, <1>0, <2>2
  <2> QED BY <1>0, <2>3, <2>4, <2>5, <2>6
<1> QED BY <1>1, <1>2

\* a neighbour's entry changes
LEMMA EntryChanged ==
  ASSUME NeighborInv, NEW i \in DOMAIN cache, NEW e \in Neighbors, NEW mac,
         e.mac = mac, cache[i].mac = mac,
         cache' = [cache EXCEPT ![i] = e]
  PROVE  /\ cache' \in Seq(Neighbors) /\ Len(cache') <= MaxNeighbors /\ OneEach(cache')
         /\ \A j \in DOMAIN cache' : \/ cache'[j] = e
                                     \/ /\ cache'[j].mac # mac
                                        /\ \E k \in DOMAIN cache : cache'[j] = cache[k]
         /\ \A m : HasMac(cache, m) <=> HasMac(cache', m)
         /\ HasMac(cache', mac)
<1>0. /\ cache \in Seq(Neighbors) /\ Len(cache) \in Nat /\ DOMAIN cache = 1..Len(cache)
      /\ Len(cache) <= MaxNeighbors /\ OneEach(cache)
  BY NeighborFields
<1>1. /\ cache' \in Seq(Neighbors) /\ Len(cache') = Len(cache) /\ DOMAIN cache' = 1..Len(cache)
      /\ \A k \in 1..Len(cache) : cache'[k] = IF k = i THEN e ELSE cache[k]
  BY <1>0, Changed
<1>2. \A k \in DOMAIN cache : cache'[k].mac = cache[k].mac
  BY <1>0, <1>1
<1> QED BY <1>0, <1>1, <1>2 DEF OneEach, HasMac

\* the bridge told nothing new
LEMMA NeighborSame ==
  ASSUME NeighborInv, UNCHANGED <<cache, circular, known, mixed>>, posted'.mac = Nil
  PROVE  NeighborInv'
<1>1. NeighborTypeOK'
  BY DEF NeighborInv, NeighborTypeOK
<1>2. CacheOfLast' /\ NeighborsFound'
  BY DEF NeighborInv, NeighborsKept, CacheOfLast, NeighborsFound, CachedAt
<1> QED BY <1>1, <1>2 DEF NeighborInv, NeighborsKept

LEMMA PostFields ==
  ASSUME NEW n, NEW m, NEW d, NEW a, Post(n, m, d, a)
  PROVE  /\ posted'.mac # Nil => /\ n /\ a # "v6" /\ posted'.mac = m
                                 /\ posted'.dev = d /\ posted'.addr = a
         /\ ~n => posted'.mac = Nil
BY DEF Post, Event

LEMMA NoPostFields == NoPost => posted'.mac = Nil
BY DEF NoPost, Event

LEMMA DeviceIsNone == \A d \in Devices : d # Nil
BY NeighborAssumption DEF NeighborAssumption

LEMMA AddrIsNone == \A a \in NAddrs : a # Nil
BY NeighborAssumption DEF NeighborAssumption

\* the device of a neighbour of the cache: WlanClientAdd and NewNeighMac
LEMMA DeviceKept ==
  ASSUME NeighborInv, NEW mac \in NMacs, NEW d \in Devices, NEW i \in CachedAt(mac),
         cache' = [cache EXCEPT ![i].dev = d], Told(mac, d, Nil), UNCHANGED <<circular, mixed>>,
         posted'.mac # Nil => posted'.mac = mac /\ posted'.dev = d /\ posted'.addr = cache[i].v4,
         posted'.mac # Nil => cache[i].v4 # Nil
  PROVE  NeighborInv'
<1> DEFINE e == [cache[i] EXCEPT !.dev = d]
<1>0. /\ cache \in Seq(Neighbors) /\ known \in [NMacs -> Knowledge] /\ OneEach(cache)
      /\ circular \in 0..(MaxNeighbors - 1)
      /\ i \in DOMAIN cache /\ cache[i].mac = mac /\ cache[i] \in Neighbors
      /\ cache[i].v4 \in {Nil, known[mac].v4} \/ "late" \in mixed
  BY NeighborFields DEF CachedAt
<1>1. e \in Neighbors /\ e.mac = mac /\ e.dev = d /\ e.v4 = cache[i].v4
  BY <1>0 DEF Neighbors
<1>2. cache' = [cache EXCEPT ![i] = e]
  OBVIOUS
<1> HIDE DEF e
<1>3. /\ cache' \in Seq(Neighbors) /\ Len(cache') <= MaxNeighbors /\ OneEach(cache')
      /\ \A j \in DOMAIN cache' : \/ cache'[j] = e
                                  \/ /\ cache'[j].mac # mac
                                     /\ \E k \in DOMAIN cache : cache'[j] = cache[k]
      /\ \A m : HasMac(cache, m) <=> HasMac(cache', m)
      /\ HasMac(cache', mac)
  BY <1>0, <1>1, <1>2, EntryChanged, ZenonT(40)
<1>4. PICK k \in [NMacs -> Knowledge] :
        /\ Remembered(k) /\ \A m \in NMacs \ {mac} : k[m] = known[m]
        /\ k[mac].v4 = known[mac].v4 /\ k[mac].dev = d
  BY <1>0, DeviceIsNone, TellingKnown
<1>5. /\ \A j \in DOMAIN cache' : cache'[j].mac # mac => \E x \in DOMAIN cache : cache'[j] = cache[x]
      /\ \A j \in DOMAIN cache' : cache'[j].mac = mac =>
           cache'[j].dev = k[mac].dev /\ (cache'[j].v4 \in {Nil, k[mac].v4} \/ "late" \in mixed')
  BY <1>0, <1>1, <1>3, <1>4
<1>6. posted'.mac # Nil =>
        /\ posted'.mac = mac /\ HasMac(cache', mac) /\ posted'.dev = k[mac].dev
        /\ posted'.addr = k[mac].v4 \/ "late" \in mixed'
  BY <1>0, <1>3, <1>4
<1> QED BY <1>0, <1>3, <1>4, <1>5, <1>6, NeighborStep, ZenonT(40)

LEMMA NeighborEvents ==
  ASSUME NeighborInv, NeighborNext PROVE NeighborInv'
<1>0. /\ cache \in Seq(Neighbors) /\ known \in [NMacs -> Knowledge] /\ OneEach(cache)
      /\ circular \in 0..(MaxNeighbors - 1) /\ Len(cache) <= MaxNeighbors
      /\ \A m : CachedAt(m) = {} <=> ~HasMac(cache, m)
      /\ \A i \in DOMAIN cache : /\ cache[i] \in Neighbors
                                 /\ cache[i].v4 \in NAddrs \union {Nil}
                                 /\ cache[i].dev = known[cache[i].mac].dev
  BY NeighborFields
<1>1. ASSUME NEW mac \in NMacs, NEW d \in Devices, WlanClientAdd(mac, d) PROVE NeighborInv'
  <2>1. CASE CachedAt(mac) = {}
    <3>1. UNCHANGED <<cache, circular, known, mixed>> /\ NoPost
      BY <1>1, <2>1 DEF WlanClientAdd
    <3> QED BY <3>1, NoPostFields, NeighborSame
  <2>2. CASE CachedAt(mac) # {}
    <3>1. PICK i \in CachedAt(mac) :
            /\ cache' = [cache EXCEPT ![i].dev = d] /\ Told(mac, d, Nil)
            /\ IF d = cache[i].num /\ cache[i].v4 # Nil
               THEN Post(TRUE, mac, d, cache[i].v4) ELSE NoPost
      BY <1>1, <2>2 DEF WlanClientAdd
    <3>2. UNCHANGED <<circular, mixed>>
      BY <1>1 DEF WlanClientAdd
    <3>3. posted'.mac # Nil => /\ posted'.mac = mac /\ posted'.dev = d
                               /\ posted'.addr = cache[i].v4 /\ cache[i].v4 # Nil
      BY <3>1, PostFields, NoPostFields
    <3> QED BY <3>1, <3>2, <3>3, DeviceKept
  <2> QED BY <2>1, <2>2
<1>2. ASSUME NEW mac \in NMacs, NEW d \in Devices, NewNeighMac(mac, d) PROVE NeighborInv'
  <2>1. CASE CachedAt(mac) = {}
    <3>1. NewEntry(mac, d, Nil) /\ NoPost /\ Told(mac, d, Nil)
      BY <1>2, <2>1 DEF NewNeighMac
    <3>2. /\ cache' \in Seq(Neighbors) /\ Len(cache') <= MaxNeighbors
          /\ circular' \in 0..(MaxNeighbors - 1) /\ OneEach(cache') /\ mixed \subseteq mixed'
          /\ HasMac(cache', mac)
          /\ \A i \in DOMAIN cache' :
               cache'[i].mac # mac => \E j \in DOMAIN cache : cache'[i] = cache[j]
          /\ \A i \in DOMAIN cache' :
               cache'[i].mac = mac => cache'[i].dev = d /\ cache'[i].v4 \in {Nil}
          /\ \A m \in NMacs \ {mac} : HasMac(cache, m) => HasMac(cache', m) \/ Lost(mixed')
      BY <1>0, <2>1, <3>1, EntryTaken
    <3>3. PICK k \in [NMacs -> Knowledge] :
            /\ Remembered(k) /\ \A m \in NMacs \ {mac} : k[m] = known[m]
            /\ k[mac].dev = d
      BY <1>0, <3>1, DeviceIsNone, TellingKnown
    <3>4. posted'.mac = Nil
      BY <3>1, NoPostFields
    <3>5. \A i \in DOMAIN cache' : cache'[i].mac = mac =>
            cache'[i].dev = k[mac].dev /\ (cache'[i].v4 \in {Nil, k[mac].v4} \/ "late" \in mixed')
      BY <3>2, <3>3
    <3> QED BY <3>2, <3>3, <3>4, <3>5, NeighborStep
  <2>2. CASE CachedAt(mac) # {}
    <3>1. PICK i \in CachedAt(mac) :
            /\ cache' = [cache EXCEPT ![i].dev = d]
            /\ IF cache[i].v4 # Nil THEN Post(TRUE, mac, d, cache[i].v4) ELSE NoPost
            /\ UNCHANGED <<circular, mixed>>
      BY <1>2, <2>2 DEF NewNeighMac
    <3>2. Told(mac, d, Nil)
      BY <1>2 DEF NewNeighMac
    <3>3. posted'.mac # Nil => /\ posted'.mac = mac /\ posted'.dev = d
                               /\ posted'.addr = cache[i].v4 /\ cache[i].v4 # Nil
      BY <3>1, PostFields, NoPostFields
    <3> QED BY <3>1, <3>2, <3>3, DeviceKept
  <2> QED BY <2>1, <2>2
<1>3. ASSUME NEW mac \in NMacs, DropEntry(mac), UNCHANGED circular, mixed \subseteq mixed',
             posted'.mac = Nil, Left(mac) \/ (Remembered(known) /\ Lost(mixed'))
      PROVE  NeighborInv'
  <2>1. /\ cache' \in Seq(Neighbors) /\ Len(cache') <= MaxNeighbors /\ OneEach(cache')
        /\ \A i \in DOMAIN cache' : cache'[i].mac # mac /\ \E j \in DOMAIN cache : cache'[i] = cache[j]
        /\ \A m \in NMacs \ {mac} : HasMac(cache, m) => HasMac(cache', m)
    BY <1>3, EntryDropped
  <2>2. PICK k \in [NMacs -> Knowledge] :
          /\ Remembered(k) /\ \A m \in NMacs \ {mac} : k[m] = known[m]
          /\ ~k[mac].here \/ Lost(mixed')
    BY <1>0, <1>3, LeavingKnown
  <2>3. /\ \A i \in DOMAIN cache' : cache'[i].mac # mac => \E j \in DOMAIN cache : cache'[i] = cache[j]
        /\ \A i \in DOMAIN cache' : cache'[i].mac = mac =>
             cache'[i].dev = k[mac].dev /\ (cache'[i].v4 \in {Nil, k[mac].v4} \/ "late" \in mixed')
    BY <2>1
  <2>4. circular' \in 0..(MaxNeighbors - 1)
    BY <1>0, <1>3
  <2> QED BY <1>3, <2>1, <2>2, <2>3, <2>4, NeighborStep
<1>4. ASSUME NEW mac \in NMacs, NEW d \in Devices, DelNeighMac(mac, d) PROVE NeighborInv'
  <2>1. DropEntry(mac) /\ Left(mac) /\ UNCHANGED <<circular, mixed>>
    BY <1>4 DEF DelNeighMac
  <2>2. posted'.mac = Nil
    BY <1>4, PostFields, NoPostFields DEF DelNeighMac
  <2> QED BY <1>3, <2>1, <2>2
<1>5. ASSUME NEW mac \in NMacs, NEW d \in Devices, NEW a \in NAddrs, DelNeighV4(mac, d, a)
      PROVE  NeighborInv'
  <2>1. DropEntry(mac) /\ Left(mac) /\ UNCHANGED <<circular, mixed>> /\ Post(FALSE, mac, d, a)
    BY <1>5 DEF DelNeighV4
  <2>2. posted'.mac = Nil
    BY <2>1, PostFields
  <2> QED BY <1>3, <2>1, <2>2
<1>6. ASSUME NEW mac \in NMacs, DelBridgeMac(mac) PROVE NeighborInv'
  <2>1. /\ DropEntry(mac) /\ UNCHANGED circular /\ NoPost /\ Remembered(known)
        /\ mixed' = mixed \union {"bridged"}
    BY <1>6 DEF DelBridgeMac
  <2>2. mixed \subseteq mixed' /\ Lost(mixed')
    BY <2>1 DEF Lost
  <2>3. posted'.mac = Nil
    BY <2>1, NoPostFields
  <2> QED BY <1>3, <2>1, <2>2, <2>3
<1>7. ASSUME NEW mac \in NMacs, NEW n \in BOOLEAN,
             BridgeV6(n, mac) \/ \E d \in Devices : NeighV6(n, mac, d)
      PROVE  NeighborInv'
  <2>1. UNCHANGED <<cache, circular, known, mixed>>
    BY <1>7 DEF BridgeV6, NeighV6
  <2>2. NoPost \/ \E d : Post(n, mac, d, "v6")
    BY <1>7 DEF BridgeV6, NeighV6
  <2>3. posted'.mac = Nil
    BY <2>2, PostFields, NoPostFields
  <2> QED BY <2>1, <2>3, NeighborSame
<1>8. ASSUME NEW mac \in NMacs, NEW n \in BOOLEAN, NEW a \in NAddrs, BridgeV4(n, mac, a)
      PROVE  NeighborInv'
  <2>1. CASE CachedAt(mac) = {}
    <3>1. UNCHANGED <<cache, circular, known, mixed>> /\ NoPost
      BY <1>8, <2>1 DEF BridgeV4
    <3> QED BY <3>1, NoPostFields, NeighborSame
  <2>2. CASE CachedAt(mac) # {}
    <3>1. PICK i \in CachedAt(mac) :
            /\ cache' = [cache EXCEPT ![i].v4 = a]
            /\ Told(mac, Nil, IF n THEN a ELSE Nil)
            /\ Post(n, mac, cache[i].dev, a)
            /\ mixed' = mixed \union IF n \/ a = known[mac].v4 THEN {} ELSE {"late"}
      BY <1>8, <2>2 DEF BridgeV4
    <3>2. circular' = circular
      BY <1>8 DEF BridgeV4
    <3> DEFINE e == [cache[i] EXCEPT !.v4 = a]
               b == IF n THEN a ELSE Nil
    <3>3. i \in DOMAIN cache /\ cache[i].mac = mac /\ cache[i] \in Neighbors
          /\ cache[i].dev = known[mac].dev
      BY <1>0 DEF CachedAt
    <3>4. e \in Neighbors /\ e.mac = mac /\ e.dev = known[mac].dev /\ e.v4 = a
      BY <3>3 DEF Neighbors
    <3>5. cache' = [cache EXCEPT ![i] = e]
      BY <3>1
    <3> HIDE DEF e
    <3>6. /\ cache' \in Seq(Neighbors) /\ Len(cache') <= MaxNeighbors /\ OneEach(cache')
          /\ \A j \in DOMAIN cache' : \/ cache'[j] = e
                                      \/ /\ cache'[j].mac # mac
                                         /\ \E k \in DOMAIN cache : cache'[j] = cache[k]
          /\ \A m : HasMac(cache, m) <=> HasMac(cache', m)
          /\ HasMac(cache', mac)
      BY <3>3, <3>4, <3>5, EntryChanged
    <3>7. PICK k \in [NMacs -> Knowledge] :
            /\ Remembered(k) /\ \A m \in NMacs \ {mac} : k[m] = known[m]
            /\ k[mac].v4 = (IF b = Nil THEN known[mac].v4 ELSE b) /\ k[mac].dev = known[mac].dev
      <4>1. b \in NAddrs \union {Nil} /\ Told(mac, Nil, b)
        BY <3>1
      <4> HIDE DEF b
      <4>2. known \in [NMacs -> Knowledge] /\ Nil \in Devices \union {Nil}
        BY <1>0
      <4>3. \E k \in [NMacs -> Knowledge] :
              /\ Remembered(k) /\ \A m \in NMacs \ {mac} : k[m] = known[m]
              /\ k[mac].v4 = (IF b = Nil THEN known[mac].v4 ELSE b)
              /\ k[mac].dev = (IF Nil = Nil THEN known[mac].dev ELSE Nil)
              /\ k[mac].here <=> (known[mac].here \/ Nil # Nil)
        BY <4>1, <4>2, TellingKnown
      <4> QED BY <4>3
    <3>8. k[mac].v4 = a \/ "late" \in mixed'
      BY <3>1, <3>7, AddrIsNone
    <3>9. /\ \A j \in DOMAIN cache' : cache'[j].mac # mac => \E x \in DOMAIN cache : cache'[j] = cache[x]
          /\ \A j \in DOMAIN cache' : cache'[j].mac = mac =>
               cache'[j].dev = k[mac].dev /\ (cache'[j].v4 \in {Nil, k[mac].v4} \/ "late" \in mixed')
      BY <3>4, <3>6, <3>7, <3>8
    <3>10. posted'.mac # Nil =>
             /\ posted'.mac = mac /\ HasMac(cache', mac) /\ posted'.dev = k[mac].dev
             /\ posted'.addr = k[mac].v4 \/ "late" \in mixed'
      BY <3>1, <3>3, <3>6, <3>7, <3>8, PostFields
    <3>11. mixed \subseteq mixed' /\ circular' \in 0..(MaxNeighbors - 1)
      BY <1>0, <3>1, <3>2
    <3> HIDE DEF b
    <3> QED BY <3>6, <3>7, <3>9, <3>10, <3>11, NeighborStep
  <2> QED BY <2>1, <2>2
<1>9. ASSUME NEW mac \in NMacs, NEW d \in Devices, NEW a \in NAddrs, NewNeighV4(mac, d, a)
      PROVE  NeighborInv'
  <2>0. Told(mac, d, a) /\ Post(TRUE, mac, d, a)
    BY <1>9 DEF NewNeighV4
  <2>1. PICK k \in [NMacs -> Knowledge] :
          /\ Remembered(k) /\ \A m \in NMacs \ {mac} : k[m] = known[m]
          /\ k[mac].v4 = a /\ k[mac].dev = d
    BY <1>0, <2>0, DeviceIsNone, AddrIsNone, TellingKnown
  <2>2. posted'.mac # Nil => posted'.mac = mac /\ posted'.dev = d /\ posted'.addr = a
    BY <2>0, PostFields
  <2>3. CASE CachedAt(mac) = {}
    <3>1. NewEntry(mac, d, a)
      BY <1>9, <2>3 DEF NewNeighV4
    <3>2. /\ cache' \in Seq(Neighbors) /\ Len(cache') <= MaxNeighbors
          /\ circular' \in 0..(MaxNeighbors - 1) /\ OneEach(cache') /\ mixed \subseteq mixed'
          /\ HasMac(cache', mac)
          /\ \A i \in DOMAIN cache' :
               cache'[i].mac # mac => \E j \in DOMAIN cache : cache'[i] = cache[j]
          /\ \A i \in DOMAIN cache' :
               cache'[i].mac = mac => cache'[i].dev = d /\ cache'[i].v4 \in {Nil, a}
          /\ \A m \in NMacs \ {mac} : HasMac(cache, m) => HasMac(cache', m) \/ Lost(mixed')
      BY <1>0, <2>3, <3>1, EntryTaken
    <3>3. \A i \in DOMAIN cache' : cache'[i].mac = mac =>
            cache'[i].dev = k[mac].dev /\ (cache'[i].v4 \in {Nil, k[mac].v4} \/ "late" \in mixed')
      BY <3>2, <2>1
    <3>4. posted'.mac # Nil =>
            /\ posted'.mac = mac /\ HasMac(cache', mac) /\ posted'.dev = k[mac].dev
            /\ posted'.addr = k[mac].v4 \/ "late" \in mixed'
      BY <2>1, <2>2, <3>2
    <3> QED BY <2>1, <3>2, <3>3, <3>4, NeighborStep
  <2>4. CASE CachedAt(mac) # {}
    <3>1. /\ cache' = [i \in DOMAIN cache |->
                         IF i \in CachedAt(mac) THEN Entry(mac, d, a) ELSE cache[i]]
          /\ UNCHANGED <<circular, mixed>>
      BY <1>9, <2>4 DEF NewNeighV4
    <3>2. PICK i \in CachedAt(mac) : TRUE
      BY <2>4
    <3>3. /\ i \in DOMAIN cache /\ cache[i].mac = mac
          /\ \A j \in DOMAIN cache : j \in CachedAt(mac) <=> j = i
      BY <1>0 DEF CachedAt, OneEach
    <3> DEFINE e == Entry(mac, d, a)
    <3>4. e \in Neighbors /\ e.mac = mac /\ e.dev = d /\ e.v4 = a
      BY EntryFields
    <3>5. cache' = [cache EXCEPT ![i] = e]
      BY <3>1, <3>3
    <3> HIDE DEF e
    <3>6. /\ cache' \in Seq(Neighbors) /\ Len(cache') <= MaxNeighbors /\ OneEach(cache')
          /\ \A j \in DOMAIN cache' : \/ cache'[j] = e
                                      \/ /\ cache'[j].mac # mac
                                         /\ \E x \in DOMAIN cache : cache'[j] = cache[x]
          /\ \A m : HasMac(cache, m) <=> HasMac(cache', m)
          /\ HasMac(cache', mac)
      BY <3>3, <3>4, <3>5, EntryChanged
    <3>7. /\ \A j \in DOMAIN cache' : cache'[j].mac # mac => \E x \in DOMAIN cache : cache'[j] = cache[x]
          /\ \A j \in DOMAIN cache' : cache'[j].mac = mac =>
               cache'[j].dev = k[mac].dev /\ (cache'[j].v4 \in {Nil, k[mac].v4} \/ "late" \in mixed')
      BY <3>4, <3>6, <2>1
    <3>8. posted'.mac # Nil =>
            /\ posted'.mac = mac /\ HasMac(cache', mac) /\ posted'.dev = k[mac].dev
            /\ posted'.addr = k[mac].v4 \/ "late" \in mixed'
      BY <2>1, <2>2, <3>6
    <3> QED BY <1>0, <2>1, <3>1, <3>6, <3>7, <3>8, NeighborStep
  <2> QED BY <2>3, <2>4
<1>10. PICK mac \in NMacs :
         \/ \E d \in Devices :
              \/ WlanClientAdd(mac, d) \/ NewNeighMac(mac, d) \/ DelNeighMac(mac, d)
              \/ \E n \in BOOLEAN : NeighV6(n, mac, d)
              \/ \E a \in NAddrs : NewNeighV4(mac, d, a) \/ DelNeighV4(mac, d, a)
         \/ \E n \in BOOLEAN : BridgeV6(n, mac) \/ (\E a \in NAddrs : BridgeV4(n, mac, a))
         \/ DelBridgeMac(mac)
  BY DEF NeighborNext
<1> QED BY <1>1, <1>2, <1>4, <1>5, <1>6, <1>7, <1>8, <1>9, <1>10

(* NeighborsKept of the runs: IPACM_Neighbor::event_callback.  In every state *)
(* the cache and what it announces is of the device and the address a         *)
(* neighbour was last seen with, for any number of neighbours and however     *)
(* full the cache gets.                                                       *)
THEOREM NeighborsAlwaysKept == AllSpec => []NeighborsKept
<1>1. AllInit => NeighborInv
  BY NeighborsBegin DEF AllInit
<1>2. NeighborInv /\ [AllNext]_<<vars, neighborVars, part>> => NeighborInv'
  <2> SUFFICES ASSUME NeighborInv, [AllNext]_<<vars, neighborVars, part>> PROVE NeighborInv'
    OBVIOUS
  <2>1. CASE NeighborNext
    BY <2>1, NeighborEvents
  <2>2. CASE UNCHANGED neighborVars
    <3>1. UNCHANGED <<cache, circular, posted, known, mixed>>
      BY <2>2 DEF neighborVars
    <3>2. NeighborTypeOK'
      BY <3>1 DEF NeighborInv, NeighborTypeOK
    <3>3. CacheOfLast' /\ NeighborsFound'
      BY <3>1 DEF NeighborInv, NeighborsKept, CacheOfLast, NeighborsFound, CachedAt
    <3> QED BY <3>2, <3>3 DEF NeighborInv, NeighborsKept
  <2> QED BY <2>1, <2>2 DEF AllNext
<1>3. NeighborInv => NeighborsKept
  BY DEF NeighborInv
<1> QED BY <1>1, <1>2, <1>3, PTL DEF AllSpec

(***************************************************************************)
(* The clients.  The handles of a client are those that count.             *)
(***************************************************************************)
Rule    == [mac : Macs, addr : V4Addrs \union V6Addrs, n : 1..MaxCopies]
Headers == {"live", "stale", "none"}
Client  == [mac : Macs, h4 : Headers, h6 : Headers, v4 : V4Addrs \union {None},
            r4 : Rule \union {None}, v6 : Seq(V6Addrs), r6 : Seq(Rule), ps : BOOLEAN]

\* a handle is of a rule for the address beside it
ClientOK(c) ==
  /\ c \in Client /\ Len(c.r6) <= Len(c.v6)
  /\ \A j, k \in 1..Len(c.v6) : c.v6[j] = c.v6[k] => j = k
  /\ c.r4 # None => c.r4.mac = c.mac /\ c.r4.addr = c.v4
  /\ \A k \in 1..Len(c.r6) : c.r6[k].mac = c.mac /\ c.r6[k].addr = c.v6[k]

\* a client that sleeps holds nothing
Quiet(c) == c.ps => c.r4 = None /\ c.r6 = <<>>

\* no two clients hold the same handle, and what they hold is in the driver
HeldIn(t, rs) ==
  /\ \A i \in DOMAIN t : Counted(t[i]) \subseteq rs
  /\ \A i, j \in DOMAIN t : i # j => Counted(t[i]) \intersect Counted(t[j]) = {}

CountedIn(t) == UNION {Counted(t[i]) : i \in DOMAIN t}
V4In(t) == {t[i].v4 : i \in DOMAIN t} \ {None}
OnceIn(t) == \A i, j \in DOMAIN t : t[i].mac = t[j].mac => i = j
ModeIn(t, al, pipe) == \A i \in DOMAIN t : t[i].r4 # None => ((t[i].r4 \in al) <=> pipe = "alt")

\* what did not happen: a rule deleted through the handle of another, rules left
\* behind, a flag of power save that another entry got, a mode that was missed
Known(o) == "unknown" \notin o
Sound(o) == o \intersect {"refused", "unknown"} = {}
Own(o)   == "mixed" \notin o
Moved(o) == o \intersect {"unmoved", "passed", "mixed"} = {}

Counts(t, rs, al, od) ==
  /\ IsFiniteSet(rs) /\ rs \subseteq Rule /\ al \subseteq rs
  /\ t \in Seq(Client) /\ \A i \in DOMAIN t : ClientOK(t[i])
  /\ Known(od) => HeldIn(t, rs)
  /\ Own(od) => \A i \in DOMAIN t : Quiet(t[i])
  /\ Sound(od) => rs \subseteq CountedIn(t)

\* only a station has a default route, which is of one of the pipes, and only
\* USB and Ethernet delete single addresses
TableInv ==
  /\ Counts(tbl, rules, alt, odd) /\ mcc \in BOOLEAN
  /\ nat \subseteq V4In(tbl)
  /\ kind # "wlan" => OnceIn(tbl)
  /\ kind = "wlan" => dft = "none"
  /\ kind # "lan" => Known(odd)
  /\ kind # "lan" /\ ~mccEvent /\ Moved(odd) => ModeIn(tbl, alt, Pipe) /\ dft \in {"none", Pipe}

LEMMA TableInvImplies == TableInv => TableCounts /\ RulesReachClients
<1> SUFFICES ASSUME TableInv PROVE TableCounts /\ RulesReachClients
  OBVIOUS
<1>1. /\ \A i \in DOMAIN tbl : ClientOK(tbl[i])
      /\ Known(odd) => \A i \in DOMAIN tbl : Counted(tbl[i]) \subseteq rules
      /\ Own(odd) => \A i \in DOMAIN tbl : Quiet(tbl[i])
  BY DEF TableInv, Counts, HeldIn
<1>2. HandlesMatch
  <2> SUFFICES ASSUME NEW i \in DOMAIN tbl
               PROVE  LET c == tbl[i]
                          Has(r, addr) == /\ r.mac = c.mac /\ r.addr = addr
                                          /\ "unknown" \notin odd => r \in rules
                      IN /\ c.r4 # None => Has(c.r4, c.v4)
                         /\ \A j \in DOMAIN c.r6 : Has(c.r6[j], c.v6[j])
    BY DEF HandlesMatch
  <2> DEFINE c == tbl[i]
  <2>1. ClientOK(c) /\ ("unknown" \notin odd => Counted(c) \subseteq rules)
    BY <1>1 DEF Known
  <2> HIDE DEF c
  <2>2. c.r6 \in Seq(Rule)
    BY <2>1 DEF ClientOK, Client
  <2>3. DOMAIN c.r6 = 1..Len(c.r6)
    BY <2>2, Lengths
  <2>4. /\ c.r4 # None => c.r4.mac = c.mac /\ c.r4.addr = c.v4
        /\ \A j \in DOMAIN c.r6 : c.r6[j].mac = c.mac /\ c.r6[j].addr = c.v6[j]
    BY <2>1, <2>3 DEF ClientOK
  <2>5. "unknown" \notin odd =>
          (c.r4 # None => c.r4 \in rules) /\ (\A j \in DOMAIN c.r6 : c.r6[j] \in rules)
    BY <2>1 DEF Counted, Counted4, Counted6
  <2> QED BY <2>4, <2>5 DEF c
<1>3. NoOrphans /\ NatOwned /\ OneEntryPerMac
  BY DEF TableInv, Counts, NoOrphans, NatOwned, OneEntryPerMac, Sound, CountedIn, AllCounted, V4In, AllV4,
         OnceIn
<1>4. SleepersNotRouted
  <2> SUFFICES ASSUME "mixed" \notin odd, NEW i \in DOMAIN tbl, tbl[i].ps PROVE Counted(tbl[i]) = {}
    BY DEF SleepersNotRouted
  <2>1. tbl[i].r4 = None /\ tbl[i].r6 = <<>>
    BY <1>1 DEF Own, Quiet
  <2>2. DOMAIN tbl[i].r6 = {}
    BY <2>1
  <2> QED BY <2>1, <2>2 DEF Counted, Counted4, Counted6
<1>5. V4RulesFollowMode
  <2> SUFFICES ASSUME kind # "lan", ~mccEvent, odd \intersect {"unmoved", "passed", "mixed"} = {}
               PROVE  /\ \A i \in DOMAIN tbl : \A r \in Counted4(tbl[i]) : (r \in alt) = mcc
                      /\ dft \in {"none", Pipe}
    BY DEF V4RulesFollowMode
  <2>1. ModeIn(tbl, alt, Pipe) /\ dft \in {"none", Pipe} /\ mcc \in BOOLEAN
    BY DEF TableInv, Moved
  <2>2. ASSUME NEW i \in DOMAIN tbl, NEW r \in Counted4(tbl[i]) PROVE (r \in alt) = mcc
    <3>1. r = tbl[i].r4 /\ tbl[i].r4 # None
      BY <2>2 DEF Counted4
    <3>2. (r \in alt) <=> mcc
      BY <3>1, <2>1 DEF ModeIn, Pipe
    <3> QED BY <3>2, <2>1
  <2> QED BY <2>1, <2>2
<1> QED BY <1>2, <1>3, <1>4, <1>5 DEF TableCounts, RulesReachClients

LEMMA TableBegins == Init => TableInv
<1> SUFFICES ASSUME Init PROVE TableInv
  OBVIOUS
<1>1. /\ tbl = <<>> /\ rules = {} /\ alt = {} /\ nat = {} /\ odd = {} /\ mcc = FALSE /\ dft = "none"
  BY DEF Init, LanInit, WlanInit, TableInit, StaInit
<1>2. tbl \in Seq(Client) /\ DOMAIN tbl = {}
  BY <1>1, EmptySeq
<1>3. IsFiniteSet({})
  BY FS_EmptySet
<1> QED BY <1>1, <1>2, <1>3 DEF TableInv, Counts, HeldIn, OnceIn, ModeIn, Known

-----------------------------------------------------------------------------
(* A new rule.                                                                *)
LEMMA FreshRule ==
  ASSUME IsFiniteSet(rules), rules \subseteq Rule, NEW m \in Macs,
         NEW a \in V4Addrs \union V6Addrs, Roomy(m, a)
  PROVE  /\ Fresh(m, a) \in Rule \ rules /\ Fresh(m, a) # None
         /\ Fresh(m, a).mac = m /\ Fresh(m, a).addr = a
<1> DEFINE C == Copies(m, a)
           T == {r.n : r \in C}
<1>1. IsFiniteSet(C) /\ Cardinality(C) \in Nat /\ Cardinality(C) < MaxCopies
  BY FS_Subset, FS_CardinalityType DEF Copies, Roomy
<1>2. MaxCopies \in Nat \ {0} /\ None \notin Rule
  BY ClientTableAssumption DEF ClientTableAssumption, Rule
<1>3. \E n \in 1..MaxCopies : n \notin T
  <2> SUFFICES ASSUME 1..MaxCopies \subseteq T PROVE FALSE
    OBVIOUS
  <2> DEFINE f == [r \in C |-> r.n]
  <2>1. T = {f[r] : r \in C}
    OBVIOUS
  <2>2. IsFiniteSet(T) /\ Cardinality(T) <= Cardinality(C)
    <3>1. f \in Surjection(C, T)
      BY DEF Surjection
    <3> HIDE DEF f, T, C
    <3> QED BY <1>1, <3>1, FS_Surjection
  <2>3. Cardinality(1..MaxCopies) = MaxCopies
    BY <1>2, FS_Interval
  <2>4. Cardinality(1..MaxCopies) <= Cardinality(T)
    BY <2>2, FS_Subset
  <2>5. Cardinality(T) \in Nat
    BY <2>2, FS_CardinalityType
  <2> QED BY <1>1, <1>2, <2>2, <2>3, <2>4, <2>5
<1>4. PICK n \in 1..MaxCopies : n = Fresh(m, a).n /\ n \notin T
  <2>1. \E n \in 1..MaxCopies : \A r \in Copies(m, a) : r.n # n
    BY <1>3
  <2> QED BY <2>1 DEF Fresh
<1>5. Fresh(m, a) = [mac |-> m, addr |-> a, n |-> n]
  BY <1>4 DEF Fresh
<1>6. Fresh(m, a) \notin rules
  BY <1>4, <1>5 DEF Copies
<1> QED BY <1>2, <1>5, <1>6 DEF Rule

\* an outcome of the routing rules of a client: the client, the new rules
Routed(c, o) ==
  /\ ClientOK(o[1]) /\ o[1].mac = c.mac /\ o[1].v4 = c.v4 /\ (Quiet(c) => Quiet(o[1]))
  /\ IsFiniteSet(o[2]) /\ o[2] \subseteq Rule \ rules
  /\ Counted(o[1]) \subseteq Counted(c) \union o[2] /\ Counted(c) \subseteq Counted(o[1])
  /\ o[1].r4 # None => o[1].r4 \in o[2] \union {c.r4}

\* a refused attempt changes nothing of the client
LEMMA NotRouted ==
  ASSUME NEW c, ClientOK(c), NEW new, IsFiniteSet(new), new \subseteq Rule \ rules
  PROVE  Routed(c, <<c, new>>)
BY DEF Routed

LEMMA ImageFinite ==
  ASSUME NEW I, IsFiniteSet(I), NEW r
  PROVE  IsFiniteSet({r[i] : i \in I})
<1> DEFINE T == {r[i] : i \in I}
           g == [i \in I |-> r[i]]
<1>1. T = {g[i] : i \in I}
  OBVIOUS
<1>2. g \in Surjection(I, T)
  BY DEF Surjection
<1> HIDE DEF g, T
<1>3. IsFiniteSet(T)
  BY <1>2, FS_Surjection
<1> QED BY <1>3 DEF T

LEMMA RoutedIPv4 ==
  ASSUME IsFiniteSet(rules), rules \subseteq Rule, NEW c, ClientOK(c), NEW o \in RouteRule4(c)
  PROVE  Routed(c, o) /\ o[2] \subseteq Counted(o[1])
<1>1. CASE o = <<c, {}>>
  BY <1>1, NotRouted, FS_EmptySet DEF Counted
<1>2. ASSUME ~c.ps, c.r4 = None, c.v4 # None, Roomy(c.mac, c.v4),
             o = <<[c EXCEPT !.r4 = Fresh(c.mac, c.v4)], {Fresh(c.mac, c.v4)}>>
      PROVE  Routed(c, o) /\ o[2] \subseteq Counted(o[1])
  <2> DEFINE f == Fresh(c.mac, c.v4)
             d == [c EXCEPT !.r4 = f]
  <2>1. c \in Client /\ c.mac \in Macs /\ c.v4 \in V4Addrs
    BY <1>2 DEF ClientOK, Client
  <2>2. f \in Rule \ rules /\ f # None /\ f.mac = c.mac /\ f.addr = c.v4
    BY <1>2, <2>1, FreshRule
  <2> HIDE DEF f
  <2>3. /\ d \in Client /\ d.mac = c.mac /\ d.v4 = c.v4 /\ d.r4 = f
        /\ d.v6 = c.v6 /\ d.r6 = c.r6 /\ d.ps = c.ps
    BY <2>1, <2>2 DEF Client
  <2> HIDE DEF d
  <2>4. ClientOK(d) /\ Quiet(d)
    BY <1>2, <2>2, <2>3 DEF ClientOK, Quiet
  <2>5. Counted(d) \subseteq Counted(c) \union {f} /\ Counted(c) \subseteq Counted(d) /\ f \in Counted(d)
    BY <1>2, <2>2, <2>3 DEF Counted, Counted4, Counted6
  <2>6. IsFiniteSet({f})
    BY FS_Singleton
  <2>7. o[1] = d /\ o[2] = {f}
    BY <1>2 DEF d, f
  <2> QED BY <2>2, <2>3, <2>4, <2>5, <2>6, <2>7 DEF Routed
<1> QED BY <1>1, <1>2 DEF RouteRule4, MayRoute

\* the rules put down for the addresses without one, up to k
LEMMA PutIPv6 ==
  ASSUME IsFiniteSet(rules), rules \subseteq Rule, NEW c, ClientOK(c),
         NEW k \in Nat, k <= Len(c.v6), \A i \in Unrouted(c, k) : Roomy(c.mac, c.v6[i])
  PROVE  /\ \A i \in Unrouted(c, k) : /\ Fresh(c.mac, c.v6[i]) \in Rule \ rules
                                      /\ Fresh(c.mac, c.v6[i]).mac = c.mac
                                      /\ Fresh(c.mac, c.v6[i]).addr = c.v6[i]
         /\ New6(c, k) \subseteq Rule \ rules /\ IsFiniteSet(New6(c, k))
<1>1. /\ c.mac \in Macs /\ Len(c.v6) \in Nat /\ Len(c.r6) \in Nat
      /\ \A i \in 1..Len(c.v6) : c.v6[i] \in V6Addrs
  <2>1. c.mac \in Macs /\ c.v6 \in Seq(V6Addrs) /\ c.r6 \in Seq(Rule)
    BY DEF ClientOK, Client
  <2> QED BY <2>1, Lengths
<1>2. \A i \in Unrouted(c, k) : i \in 1..Len(c.v6)
  BY <1>1 DEF Unrouted
<1>3. ASSUME NEW i \in Unrouted(c, k)
      PROVE  /\ Fresh(c.mac, c.v6[i]) \in Rule \ rules
             /\ Fresh(c.mac, c.v6[i]).mac = c.mac /\ Fresh(c.mac, c.v6[i]).addr = c.v6[i]
  <2>1. c.v6[i] \in V4Addrs \union V6Addrs /\ Roomy(c.mac, c.v6[i])
    BY <1>1, <1>2
  <2> QED BY <1>1, <2>1, FreshRule
<1>4. IsFiniteSet(Unrouted(c, k))
  <2> DEFINE a == Len(c.r6) + 1
  <2>1. a \in Int /\ k \in Int
    BY <1>1
  <2> HIDE DEF a
  <2>2. IsFiniteSet(a..k)
    BY <2>1, FS_Interval
  <2> QED BY <2>2 DEF Unrouted, a
<1>5. IsFiniteSet(New6(c, k))
  <2> DEFINE r == [i \in Unrouted(c, k) |-> Fresh(c.mac, c.v6[i])]
  <2>1. New6(c, k) = {r[i] : i \in Unrouted(c, k)}
    BY DEF New6
  <2> HIDE DEF r
  <2>2. IsFiniteSet({r[i] : i \in Unrouted(c, k)})
    BY <1>4, ImageFinite
  <2> QED BY <2>1, <2>2
<1> QED BY <1>3, <1>5 DEF New6

\* all of them are in the driver and count
LEMMA AllRouted6 ==
  ASSUME IsFiniteSet(rules), rules \subseteq Rule, NEW c, ClientOK(c), ~c.ps, Len(c.r6) < Len(c.v6),
         \A i \in Unrouted(c, Len(c.v6)) : Roomy(c.mac, c.v6[i])
  PROVE  Routed(c, <<Put6(c), New6(c, Len(c.v6))>>)
<1> DEFINE n == Len(c.v6)
           m == Len(c.r6)
           r == [i \in 1..n |-> IF i <= m THEN c.r6[i] ELSE Fresh(c.mac, c.v6[i])]
           d == [c EXCEPT !.r6 = r]
           new == New6(c, n)
<1>1. /\ c \in Client /\ n \in Nat /\ m \in Nat /\ m < n /\ DOMAIN c.v6 = 1..n /\ DOMAIN c.r6 = 1..m
      /\ \A i \in 1..m : c.r6[i] \in Rule
  <2>1. c \in Client /\ c.v6 \in Seq(V6Addrs) /\ c.r6 \in Seq(Rule)
    BY DEF ClientOK, Client
  <2> QED BY <2>1, Lengths
<1>2. Put6(c) = d
  BY <1>1 DEF Put6
<1>3. /\ \A i \in Unrouted(c, n) : /\ Fresh(c.mac, c.v6[i]) \in Rule \ rules
                                   /\ Fresh(c.mac, c.v6[i]).mac = c.mac
                                   /\ Fresh(c.mac, c.v6[i]).addr = c.v6[i]
      /\ new \subseteq Rule \ rules /\ IsFiniteSet(new)
  <2>1. n \in Nat /\ n <= Len(c.v6)
    BY <1>1
  <2> QED BY <2>1, PutIPv6
<1>4. new = {Fresh(c.mac, c.v6[i]) : i \in Unrouted(c, n)}
  BY DEF New6
<1>5. Unrouted(c, n) = (m + 1)..n
  BY DEF Unrouted
<1>6. /\ \A i \in 1..m : i \in 1..n /\ r[i] = c.r6[i]
      /\ \A i \in (m + 1)..n : i \in 1..n /\ r[i] = Fresh(c.mac, c.v6[i])
      /\ 1..n = 1..m \union (m + 1)..n
  BY <1>1
<1>7. r \in Seq(Rule) /\ Len(r) = n
  <2>1. \A i \in 1..n : r[i] \in Rule
    BY <1>1, <1>3, <1>5, <1>6
  <2>2. r \in [1..n -> Rule]
    BY <2>1
  <2> HIDE DEF r
  <2> QED BY <1>1, <2>2, SeqDef, LenProperties, SMTT(30)
<1> HIDE DEF r
<1>8. /\ d \in Client /\ d.mac = c.mac /\ d.v4 = c.v4 /\ d.r4 = c.r4 /\ d.v6 = c.v6
      /\ d.ps = c.ps /\ d.r6 = r
  BY <1>1, <1>7 DEF Client
<1>9. DOMAIN r = 1..n
  BY <1>7, Lengths
<1> HIDE DEF d, new
<1>10. ClientOK(d) /\ Quiet(d)
  <2>1. ASSUME NEW i \in 1..n PROVE r[i].mac = c.mac /\ r[i].addr = c.v6[i]
    <3>1. CASE i \in 1..m
      BY <1>6, <3>1 DEF ClientOK
    <3>2. CASE i \in (m + 1)..n
      BY <1>3, <1>5, <1>6, <3>2
    <3> QED BY <1>6, <3>1, <3>2
  <2> HIDE DEF m
  <2> QED BY <1>1, <1>7, <1>8, <2>1 DEF ClientOK, Quiet
<1>11. Counted6(d) = Counted6(c) \union new
  <2>1. Counted6(d) = {r[i] : i \in 1..n} /\ Counted6(c) = {c.r6[i] : i \in 1..m}
    BY <1>1, <1>8, <1>9 DEF Counted6
  <2> HIDE DEF m, n
  <2> QED BY <1>4, <1>5, <1>6, <2>1
<1>12. Counted(d) \subseteq Counted(c) \union new /\ Counted(c) \subseteq Counted(d)
  BY <1>8, <1>11 DEF Counted, Counted4
<1> QED BY <1>2, <1>3, <1>8, <1>10, <1>12 DEF Routed, new

LEMMA RoutedIPv6 ==
  ASSUME IsFiniteSet(rules), rules \subseteq Rule, NEW c, ClientOK(c), NEW o \in RouteRule6(c)
  PROVE  Routed(c, o)
<1>1. CASE o = <<c, {}>>
  BY <1>1, NotRouted, FS_EmptySet
<1>2. Len(c.v6) \in Nat /\ Len(c.r6) \in Nat
  <2>1. c.v6 \in Seq(V6Addrs) /\ c.r6 \in Seq(Rule)
    BY DEF ClientOK, Client
  <2> QED BY <2>1, Lengths
<1>3. ASSUME NEW k \in Len(c.r6)..Len(c.v6), \A i \in Unrouted(c, k) : Roomy(c.mac, c.v6[i]),
             o = <<c, New6(c, k)>>
      PROVE  Routed(c, o)
  <2>1. k \in Nat /\ k <= Len(c.v6)
    BY <1>2
  <2>2. New6(c, k) \subseteq Rule \ rules /\ IsFiniteSet(New6(c, k))
    BY <1>3, <2>1, PutIPv6
  <2> QED BY <1>3, <2>2, NotRouted
<1>4. ASSUME ~c.ps, Len(c.r6) < Len(c.v6), \A i \in Unrouted(c, Len(c.v6)) : Roomy(c.mac, c.v6[i]),
             o = <<Put6(c), New6(c, Len(c.v6))>>
      PROVE  Routed(c, o)
  BY <1>4, AllRouted6
<1>5. \/ o = <<c, {}>>
      \/ \E k \in Len(c.r6)..Len(c.v6) :
           (\A i \in Unrouted(c, k) : Roomy(c.mac, c.v6[i])) /\ o = <<c, New6(c, k)>>
      \/ /\ ~c.ps /\ ~(Len(c.r6) >= Len(c.v6)) /\ \A i \in Unrouted(c, Len(c.v6)) : Roomy(c.mac, c.v6[i])
         /\ o = <<Put6(c), New6(c, Len(c.v6))>>
  BY DEF RouteRule6, MayRoute
<1>6. Len(c.r6) >= Len(c.v6) \/ Len(c.r6) < Len(c.v6)
  BY <1>2
<1> QED BY <1>1, <1>3, <1>4, <1>5, <1>6

-----------------------------------------------------------------------------
(* The table: one client changes, comes or leaves, or all of them change.     *)
\* client i of t becomes c, which gives up the handles in gone for those in new;
\* o and o2 are the oddities before and after
Becomes(t, i, c, gone, new, rs, o, o2) ==
  /\ i \in DOMAIN t /\ ClientOK(c) /\ c.mac = t[i].mac /\ (Quiet(t[i]) => Quiet(c))
  /\ Known(o2) => Counted(c) \subseteq (Counted(t[i]) \ gone) \union new /\ gone \subseteq Counted(t[i])
  /\ new \subseteq Rule \ rs /\ IsFiniteSet(new)
  /\ c.r4 # None => c.r4 \in new \union {t[i].r4}
  /\ o \subseteq o2
  /\ Sound(o2) => new \subseteq Counted(c) /\ Counted(t[i]) \ gone \subseteq Counted(c)

LEMMA EntryChanges ==
  ASSUME NEW t, NEW rs, NEW al, NEW od, NEW i, NEW c, NEW gone, NEW new, NEW p, NEW od2,
         Counts(t, rs, al, od), Becomes(t, i, c, gone, new, rs, od, od2)
  PROVE  LET t2  == [t EXCEPT ![i] = c]
             rs2 == (rs \ gone) \union new
             al2 == (al \ gone) \union (IF p = "alt" THEN new ELSE {})
         IN /\ Counts(t2, rs2, al2, od2)
            /\ OnceIn(t) => OnceIn(t2)
            /\ Known(od2) /\ ModeIn(t, al, p) => ModeIn(t2, al2, p)
            /\ \A a \in V4In(t) : a # t[i].v4 => a \in V4In(t2)
            /\ c.v4 # None => c.v4 \in V4In(t2)
<1> DEFINE t2  == [t EXCEPT ![i] = c]
           rs2 == (rs \ gone) \union new
           al2 == (al \ gone) \union (IF p = "alt" THEN new ELSE {})
<1>0. /\ i \in DOMAIN t /\ ClientOK(c) /\ c.mac = t[i].mac /\ (Quiet(t[i]) => Quiet(c))
      /\ Known(od2) => /\ Known(od) /\ gone \subseteq Counted(t[i])
                       /\ Counted(c) \subseteq (Counted(t[i]) \ gone) \union new
      /\ new \subseteq Rule \ rs /\ IsFiniteSet(new)
      /\ c.r4 # None => c.r4 \in new \union {t[i].r4}
      /\ Own(od2) => Own(od)
      /\ Sound(od2) => /\ Sound(od) /\ new \subseteq Counted(c)
                       /\ Counted(t[i]) \ gone \subseteq Counted(c)
  BY DEF Becomes, Sound, Known, Own
<1>1. /\ IsFiniteSet(rs) /\ rs \subseteq Rule /\ al \subseteq rs
      /\ t \in Seq(Client) /\ \A j \in DOMAIN t : ClientOK(t[j])
      /\ Known(od) => /\ \A j \in DOMAIN t : Counted(t[j]) \subseteq rs
                      /\ \A j, k \in DOMAIN t : j # k => Counted(t[j]) \intersect Counted(t[k]) = {}
      /\ Own(od) => \A j \in DOMAIN t : Quiet(t[j])
      /\ Sound(od) => rs \subseteq CountedIn(t)
  BY DEF Counts, HeldIn
<1>2. c \in Client
  BY <1>0 DEF ClientOK
<1>3. /\ t2 \in Seq(Client) /\ DOMAIN t2 = DOMAIN t
      /\ t2[i] = c /\ \A j \in DOMAIN t : j # i => t2[j] = t[j]
  <2>1. DOMAIN t = 1..Len(t)
    BY <1>0, <1>1, Lengths
  <2> QED BY <1>0, <1>1, <1>2, <2>1, Changed
<1> HIDE DEF t2
<1>4. Known(od2) => \A j \in DOMAIN t : j # i => Counted(t[j]) \intersect (gone \union new) = {}
  <2> SUFFICES ASSUME Known(od2), NEW j \in DOMAIN t, j # i, NEW r \in Counted(t[j]), r \in gone \union new
               PROVE  FALSE
    OBVIOUS
  <2>1. r \in rs /\ r \notin Counted(t[i])
    BY <1>0, <1>1
  <2> QED BY <1>0, <1>1, <2>1
<1>5. IsFiniteSet(rs2) /\ rs2 \subseteq Rule /\ al2 \subseteq rs2
  <2>1. IsFiniteSet(rs \ gone)
    BY <1>0, <1>1, FS_Subset
  <2>2. IsFiniteSet(rs2)
    BY <1>0, <2>1, FS_Union
  <2> QED BY <1>0, <1>1, <2>2
<1>6. /\ \A j \in DOMAIN t2 : ClientOK(t2[j])
      /\ Own(od2) => \A j \in DOMAIN t2 : Quiet(t2[j])
  BY <1>0, <1>1, <1>3
<1>7. Known(od2) => HeldIn(t2, rs2)
  <2> SUFFICES ASSUME Known(od2) PROVE HeldIn(t2, rs2)
    OBVIOUS
  <2>1. ASSUME NEW j \in DOMAIN t PROVE Counted(t2[j]) \subseteq rs2
    <3>1. CASE j = i
      BY <1>0, <1>1, <1>3, <3>1
    <3>2. CASE j # i
      BY <1>0, <1>1, <1>3, <1>4, <3>2
    <3> QED BY <3>1, <3>2
  <2>2. ASSUME NEW j \in DOMAIN t, j # i PROVE Counted(t[j]) \intersect Counted(c) = {}
    BY <1>0, <1>1, <1>4, <2>2
  <2>3. ASSUME NEW j \in DOMAIN t, NEW k \in DOMAIN t, j # k
        PROVE  Counted(t2[j]) \intersect Counted(t2[k]) = {}
    <3>1. CASE j = i
      BY <1>0, <1>3, <2>2, <2>3, <3>1
    <3>2. CASE k = i
      BY <1>0, <1>3, <2>2, <2>3, <3>2
    <3>3. CASE j # i /\ k # i
      BY <1>0, <1>1, <1>3, <2>3, <3>3
    <3> QED BY <3>1, <3>2, <3>3
  <2> QED BY <1>3, <2>1, <2>3 DEF HeldIn
<1>8. Sound(od2) => rs2 \subseteq CountedIn(t2)
  <2> SUFFICES ASSUME Sound(od2), NEW r \in rs2 PROVE \E j \in DOMAIN t2 : r \in Counted(t2[j])
    BY DEF CountedIn
  <2>1. CASE r \in new
    BY <1>0, <1>3, <2>1
  <2>2. CASE r \notin new
    <3>1. PICK j \in DOMAIN t : r \in Counted(t[j])
      BY <1>0, <1>1, <2>2 DEF CountedIn
    <3>2. CASE j = i
      BY <1>0, <1>3, <2>2, <3>1, <3>2
    <3>3. CASE j # i
      BY <1>0, <1>3, <3>1, <3>3
    <3> QED BY <1>0, <3>2, <3>3
  <2> QED BY <1>0, <2>1, <2>2
<1>9. Counts(t2, rs2, al2, od2)
  <2> HIDE DEF rs2, al2
  <2> QED BY <1>0, <1>3, <1>5, <1>6, <1>7, <1>8 DEF Counts
<1>10. OnceIn(t) => OnceIn(t2)
  BY <1>0, <1>3 DEF OnceIn
<1>11. ASSUME Known(od2), ModeIn(t, al, p), NEW j \in DOMAIN t2, t2[j].r4 # None
       PROVE  (t2[j].r4 \in al2) <=> p = "alt"
  <2>1. CASE j # i
    <3>1. t2[j] = t[j] /\ ((t[j].r4 \in al) <=> p = "alt")
      BY <1>0, <1>3, <1>11, <2>1 DEF ModeIn
    <3>2. t[j].r4 \in Counted(t[j])
      BY <1>0, <1>11, <3>1 DEF Counted, Counted4
    <3>3. t[j].r4 \notin gone /\ t[j].r4 \notin new
      BY <1>0, <1>3, <1>4, <1>11, <2>1, <3>2
    <3> QED BY <1>0, <3>1, <3>3
  <2>2. CASE j = i /\ c.r4 \in new
    BY <1>0, <1>1, <1>3, <2>2
  <2>3. CASE j = i /\ c.r4 \notin new
    <3>1. t2[j] = c /\ c.r4 = t[i].r4 /\ c.r4 \in Counted(c)
      BY <1>0, <1>3, <1>11, <2>3 DEF Counted, Counted4
    <3>2. c.r4 \notin gone /\ ((c.r4 \in al) <=> p = "alt")
      BY <1>0, <1>11, <2>3, <3>1 DEF ModeIn
    <3> QED BY <1>0, <2>3, <3>1, <3>2
  <2> QED BY <1>0, <2>1, <2>2, <2>3
<1>12. /\ \A a \in V4In(t) : a # t[i].v4 => a \in V4In(t2)
       /\ c.v4 # None => c.v4 \in V4In(t2)
  BY <1>0, <1>3 DEF V4In
<1> QED BY <1>0, <1>9, <1>10, <1>11, <1>12 DEF t2, ModeIn

\* a client that comes has no rules
LEMMA ClientComes ==
  ASSUME NEW t, NEW rs, NEW al, NEW od, Counts(t, rs, al, od), NEW mac \in Macs
  PROVE  LET t2 == Append(t, NewClient(mac))
         IN /\ Counts(t2, rs, al, od)
            /\ (\A i \in DOMAIN t : t[i].mac # mac) /\ OnceIn(t) => OnceIn(t2)
            /\ \A p : ModeIn(t, al, p) => ModeIn(t2, al, p)
            /\ V4In(t) \subseteq V4In(t2)
<1> DEFINE t2 == Append(t, NewClient(mac))
           c == NewClient(mac)
           n == Len(t) + 1
<1>1. /\ IsFiniteSet(rs) /\ rs \subseteq Rule /\ al \subseteq rs
      /\ t \in Seq(Client) /\ \A j \in DOMAIN t : ClientOK(t[j])
      /\ Known(od) => /\ \A j \in DOMAIN t : Counted(t[j]) \subseteq rs
                      /\ \A j, k \in DOMAIN t : j # k => Counted(t[j]) \intersect Counted(t[k]) = {}
      /\ Own(od) => \A j \in DOMAIN t : Quiet(t[j])
      /\ Sound(od) => rs \subseteq CountedIn(t)
  BY DEF Counts, HeldIn
<1>2. /\ c \in Client /\ c.mac = mac /\ c.v4 = None /\ c.r4 = None /\ c.v6 = <<>> /\ c.r6 = <<>>
      /\ c.ps = FALSE
  <2>1. <<>> \in Seq(V6Addrs) /\ <<>> \in Seq(Rule)
    BY EmptySeq
  <2> QED BY <2>1 DEF NewClient, Client, Headers
<1> HIDE DEF c
<1>3. ClientOK(c) /\ Quiet(c) /\ Counted(c) = {}
  <2>1. Len(c.v6) = 0 /\ Len(c.r6) = 0 /\ DOMAIN c.r6 = {}
    BY <1>2, EmptySeq
  <2> QED BY <1>2, <2>1 DEF ClientOK, Quiet, Counted, Counted4, Counted6
<1>4. Len(t) \in Nat /\ DOMAIN t = 1..Len(t)
  BY <1>1, Lengths
<1>5. /\ t2 \in Seq(Client) /\ DOMAIN t2 = 1..n /\ t2[n] = c
      /\ \A j \in DOMAIN t : t2[j] = t[j]
  BY <1>1, <1>2, <1>4, Appended DEF c
<1>6. DOMAIN t2 = DOMAIN t \union {n} /\ n \notin DOMAIN t
  BY <1>4, <1>5
<1> HIDE DEF t2, n
<1>7. Counts(t2, rs, al, od)
  <2>1. /\ \A j \in DOMAIN t2 : ClientOK(t2[j])
        /\ Own(od) => \A j \in DOMAIN t2 : Quiet(t2[j])
        /\ Known(od) => \A j \in DOMAIN t2 : Counted(t2[j]) \subseteq rs
    BY <1>1, <1>3, <1>5, <1>6
  <2>2. ASSUME Known(od), NEW j \in DOMAIN t2, NEW k \in DOMAIN t2, j # k
        PROVE  Counted(t2[j]) \intersect Counted(t2[k]) = {}
    <3>1. CASE j = n \/ k = n
      BY <1>3, <1>5, <3>1
    <3>2. CASE j # n /\ k # n
      BY <1>1, <1>5, <1>6, <2>2, <3>2
    <3> QED BY <3>1, <3>2
  <2>3. Sound(od) => rs \subseteq CountedIn(t2)
    BY <1>1, <1>5, <1>6 DEF CountedIn
  <2> QED BY <1>1, <1>5, <2>1, <2>2, <2>3 DEF Counts, HeldIn
<1>8. (\A i \in DOMAIN t : t[i].mac # mac) /\ OnceIn(t) => OnceIn(t2)
  BY <1>2, <1>5, <1>6 DEF OnceIn
<1>9. \A p : ModeIn(t, al, p) => ModeIn(t2, al, p)
  BY <1>2, <1>5, <1>6 DEF ModeIn
<1>10. V4In(t) \subseteq V4In(t2)
  BY <1>5, <1>6 DEF V4In
<1> QED BY <1>7, <1>8, <1>9, <1>10 DEF t2

\* headers and the flag of a client that sleeps are not part of its rules
LEMMA OtherFields ==
  ASSUME NEW c, ClientOK(c), NEW d \in Client, d.mac = c.mac, d.v4 = c.v4, d.r4 = c.r4,
         d.v6 = c.v6, d.r6 = c.r6
  PROVE  ClientOK(d) /\ Counted(d) = Counted(c)
<1>1. ClientOK(d)
  BY DEF ClientOK
<1>2. Counted(d) = Counted(c)
  BY DEF Counted, Counted4, Counted6
<1> QED BY <1>1, <1>2

\* the entries move up, each with the flag of the one before: od2 tells when
\* that was another one
Closed(t, i) == [j \in 1..(Len(t) - 1) |-> IF j < i THEN t[j] ELSE [t[j + 1] EXCEPT !.ps = t[j].ps]]
SameSleep(t, i) == \A j \in i..(Len(t) - 1) : t[j].ps = t[j + 1].ps
Goes(t, i, t2, gone, od, od2) ==
  /\ i \in DOMAIN t /\ t2 = Closed(t, i) /\ gone = Counted(t[i])
  /\ od \subseteq od2 /\ (Own(od2) => SameSleep(t, i))

LEMMA ClientGoes ==
  ASSUME NEW t, NEW rs, NEW al, NEW od, NEW od2, Counts(t, rs, al, od),
         NEW i, NEW t2, NEW gone, Goes(t, i, t2, gone, od, od2)
  PROVE  /\ Counts(t2, rs \ gone, al \ gone, od2)
         /\ OnceIn(t) => OnceIn(t2)
         /\ \A p : Known(od) /\ ModeIn(t, al, p) => ModeIn(t2, al \ gone, p)
         /\ V4In(t) \ {t[i].v4} \subseteq V4In(t2)
<1> DEFINE old(j) == IF j < i THEN j ELSE j + 1
<1> USE DEF Goes
<1>1. /\ IsFiniteSet(rs) /\ rs \subseteq Rule /\ al \subseteq rs
      /\ t \in Seq(Client) /\ \A j \in DOMAIN t : ClientOK(t[j]) /\ t[j] \in Client
      /\ Known(od) => /\ \A j \in DOMAIN t : Counted(t[j]) \subseteq rs
                      /\ \A j, k \in DOMAIN t : j # k => Counted(t[j]) \intersect Counted(t[k]) = {}
      /\ Own(od) => \A j \in DOMAIN t : Quiet(t[j])
      /\ Sound(od) => rs \subseteq CountedIn(t)
      /\ (Known(od2) => Known(od)) /\ (Sound(od2) => Sound(od)) /\ (Own(od2) => Own(od))
  BY DEF Counts, HeldIn, ClientOK, Known, Sound, Own
<1>2. Len(t) \in Nat /\ DOMAIN t = 1..Len(t) /\ DOMAIN t2 = 1..(Len(t) - 1)
  BY <1>1, Lengths DEF Closed
<1>3. ASSUME NEW j \in DOMAIN t2
      PROVE  /\ old(j) \in DOMAIN t /\ old(j) # i
             /\ t2[j] \in Client /\ t2[j].mac = t[old(j)].mac /\ t2[j].v4 = t[old(j)].v4
             /\ t2[j].r4 = t[old(j)].r4 /\ t2[j].v6 = t[old(j)].v6 /\ t2[j].r6 = t[old(j)].r6
             /\ Own(od2) => t2[j] = t[old(j)]
  <2>1. CASE j < i
    <3>1. t2[j] = t[j] /\ old(j) = j /\ j \in DOMAIN t
      BY <1>2, <2>1 DEF Closed
    <3> QED BY <1>1, <2>1, <3>1
  <2>2. CASE ~(j < i)
    <3>1. /\ t2[j] = [t[j + 1] EXCEPT !.ps = t[j].ps] /\ old(j) = j + 1
          /\ j \in DOMAIN t /\ j + 1 \in DOMAIN t /\ j + 1 # i /\ j \in i..(Len(t) - 1)
      BY <1>2, <2>2 DEF Closed
    <3> DEFINE a == t[j]
               b == t[j + 1]
    <3>2. a \in Client /\ b \in Client /\ t2[j] = [b EXCEPT !.ps = a.ps]
      BY <1>1, <3>1
    <3>3. Own(od2) => a.ps = b.ps
      BY <3>1 DEF SameSleep
    <3> HIDE DEF a, b
    <3>4. a.ps \in BOOLEAN
      BY <3>2 DEF Client
    <3>5. /\ t2[j] \in Client /\ t2[j].mac = b.mac /\ t2[j].v4 = b.v4 /\ t2[j].r4 = b.r4
          /\ t2[j].v6 = b.v6 /\ t2[j].r6 = b.r6
      BY <3>2, <3>4 DEF Client
    <3>6. a.ps = b.ps => t2[j] = b
      BY <3>2 DEF Client
    <3> QED BY <3>1, <3>3, <3>5, <3>6 DEF b
  <2> QED BY <2>1, <2>2
<1>4. ASSUME NEW j \in DOMAIN t2 PROVE ClientOK(t2[j]) /\ Counted(t2[j]) = Counted(t[old(j)])
  <2>1. ClientOK(t[old(j)])
    BY <1>1, <1>3
  <2> HIDE DEF old
  <2> QED BY <1>3, <2>1, OtherFields
<1>5. \A j, k \in DOMAIN t2 : j # k => old(j) # old(k)
  BY <1>2
<1>6. ASSUME NEW j \in DOMAIN t, j # i PROVE \E k \in DOMAIN t2 : old(k) = j
  <2> DEFINE k == IF j < i THEN j ELSE j - 1
  <2>1. k \in 1..(Len(t) - 1) /\ old(k) = j
    BY <1>2, <1>6
  <2> QED BY <1>2, <2>1
<1>7. Known(od) => \A j \in DOMAIN t : j # i => Counted(t[j]) \intersect gone = {}
  BY <1>1
<1> HIDE DEF old
<1>8. Counts(t2, rs \ gone, al \ gone, od2)
  <2>1. IsFiniteSet(rs \ gone)
    BY <1>1, FS_Subset
  <2>2. t2 \in Seq(Client)
    <3>1. t2 \in [1..(Len(t) - 1) -> Client]
      <4>1. t2 = [j \in 1..(Len(t) - 1) |-> t2[j]]
        BY DEF Closed
      <4> QED BY <1>2, <1>3, <4>1
    <3>2. Len(t) - 1 \in Nat
      BY <1>2
    <3> QED BY <3>1, <3>2, SeqDef
  <2>3. Known(od2) => HeldIn(t2, rs \ gone)
    <3> SUFFICES ASSUME Known(od2) PROVE HeldIn(t2, rs \ gone)
      OBVIOUS
    <3>1. ASSUME NEW j \in DOMAIN t2 PROVE Counted(t2[j]) \subseteq rs \ gone
      <4>1. old(j) \in DOMAIN t /\ old(j) # i /\ Known(od)
        BY <1>1, <1>3
      <4>2. Counted(t[old(j)]) \subseteq rs /\ Counted(t[old(j)]) \intersect gone = {}
        BY <1>1, <1>7, <4>1
      <4> QED BY <1>4, <4>2
    <3>2. \A j, k \in DOMAIN t2 : j # k => Counted(t2[j]) \intersect Counted(t2[k]) = {}
      BY <1>1, <1>3, <1>4, <1>5
    <3> QED BY <3>1, <3>2 DEF HeldIn
  <2>4. Own(od2) => \A j \in DOMAIN t2 : Quiet(t2[j])
    BY <1>1, <1>3
  <2>5. Sound(od2) => rs \ gone \subseteq CountedIn(t2)
    <3> SUFFICES ASSUME Sound(od2), NEW r \in rs \ gone PROVE \E k \in DOMAIN t2 : r \in Counted(t2[k])
      BY DEF CountedIn
    <3>1. PICK j \in DOMAIN t : r \in Counted(t[j])
      BY <1>1 DEF CountedIn
    <3>2. PICK k \in DOMAIN t2 : old(k) = j
      BY <1>6, <3>1
    <3> QED BY <1>4, <3>1, <3>2
  <2> QED BY <1>1, <1>4, <2>1, <2>2, <2>3, <2>4, <2>5 DEF Counts
<1>9. ASSUME OnceIn(t), NEW j \in DOMAIN t2, NEW k \in DOMAIN t2, t2[j].mac = t2[k].mac PROVE j = k
  <2>1. /\ old(j) \in DOMAIN t /\ t2[j].mac = t[old(j)].mac
        /\ old(k) \in DOMAIN t /\ t2[k].mac = t[old(k)].mac
    BY <1>3
  <2>2. old(j) = old(k)
    BY <1>9, <2>1 DEF OnceIn
  <2> QED BY <1>5, <2>2
<1>10. ASSUME NEW p, Known(od), ModeIn(t, al, p), NEW j \in DOMAIN t2, t2[j].r4 # None
       PROVE  (t2[j].r4 \in al \ gone) <=> p = "alt"
  <2>1. t2[j].r4 \in Counted(t[old(j)])
    BY <1>3, <1>4, <1>10 DEF Counted, Counted4
  <2>2. t2[j].r4 \notin gone
    BY <1>3, <1>7, <1>10, <2>1
  <2>3. (t2[j].r4 \in al) <=> p = "alt"
    BY <1>3, <1>10 DEF ModeIn
  <2> QED BY <2>2, <2>3
<1>11. ASSUME NEW a \in V4In(t), a # t[i].v4 PROVE a \in V4In(t2)
  <2>1. PICK j \in DOMAIN t : a = t[j].v4
    BY DEF V4In
  <2>2. PICK k \in DOMAIN t2 : old(k) = j
    BY <1>6, <1>11, <2>1
  <2> QED BY <1>3, <2>1, <2>2 DEF V4In
<1>12. OnceIn(t) => OnceIn(t2)
  BY <1>9 DEF OnceIn
<1> QED BY <1>8, <1>10, <1>11, <1>12 DEF ModeIn

LEMMA AllChange ==
  ASSUME NEW t, NEW rs, NEW al, NEW od, Counts(t, rs, al, od), NEW t2 \in Seq(Client), NEW gone,
         DOMAIN t2 = DOMAIN t,
         \A j \in DOMAIN t : /\ ClientOK(t2[j]) /\ t2[j].mac = t[j].mac /\ (Quiet(t[j]) => Quiet(t2[j]))
                             /\ Known(od) => Counted(t2[j]) \subseteq Counted(t[j]) \ gone
                             /\ t2[j].r4 # None => t2[j].r4 = t[j].r4
                             /\ Counted(t[j]) \ gone \subseteq Counted(t2[j])
  PROVE  /\ Counts(t2, rs \ gone, al \ gone, od)
         /\ OnceIn(t) => OnceIn(t2)
         /\ \A p : Known(od) /\ ModeIn(t, al, p) => ModeIn(t2, al \ gone, p)
<1>1. /\ IsFiniteSet(rs) /\ rs \subseteq Rule /\ al \subseteq rs
      /\ Known(od) => /\ \A j \in DOMAIN t : Counted(t[j]) \subseteq rs
                      /\ \A j, k \in DOMAIN t : j # k => Counted(t[j]) \intersect Counted(t[k]) = {}
      /\ Own(od) => \A j \in DOMAIN t : Quiet(t[j])
      /\ Sound(od) => rs \subseteq CountedIn(t)
  BY DEF Counts, HeldIn
<1>2. Counts(t2, rs \ gone, al \ gone, od)
  <2>1. IsFiniteSet(rs \ gone)
    BY <1>1, FS_Subset
  <2>2. Known(od) => HeldIn(t2, rs \ gone)
    <3> SUFFICES ASSUME Known(od) PROVE HeldIn(t2, rs \ gone)
      OBVIOUS
    <3>1. \A j \in DOMAIN t2 : Counted(t2[j]) \subseteq Counted(t[j]) \ gone
      OBVIOUS
    <3> QED BY <1>1, <3>1 DEF HeldIn
  <2>3. Own(od) => \A j \in DOMAIN t2 : Quiet(t2[j])
    BY <1>1
  <2>4. Sound(od) => rs \ gone \subseteq CountedIn(t2)
    BY <1>1 DEF CountedIn
  <2> QED BY <1>1, <2>1, <2>2, <2>3, <2>4 DEF Counts
<1>3. OnceIn(t) => OnceIn(t2)
  BY DEF OnceIn
<1>4. ASSUME NEW p, Known(od), ModeIn(t, al, p), NEW j \in DOMAIN t2, t2[j].r4 # None
      PROVE  (t2[j].r4 \in al \ gone) <=> p = "alt"
  <2>1. t2[j].r4 \in Counted(t2[j]) /\ t2[j].r4 = t[j].r4
    BY <1>4 DEF Counted, Counted4
  <2>2. t2[j].r4 \notin gone
    BY <1>4, <2>1
  <2>3. (t2[j].r4 \in al) <=> p = "alt"
    BY <1>4, <2>1 DEF ModeIn
  <2> QED BY <2>2, <2>3
<1> QED BY <1>2, <1>3, <1>4 DEF ModeIn

(* The rules of a client are its own, each of one address.                    *)
LEMMA ClientRules ==
  ASSUME NEW c, ClientOK(c)
  PROVE  /\ Counted(c) \subseteq Rule
         /\ \A r \in Counted6(c) : r \notin Counted4(c)
         /\ \A j, k \in DOMAIN c.r6 : c.r6[j] = c.r6[k] => j = k
<1>1. /\ c.v4 \in V4Addrs \union {None} /\ c.r4 \in Rule \union {None}
      /\ Len(c.r6) \in Nat /\ Len(c.v6) \in Nat /\ Len(c.r6) <= Len(c.v6)
      /\ \A k \in 1..Len(c.v6) : c.v6[k] \in V6Addrs
      /\ DOMAIN c.r6 = 1..Len(c.r6) /\ \A k \in 1..Len(c.r6) : c.r6[k] \in Rule
  <2>1. /\ c.v4 \in V4Addrs \union {None} /\ c.r4 \in Rule \union {None}
        /\ c.r6 \in Seq(Rule) /\ c.v6 \in Seq(V6Addrs) /\ Len(c.r6) <= Len(c.v6)
    BY DEF ClientOK, Client
  <2> QED BY <2>1, Lengths
<1>2. None \notin V4Addrs \union V6Addrs /\ V4Addrs \intersect V6Addrs = {} /\ None \notin Rule
  BY ClientTableAssumption DEF ClientTableAssumption, Rule
<1>3. \A j \in 1..Len(c.r6) : j \in 1..Len(c.v6) /\ c.r6[j].addr = c.v6[j]
  BY <1>1 DEF ClientOK
<1>4. c.r4 # None => c.r4.addr \in V4Addrs
  <2>1. c.r4 # None => c.r4.addr = c.v4 /\ c.r4 \in Rule
    BY <1>1 DEF ClientOK
  <2>2. c.r4 # None => c.r4.addr \in V4Addrs \union V6Addrs
    BY <2>1 DEF Rule
  <2> QED BY <1>1, <1>2, <2>1, <2>2
<1>5. \A j \in 1..Len(c.r6) : c.r4 # None => c.r6[j] # c.r4
  BY <1>1, <1>2, <1>3, <1>4
<1>6. \A j, k \in 1..Len(c.r6) : c.r6[j] = c.r6[k] => j = k
  BY <1>3 DEF ClientOK
<1> QED BY <1>1, <1>5, <1>6 DEF Counted, Counted4, Counted6

\* delete_default_qos_rtrules and delete_eth_rtrules for both families
LEMMA NoRulesLeft ==
  ASSUME NEW c, ClientOK(c)
  PROVE  LET d == NoRules4(NoRules6(c))
         IN /\ ClientOK(d) /\ d.mac = c.mac /\ d.v4 = c.v4 /\ d.h4 = c.h4 /\ d.h6 = c.h6
            /\ d.r4 = None /\ d.r6 = <<>> /\ Counted(d) = {}
<1> DEFINE d == NoRules4(NoRules6(c))
<1>1. c \in Client /\ c.v6 \in Seq(V6Addrs) /\ <<>> \in Seq(Rule) /\ Len(<<>>) = 0
  BY EmptySeq DEF ClientOK, Client
<1>2. Len(c.v6) \in Nat
  BY <1>1, Lengths
<1>3. d = [[c EXCEPT !.r6 = <<>>] EXCEPT !.r4 = None]
  BY DEF NoRules4, NoRules6
<1> HIDE DEF d
<1>4. /\ d \in Client /\ d.mac = c.mac /\ d.v4 = c.v4 /\ d.r4 = None /\ d.v6 = c.v6 /\ d.r6 = <<>>
      /\ d.h4 = c.h4 /\ d.h6 = c.h6
  BY <1>1, <1>3 DEF Client
<1>5. ClientOK(d)
  BY <1>1, <1>2, <1>4 DEF ClientOK
<1>6. DOMAIN d.r6 = {}
  BY <1>4
<1>7. Counted(d) = {}
  BY <1>4, <1>6 DEF Counted, Counted4, Counted6
<1> QED BY <1>4, <1>5, <1>7 DEF d

\* a new address takes the place of the one before, whose rule went, or is added
LEMMA NewAddress4 ==
  ASSUME NEW c, ClientOK(c), NEW a \in V4Addrs
  PROVE  LET d == WithV4(c, a)
         IN /\ ClientOK(d) /\ d.mac = c.mac /\ d.v4 = a /\ d.r4 = None /\ (Quiet(c) => Quiet(d))
            /\ Counted4(c) \ Counted4(d) = Counted4(c)
            /\ Counted(d) \subseteq Counted(c) \ Counted4(c)
            /\ Counted(c) \ Counted4(c) \subseteq Counted(d)
<1> DEFINE d == WithV4(c, a)
<1>1. c \in Client
  BY DEF ClientOK
<1>2. /\ d \in Client /\ d.mac = c.mac /\ d.v4 = a /\ d.r4 = None /\ d.v6 = c.v6 /\ d.r6 = c.r6
      /\ d.ps = c.ps
  BY <1>1 DEF WithV4, NoRules4, Client
<1> HIDE DEF d
<1>3. ClientOK(d) /\ (Quiet(c) => Quiet(d))
  BY <1>2 DEF ClientOK, Quiet
<1>4. Counted6(d) = Counted6(c) /\ Counted4(d) = {}
  BY <1>2 DEF Counted4, Counted6
<1>5. \A r \in Counted6(c) : r \notin Counted4(c)
  BY ClientRules
<1> QED BY <1>2, <1>3, <1>4, <1>5 DEF d, Counted

LEMMA NewAddress6 ==
  ASSUME NEW c, ClientOK(c), NEW a \in V6Addrs, a \notin ToSet(c.v6)
  PROVE  LET d == WithV6(c, a)
         IN /\ ClientOK(d) /\ d.mac = c.mac /\ d.v4 = c.v4 /\ d.r4 = c.r4 /\ (Quiet(c) => Quiet(d))
            /\ Counted(d) = Counted(c)
<1> DEFINE d == WithV6(c, a)
           n == Len(c.v6) + 1
           v == Append(c.v6, a)
<1>1. /\ c \in Client /\ c.v6 \in Seq(V6Addrs) /\ c.r6 \in Seq(Rule)
      /\ Len(c.r6) \in Nat /\ Len(c.r6) <= Len(c.v6)
      /\ Len(c.v6) \in Nat /\ DOMAIN c.v6 = 1..Len(c.v6)
  <2>1. c \in Client /\ c.v6 \in Seq(V6Addrs) /\ c.r6 \in Seq(Rule) /\ Len(c.r6) <= Len(c.v6)
    BY DEF ClientOK, Client
  <2> QED BY <2>1, Lengths
<1>2. v \in Seq(V6Addrs) /\ Len(v) = n /\ v[n] = a /\ \A k \in 1..Len(c.v6) : v[k] = c.v6[k]
  BY <1>1, Appended
<1>3. d = [c EXCEPT !.v6 = v]
  BY DEF WithV6
<1> HIDE DEF d, v
<1>4. /\ d \in Client /\ d.mac = c.mac /\ d.v4 = c.v4 /\ d.r4 = c.r4 /\ d.v6 = v /\ d.r6 = c.r6
      /\ d.ps = c.ps
  BY <1>1, <1>2, <1>3 DEF Client
<1>5. \A k \in 1..Len(c.v6) : c.v6[k] # a
  BY <1>1 DEF ToSet
<1>6. ClientOK(d)
  <2>1. \A j, k \in 1..n : v[j] = v[k] => j = k
    BY <1>1, <1>2, <1>5, SMTT(30) DEF ClientOK
  <2>2. \A k \in 1..Len(c.r6) : c.r6[k].mac = c.mac /\ c.r6[k].addr = v[k]
    BY <1>1, <1>2 DEF ClientOK
  <2>3. Len(d.r6) <= Len(d.v6) /\ Len(d.v6) = n
    BY <1>1, <1>2, <1>4
  <2>4. d.r4 # None => d.r4.mac = d.mac /\ d.r4.addr = d.v4
    BY <1>4 DEF ClientOK
  <2> HIDE DEF n
  <2> QED BY <1>4, <2>1, <2>2, <2>3, <2>4 DEF ClientOK
<1>7. Counted(d) = Counted(c) /\ (Quiet(c) => Quiet(d))
  BY <1>4 DEF Counted, Counted4, Counted6, Quiet
<1> QED BY <1>4, <1>6, <1>7 DEF d

-----------------------------------------------------------------------------
(* The steps of the table.                                                    *)
LEMMA LeastOf ==
  ASSUME NEW A, A \subseteq Nat, A # {}
  PROVE  \E i \in A : \A j \in A : i <= j
<1>1. PICK a \in A : TRUE
  OBVIOUS
<1> DEFINE R == StrictSubsetOrdering(0..a)
           T == {0..i : i \in {k \in A : k <= a}}
<1>2. IsFiniteSet(0..a)
  BY FS_Interval
<1>3. IsWellFoundedOn(R, FiniteSubsetsOf(0..a))
  BY <1>2, FS_StrictSubsetOrderingWellFounded
<1>4. T \subseteq SUBSET (0..a) /\ 0..a \in T
  OBVIOUS
<1>5. T \subseteq FiniteSubsetsOf(0..a)
  BY <1>2, <1>4, FS_Subset DEF FiniteSubsetsOf
<1>6. PICK x \in T : \A y \in T : ~ (<<y, x>> \in R)
  <2> HIDE DEF R, T
  <2> QED BY <1>3, <1>4, <1>5, WFMin
<1>7. PICK i \in A : i <= a /\ x = 0..i
  OBVIOUS
<1>8. ASSUME NEW j \in A, j < i PROVE FALSE
  <2>1. 0..j \in T /\ 0..j \subseteq x /\ 0..j # x
    BY <1>7, <1>8
  <2> QED BY <1>4, <1>6, <2>1 DEF StrictSubsetOrdering
<1> QED BY <1>7, <1>8

LEMMA FirstOfMac ==
  ASSUME NEW t \in Seq(Client), NEW mac
  PROVE  LET i == IndexIn(t, mac)
         IN \/ i \in DOMAIN t /\ i # 0 /\ t[i].mac = mac
            \/ i = 0 /\ \A j \in DOMAIN t : t[j].mac # mac
<1> DEFINE A == {j \in DOMAIN t : t[j].mac = mac}
           P(i) == t[i].mac = mac /\ \A j \in 1..(i - 1) : t[j].mac # mac
<1>1. Len(t) \in Nat /\ DOMAIN t = 1..Len(t)
  BY Lengths
<1>2. CASE A = {}
  BY <1>2 DEF IndexIn
<1>3. CASE A # {}
  <2>1. A \subseteq Nat
    BY <1>1
  <2>2. PICK i \in A : \A j \in A : i <= j
    <3> HIDE DEF A
    <3> QED BY <1>3, <2>1, LeastOf
  <2>3. i \in DOMAIN t /\ P(i)
    BY <1>1, <2>1, <2>2
  <2>4. IndexIn(t, mac) = CHOOSE k \in DOMAIN t : P(k)
    BY <2>3 DEF IndexIn
  <2> HIDE DEF P
  <2>5. IndexIn(t, mac) \in DOMAIN t /\ P(IndexIn(t, mac))
    BY <2>3, <2>4
  <2>6. IndexIn(t, mac) # 0
    BY <1>1, <2>5
  <2> QED BY <2>5, <2>6 DEF P
<1> QED BY <1>2, <1>3

\* a table that differs from tbl at most by a client that came
Ready(t) ==
  /\ Counts(t, rules, alt, odd) /\ V4In(tbl) \subseteq V4In(t)
  /\ kind # "wlan" => OnceIn(t)
  /\ kind # "lan" /\ ~mccEvent /\ Moved(odd) => ModeIn(t, alt, Pipe)

LEMMA TableReady == TableInv => Ready(tbl) /\ tbl \in Seq(Client)
BY DEF TableInv, Ready, Counts

LEMMA WithNewClient ==
  ASSUME TableInv, NEW mac \in Macs, kind = "wlan" \/ IndexOf(mac) = 0
  PROVE  Ready(Append(tbl, NewClient(mac))) /\ Append(tbl, NewClient(mac)) \in Seq(Client)
<1>1. Counts(tbl, rules, alt, odd) /\ mcc \in BOOLEAN /\ tbl \in Seq(Client)
  BY DEF TableInv, Counts
<1>2. LET t2 == Append(tbl, NewClient(mac))
      IN /\ Counts(t2, rules, alt, odd)
         /\ (\A i \in DOMAIN tbl : tbl[i].mac # mac) /\ OnceIn(tbl) => OnceIn(t2)
         /\ \A p : ModeIn(tbl, alt, p) => ModeIn(t2, alt, p)
         /\ V4In(tbl) \subseteq V4In(t2)
  BY <1>1, ClientComes
<1>3. IndexOf(mac) = 0 => \A i \in DOMAIN tbl : tbl[i].mac # mac
  BY <1>1, FirstOfMac DEF IndexOf
<1> HIDE DEF NewClient
<1>4. Ready(Append(tbl, NewClient(mac)))
  BY <1>1, <1>2, <1>3 DEF Ready, TableInv
<1> QED BY <1>4 DEF Ready, Counts

LEMMA TableKept ==
  ASSUME TableInv, kind' = kind, mcc' = mcc, mccEvent' = mccEvent, dft' = dft \/ dft' = "none",
         Counts(tbl', rules', alt', odd'), nat' \subseteq V4In(tbl'),
         kind # "wlan" => OnceIn(tbl'), odd \subseteq odd', kind # "lan" => Known(odd'),
         kind # "lan" /\ ~mccEvent /\ Moved(odd) => ModeIn(tbl', alt', Pipe)
  PROVE  TableInv'
<1>1. Moved(odd') => Moved(odd)
  BY DEF Moved
<1>2. Pipe' = Pipe
  BY DEF Pipe
<1>3. Counts(tbl, rules, alt, odd)' /\ mcc' \in BOOLEAN /\ (kind # "lan" => Known(odd))'
  BY DEF TableInv, Counts, Known
<1>4. V4In(tbl)' = V4In(tbl') /\ OnceIn(tbl)' = OnceIn(tbl') /\ ModeIn(tbl, alt, Pipe)' = ModeIn(tbl', alt', Pipe')
  BY DEF V4In, OnceIn, ModeIn
<1>5. (kind = "wlan" => dft = "none")'
  BY DEF TableInv
<1>6. (kind # "lan" /\ ~mccEvent /\ Moved(odd) => ModeIn(tbl, alt, Pipe) /\ dft \in {"none", Pipe})'
  BY <1>1, <1>2, <1>4 DEF TableInv, Moved
<1> QED BY <1>3, <1>4, <1>5, <1>6 DEF TableInv

\* the NAT knows no address but those it knew, v gone, and w
NatFollows(v, w) == nat' \subseteq ((nat \ {v}) \union {w}) \ {None}

LEMMA OneChanges ==
  ASSUME TableInv, kind' = kind, mcc' = mcc, mccEvent' = mccEvent, dft' = dft,
         NEW t, Ready(t), NEW i, NEW c, NEW gone, NEW new, NEW add \in {new, {}},
         Becomes(t, i, c, gone, new, rules, odd, odd'), kind # "lan" => Known(odd'),
         tbl' = [t EXCEPT ![i] = c],
         rules' = (rules \ gone) \union new, alt' = (alt \ gone) \union add,
         kind # "lan" => add = (IF mcc THEN new ELSE {}),
         NatFollows(t[i].v4, c.v4)
  PROVE  TableInv'
<1>1. /\ Counts(t, rules, alt, odd) /\ V4In(tbl) \subseteq V4In(t) /\ nat \subseteq V4In(tbl)
      /\ mcc \in BOOLEAN /\ odd \subseteq odd'
  BY DEF Ready, TableInv, Becomes
<1>2. PICK p : /\ kind # "lan" => p = Pipe
               /\ (IF p = "alt" THEN new ELSE {}) = add
  <2>1. CASE kind # "lan"
    BY <2>1 DEF Pipe
  <2>2. CASE kind = "lan" /\ add = new
    BY <2>2
  <2>3. CASE kind = "lan" /\ add = {}
    <3>1. "own" # "alt"
      OBVIOUS
    <3> QED BY <2>3, <3>1
  <2> QED BY <2>1, <2>2, <2>3
<1>3. PICK od : od = odd'
  OBVIOUS
<1>4. Becomes(t, i, c, gone, new, rules, odd, od)
  BY <1>3
<1> DEFINE t2 == [t EXCEPT ![i] = c]
           rs2 == (rules \ gone) \union new
           al2 == (alt \ gone) \union (IF p = "alt" THEN new ELSE {})
<1>5. /\ Counts(t2, rs2, al2, od)
      /\ OnceIn(t) => OnceIn(t2)
      /\ Known(od) /\ ModeIn(t, alt, p) => ModeIn(t2, al2, p)
      /\ \A a \in V4In(t) : a # t[i].v4 => a \in V4In(t2)
      /\ c.v4 # None => c.v4 \in V4In(t2)
  <2>1. Counts(t2, rs2, al2, od)
    BY <1>1, <1>4, EntryChanges
  <2>2. OnceIn(t) => OnceIn(t2)
    BY <1>1, <1>4, EntryChanges
  <2>3. Known(od) /\ ModeIn(t, alt, p) => ModeIn(t2, al2, p)
    BY <1>1, <1>4, EntryChanges
  <2>4. \A a \in V4In(t) : a # t[i].v4 => a \in V4In(t2)
    BY <1>1, <1>4, EntryChanges
  <2>5. c.v4 # None => c.v4 \in V4In(t2)
    BY <1>1, <1>4, EntryChanges
  <2> QED BY <2>1, <2>2, <2>3, <2>4, <2>5
<1>6. tbl' = t2 /\ rules' = rs2
  OBVIOUS
<1>7. alt' = al2
  BY <1>2
<1> HIDE DEF t2, rs2, al2
<1>8. nat' \subseteq V4In(t2)
  <2>1. \A a \in V4In(tbl) : a # None
    BY DEF V4In
  <2> QED BY <1>1, <1>5, <2>1 DEF NatFollows
<1>9. kind # "lan" /\ ~mccEvent /\ Moved(odd) => ModeIn(t2, al2, Pipe)
  BY <1>2, <1>3, <1>5 DEF Ready
<1> QED BY <1>1, <1>3, <1>5, <1>6, <1>7, <1>8, <1>9, TableKept DEF Ready

LEMMA TakesAddress4 ==
  ASSUME TableInv, kind' = kind, mcc' = mcc, mccEvent' = mccEvent, dft' = dft,
         NEW t, Ready(t), t \in Seq(Client), NEW i \in DOMAIN t, NEW a \in V4Addrs, NEW toAlt \in BOOLEAN,
         kind # "lan" => toAlt = mcc,
         Address4(t, i, a, RouteRule4(WithV4(t[i], a)), toAlt)
  PROVE  TableInv'
<1> DEFINE c == t[i]
           d == WithV4(c, a)
<1>1. ClientOK(c) /\ IsFiniteSet(rules) /\ rules \subseteq Rule
  BY DEF Ready, Counts
<1>2. /\ ClientOK(d) /\ d.mac = c.mac /\ d.v4 = a /\ d.r4 = None /\ (Quiet(c) => Quiet(d))
      /\ Counted4(c) \ Counted4(d) = Counted4(c)
      /\ Counted(d) \subseteq Counted(c) \ Counted4(c)
      /\ Counted(c) \ Counted4(c) \subseteq Counted(d)
  BY <1>1, NewAddress4
<1>3. /\ \E o \in RouteRule4(d) :
           /\ tbl' = [t EXCEPT ![i] = o[1]]
           /\ Change(Counted4(c) \ Counted4(d), o[2], toAlt)
      /\ NatMove({c.v4} \ {None}, a)
      /\ odd' = odd
  BY DEF Address4
<1> HIDE DEF c, d
<1>4. PICK o \in RouteRule4(d) :
        /\ tbl' = [t EXCEPT ![i] = o[1]]
        /\ Change(Counted4(c), o[2], toAlt)
  BY <1>2, <1>3
<1>5. Routed(d, o) /\ o[2] \subseteq Counted(o[1])
  BY <1>1, <1>2, RoutedIPv4
<1> DEFINE e == o[1]
           new == o[2]
           gone == Counted4(c)
<1>6. /\ ClientOK(e) /\ e.mac = c.mac /\ e.v4 = a /\ (Quiet(c) => Quiet(e))
      /\ IsFiniteSet(new) /\ new \subseteq Rule \ rules /\ new \subseteq Counted(e)
      /\ Counted(e) \subseteq Counted(d) \union new /\ Counted(d) \subseteq Counted(e)
      /\ e.r4 # None => e.r4 \in new
  BY <1>2, <1>5 DEF Routed
<1> HIDE DEF e, new, gone
<1>7. gone \subseteq Counted(c) /\ (kind # "lan" => Known(odd'))
  BY <1>3 DEF Counted, gone, TableInv
<1>8. Becomes(t, i, e, gone, new, rules, odd, odd')
  BY <1>2, <1>3, <1>6, <1>7 DEF Becomes, c, gone
<1>9. NatFollows(c.v4, e.v4)
  <2>1. \A x \in nat : x # None
    BY DEF TableInv, V4In
  <2>2. a # None
    BY ClientTableAssumption DEF ClientTableAssumption
  <2> QED BY <1>3, <1>6, <2>1, <2>2 DEF NatMove, NatFollows
<1>10. tbl' = [t EXCEPT ![i] = e] /\ Change(gone, new, toAlt)
  BY <1>4 DEF e, new, gone
<1>11. PICK add \in {new, {}} : /\ alt' = (alt \ gone) \union add
                                /\ kind # "lan" => add = (IF mcc THEN new ELSE {})
  BY <1>10 DEF Change
<1>12. rules' = (rules \ gone) \union new /\ tbl' = [t EXCEPT ![i] = e]
  BY <1>10 DEF Change
<1> QED BY <1>7, <1>8, <1>9, <1>11, <1>12, OneChanges DEF c

LEMMA TakesAddress6 ==
  ASSUME TableInv, kind' = kind, mcc' = mcc, mccEvent' = mccEvent, dft' = dft,
         NEW t, Ready(t), t \in Seq(Client), NEW i \in DOMAIN t, NEW a \in V6Addrs, NEW toAlt \in BOOLEAN,
         kind # "lan" => toAlt = mcc, TakesV6(t[i], a),
         Address6(t, i, RouteRule6(WithV6(t[i], a)), toAlt)
  PROVE  TableInv'
<1> DEFINE c == t[i]
           d == WithV6(c, a)
<1>1. ClientOK(c) /\ IsFiniteSet(rules) /\ rules \subseteq Rule
  BY DEF Ready, Counts
<1>2. /\ ClientOK(d) /\ d.mac = c.mac /\ d.v4 = c.v4 /\ d.r4 = c.r4 /\ (Quiet(c) => Quiet(d))
      /\ Counted(d) = Counted(c)
  BY <1>1, NewAddress6 DEF TakesV6
<1>3. /\ \E o \in RouteRule6(d) :
           /\ tbl' = [t EXCEPT ![i] = o[1]]
           /\ Change({}, o[2], toAlt)
           /\ odd' = odd \union Leaves(o)
      /\ nat' = nat
  BY DEF Address6
<1> HIDE DEF c, d
<1>4. PICK o \in RouteRule6(d) :
        /\ tbl' = [t EXCEPT ![i] = o[1]]
        /\ Change({}, o[2], toAlt)
        /\ odd' = odd \union Leaves(o)
  BY <1>3
<1>5. Routed(d, o)
  BY <1>1, <1>2, RoutedIPv6
<1> DEFINE e == o[1]
           new == o[2]
<1>6. /\ ClientOK(e) /\ e.mac = c.mac /\ e.v4 = c.v4 /\ (Quiet(c) => Quiet(e))
      /\ IsFiniteSet(new) /\ new \subseteq Rule \ rules
      /\ Counted(e) \subseteq Counted(c) \union new /\ Counted(c) \subseteq Counted(e)
      /\ e.r4 # None => e.r4 \in new \union {c.r4}
  BY <1>2, <1>5 DEF Routed
<1>7. Sound(odd') => new \subseteq Counted(e)
  BY <1>4 DEF Sound, Leaves
<1> HIDE DEF e, new
<1>8. odd \subseteq odd' /\ (kind # "lan" => Known(odd'))
  BY <1>4 DEF Leaves, Known, TableInv
<1>9. Becomes(t, i, e, {}, new, rules, odd, odd')
  BY <1>6, <1>7, <1>8 DEF Becomes, c
<1>10. tbl' = [t EXCEPT ![i] = e] /\ Change({}, new, toAlt)
  BY <1>4 DEF e, new
<1>11. NatFollows(c.v4, e.v4)
  <2>1. None \notin nat
    BY DEF TableInv, V4In
  <2> QED BY <1>3, <1>6, <2>1 DEF NatFollows
<1>12. /\ rules' = (rules \ {}) \union new
       /\ alt' = (alt \ {}) \union (IF toAlt THEN new ELSE {})
       /\ kind # "lan" => (IF toAlt THEN new ELSE {}) = (IF mcc THEN new ELSE {})
       /\ (IF toAlt THEN new ELSE {}) \in {new, {}}
  BY <1>10 DEF Change
<1> QED BY <1>8, <1>9, <1>10, <1>11, <1>12, OneChanges DEF c

\* all the rules of a client go, its entry stays
LEMMA RulesGo ==
  ASSUME TableInv, kind' = kind, mcc' = mcc, mccEvent' = mccEvent, dft' = dft,
         NEW i \in DOMAIN tbl, NEW e \in Client,
         LET d == NoRules4(NoRules6(tbl[i]))
         IN e.mac = d.mac /\ e.v4 = d.v4 /\ e.r4 = d.r4 /\ e.v6 = d.v6 /\ e.r6 = d.r6,
         tbl' = [tbl EXCEPT ![i] = e], Change(Counted(tbl[i]), {}, FALSE), odd' = odd,
         nat' \subseteq nat
  PROVE  TableInv'
<1> DEFINE c == tbl[i]
           d == NoRules4(NoRules6(c))
<1>1. ClientOK(c)
  BY DEF TableInv, Counts
<1>2. /\ ClientOK(d) /\ d.mac = c.mac /\ d.v4 = c.v4 /\ d.r4 = None /\ d.r6 = <<>>
      /\ Counted(d) = {}
  BY <1>1, NoRulesLeft
<1>3. e.mac = d.mac /\ e.v4 = d.v4 /\ e.r4 = d.r4 /\ e.v6 = d.v6 /\ e.r6 = d.r6
  OBVIOUS
<1> HIDE DEF d
<1>4. ClientOK(e) /\ Counted(e) = {} /\ Quiet(e)
  BY <1>2, <1>3, OtherFields DEF Quiet
<1>5. IsFiniteSet({}) /\ (kind # "lan" => Known(odd'))
  BY FS_EmptySet DEF TableInv
<1>6. Becomes(tbl, i, e, Counted(c), {}, rules, odd, odd')
  <2> HIDE DEF c
  <2>1. e.mac = c.mac /\ e.r4 = None
    BY <1>2, <1>3
  <2> QED BY <1>4, <1>5, <2>1 DEF Becomes, c
<1>7. NatFollows(tbl[i].v4, e.v4)
  <2>1. None \notin nat
    BY DEF TableInv, V4In
  <2> QED BY <1>2, <1>3, <2>1 DEF NatFollows
<1> DEFINE gone == Counted(c)
<1>8. /\ rules' = (rules \ gone) \union {} /\ alt' = (alt \ gone) \union {}
      /\ {} = (IF mcc THEN {} ELSE {}) /\ {} \in {{}, {}}
  BY DEF Change
<1>9. Becomes(tbl, i, e, gone, {}, rules, odd, odd')
  BY <1>6
<1> HIDE DEF gone, c
<1> QED BY <1>5, <1>7, <1>8, <1>9, TableReady, OneChanges

LEMMA ClientDownKept ==
  ASSUME TableInv, kind' = kind, mcc' = mcc, mccEvent' = mccEvent, dft' = dft,
         NEW i \in DOMAIN tbl, ClientDown(i)
  PROVE  TableInv'
<1> DEFINE c == tbl[i]
           d == NoRules4(NoRules6(c))
<1>1. ClientOK(c) /\ Counts(tbl, rules, alt, odd)
  BY DEF TableInv, Counts
<1>2. /\ nat' = nat \ ({c.v4} \ {None}) /\ Change(Counted(c), {}, FALSE)
      /\ \/ tbl' = [tbl EXCEPT ![i] = HeadersGone(d)] /\ odd' = odd
         \/ tbl' = Compacted(i) /\ odd' = odd \union IF Mixed(i) THEN {"mixed"} ELSE {}
  BY DEF ClientDown, NatDel
<1>3. CASE tbl' = [tbl EXCEPT ![i] = HeadersGone(d)] /\ odd' = odd
  <2>1. ClientOK(d)
    BY <1>1, NoRulesLeft
  <2>2. /\ HeadersGone(d) \in Client /\ HeadersGone(d).mac = d.mac /\ HeadersGone(d).v4 = d.v4
        /\ HeadersGone(d).r4 = d.r4 /\ HeadersGone(d).v6 = d.v6 /\ HeadersGone(d).r6 = d.r6
    <3> HIDE DEF d
    <3>1. d \in Client
      BY <2>1 DEF ClientOK
    <3> QED BY <3>1 DEF HeadersGone, Client, Headers
  <2>3. nat' \subseteq nat
    BY <1>2
  <2> QED BY <1>2, <1>3, <2>2, <2>3, RulesGo
<1>4. CASE tbl' = Compacted(i) /\ odd' = odd \union IF Mixed(i) THEN {"mixed"} ELSE {}
  <2>1. PICK t2 : t2 = tbl'
    OBVIOUS
  <2>2. PICK od2 : od2 = odd'
    OBVIOUS
  <2>3. t2 = Closed(tbl, i)
    BY <1>4, <2>1 DEF Compacted, Closed
  <2>4. odd \subseteq od2 /\ (Own(od2) => SameSleep(tbl, i))
    BY <1>4, <2>2 DEF Own, Mixed, SameSleep
  <2>5. PICK gone : gone = Counted(c)
    OBVIOUS
  <2>6. Counts(tbl, rules, alt, odd) /\ gone = Counted(tbl[i])
    BY <1>1, <2>5
  <2>7. /\ Counts(t2, rules \ gone, alt \ gone, od2)
        /\ OnceIn(tbl) => OnceIn(t2)
        /\ \A p : Known(odd) /\ ModeIn(tbl, alt, p) => ModeIn(t2, alt \ gone, p)
        /\ \A a \in V4In(tbl) : a # c.v4 => a \in V4In(t2)
    <3>1. Goes(tbl, i, t2, gone, odd, od2)
      BY <2>3, <2>4, <2>6 DEF Goes
    <3>2. Counts(t2, rules \ gone, alt \ gone, od2)
      BY <2>6, <3>1, ClientGoes
    <3>3. OnceIn(tbl) => OnceIn(t2)
      BY <2>6, <3>1, ClientGoes
    <3>4. \A p : Known(odd) /\ ModeIn(tbl, alt, p) => ModeIn(t2, alt \ gone, p)
      BY <2>6, <3>1, ClientGoes
    <3>5. V4In(tbl) \ {tbl[i].v4} \subseteq V4In(t2)
      BY <2>6, <3>1, ClientGoes
    <3> QED BY <3>2, <3>3, <3>4, <3>5
  <2>8. rules' = rules \ gone /\ alt' = alt \ gone
    BY <1>2, <2>5 DEF Change
  <2>9. nat' \subseteq V4In(t2)
    <3>1. nat \subseteq V4In(tbl) /\ \A a \in V4In(tbl) : a # None
      BY DEF TableInv, V4In
    <3> QED BY <1>2, <2>7, <3>1
  <2>10. kind # "lan" => Known(odd) /\ Known(odd')
    BY <1>4 DEF TableInv, Known
  <2> QED BY <1>2, <2>1, <2>2, <2>4, <2>7, <2>8, <2>9, <2>10, TableKept DEF TableInv
<1> QED BY <1>2, <1>3, <1>4

\* the rules of all clients go, or those for IPv6
LEMMA AllEntriesChange ==
  ASSUME TableInv, kind' = kind, mcc' = mcc, mccEvent' = mccEvent, dft' = dft,
         tbl' \in Seq(Client), NEW gone, DOMAIN tbl' = DOMAIN tbl,
         \A j \in DOMAIN tbl : /\ ClientOK(tbl'[j]) /\ tbl'[j].mac = tbl[j].mac /\ (Quiet(tbl[j]) => Quiet(tbl'[j]))
                               /\ tbl'[j].v4 = tbl[j].v4
                               /\ Known(odd) => Counted(tbl'[j]) \subseteq Counted(tbl[j]) \ gone
                               /\ tbl'[j].r4 # None => tbl'[j].r4 = tbl[j].r4
                               /\ Counted(tbl[j]) \ gone \subseteq Counted(tbl'[j]),
         Change(gone, {}, FALSE), odd' = odd, nat' \subseteq nat
  PROVE  TableInv'
<1>1. PICK t2 : t2 = tbl'
  OBVIOUS
<1>2. Counts(tbl, rules, alt, odd)
  BY DEF TableInv
<1>3. /\ t2 \in Seq(Client) /\ DOMAIN t2 = DOMAIN tbl
      /\ \A j \in DOMAIN tbl : /\ ClientOK(t2[j]) /\ t2[j].mac = tbl[j].mac /\ (Quiet(tbl[j]) => Quiet(t2[j]))
                               /\ t2[j].v4 = tbl[j].v4
                               /\ Known(odd) => Counted(t2[j]) \subseteq Counted(tbl[j]) \ gone
                               /\ t2[j].r4 # None => t2[j].r4 = tbl[j].r4
                               /\ Counted(tbl[j]) \ gone \subseteq Counted(t2[j])
  BY <1>1
<1>4. /\ Counts(t2, rules \ gone, alt \ gone, odd)
      /\ OnceIn(tbl) => OnceIn(t2)
      /\ \A p : Known(odd) /\ ModeIn(tbl, alt, p) => ModeIn(t2, alt \ gone, p)
  BY <1>2, <1>3, AllChange
<1>5. V4In(t2) = V4In(tbl)
  BY <1>3 DEF V4In
<1>6. rules' = rules \ gone /\ alt' = alt \ gone
  BY DEF Change
<1>7. nat' \subseteq V4In(t2)
  BY <1>5 DEF TableInv
<1> QED BY <1>1, <1>4, <1>6, <1>7, TableKept DEF TableInv

LEMMA ResetRt6Kept ==
  ASSUME TableInv, kind' = kind, mcc' = mcc, mccEvent' = mccEvent, dft' = dft, ResetRt6
  PROVE  TableInv'
<1> DEFINE new(c) == [c EXCEPT !.v6 = <<>>, !.r6 = <<>>]
           gone == AllCounted6
<1>1. /\ tbl \in Seq(Client)
      /\ \A i \in DOMAIN tbl : ClientOK(tbl[i])
      /\ Known(odd) => \A i, j \in DOMAIN tbl : i # j => Counted(tbl[i]) \intersect Counted(tbl[j]) = {}
  BY DEF TableInv, Counts, HeldIn
<1>2. /\ tbl' = [i \in DOMAIN tbl |-> new(tbl[i])] /\ Change(gone, {}, FALSE)
      /\ nat' = nat /\ odd' = odd
  BY DEF ResetRt6
<1>3. ASSUME NEW i \in DOMAIN tbl
      PROVE  /\ ClientOK(tbl'[i]) /\ tbl'[i] \in Client /\ tbl'[i].mac = tbl[i].mac
             /\ tbl'[i].v4 = tbl[i].v4 /\ tbl'[i].r4 = tbl[i].r4 /\ (Quiet(tbl[i]) => Quiet(tbl'[i]))
             /\ Known(odd) => Counted(tbl'[i]) \subseteq Counted(tbl[i]) \ gone
             /\ Counted(tbl[i]) \ gone \subseteq Counted(tbl'[i])
  <2> DEFINE c == tbl[i]
             d == new(c)
  <2>1. ClientOK(c) /\ c \in Client
    BY <1>1 DEF ClientOK
  <2>2. tbl'[i] = d
    BY <1>2
  <2>3. <<>> \in Seq(V6Addrs) /\ <<>> \in Seq(Rule) /\ Len(<<>>) = 0
    BY EmptySeq
  <2> HIDE DEF c
  <2>4. /\ d \in Client /\ d.mac = c.mac /\ d.v4 = c.v4 /\ d.r4 = c.r4 /\ d.v6 = <<>>
        /\ d.r6 = <<>> /\ d.ps = c.ps
    BY <2>1, <2>3 DEF Client
  <2> HIDE DEF d
  <2>5. ClientOK(d) /\ (Quiet(c) => Quiet(d))
    BY <2>1, <2>3, <2>4 DEF ClientOK, Quiet
  <2>6. Counted(d) = Counted4(c)
    <3>1. DOMAIN d.r6 = {}
      BY <2>4
    <3> QED BY <2>4, <3>1 DEF Counted, Counted4, Counted6
  <2>7. Known(odd) => \A r \in Counted4(c) : r \notin gone
    <3> SUFFICES ASSUME Known(odd), NEW r \in Counted4(c), NEW j \in DOMAIN tbl, r \in Counted6(tbl[j])
                 PROVE  FALSE
      BY DEF AllCounted6
    <3>1. r \in Counted(c) /\ r \in Counted(tbl[j])
      BY DEF Counted
    <3>2. j = i
      BY <1>1, <3>1 DEF c
    <3> QED BY <2>1, <3>2, ClientRules DEF c
  <2>8. Known(odd) => Counted(d) \subseteq Counted(c) \ gone
    <3> HIDE DEF gone
    <3> QED BY <2>6, <2>7 DEF Counted
  <2>9. Counted(c) \ gone \subseteq Counted(d)
    <3>1. Counted6(c) \subseteq gone
      BY DEF AllCounted6, c
    <3> QED BY <2>6, <3>1 DEF Counted
  <2> QED BY <2>2, <2>4, <2>5, <2>8, <2>9 DEF c
<1> HIDE DEF gone
<1>4. DOMAIN tbl' = DOMAIN tbl /\ tbl' \in Seq(Client)
  <2>1. DOMAIN tbl = 1..Len(tbl) /\ Len(tbl) \in Nat
    BY <1>1, Lengths
  <2>2. DOMAIN tbl' = 1..Len(tbl) /\ tbl' = [k \in 1..Len(tbl) |-> tbl'[k]]
    BY <1>2, <2>1
  <2>3. tbl' \in [1..Len(tbl) -> Client]
    BY <1>3, <2>1, <2>2
  <2> QED BY <2>1, <2>2, <2>3, SeqDef
<1> HIDE DEF new
<1> QED BY <1>2, <1>3, <1>4, AllEntriesChange

LEMMA CleanUpKept ==
  ASSUME TableInv, kind' = kind, mcc' = mcc, mccEvent' = mccEvent, dft' = dft, CleanUpForSta
  PROVE  TableInv'
<1> DEFINE new(c) == [NoRules4(NoRules6(c)) EXCEPT !.h4 = Stale(@), !.h6 = Stale(@)]
           gone == AllCounted
<1>1. /\ tbl \in Seq(Client)
      /\ \A i \in DOMAIN tbl : ClientOK(tbl[i])
      /\ Known(odd) => \A i, j \in DOMAIN tbl : i # j => Counted(tbl[i]) \intersect Counted(tbl[j]) = {}
  BY DEF TableInv, Counts, HeldIn
<1>2. /\ tbl' = [i \in DOMAIN tbl |-> new(tbl[i])] /\ Change(gone, {}, FALSE)
      /\ nat' \subseteq nat /\ odd' = odd
  BY DEF CleanUpForSta, NatDel
<1>3. ASSUME NEW i \in DOMAIN tbl
      PROVE  /\ ClientOK(tbl'[i]) /\ tbl'[i] \in Client /\ tbl'[i].mac = tbl[i].mac
             /\ tbl'[i].v4 = tbl[i].v4 /\ tbl'[i].r4 = None /\ (Quiet(tbl[i]) => Quiet(tbl'[i]))
             /\ Known(odd) => Counted(tbl'[i]) \subseteq Counted(tbl[i]) \ gone
             /\ Counted(tbl[i]) \ gone \subseteq Counted(tbl'[i])
  <2> DEFINE c == tbl[i]
             d == NoRules4(NoRules6(c))
             e == new(c)
  <2>1. ClientOK(c)
    BY <1>1
  <2>2. tbl'[i] = e
    BY <1>2
  <2> HIDE DEF c
  <2>3. /\ ClientOK(d) /\ d.mac = c.mac /\ d.v4 = c.v4 /\ d.r4 = None /\ d.r6 = <<>>
        /\ Counted(d) = {}
    BY <2>1, NoRulesLeft
  <2>4. d \in Client
    BY <2>3 DEF ClientOK
  <2> HIDE DEF d
  <2>5. /\ e \in Client /\ e.mac = d.mac /\ e.v4 = d.v4 /\ e.r4 = d.r4 /\ e.v6 = d.v6
        /\ e.r6 = d.r6
    BY <2>4 DEF Client, Headers, Stale, d
  <2> HIDE DEF e
  <2>6. ClientOK(e) /\ Counted(e) = {} /\ Quiet(e)
    BY <2>3, <2>5, OtherFields DEF Quiet
  <2>7. Counted(c) \subseteq gone
    BY DEF AllCounted, c
  <2> HIDE DEF gone
  <2> QED BY <2>2, <2>3, <2>5, <2>6, <2>7 DEF c
<1> HIDE DEF gone
<1>4. DOMAIN tbl' = DOMAIN tbl /\ tbl' \in Seq(Client)
  <2>1. DOMAIN tbl = 1..Len(tbl) /\ Len(tbl) \in Nat
    BY <1>1, Lengths
  <2>2. DOMAIN tbl' = 1..Len(tbl) /\ tbl' = [k \in 1..Len(tbl) |-> tbl'[k]]
    BY <1>2, <2>1
  <2>3. tbl' \in [1..Len(tbl) -> Client]
    BY <1>3, <2>1, <2>2
  <2> QED BY <2>1, <2>2, <2>3, SeqDef
<1> HIDE DEF new
<1> QED BY <1>2, <1>3, <1>4, AllEntriesChange

LEMMA AllDownKept ==
  ASSUME TableInv, kind' = kind, mcc' = mcc, mccEvent' = mccEvent, dft' = dft \/ dft' = "none", AllDown
  PROVE  TableInv'
<1>1. /\ tbl' = <<>> /\ odd' = odd /\ nat' = nat \ AllV4
      /\ rules' = rules \ AllCounted /\ alt' = alt \ AllCounted
  BY DEF AllDown, NatDel, Change
<1>2. <<>> \in Seq(Client) /\ DOMAIN <<>> = {}
  BY EmptySeq
<1>3. /\ IsFiniteSet(rules) /\ rules \subseteq Rule /\ alt \subseteq rules
      /\ Sound(odd) => rules \subseteq CountedIn(tbl)
      /\ nat \subseteq V4In(tbl)
  BY DEF TableInv, Counts
<1>4. Counts(<<>>, rules \ AllCounted, alt \ AllCounted, odd)
  <2>1. IsFiniteSet(rules \ AllCounted)
    BY <1>3, FS_Subset
  <2>2. Sound(odd) => rules \ AllCounted = {}
    BY <1>3 DEF CountedIn, AllCounted
  <2>3. HeldIn(<<>>, rules \ AllCounted)
    BY <1>2 DEF HeldIn
  <2> QED BY <1>2, <1>3, <2>1, <2>2, <2>3 DEF Counts
<1>5. nat' = {}
  BY <1>1, <1>3 DEF V4In, AllV4
<1>6. OnceIn(<<>>) /\ \A p : ModeIn(<<>>, alt \ AllCounted, p)
  BY <1>2 DEF OnceIn, ModeIn
<1> QED BY <1>1, <1>4, <1>5, <1>6, TableKept DEF TableInv

\* handle_del_ipv6_addr: the list without its place i
LEMMA Shortened ==
  ASSUME NEW S, NEW s \in Seq(S), Len(s) # 0, NEW i \in Nat \ {0}
  PROVE  /\ Without(s, i) \in Seq(S) /\ Len(Without(s, i)) = Len(s) - 1
         /\ \A k \in 1..(Len(s) - 1) : Without(s, i)[k] = IF k < i THEN s[k] ELSE s[k + 1]
<1>1. Len(s) \in Nat /\ i \in Nat
  BY Lengths
<1>2. CASE i <= Len(s)
  <2>1. i \in 1..Len(s)
    BY <1>1, <1>2
  <2>2. Without(s, i) = RemoveAt(s, i)
    BY <1>1, <1>2 DEF Without
  <2> DEFINE w == RemoveAt(s, i)
  <2>3. /\ w \in Seq(S) /\ Len(w) = Len(s) - 1
        /\ \A k \in 1..(Len(s) - 1) : w[k] = IF k < i THEN s[k] ELSE s[k + 1]
    BY <2>1, Removed
  <2> HIDE DEF w
  <2>4. Without(s, i) = w
    BY <2>2 DEF w
  <2> QED BY <2>3, <2>4
<1>3. CASE i > Len(s)
  <2> DEFINE n == Len(s) - 1
  <2>1. Without(s, i) = SubSeq(s, 1, n)
    BY <1>3 DEF Without, Front
  <2>2. \A k \in 1..n : s[k] \in S
    BY <1>1, Lengths
  <2>3. 1 \in Int /\ n \in Int /\ n >= 0
    BY <1>1
  <2> HIDE DEF n
  <2>4. /\ SubSeq(s, 1, n) \in Seq(S) /\ Len(SubSeq(s, 1, n)) = IF 1 <= n THEN n - 1 + 1 ELSE 0
        /\ \A k \in 1..(n - 1 + 1) : SubSeq(s, 1, n)[k] = s[1 + k - 1]
    BY <2>2, <2>3, SubSeqProperties
  <2>5. n - 1 + 1 = n /\ (IF 1 <= n THEN n ELSE 0) = n /\ \A k \in 1..n : 1 + k - 1 = k
    BY <2>3
  <2>6. Len(SubSeq(s, 1, n)) = n /\ \A k \in 1..n : SubSeq(s, 1, n)[k] = s[k]
    BY <2>4, <2>5
  <2>7. \A k \in 1..n : k < i
    BY <1>1, <1>3 DEF n
  <2>8. Without(s, i) \in Seq(S) /\ Len(Without(s, i)) = n
    BY <2>1, <2>4, <2>6
  <2>9. ASSUME NEW k \in 1..n PROVE Without(s, i)[k] = IF k < i THEN s[k] ELSE s[k + 1]
    BY <2>1, <2>6, <2>7
  <2> QED BY <2>8, <2>9 DEF n
<1> QED BY <1>1, <1>2, <1>3

LEMMA AddressGoes6 ==
  ASSUME NEW c, ClientOK(c), c.r6 # <<>>, NEW i \in 1..(Len(c.v6) + 1)
  PROVE  LET d == HandleDelIpv6Addr(c, i)
         IN /\ ClientOK(d) /\ d.mac = c.mac /\ d.v4 = c.v4 /\ d.r4 = c.r4 /\ (Quiet(c) => Quiet(d))
            /\ i <= Len(c.r6) => /\ c.r6[i] \in Counted(c)
                                 /\ Counted(d) = Counted(c) \ {c.r6[i]}
<1> DEFINE d == HandleDelIpv6Addr(c, i)
           n == Len(c.v6)
           m == Len(c.r6)
           v == Without(c.v6, i)
           r == Without(c.r6, i)
           old(k) == IF k < i THEN k ELSE k + 1
<1>1. /\ c \in Client /\ c.v6 \in Seq(V6Addrs) /\ c.r6 \in Seq(Rule)
      /\ n \in Nat /\ m \in Nat /\ m # 0 /\ m <= n /\ n # 0 /\ i \in Nat \ {0}
      /\ DOMAIN c.r6 = 1..m
  <2>1. c \in Client /\ c.v6 \in Seq(V6Addrs) /\ c.r6 \in Seq(Rule) /\ m <= n
    BY DEF ClientOK, Client
  <2>2. n \in Nat /\ m \in Nat /\ m # 0 /\ DOMAIN c.r6 = 1..m
    BY <2>1, Lengths, EmptySeq
  <2> QED BY <2>1, <2>2
<1>2. /\ v \in Seq(V6Addrs) /\ Len(v) = n - 1
      /\ \A k \in 1..(n - 1) : v[k] = IF k < i THEN c.v6[k] ELSE c.v6[k + 1]
  BY <1>1, Shortened
<1>3. /\ r \in Seq(Rule) /\ Len(r) = m - 1 /\ DOMAIN r = 1..(m - 1)
      /\ \A k \in 1..(m - 1) : r[k] = IF k < i THEN c.r6[k] ELSE c.r6[k + 1]
  <2>1. /\ r \in Seq(Rule) /\ Len(r) = m - 1
        /\ \A k \in 1..(m - 1) : r[k] = IF k < i THEN c.r6[k] ELSE c.r6[k + 1]
    BY <1>1, Shortened
  <2> HIDE DEF r
  <2> QED BY <2>1, Lengths
<1>4. d = [c EXCEPT !.v6 = v, !.r6 = r]
  BY DEF HandleDelIpv6Addr
<1> HIDE DEF d, v, r
<1>5. /\ d \in Client /\ d.mac = c.mac /\ d.v4 = c.v4 /\ d.r4 = c.r4 /\ d.v6 = v /\ d.r6 = r
      /\ d.ps = c.ps
  BY <1>1, <1>2, <1>3, <1>4 DEF Client
<1>6. /\ \A k \in 1..(n - 1) : old(k) \in 1..n /\ old(k) # i /\ v[k] = c.v6[old(k)]
      /\ \A k \in 1..(m - 1) : old(k) \in 1..m /\ old(k) # i /\ r[k] = c.r6[old(k)]
  BY <1>1, <1>2, <1>3
<1>7. \A j, k \in 1..(n - 1) : old(j) = old(k) => j = k
  BY <1>1
<1>8. i <= m => \A j \in 1..m : j # i => \E k \in 1..(m - 1) : old(k) = j
  <2> SUFFICES ASSUME i <= m, NEW j \in 1..m, j # i PROVE \E k \in 1..(m - 1) : old(k) = j
    OBVIOUS
  <2>1. CASE j < i
    <3>1. j \in 1..(m - 1) /\ old(j) = j
      BY <1>1, <2>1
    <3> QED BY <3>1
  <2>2. CASE j > i
    <3>1. j - 1 \in 1..(m - 1) /\ old(j - 1) = j
      BY <1>1, <2>2
    <3> QED BY <3>1
  <2> QED BY <1>1, <2>1, <2>2
<1> HIDE DEF old
<1>9. ClientOK(d)
  <2>1. \A j, k \in 1..Len(d.v6) : d.v6[j] = d.v6[k] => j = k
    <3>1. \A j, k \in 1..n : c.v6[j] = c.v6[k] => j = k
      BY DEF ClientOK
    <3> SUFFICES ASSUME NEW j \in 1..(n - 1), NEW k \in 1..(n - 1), v[j] = v[k] PROVE j = k
      BY <1>2, <1>5
    <3>2. c.v6[old(j)] = c.v6[old(k)] /\ old(j) \in 1..n /\ old(k) \in 1..n
      BY <1>6
    <3>3. old(j) = old(k)
      BY <3>1, <3>2
    <3> QED BY <1>7, <3>3
  <2>2. \A k \in 1..Len(d.r6) : d.r6[k].mac = d.mac /\ d.r6[k].addr = d.v6[k]
    <3>1. \A k \in 1..m : c.r6[k].mac = c.mac /\ c.r6[k].addr = c.v6[k]
      BY DEF ClientOK
    <3> SUFFICES ASSUME NEW k \in 1..(m - 1) PROVE r[k].mac = c.mac /\ r[k].addr = v[k]
      BY <1>3, <1>5
    <3>2. old(k) \in 1..m /\ r[k] = c.r6[old(k)] /\ k \in 1..(n - 1)
      BY <1>1, <1>6
    <3>3. v[k] = c.v6[old(k)]
      BY <1>6, <3>2
    <3> QED BY <3>1, <3>2, <3>3
  <2>3. Len(d.r6) <= Len(d.v6)
    BY <1>1, <1>2, <1>3, <1>5
  <2>4. d.r4 # None => d.r4.mac = d.mac /\ d.r4.addr = d.v4
    BY <1>5 DEF ClientOK
  <2> QED BY <1>5, <2>1, <2>2, <2>3, <2>4 DEF ClientOK
<1>10. Quiet(c) => Quiet(d)
  BY <1>5 DEF Quiet
<1>11. ASSUME i <= m PROVE c.r6[i] \in Counted(c) /\ Counted(d) = Counted(c) \ {c.r6[i]}
  <2>1. i \in DOMAIN c.r6 /\ Counted6(c) = {c.r6[k] : k \in 1..m} /\ Counted6(d) = {r[k] : k \in 1..(m - 1)}
    <3>1. i \in DOMAIN c.r6 /\ DOMAIN c.r6 = 1..m /\ DOMAIN d.r6 = 1..(m - 1) /\ d.r6 = r
      BY <1>1, <1>3, <1>5, <1>11
    <3> HIDE DEF m
    <3> QED BY <3>1 DEF Counted6
  <2>2. /\ \A x \in Counted6(c) : x \notin Counted4(c)
        /\ \A j, k \in 1..m : c.r6[j] = c.r6[k] => j = k
    BY <1>1, ClientRules
  <2>3. Counted6(d) = Counted6(c) \ {c.r6[i]}
    <3>1. ASSUME NEW k \in 1..(m - 1) PROVE r[k] \in Counted6(c) \ {c.r6[i]}
      <4>1. old(k) \in 1..m /\ old(k) # i /\ r[k] = c.r6[old(k)] /\ i \in 1..m
        BY <1>1, <1>6, <2>1
      <4>2. c.r6[old(k)] # c.r6[i]
        BY <2>2, <4>1
      <4> QED BY <2>1, <4>1, <4>2
    <3>2. ASSUME NEW j \in 1..m, c.r6[j] # c.r6[i] PROVE c.r6[j] \in Counted6(d)
      <4>1. PICK k \in 1..(m - 1) : old(k) = j
        BY <1>8, <1>11, <3>2
      <4> QED BY <1>6, <2>1, <4>1
    <3> QED BY <2>1, <3>1, <3>2
  <2>4. c.r6[i] \in Counted6(c) /\ Counted4(d) = Counted4(c)
    BY <1>5, <2>1 DEF Counted4
  <2> QED BY <2>2, <2>3, <2>4 DEF Counted
<1> QED BY <1>5, <1>9, <1>10, <1>11 DEF d

-----------------------------------------------------------------------------
(* USB and Ethernet.                                                          *)
LEMMA LanSteps ==
  ASSUME TableInv, kind = "lan", kind' = kind, mcc' = mcc, mccEvent' = mccEvent, dft' = dft, LanNext
  PROVE  TableInv'
<1>1. tbl \in Seq(Client) /\ Ready(tbl) /\ \A i \in DOMAIN tbl : ClientOK(tbl[i])
  BY TableReady DEF TableInv, Counts
<1>2. ASSUME NEW mac \in Macs, NEW t \in HdrInit(mac) PROVE Ready(t) /\ t \in Seq(Client)
  <2>1. CASE t = tbl
    BY <1>1, <2>1
  <2>2. CASE t = Append(tbl, NewClient(mac)) /\ IndexOf(mac) = 0
    BY <2>2, WithNewClient
  <2> QED BY <1>2, <2>1, <2>2 DEF HdrInit
<1>3. ASSUME NEW t, Ready(t), t \in Seq(Client), OnlyHeader(t) PROVE TableInv'
  <2>1. tbl' = t /\ rules' = rules /\ alt' = alt /\ nat' = nat /\ odd' = odd
    BY <1>3 DEF OnlyHeader
  <2>2. Counts(t, rules, alt, odd) /\ nat \subseteq V4In(t) /\ OnceIn(t)
    BY <1>3 DEF Ready, TableInv
  <2> QED BY <2>1, <2>2, TableKept
<1>4. ASSUME NEW mac \in Macs, NEW a \in V4Addrs, NeighAddV4(mac, a) PROVE TableInv'
  <2>1. PICK t \in HdrInit(mac) :
          \/ OnlyHeader(t)
          \/ /\ IndexIn(t, mac) # 0
             /\ Address4(t, IndexIn(t, mac), a, RouteRule4(WithV4(t[IndexIn(t, mac)], a)), FALSE)
    BY <1>4 DEF NeighAddV4
  <2>2. Ready(t) /\ t \in Seq(Client)
    BY <1>2
  <2>3. CASE IndexIn(t, mac) = 0 \/ OnlyHeader(t)
    BY <1>3, <2>1, <2>2, <2>3
  <2>4. CASE IndexIn(t, mac) # 0 /\ ~OnlyHeader(t)
    <3>1. PICK i \in DOMAIN t : i = IndexIn(t, mac)
      BY <2>2, <2>4, FirstOfMac
    <3>2. Address4(t, i, a, RouteRule4(WithV4(t[i], a)), FALSE)
      BY <2>1, <2>4, <3>1
    <3> QED BY <2>2, <3>2, TakesAddress4
  <2> QED BY <2>3, <2>4
<1>5. ASSUME NEW mac \in Macs, NEW a \in V6Addrs, NeighAddV6(mac, a) PROVE TableInv'
  <2>1. PICK t \in HdrInit(mac) :
          \/ OnlyHeader(t)
          \/ /\ IndexIn(t, mac) # 0 /\ TakesV6(t[IndexIn(t, mac)], a)
             /\ Address6(t, IndexIn(t, mac), RouteRule6(WithV6(t[IndexIn(t, mac)], a)), FALSE)
    BY <1>5 DEF NeighAddV6
  <2>2. Ready(t) /\ t \in Seq(Client)
    BY <1>2
  <2>3. CASE OnlyHeader(t)
    BY <1>3, <2>2, <2>3
  <2>4. CASE ~OnlyHeader(t)
    <3>1. PICK i \in DOMAIN t : i = IndexIn(t, mac)
      BY <2>1, <2>2, <2>4, FirstOfMac
    <3>2. Address6(t, i, RouteRule6(WithV6(t[i], a)), FALSE) /\ TakesV6(t[i], a)
      BY <2>1, <2>4, <3>1
    <3> QED BY <2>2, <3>2, TakesAddress6
  <2> QED BY <2>3, <2>4
<1>6. ASSUME NEW mac \in Macs, NeighDelV4(mac) PROVE TableInv'
  <2>1. IndexOf(mac) \in DOMAIN tbl /\ ClientDown(IndexOf(mac))
    BY <1>1, <1>6, FirstOfMac DEF NeighDelV4, IndexOf
  <2> QED BY <2>1, ClientDownKept
<1>7. ASSUME NEW mac \in Macs, NEW a \in V6Addrs, NeighDelV6(mac, a) PROVE TableInv'
  <2> DEFINE k == IndexOf(mac)
             c == tbl[k]
             i == PlaceOf(c, a)
             d == HandleDelIpv6Addr(c, i)
  <2>1. k \in DOMAIN tbl /\ ClientOK(c)
    BY <1>1, <1>7, FirstOfMac DEF NeighDelV6, IndexOf
  <2>2. /\ c.r6 # <<>> /\ tbl' = [tbl EXCEPT ![k] = d]
        /\ \E gone \in GoneAt(c, i) : Change(gone, {}, FALSE)
        /\ odd' = (IF i > Len(c.r6) THEN odd \union {"unknown"} ELSE odd) /\ nat' = nat
    BY <1>7 DEF NeighDelV6
  <2> HIDE DEF k, c
  <2>3. i \in 1..(Len(c.v6) + 1) /\ Len(c.v6) \in Nat /\ Len(c.r6) \in Nat
    <3>1. c.v6 \in Seq(V6Addrs) /\ c.r6 \in Seq(Rule)
      BY <2>1 DEF ClientOK, Client
    <3>2. Len(c.v6) \in Nat /\ DOMAIN c.v6 = 1..Len(c.v6) /\ Len(c.r6) \in Nat
      BY <3>1, Lengths
    <3>3. CASE a \in ToSet(c.v6)
      <4>1. \E j \in DOMAIN c.v6 : c.v6[j] = a
        BY <3>3 DEF ToSet
      <4>2. i \in DOMAIN c.v6
        BY <3>3, <4>1 DEF PlaceOf
      <4> QED BY <3>1, <3>2, <4>2
    <3>4. CASE a \notin ToSet(c.v6)
      BY <3>1, <3>2, <3>4 DEF PlaceOf
    <3> QED BY <3>3, <3>4
  <2> HIDE DEF i
  <2>4. /\ ClientOK(d) /\ d.mac = c.mac /\ d.v4 = c.v4 /\ d.r4 = c.r4 /\ (Quiet(c) => Quiet(d))
        /\ i <= Len(c.r6) => c.r6[i] \in Counted(c) /\ Counted(d) = Counted(c) \ {c.r6[i]}
    BY <2>1, <2>2, <2>3, AddressGoes6
  <2> HIDE DEF d
  <2>5. PICK gone : gone \in GoneAt(c, i) /\ Change(gone, {}, FALSE)
    BY <2>2
  <2>6. /\ IsFiniteSet({}) /\ odd \subseteq odd'
        /\ Known(odd') => i <= Len(c.r6)
        /\ Sound(odd') => Known(odd')
    BY <2>2, <2>3, FS_EmptySet, SMTT(30) DEF Known, Sound
  <2>11. i <= Len(c.r6) => gone = {c.r6[i]}
    BY <2>5 DEF GoneAt
  <2>7. Becomes(tbl, k, d, gone, {}, rules, odd, odd')
    BY <2>1, <2>4, <2>6, <2>11 DEF Becomes, c
  <2>8. /\ rules' = (rules \ gone) \union {} /\ alt' = (alt \ gone) \union {}
        /\ {} = (IF mcc THEN {} ELSE {}) /\ {} \in {{}, {}}
    BY <2>5 DEF Change
  <2>9. NatFollows(c.v4, d.v4)
    <3>1. None \notin nat
      BY DEF TableInv, V4In
    <3> QED BY <2>2, <2>4, <3>1 DEF NatFollows
  <2>10. tbl' = [tbl EXCEPT ![k] = d]
    BY <2>2
  <2> QED BY <1>1, <2>7, <2>8, <2>9, <2>10, OneChanges DEF c
<1>8. ASSUME Backhaul PROVE TableInv'
  <2>1. tbl' = tbl /\ rules' = rules /\ alt' = alt /\ nat' = nat /\ odd' = odd
    BY <1>8 DEF Backhaul
  <2>2. Counts(tbl, rules, alt, odd) /\ nat \subseteq V4In(tbl) /\ OnceIn(tbl)
    BY DEF TableInv
  <2> QED BY <2>1, <2>2, TableKept
<1>9. ASSUME CleanUpForSta PROVE TableInv'
  BY <1>9, CleanUpKept
<1>10. ASSUME LanReset PROVE TableInv'
  BY <1>10, ResetRt6Kept DEF LanReset
<1>11. ASSUME LanDown PROVE TableInv'
  BY <1>11, AllDownKept DEF LanDown
<1> QED BY <1>4, <1>5, <1>6, <1>7, <1>8, <1>9, <1>10, <1>11 DEF LanNext

(* The mode changes, and the rules are led to its pipe.                       *)
LEMMA ModeSwitched ==
  ASSUME TableInv, kind' = kind, dft' = dft, SwitchMode
  PROVE  TableInv'
<1>1. /\ tbl' = tbl /\ rules' = rules /\ alt' = alt /\ nat' = nat /\ odd' = odd
      /\ mcc' \in BOOLEAN /\ mccEvent'
  BY DEF SwitchMode, TableInv
<1>2. /\ Counts(tbl, rules, alt, odd) /\ nat \subseteq V4In(tbl)
      /\ kind # "wlan" => OnceIn(tbl)
      /\ kind = "wlan" => dft = "none"
      /\ (kind # "lan" => Known(odd))'
  BY <1>1 DEF TableInv, Known
<1>3. /\ Counts(tbl, rules, alt, odd)' /\ (nat \subseteq V4In(tbl))'
      /\ (kind # "wlan" => OnceIn(tbl))'
  BY <1>1, <1>2 DEF Counts, HeldIn, V4In, OnceIn, CountedIn, Sound, Known, Own
<1> QED BY <1>1, <1>2, <1>3 DEF TableInv

LEMMA ModeFollowed ==
  ASSUME TableInv, kind' = kind, mcc' = mcc,
         dft' = dft \/ dft' \in {"none", Pipe}, kind = "wlan" => dft' = "none",
         tbl' = tbl, rules' = rules, nat' = nat, alt' \subseteq rules,
         odd \subseteq odd', kind # "lan" => Known(odd'),
         Moved(odd') => /\ \A i \in DOMAIN tbl : tbl[i].r4 # None => ((tbl[i].r4 \in alt') <=> mcc)
                        /\ dft' \in {"none", Pipe}
  PROVE  TableInv'
<1>1. /\ Counts(tbl, rules, alt, odd) /\ nat \subseteq V4In(tbl) /\ mcc \in BOOLEAN
      /\ kind # "wlan" => OnceIn(tbl)
      /\ (kind # "lan" => Known(odd))'
  BY DEF TableInv, Known
<1>2. Counts(tbl, rules, alt', odd')
  BY <1>1 DEF Counts, Sound, Known, Own
<1>3. /\ Counts(tbl, rules, alt, odd)' /\ (nat \subseteq V4In(tbl))'
      /\ (kind # "wlan" => OnceIn(tbl))'
  BY <1>1, <1>2 DEF Counts, HeldIn, V4In, OnceIn, CountedIn, Sound, Known, Own
<1>4. (kind # "lan" /\ ~mccEvent /\ Moved(odd) => ModeIn(tbl, alt, Pipe) /\ dft \in {"none", Pipe})'
  BY <1>1 DEF Moved, ModeIn, Pipe
<1> QED BY <1>1, <1>3, <1>4 DEF TableInv

(* The access point.                                                          *)
LEMMA WlanSteps ==
  ASSUME TableInv, kind = "wlan", kind' = kind, dft' = dft, WlanNext
  PROVE  TableInv'
<1>1. /\ tbl \in Seq(Client) /\ Ready(tbl) /\ mcc \in BOOLEAN
      /\ Counts(tbl, rules, alt, odd) /\ nat \subseteq V4In(tbl) /\ dft = "none" /\ Known(odd)
      /\ \A i \in DOMAIN tbl : ClientOK(tbl[i])
  BY TableReady DEF TableInv, Counts
<1>2. \A mac \in Macs : IndexOf(mac) # 0 => IndexOf(mac) \in DOMAIN tbl
  BY <1>1, FirstOfMac DEF IndexOf
<1>3. ASSUME NEW mac \in Macs, WlanClientInit(mac) PROVE TableInv'
  <2> DEFINE t == Append(tbl, NewClient(mac))
  <2>1. /\ tbl' = t /\ rules' = rules /\ alt' = alt /\ nat' = nat /\ odd' = odd
        /\ mcc' = mcc /\ mccEvent' = mccEvent
    BY <1>3 DEF WlanClientInit, WlanClientAdded, wlanVars
  <2>2. Ready(t) /\ t \in Seq(Client)
    BY WithNewClient
  <2> HIDE DEF t
  <2>3. /\ Counts(t, rules, alt, odd) /\ nat \subseteq V4In(t)
        /\ kind # "lan" /\ ~mccEvent /\ Moved(odd) => ModeIn(t, alt, Pipe)
    BY <1>1, <2>2 DEF Ready
  <2> QED BY <1>1, <2>1, <2>3, TableKept
<1>4. ASSUME NEW mac \in Macs, WlanClientDown(mac) PROVE TableInv'
  <2>1. ClientDown(IndexOf(mac)) /\ mcc' = mcc /\ mccEvent' = mccEvent /\ IndexOf(mac) \in DOMAIN tbl
    BY <1>2, <1>4 DEF WlanClientDown, wlanVars
  <2> QED BY <2>1, ClientDownKept
<1>5. ASSUME NEW mac \in Macs, PowerSave(mac) PROVE TableInv'
  <2> DEFINE i == IndexOf(mac)
             d == NoRules4(NoRules6(tbl[i]))
             e == [d EXCEPT !.ps = TRUE]
  <2>1. /\ i \in DOMAIN tbl /\ tbl' = [tbl EXCEPT ![i] = e] /\ Change(Counted(tbl[i]), {}, FALSE)
        /\ nat' = nat /\ odd' = odd /\ mcc' = mcc /\ mccEvent' = mccEvent
    BY <1>2, <1>5 DEF PowerSave, wlanVars
  <2> HIDE DEF i
  <2>2. d \in Client
    BY <1>1, <2>1, NoRulesLeft DEF ClientOK
  <2>3. /\ e \in Client /\ e.mac = d.mac /\ e.v4 = d.v4 /\ e.r4 = d.r4 /\ e.v6 = d.v6 /\ e.r6 = d.r6
    <3> HIDE DEF d
    <3> QED BY <2>2 DEF Client
  <2> HIDE DEF e
  <2> QED BY <2>1, <2>3, RulesGo
<1>6. ASSUME NEW mac \in Macs, Recover(mac) PROVE TableInv'
  <2> DEFINE i == IndexOf(mac)
             c == [tbl[i] EXCEPT !.ps = FALSE]
  <2>1. /\ i \in DOMAIN tbl /\ nat' = nat /\ mcc' = mcc /\ mccEvent' = mccEvent
        /\ \E o4 \in RouteRule4(c) : \E o6 \in RouteRule6(o4[1]) :
             /\ tbl' = [tbl EXCEPT ![i] = o6[1]]
             /\ Change({}, o4[2] \union o6[2], mcc)
             /\ odd' = odd \union Leaves(<<o6[1], o4[2] \union o6[2]>>)
    BY <1>2, <1>6 DEF Recover, wlanVars, WlanRouteRule4, WlanRouteRule6
  <2> HIDE DEF i
  <2>2. ClientOK(c) /\ Quiet(c) /\ Counted(c) = Counted(tbl[i])
        /\ c.mac = tbl[i].mac /\ c.v4 = tbl[i].v4 /\ c.r4 = tbl[i].r4
    <3>1. ClientOK(tbl[i]) /\ tbl[i] \in Client
      BY <1>1, <2>1 DEF ClientOK
    <3> DEFINE b == tbl[i]
    <3> HIDE DEF b
    <3>2. /\ c \in Client /\ c.mac = b.mac /\ c.v4 = b.v4 /\ c.r4 = b.r4 /\ c.v6 = b.v6
          /\ c.r6 = b.r6 /\ c.ps = FALSE
      BY <3>1 DEF Client, b
    <3> HIDE DEF c
    <3> QED BY <3>1, <3>2, OtherFields DEF b, Quiet
  <2> HIDE DEF c
  <2>15. PICK o4 \in RouteRule4(c) :
           \E o6 \in RouteRule6(o4[1]) :
             /\ tbl' = [tbl EXCEPT ![i] = o6[1]]
             /\ Change({}, o4[2] \union o6[2], mcc)
             /\ odd' = odd \union Leaves(<<o6[1], o4[2] \union o6[2]>>)
    BY <2>1
  <2>3. PICK o6 \in RouteRule6(o4[1]) :
          /\ tbl' = [tbl EXCEPT ![i] = o6[1]]
          /\ Change({}, o4[2] \union o6[2], mcc)
          /\ odd' = odd \union Leaves(<<o6[1], o4[2] \union o6[2]>>)
    BY <2>15
  <2>4. IsFiniteSet(rules) /\ rules \subseteq Rule
    BY <1>1 DEF Counts
  <2>5. Routed(c, o4)
    BY <2>2, <2>4, RoutedIPv4
  <2>6. Routed(o4[1], o6)
    BY <2>4, <2>5, RoutedIPv6 DEF Routed
  <2> DEFINE e == o6[1]
             d == o4[1]
             new4 == o4[2]
             new6 == o6[2]
             new == new4 \union new6
  <2>7. /\ ClientOK(e) /\ e.mac = c.mac /\ e.v4 = c.v4 /\ Quiet(e)
        /\ IsFiniteSet(new4) /\ IsFiniteSet(new6) /\ new \subseteq Rule \ rules
        /\ Counted(e) \subseteq Counted(c) \union new /\ Counted(c) \subseteq Counted(e)
        /\ e.r4 # None => e.r4 \in new \union {c.r4}
    <3>1. /\ ClientOK(d) /\ d.mac = c.mac /\ d.v4 = c.v4
          /\ IsFiniteSet(new4) /\ new4 \subseteq Rule \ rules
          /\ Quiet(d) /\ Counted(d) \subseteq Counted(c) \union new4 /\ Counted(c) \subseteq Counted(d)
          /\ d.r4 # None => d.r4 \in new4 \union {c.r4}
      BY <2>2, <2>5 DEF Routed
    <3>2. /\ ClientOK(e) /\ e.mac = d.mac /\ e.v4 = d.v4
          /\ IsFiniteSet(new6) /\ new6 \subseteq Rule \ rules
          /\ Quiet(e) /\ Counted(e) \subseteq Counted(d) \union new6 /\ Counted(d) \subseteq Counted(e)
          /\ e.r4 # None => e.r4 \in new6 \union {d.r4}
      BY <2>6, <3>1 DEF Routed
    <3> HIDE DEF d, e, new4, new6
    <3> QED BY <3>1, <3>2
  <2>8. Sound(odd') => new \subseteq Counted(e)
    BY <2>3 DEF Sound, Leaves
  <2>9. /\ tbl' = [tbl EXCEPT ![i] = e] /\ Change({}, new, mcc) /\ odd \subseteq odd' /\ Known(odd')
    BY <1>1, <2>3 DEF Known, Leaves
  <2> HIDE DEF e, d, new4, new6
  <2>10. IsFiniteSet(new)
    BY <2>7, FS_Union
  <2> HIDE DEF new
  <2>11. Becomes(tbl, i, e, {}, new, rules, odd, odd')
    BY <2>1, <2>2, <2>7, <2>8, <2>9, <2>10 DEF Becomes
  <2>12. PICK add \in {new, {}} : /\ alt' = (alt \ {}) \union add
                                  /\ add = (IF mcc THEN new ELSE {})
    BY <2>9 DEF Change
  <2>13. rules' = (rules \ {}) \union new
    BY <2>9 DEF Change
  <2>14. NatFollows(tbl[i].v4, e.v4)
    <3>1. None \notin nat
      BY <1>1 DEF V4In
    <3> QED BY <2>1, <2>2, <2>7, <3>1 DEF NatFollows
  <2> QED BY <1>1, <2>1, <2>9, <2>11, <2>12, <2>13, <2>14, OneChanges
<1>7. ASSUME NEW mac \in Macs, NEW a \in V4Addrs, WlanAddV4(mac, a) PROVE TableInv'
  <2>1. /\ mcc' = mcc /\ mccEvent' = mccEvent /\ IndexOf(mac) \in DOMAIN tbl
        /\ Address4(tbl, IndexOf(mac), a, RouteRule4(WithV4(tbl[IndexOf(mac)], a)), mcc)
    BY <1>2, <1>7 DEF WlanAddV4, WlanRouteRule4, wlanVars
  <2> QED BY <1>1, <2>1, TakesAddress4
<1>8. ASSUME NEW mac \in Macs, NEW a \in V6Addrs, WlanAddV6(mac, a) PROVE TableInv'
  <2>1. /\ mcc' = mcc /\ mccEvent' = mccEvent /\ IndexOf(mac) \in DOMAIN tbl
        /\ TakesV6(tbl[IndexOf(mac)], a)
        /\ Address6(tbl, IndexOf(mac), RouteRule6(WithV6(tbl[IndexOf(mac)], a)), mcc)
    BY <1>2, <1>8 DEF WlanAddV6, WlanRouteRule6, wlanVars
  <2> QED BY <1>1, <2>1, TakesAddress6
<1>9. ASSUME SwitchMode PROVE TableInv'
  BY <1>9, ModeSwitched
<1>10. ASSUME HandleSccMccSwitch PROVE TableInv'
  <2>1. /\ mccEvent' = FALSE /\ tbl' = tbl /\ rules' = rules /\ nat' = nat /\ mcc' = mcc
        /\ \/ alt' = (IF mcc THEN alt \union Modified4 ELSE alt \ Modified4) /\ odd' = odd
           \/ alt' = alt /\ odd' = odd \union {"unmoved"}
    BY <1>10 DEF HandleSccMccSwitch
  <2>2. ASSUME Moved(odd), NEW i \in DOMAIN tbl, tbl[i].r4 # None PROVE tbl[i].r4 \in Modified4
    <3>1. ~tbl[i].ps
      BY <1>1, <2>2 DEF Counts, Own, Moved, Quiet
    <3> QED BY <2>2, <3>1 DEF Modified4, Awake4
  <2>5. Modified4 \subseteq rules
    <3> SUFFICES ASSUME NEW i \in DOMAIN tbl, tbl[i].r4 # None PROVE tbl[i].r4 \in rules
      BY DEF Modified4, Awake4
    <3> QED BY <1>1 DEF Counts, HeldIn, Counted, Counted4
  <2>3. CASE alt' = (IF mcc THEN alt \union Modified4 ELSE alt \ Modified4) /\ odd' = odd
    <3>1. alt' \subseteq rules
      BY <1>1, <2>3, <2>5 DEF Counts
    <3>2. Moved(odd) => \A i \in DOMAIN tbl : tbl[i].r4 # None => ((tbl[i].r4 \in alt') <=> mcc)
      <4>1. CASE mcc
        BY <2>2, <2>3, <4>1
      <4>2. CASE ~mcc
        BY <2>2, <2>3, <4>2
      <4> QED BY <4>1, <4>2
    <3> QED BY <1>1, <2>1, <2>3, <3>1, <3>2, ModeFollowed
  <2>4. CASE alt' = alt /\ odd' = odd \union {"unmoved"}
    <3>1. alt' \subseteq rules /\ ~Moved(odd') /\ odd \subseteq odd' /\ Known(odd')
      BY <1>1, <2>4 DEF Counts, Moved, Known
    <3> QED BY <1>1, <2>1, <3>1, ModeFollowed
  <2> QED BY <2>1, <2>3, <2>4
<1>11. ASSUME WlanReset PROVE TableInv'
  BY <1>11, ResetRt6Kept DEF WlanReset, wlanVars
<1>12. ASSUME WlanDown PROVE TableInv'
  BY <1>12, AllDownKept DEF WlanDown, wlanVars
<1> QED BY <1>3, <1>4, <1>5, <1>6, <1>7, <1>8, <1>9, <1>10, <1>11, <1>12 DEF WlanNext

(* The station.                                                               *)
LEMMA StaSteps ==
  ASSUME TableInv, kind = "sta", kind' = kind, StaNext
  PROVE  TableInv'
<1>1. /\ tbl \in Seq(Client) /\ Ready(tbl) /\ mcc \in BOOLEAN
      /\ Counts(tbl, rules, alt, odd) /\ nat \subseteq V4In(tbl) /\ OnceIn(tbl)
      /\ \A i \in DOMAIN tbl : Counted(tbl[i]) \subseteq rules
      /\ Known(odd)
      /\ ~mccEvent /\ Moved(odd) => ModeIn(tbl, alt, Pipe) /\ dft \in {"none", Pipe}
  BY TableReady DEF TableInv, Counts, HeldIn
<1>2. ASSUME NEW mac \in Macs, WanNeighbor(mac) PROVE TableInv'
  <2> DEFINE t == WanHdrInit(mac)
             i == IndexIn(t, mac)
  <2>1. mcc' = mcc /\ mccEvent' = mccEvent /\ dft' = dft
    BY <1>2 DEF WanNeighbor, wlanVars
  <2>2. Ready(t) /\ t \in Seq(Client)
    <3>1. CASE t = tbl
      BY <1>1, <3>1
    <3>2. CASE t = Append(tbl, NewClient(mac)) /\ IndexOf(mac) = 0
      BY <3>2, WithNewClient
    <3> QED BY <3>1, <3>2 DEF WanHdrInit, WanClient
  <2>3. \/ \E a \in V4Addrs : i # 0 /\ Address4(t, i, a, RouteRule4(WithV4(t[i], a)), mcc)
        \/ \E a \in V6Addrs : /\ i # 0 /\ TakesV6(t[i], a)
                              /\ Address6(t, i, RouteRule6(WithV6(t[i], a)), mcc)
    BY <1>2 DEF WanNeighbor, WanClientIpAddr4, WanClientIpAddr6, WanRouteRule4, WanRouteRule6
  <2> HIDE DEF t
  <2>4. i # 0 => i \in DOMAIN t
    BY <2>2, FirstOfMac
  <2> HIDE DEF i
  <2>5. ASSUME NEW a \in V4Addrs, i # 0, Address4(t, i, a, RouteRule4(WithV4(t[i], a)), mcc)
        PROVE  TableInv'
    BY <1>1, <2>1, <2>2, <2>4, <2>5, TakesAddress4
  <2>6. ASSUME NEW a \in V6Addrs, i # 0, TakesV6(t[i], a),
               Address6(t, i, RouteRule6(WithV6(t[i], a)), mcc)
        PROVE  TableInv'
    BY <1>1, <2>1, <2>2, <2>4, <2>6, TakesAddress6
  <2> QED BY <2>3, <2>5, <2>6
<1>3. ASSUME DefaultRoute PROVE TableInv'
  <2>1. /\ tbl' = tbl /\ rules' = rules /\ alt' = alt /\ nat' = nat /\ odd' = odd
        /\ mcc' = mcc /\ mccEvent' = mccEvent /\ dft' \in {"none", Pipe}
    BY <1>3 DEF DefaultRoute, wlanVars
  <2>2. Pipe' = Pipe
    BY <2>1 DEF Pipe
  <2>3. /\ Counts(tbl, rules, alt, odd)' /\ (nat \subseteq V4In(tbl))' /\ OnceIn(tbl)'
    BY <1>1, <2>1 DEF Counts, HeldIn, V4In, OnceIn, CountedIn, Sound, Known, Own
  <2>4. /\ (kind # "lan" /\ ~mccEvent /\ Moved(odd) => ModeIn(tbl, alt, Pipe) /\ dft \in {"none", Pipe})'
        /\ (kind # "lan" => Known(odd))'
    BY <1>1, <2>1, <2>2 DEF ModeIn, Moved, Known
  <2> QED BY <1>1, <2>1, <2>3, <2>4 DEF TableInv
<1>4. ASSUME StaMode PROVE TableInv'
  BY <1>4, ModeSwitched DEF StaMode
<1>5. ASSUME StaSwitch PROVE TableInv'
  <2>1. /\ mccEvent' = FALSE /\ dft' = MovedRoute /\ tbl' = tbl /\ rules' = rules /\ nat' = nat /\ mcc' = mcc
        /\ \/ /\ dft = "none" /\ alt' = alt
              /\ odd' = odd \union IF AllCounted4 = {} THEN {} ELSE {"passed"}
           \/ /\ dft # "none" /\ odd' = odd
              /\ alt' = (IF mcc THEN alt \union WanModified4 ELSE alt \ WanModified4)
           \/ dft # "none" /\ odd = {} /\ alt' = alt /\ odd' = {"unmoved"}
    BY <1>5 DEF StaSwitch
  <2>2. dft' \in {"none", Pipe}
    BY <2>1 DEF MovedRoute
  <2>3. CASE /\ dft = "none" /\ alt' = alt
             /\ odd' = odd \union IF AllCounted4 = {} THEN {} ELSE {"passed"}
    <3>1. Moved(odd') => AllCounted4 = {}
      BY <2>3 DEF Moved
    <3>2. AllCounted4 = {} => \A i \in DOMAIN tbl : tbl[i].r4 = None
      BY DEF AllCounted4
    <3>3. alt' \subseteq rules /\ odd \subseteq odd' /\ Known(odd')
      BY <1>1, <2>3 DEF Counts, Known
    <3> QED BY <2>1, <2>2, <3>1, <3>2, <3>3, ModeFollowed
  <2>4. CASE /\ dft # "none" /\ odd' = odd
             /\ alt' = (IF mcc THEN alt \union WanModified4 ELSE alt \ WanModified4)
    <3>1. \A i \in DOMAIN tbl : tbl[i].r4 # None => tbl[i].r4 \in WanModified4
      BY DEF WanModified4
    <3>2. WanModified4 \subseteq rules
      BY <1>1 DEF WanModified4, Counted, Counted4
    <3>3. alt' \subseteq rules
      BY <1>1, <2>4, <3>2 DEF Counts
    <3>4. \A i \in DOMAIN tbl : tbl[i].r4 # None => ((tbl[i].r4 \in alt') <=> mcc)
      <4>1. CASE mcc
        BY <2>4, <3>1, <4>1
      <4>2. CASE ~mcc
        BY <2>4, <3>1, <4>2
      <4> QED BY <4>1, <4>2
    <3> QED BY <1>1, <2>1, <2>2, <2>4, <3>3, <3>4, ModeFollowed
  <2>5. CASE odd = {} /\ alt' = alt /\ odd' = {"unmoved"}
    <3>1. alt' \subseteq rules /\ ~Moved(odd') /\ odd \subseteq odd' /\ Known(odd')
      BY <1>1, <2>5 DEF Counts, Moved, Known
    <3> QED BY <2>1, <2>2, <3>1, ModeFollowed
  <2> QED BY <2>1, <2>3, <2>4, <2>5
<1>6. ASSUME WanDown PROVE TableInv'
  BY <1>6, AllDownKept DEF WanDown, wlanVars
<1> QED BY <1>2, <1>3, <1>4, <1>5, <1>6 DEF StaNext

LEMMA TableSteps == TableInv /\ [AllNext]_<<vars, neighborVars, part>> => TableInv'
<1> SUFFICES ASSUME TableInv, [AllNext]_<<vars, neighborVars, part>> PROVE TableInv'
  OBVIOUS
<1>1. CASE Next
  <2>1. CASE kind = "lan" /\ LanNext /\ UNCHANGED <<kind, wlanVars, dft>>
    BY <2>1, LanSteps DEF wlanVars
  <2>2. CASE kind = "wlan" /\ WlanNext /\ UNCHANGED <<kind, lanVars, dft>>
    BY <2>2, WlanSteps
  <2>3. CASE kind = "sta" /\ StaNext /\ UNCHANGED <<kind, lanVars>>
    BY <2>3, StaSteps
  <2> QED BY <1>1, <2>1, <2>2, <2>3 DEF Next
<1>2. CASE UNCHANGED vars
  <2>1. /\ kind' = kind /\ tbl' = tbl /\ rules' = rules /\ alt' = alt /\ nat' = nat /\ odd' = odd
        /\ mcc' = mcc /\ mccEvent' = mccEvent /\ dft' = dft
    BY <1>2 DEF vars, wlanVars
  <2>2. /\ Counts(tbl, rules, alt, odd) /\ nat \subseteq V4In(tbl)
        /\ kind # "wlan" => OnceIn(tbl)
        /\ kind # "lan" /\ ~mccEvent /\ Moved(odd) => ModeIn(tbl, alt, Pipe)
        /\ kind # "lan" => Known(odd)
    BY DEF TableInv
  <2> QED BY <2>1, <2>2, TableKept
<1> QED BY <1>1, <1>2 DEF AllNext

(* TableCounts of the runs: handle_eth_client_init and its like in IPACM_Lan, *)
(* IPACM_Wlan and IPACM_Wan.  For any number of clients and addresses, who-   *)
(* ever comes, leaves, sleeps or is refused, each handle that counts is of    *)
(* its own client for its present address.  Its rule is in the driver, and no *)
(* rule but those of the table, as long as no address without a rule is       *)
(* deleted (handle_del_ipv6_addr) and, for the second, no set of rules is     *)
(* refused half-way.  The NAT knows no address but those of the clients.      *)
THEOREM TableAlwaysCounts == AllSpec => []TableCounts
<1>1. AllInit => TableInv
  BY TableBegins DEF AllInit
<1>2. TableInv /\ [AllNext]_<<vars, neighborVars, part>> => TableInv'
  BY TableSteps
<1>3. TableInv => TableCounts
  BY TableInvImplies
<1> QED BY <1>1, <1>2, <1>3, PTL DEF AllSpec

(* RulesReachClients of the runs: handle_wlan_client_pwrsave and              *)
(* handle_SCC_MCC_switch.  For any number of clients, one that sleeps has no  *)
(* rules, and once the event of a change of mode is handled the IPv4 rules,   *)
(* and the default route with them, lead to the pipe of the mode.  Both end   *)
(* where handle_wlan_client_down_evt leaves a client the flag of another, and *)
(* the second where the driver or a station without a gateway refuses.        *)
THEOREM RulesAlwaysReachClients == AllSpec => []RulesReachClients
<1>1. AllInit => TableInv
  BY TableBegins DEF AllInit
<1>2. TableInv /\ [AllNext]_<<vars, neighborVars, part>> => TableInv'
  BY TableSteps
<1>3. TableInv => RulesReachClients
  BY TableInvImplies
<1> QED BY <1>1, <1>2, <1>3, PTL DEF AllSpec
=============================================================================
