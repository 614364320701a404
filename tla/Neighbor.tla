------------------------------- MODULE Neighbor -------------------------------
(***************************************************************************)
(* IPACM_Neighbor: the cache of the neighbours of the tethered devices.    *)
(* The kernel tells neighbours of a device and of the bridge above the     *)
(* devices; the cache says on which device a neighbour of the bridge is,   *)
(* and which address a client had that associates again.                   *)
(***************************************************************************)
EXTENDS Integers, Sequences, SequencesExt, FiniteSets

CONSTANTS
  NMacs, Devices,     \* hardware addresses; devices other than the bridge
  NAddrs,             \* IPv4 addresses that are not link local; IPv6 ones are all one
  MaxNeighbors,       \* IPA_MAX_NUM_NEIGHBOR_CLIENTS
  Nil                 \* no address, no device, no event

ASSUME NeighborAssumption == MaxNeighbors \in Nat \ {0} /\ Nil \notin Devices \union NAddrs

VARIABLES
  cache,     \* neighbor_client, the first num_neighbor_client of it
  circular,  \* circular_index
  posted,    \* the IPA_NEIGH_CLIENT_IP_ADDR event of the last step, Nil if none:
             \* an IPv4 address announced, or "other", the rest of them
  known,     \* history: address and device last told of a neighbour, and
             \* whether a device has it
  mixed      \* history: an entry was recycled (recycled); the end of a neighbour
             \* of the bridge wrote an address (late) or cost an entry (bridged)

neighborVars == <<cache, circular, posted, known, mixed>>

Entry(mac, d, a) == [mac |-> mac, dev |-> d, num |-> d, v4 |-> a]
CachedAt(mac) == {i \in DOMAIN cache : cache[i].mac = mac}
Event(mac, d, a) == [mac |-> mac, dev |-> d, addr |-> a]
NoPost == posted' = Event(Nil, Nil, Nil)
Post(isNew, mac, d, a) ==
  posted' = IF isNew /\ a # "v6" THEN Event(mac, d, a) ELSE Event(Nil, Nil, "other")

\* what is told of a neighbour, Nil for nothing new, and remembered of those in the cache
Remembered(k) ==
  known' = [m \in NMacs |-> IF \E i \in DOMAIN cache' : cache'[i].mac = m THEN k[m]
                            ELSE [v4 |-> Nil, dev |-> Nil, here |-> k[m].here]]
Told(mac, d, a) ==
  Remembered([known EXCEPT ![mac] =
    [v4 |-> IF a = Nil THEN @.v4 ELSE a, dev |-> IF d = Nil THEN @.dev ELSE d,
     here |-> @.here \/ d # Nil]])
Left(mac) == Remembered([known EXCEPT ![mac].here = FALSE])

\* a neighbour that is not in the cache takes the next entry, or that of another
\* one, then without its address
NewEntry(mac, d, a) ==
  IF Len(cache) < MaxNeighbors
  THEN /\ cache' = Append(cache, Entry(mac, d, a))
       /\ UNCHANGED <<circular, mixed>>
  ELSE /\ cache' = [cache EXCEPT ![circular + 1] = Entry(mac, d, Nil)]
       /\ circular' = (circular + 1) % MaxNeighbors
       /\ mixed' = mixed \union {"recycled"}

\* the entries after it move up
WithoutEntry_NoShift(i) ==   \* mutant: the hardware addresses stay where they are
  [j \in 1..(Len(cache) - 1) |->
     IF j < i THEN cache[j] ELSE [cache[j + 1] EXCEPT !.mac = cache[j].mac]]
WithoutEntry(i) == RemoveAt(cache, i)
DropEntry(mac) ==
  cache' = IF CachedAt(mac) = {} THEN cache ELSE WithoutEntry(CHOOSE i \in CachedAt(mac) : TRUE)

\* IPA_WLAN_CLIENT_ADD_EVENT_EX
WlanClientAdd(mac, d) ==
  /\ UNCHANGED <<circular, mixed>>
  /\ IF CachedAt(mac) = {}
     THEN UNCHANGED <<cache, known>> /\ NoPost
     ELSE \E i \in CachedAt(mac) :
            /\ cache' = [cache EXCEPT ![i].dev = d]
            /\ Told(mac, d, Nil)
            /\ IF d = cache[i].num /\ cache[i].v4 # Nil
               THEN Post(TRUE, mac, d, cache[i].v4) ELSE NoPost

\* IPv4, of the bridge: only for who is in the cache; an end is cached as well
BridgeV4(isNew, mac, a) ==
  /\ circular' = circular
  /\ IF CachedAt(mac) = {} THEN UNCHANGED <<cache, known, mixed>> /\ NoPost
     ELSE \E i \in CachedAt(mac) :
            /\ cache' = [cache EXCEPT ![i].v4 = a]
            /\ Told(mac, Nil, IF isNew THEN a ELSE Nil)
            /\ Post(isNew, mac, cache[i].dev, a)
            /\ mixed' = mixed \union IF isNew \/ a = known[mac].v4 THEN {} ELSE {"late"}

\* IPv4, of a device
NewNeighV4(mac, d, a) ==
  /\ IF CachedAt(mac) = {} THEN NewEntry(mac, d, a)
     ELSE /\ cache' = [i \in DOMAIN cache |-> IF i \in CachedAt(mac) THEN Entry(mac, d, a) ELSE cache[i]]
          /\ UNCHANGED <<circular, mixed>>
  /\ Told(mac, d, a) /\ Post(TRUE, mac, d, a)
DelNeighV4(mac, d, a) ==
  /\ DropEntry(mac) /\ Post(FALSE, mac, d, a)
  /\ Left(mac)
  /\ UNCHANGED <<circular, mixed>>

\* IPv6, of the bridge and of a device, which changes nothing in the cache
BridgeV6(isNew, mac) ==
  /\ IF CachedAt(mac) = {} THEN NoPost
     ELSE \E i \in CachedAt(mac) : Post(isNew, mac, cache[i].dev, "v6")
  /\ UNCHANGED <<cache, circular, known, mixed>>
NeighV6(isNew, mac, d) ==
  Post(isNew, mac, d, "v6") /\ UNCHANGED <<cache, circular, known, mixed>>

\* no address: the device of the neighbour, whose cached address is told again
NewNeighMac(mac, d) ==
  /\ IF CachedAt(mac) = {} THEN NewEntry(mac, d, Nil) /\ NoPost
     ELSE \E i \in CachedAt(mac) :
            /\ cache' = [cache EXCEPT ![i].dev = d]
            /\ IF cache[i].v4 # Nil THEN Post(TRUE, mac, d, cache[i].v4) ELSE NoPost
            /\ UNCHANGED <<circular, mixed>>
  /\ Told(mac, d, Nil)
DelNeighMac(mac, d) ==
  /\ DropEntry(mac)
  /\ Left(mac)
  /\ IF \E i \in CachedAt(mac) : cache[i].v4 # Nil
     THEN \E i \in CachedAt(mac) : Post(FALSE, mac, d, cache[i].v4) ELSE NoPost
  /\ UNCHANGED <<circular, mixed>>

\* the same of the bridge: a beginning does nothing, an end takes the entry
DelBridgeMac(mac) ==
  /\ CachedAt(mac) # {} /\ DropEntry(mac) /\ NoPost
  /\ Remembered(known)
  /\ mixed' = mixed \union {"bridged"}
  /\ circular' = circular

NeighborInit ==
  /\ cache = <<>> /\ circular = 0 /\ posted = Event(Nil, Nil, Nil) /\ mixed = {}
  /\ known = [m \in NMacs |-> [v4 |-> Nil, dev |-> Nil, here |-> FALSE]]
NeighborNext ==
  \E mac \in NMacs :
    \/ \E d \in Devices :
         \/ WlanClientAdd(mac, d) \/ NewNeighMac(mac, d) \/ DelNeighMac(mac, d)
         \/ \E n \in BOOLEAN : NeighV6(n, mac, d)
         \/ \E a \in NAddrs : NewNeighV4(mac, d, a) \/ DelNeighV4(mac, d, a)
    \/ \E n \in BOOLEAN : BridgeV6(n, mac) \/ (\E a \in NAddrs : BridgeV4(n, mac, a))
    \/ DelBridgeMac(mac)

-----------------------------------------------------------------------------
(* A hardware address has one entry, which leads to the device where it was   *)
(* last seen and to its last address, or to none, and this address is what is *)
(* announced: also after others left or were recycled, unless the end of an   *)
(* address of the bridge came late.                                           *)
CacheOfLast ==
  /\ \A i, j \in DOMAIN cache : cache[i].mac = cache[j].mac => i = j
  /\ \A i \in DOMAIN cache :
       /\ cache[i].dev = known[cache[i].mac].dev
       /\ cache[i].v4 \in {Nil, known[cache[i].mac].v4} \/ "late" \in mixed
  /\ posted.mac # Nil =>
       /\ posted.addr = known[posted.mac].v4 \/ "late" \in mixed
       /\ posted.dev = known[posted.mac].dev

(* A neighbour that a device has is found when the bridge tells its address,  *)
(* unless its entry was recycled or went with a neighbour of the bridge.      *)
NeighborsFound ==
  \A mac \in NMacs :
    known[mac].here => CachedAt(mac) # {} \/ mixed \intersect {"recycled", "bridged"} # {}

(* The cache tells a client's own address, the last of those it was seen with *)
(* (IPACM_Neighbor::event_callback).                                          *)
NeighborsKept == CacheOfLast /\ NeighborsFound
=============================================================================
