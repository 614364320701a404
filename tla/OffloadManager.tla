--------------------------- MODULE OffloadManager ---------------------------
(***************************************************************************)
(* What the tethering framework asks of the offload HAL and what becomes   *)
(* of it: HAL.cpp hands every call to IPACM_OffloadManager, which posts    *)
(* events to the command queue, or keeps the call in a small cache until   *)
(* the device has its addresses.  Calls come on the thread of the HAL, the *)
(* cache is searched by the command thread, without a lock.                *)
(***************************************************************************)
EXTENDS Integers, Sequences, FiniteSets

CONSTANTS Wans,       \* devices that can be an upstream
          Downs,      \* devices that can be tethered
          Setups,     \* bound: the devices and families in use, calls of the
                      \* framework and links that come up, one of these
          MaxCache,   \* MAX_EVENT_CACHE
          None

Families == {"v4", "v6"}
Devices == Wans \union Downs

ASSUME OffloadAssumption ==
  /\ Setups \subseteq [devs : SUBSET Devices, fams : SUBSET Families, calls : Nat, links : Nat]
  /\ MaxCache \in Nat \ {0}
  /\ Wans \intersect Downs = {} /\ None \notin Devices

VARIABLES
  setup,    \* the setup, which does not change
  om,       \* the manager: gw is default_gw_index, up upstream_v4/v6_up, cache
            \* and latest the event cache, ext the external queue it posts to
  ready,    \* the NAT interfaces: families of each device that have rules
  known,    \* valid_ifaces
  started,  \* HAL::isInitialized
  pending,  \* a call that found its device not ready and is not yet cached
  calls,    \* calls made
  asked,    \* history: the upstream last asked for, None, or AnyCall
  lent,     \* history: whether a tethered family was asked for: "yes", "no", "free"
  odd       \* history: what happened to the cache, see below

omVars == <<setup, om, ready, known, started, pending, calls, asked, lent, odd>>

(* raced: the device became ready between the look at it and the caching.     *)
(* full: the cache had no room.  wiped: setUpstream(NULL) cleared the calls   *)
(* of tethered devices too.  outlived: another upstream was asked for while   *)
(* one was in the cache.  revived: a tethered device was removed while it was *)
(* in the cache.  dropped: a call met by the search had to wait again and the  *)
(* cache had no room for it.                                                  *)

Call(what, d, S) == [what |-> what, dev |-> d, fams |-> S]
AnyCall == Call("any", None, {})
Slots == 0..(MaxCache - 1)
CachedCalls(o) == {o.cache[k] : k \in Slots} \ {None}
Waits(d, f) == \E c \in CachedCalls(om) \union ({pending} \ {None}) : c.dev = d /\ f \in c.fams

\* post_route_evt and the downstream events, IPv4 first
Posted(o, ev, d, S) ==
  [o EXCEPT !.ext = @ \o SelectSeq(<<[ev |-> ev, dev |-> d, fam |-> "v4"],
                                     [ev |-> ev, dev |-> d, fam |-> "v6"]>>,
                                   LAMBDA e : e.fam \in S)]
RoutesDeleted(o, S) ==
  [Posted(o, "route_del", o.gw, S \intersect o.up) EXCEPT !.up = @ \ S]

\* setUpstream when the device is ready
UpstreamSet(o, d, S) ==
  LET t == CASE d # o.gw -> RoutesDeleted(o, Families)
             [] S = Families -> o
             [] OTHER -> RoutesDeleted(o, Families \ S)
  IN [Posted(t, "route_add", d, S \ t.up) EXCEPT !.up = @ \union S, !.gw = d]

\* the cache: the first free slot from latest_cache_index on
Free(o) == {k \in Slots : o.cache[(o.latest + k) % MaxCache] = None}
Cached(o, c) ==
  IF Free(o) = {} THEN o
  ELSE LET k == CHOOSE i \in Free(o) : \A j \in Free(o) : i <= j
       IN [o EXCEPT !.cache[(o.latest + k) % MaxCache] = c, !.latest = (@ + k + 1) % MaxCache]

Carried(o, c) ==
  IF c.what = "upstream" THEN UpstreamSet(o, c.dev, c.fams) ELSE Posted(o, "down_add", c.dev, c.fams)
Done(o, rdy, c) == IF c.fams \subseteq rdy[c.dev] THEN Carried(o, c) ELSE Cached(o, c)

\* search_framwork_cache: the calls of a device, in the order of the slots; one
\* that must wait again goes to another slot, where the search may meet it again
Searched(o, rdy, d) ==
  LET upTo[n \in 0..MaxCache] ==
        IF n = 0 THEN o
        ELSE LET p == upTo[n - 1]
                 c == p.cache[n - 1]
             IN IF c # None /\ c.dev = d
                THEN [Done(p, rdy, c) EXCEPT !.cache[n - 1] = None] ELSE p
  IN upTo[MaxCache]

Dropped(o, rdy, d) ==
  IF {c \in CachedCalls(o) : c.dev = d /\ ~(c.fams \subseteq rdy[d])}
       \subseteq CachedCalls(Searched(o, rdy, d)) THEN {} ELSE {"dropped"}

-----------------------------------------------------------------------------
(* The calls of the framework.  One thread makes them, one after the other;   *)
(* a call that finds its device not ready is cached in a second step.         *)

Calling == started /\ pending = None /\ calls < setup.calls /\ calls' = calls + 1

InitOffload ==
  /\ ~started /\ started' = TRUE
  /\ UNCHANGED <<setup, om, ready, known, pending, calls, asked, lent, odd>>

\* an upstream of another device that stays in the cache
Outlived(d) ==
  IF \E c \in CachedCalls(om) : c.what = "upstream" /\ c.dev # d THEN {"outlived"} ELSE {}

SetUpstream(d, S) ==
  /\ Calling
  /\ asked' = Call("upstream", d, S)
  /\ odd' = odd \union Outlived(d) \union
            (IF \E c \in CachedCalls(om) : c.what = "upstream" /\ c.dev = d /\ c.fams # S
             THEN {"outlived"} ELSE {})
  /\ IF S \subseteq ready[d]
     THEN om' = UpstreamSet(om, d, S) /\ pending' = None
     ELSE om' = om /\ pending' = Call("upstream", d, S)
  /\ UNCHANGED <<setup, ready, known, started, lent>>

AddDownstream(l, f) ==
  /\ Calling
  /\ known' = known \union {l}
  /\ lent' = [lent EXCEPT ![<<l, f>>] = "yes"]
  /\ IF f \in ready[l]
     THEN om' = Posted(om, "down_add", l, {f}) /\ pending' = None
     ELSE om' = om /\ pending' = Call("downstream", l, {f})
  /\ UNCHANGED <<setup, ready, started, asked, odd>>

\* the rest of a call that waits for its device, FAIL_HARDWARE without room
Store ==
  /\ pending # None /\ pending' = None
  /\ om' = Cached(om, pending)
  /\ odd' = odd \union (IF pending.fams \subseteq ready[pending.dev] THEN {"raced"} ELSE {})
                \union (IF Free(om) = {} THEN {"full"} ELSE {})
  /\ UNCHANGED <<setup, ready, known, started, calls, asked, lent>>

RemoveDownstream(l, f) ==
  /\ Calling /\ l \in known
  /\ om' = Posted(om, "down_del", l, {f})
  /\ lent' = [lent EXCEPT ![<<l, f>>] = "no"]
  /\ odd' = odd \union (IF Waits(l, f) THEN {"revived"} ELSE {})
  /\ UNCHANGED <<setup, ready, known, started, pending, asked>>

\* setUpstream(NULL): without an upstream it clears the cache if one waits there
HasUpstream(o) == \E c \in CachedCalls(o) : c.what = "upstream"
UpstreamCleared(o) ==
  CASE o.gw # None -> [RoutesDeleted(o, Families) EXCEPT !.gw = None]
    [] o.gw = None /\ HasUpstream(o) -> [o EXCEPT !.cache = [k \in Slots |-> None]]
    [] OTHER -> o
Clears == om.gw = None /\ HasUpstream(om)
Lost == {c \in CachedCalls(om) : c.what = "downstream"}

ClearUpstream ==
  /\ Calling
  /\ om' = UpstreamCleared(om)
  /\ asked' = None
  /\ odd' = odd \union (IF om.gw # None THEN Outlived(None) ELSE {})
                \union (IF Clears /\ Lost # {} THEN {"wiped"} ELSE {})
  /\ UNCHANGED <<setup, ready, known, started, pending, lent>>

\* stopAllOffload: every cached call is forgotten, the tethered devices are told
\* nothing
Stopped_KeepsCache ==   \* mutant: the calls of the last session stay in the cache
  [UpstreamCleared(om) EXCEPT !.gw = None, !.up = {}, !.latest = 0]
Stopped ==
  [UpstreamCleared(om) EXCEPT !.gw = None, !.up = {}, !.latest = 0,
                              !.cache = [k \in Slots |-> None]]
StopOffload ==
  /\ Calling /\ started' = FALSE
  /\ om' = Stopped
  /\ known' = {}
  /\ asked' = None
  /\ lent' = [x \in DOMAIN lent |-> "free"]
  /\ UNCHANGED <<setup, ready, pending, odd>>

OffloadInit ==
  /\ setup \in Setups
  /\ om = [gw |-> None, up |-> {}, cache |-> [k \in Slots |-> None], latest |-> 0, ext |-> <<>>]
  /\ ready = [d \in Devices |-> {}]
  /\ known = {} /\ started = FALSE /\ pending = None /\ calls = 0
  /\ asked = None /\ lent = [x \in Downs \X Families |-> "no"] /\ odd = {}

FrameworkCall ==
  \/ InitOffload \/ ClearUpstream \/ StopOffload \/ Store
  \/ \E d \in Wans \intersect setup.devs, S \in SUBSET setup.fams \ {{}} : SetUpstream(d, S)
  \/ \E l \in Downs \intersect setup.devs, f \in setup.fams : AddDownstream(l, f) \/ RemoveDownstream(l, f)
=============================================================================
