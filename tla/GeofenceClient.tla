--------------------------- MODULE GeofenceClient ---------------------------
(***************************************************************************)
(* The geofences of LocationAPIClientBase: a call names fences by the      *)
(* client's ids, the interface (libgeofence, not in the repository) by the *)
(* sessions it returned, and answers each call once, in order.             *)
(***************************************************************************)
EXTENDS LocationClient

CONSTANT MaxFences   \* bound: sessions the interface hands out

VARIABLES
  fdict,   \* mGeofenceBiDict: ids, sessions and the transitions to report
  freqs,   \* mRequestQueues[REQUEST_GEOFENCE], empty before the first fence
  fwork,   \* calls the interface has not served yet
  fences,  \* the fences it watches, each with its transitions and whether it is on
  made,    \* sessions handed out
  odd      \* history: fences whose client gave the id away or knows another mask

fenceVars == <<fdict, freqs, fwork, fences, made, odd>>

Lists(ids) == {<<id>> : id \in ids} \union {l \in ids \X ids : l[1] # l[2]}
Elements(l) == {l[k] : k \in DOMAIN l}
\* BiDict::set for some ids or sessions at once
SetAll(f, new) == [x \in DOMAIN new \union DOMAIN f |-> IF x \in DOMAIN new THEN new[x] ELSE f[x]]
SessionOf(id) == ForwardOf(fdict, id)
SessionsOf(ids) == {SessionOf(id) : id \in ids} \ {0}

\* ask: the sessions the call is about, with a mask each where it has one
FenceCall(op, ask) ==
  /\ fwork' = Append(fwork, [op |-> op, ask |-> ask])
  /\ freqs' = Append(freqs, op)
NoFenceCall == UNCHANGED <<freqs, fwork>>
CallFor(op, ask) == IF DOMAIN ask = {} THEN NoFenceCall ELSE FenceCall(op, ask)
NoMasks(ss) == [s \in ss |-> {}]

ClientOfFences ==
  /\ setup.kind = "fence" /\ calls < setup.calls /\ calls' = calls + 1
  /\ UNCHANGED <<setup, loaded, cbs, known, lastId, work, live, clientVars, fences>>

-----------------------------------------------------------------------------
(* locAPIAddGeofences: the interface may decline at once.  An id in use is    *)
(* given to the new fence; the entry of the old session stays.               *)
AddGeofences(l, mask) ==
  /\ ClientOfFences /\ made + Len(l) <= MaxFences
  /\ \/ LET new == made+1..made+Len(l) IN
          /\ FenceCall("add", [s \in new |-> mask])
          /\ fdict' = [fwd  |-> SetAll(fdict.fwd, [id \in Elements(l) |-> made + CHOOSE k \in DOMAIN l : l[k] = id]),
                       back |-> SetAll(fdict.back, [s \in new |-> l[s - made]]),
                       ext  |-> SetAll(fdict.ext, [s \in new |-> mask])]
          /\ made' = made + Len(l)
          /\ odd' = odd \union SessionsOf(Elements(l))
     \/ NoFenceCall /\ UNCHANGED <<fdict, made, odd>>

\* locAPIRemoveGeofences: known fences leave the dictionary before the call
RemoveCall_ButLast(ss) ==   \* mutant: one of them is left out
  CallFor("remove", NoMasks(ss \ {x \in ss : \A y \in ss : y <= x}))
RemoveCall(ss) == CallFor("remove", NoMasks(ss))

RemoveFences(ids) ==
  LET gone == SessionsOf(ids) IN
    /\ RemoveCall(gone)
    /\ fdict' = [fwd  |-> [id \in DOMAIN fdict.fwd \ {BackwardOf(fdict, s) : s \in gone}
                             |-> fdict.fwd[id]],
                 back |-> [s \in DOMAIN fdict.back \ gone |-> fdict.back[s]],
                 ext  |-> [s \in DOMAIN fdict.ext \ gone |-> fdict.ext[s]]]
    /\ UNCHANGED <<made, odd>>
RemoveGeofences(l) == ClientOfFences /\ RemoveFences(Elements(l))

(* locAPIRemoveAllGeofences hands the sessions to locAPIRemoveGeofences, which *)
(* takes them for ids.                                                         *)
AllSessions == DOMAIN fdict.back
RemoveAllGeofences == ClientOfFences /\ RemoveFences(AllSessions)

(* locAPIModifyGeofences: unknown ids are left out of the sessions, not of    *)
(* the options: the interface pairs the sessions with the first options.      *)
Place(l, s) == CHOOSE k \in DOMAIN l : SessionOf(l[k]) = s
Paired(l, masks) ==
  [s \in SessionsOf(Elements(l))
     |-> masks[Cardinality({k \in 1..Place(l, s) : SessionOf(l[k]) > 0})]]
NewMasks(l, masks) ==
  SetAll(fdict.ext, [s \in SessionsOf(Elements(l)) |-> masks[Place(l, s)]])
ModifyGeofences(l, masks) ==
  /\ ClientOfFences /\ Len(masks) = Len(l)
  /\ CallFor("modify", Paired(l, masks))
  /\ fdict' = [fdict EXCEPT !.ext = NewMasks(l, masks)]
  /\ odd' = odd \union {s \in SessionsOf(Elements(l)) : NewMasks(l, masks)[s] # Paired(l, masks)[s]}
  /\ UNCHANGED made

PauseGeofences(l) ==
  /\ ClientOfFences
  /\ CallFor("pause", NoMasks(SessionsOf(Elements(l))))
  /\ UNCHANGED <<fdict, made, odd>>

\* locAPIResumeGeofences: the masks are for the dictionary alone
ResumeGeofences(l, masks) ==
  /\ ClientOfFences /\ Len(masks) = Len(l)
  /\ CallFor("resume", NoMasks(SessionsOf(Elements(l))))
  /\ fdict' = [fdict EXCEPT !.ext = NewMasks(l, masks)]
  /\ odd' = odd \union {s \in SessionsOf(Elements(l)) : NewMasks(l, masks)[s] # fdict.ext[s]}
  /\ UNCHANGED made

-----------------------------------------------------------------------------
\* the interface serves a call for those of its fences it does not refuse
Served(c, good) ==
  CASE c.op = "add" -> SetAll(fences, [s \in good |-> [mask |-> c.ask[s], on |-> TRUE]])
    [] c.op = "remove" -> [s \in DOMAIN fences \ good |-> fences[s]]
    [] c.op = "modify" -> [s \in DOMAIN fences |->
                             IF s \in good THEN [fences[s] EXCEPT !.mask = c.ask[s]] ELSE fences[s]]
    [] OTHER -> [s \in DOMAIN fences |->
                   IF s \in good THEN [fences[s] EXCEPT !.on = (c.op = "resume")] ELSE fences[s]]

(* onCollectiveResponseCb: the request at the head is told, whatever it is.   *)
(* A refusal changes nothing in the client.                                   *)
ServeFences ==
  /\ fwork # <<>>
  /\ LET c == Head(fwork) IN
       \E good \in SUBSET DOMAIN c.ask :
         /\ fences' = Served(c, good)
         /\ odd' = odd \union (IF c.op = "add" THEN {} ELSE DOMAIN c.ask \ good)
  /\ fwork' = Tail(fwork) /\ freqs' = Tail(freqs)
  /\ UNCHANGED <<apiVars, clientVars, fdict, made>>

FenceInit ==
  /\ fdict = EmptyDict /\ freqs = <<>> /\ fwork = <<>> /\ fences = <<>> /\ made = 0 /\ odd = {}

FenceNext ==
  \/ \E l \in Lists(setup.ids) :
       \/ \E mask \in setup.modes : AddGeofences(l, mask)
       \/ RemoveGeofences(l) \/ PauseGeofences(l)
       \/ \E masks \in setup.modes \X setup.modes :
            LET ms == SubSeq(masks, 1, Len(l)) IN ModifyGeofences(l, ms) \/ ResumeGeofences(l, ms)
  \/ RemoveAllGeofences
  \/ ServeFences

-----------------------------------------------------------------------------
\* beforeGeofenceBreachCb: the id a transition is reported under, if it is
Reported(s, transition) == IF HasSession(fdict, s) /\ transition \in fdict.ext[s]
                           THEN BackwardOf(fdict, s) ELSE NoClient

(* "mGeofenceBiDict" (LocationAPIClientBase.cpp:565): a fence the interface   *)
(* watches and is not about to give up can be removed by its client, unless   *)
(* its id went to another fence; a transition it watches for is reported      *)
(* under that id; and the requests are those of the calls still to be served. *)
FencesRemovable ==
  /\ [k \in DOMAIN fwork |-> fwork[k].op] = freqs
  /\ \A s \in DOMAIN fences \ odd :
       (\A k \in DOMAIN fwork : fwork[k].op = "remove" => s \notin DOMAIN fwork[k].ask) =>
         /\ HasSession(fdict, s) /\ SessionOf(fdict.back[s]) = s
         /\ fwork = <<>> => \A t \in fences[s].mask :
                              Reported(s, t) # NoClient /\ SessionOf(Reported(s, t)) = s
=============================================================================
