----------------------------- MODULE AtlService -----------------------------
(***************************************************************************)
(* What the AGPS manager promises the modem for one type of connection     *)
(* (src/gps/gnss/Agps.h): each handle is asked for, answered, given back   *)
(* and closed, and all the handles share one data connection, so that they *)
(* are opened, refused and closed together.                                *)
(***************************************************************************)
CONSTANT Handles

VARIABLE atl   \* per handle: "idle", "opening", "open" or "closing"

In(s) == {h \in Handles : atl[h] = s}

Init == atl = [h \in Handles |-> "idle"]

(* A handle is asked for; it is open at once when the connection already is. *)
Request(h) ==
  /\ atl[h] = "idle"
  /\ atl' = [atl EXCEPT ![h] = IF In("open") # {} THEN "open" ELSE "opening"]

(* A handle is given back, at once or after the connection has closed. *)
Release(h) ==
  /\ atl[h] \in {"opening", "open"}
  /\ \E s \in {"idle", "closing"} : atl' = [atl EXCEPT ![h] = s]

(* The connection is there for every handle that waits for it. *)
Granted ==
  /\ In("open") = {}
  /\ atl' = [h \in Handles |-> IF atl[h] = "opening" THEN "open" ELSE atl[h]]

(* The connection is refused or lost for every handle. *)
Lost == atl' = [h \in Handles |-> "idle"]

(* The connection is closed for those that waited for that. *)
Closed ==
  /\ In("open") = {}
  /\ atl' = [h \in Handles |-> IF atl[h] = "closing" THEN "idle" ELSE atl[h]]

Next == (\E h \in Handles : Request(h) \/ Release(h)) \/ Granted \/ Lost \/ Closed

Spec == Init /\ [][Next]_atl
=============================================================================
