---------------------------- MODULE MCWanFilters ----------------------------
(***************************************************************************)
(* Small instances of WanFilters and StaFilters, which share the file, the *)
(* switch and the events.  The files: no firewall, one with a few rules,   *)
(* one whose rules do not fit in a message to the modem.                   *)
(***************************************************************************)
EXTENDS StaFilters

File(on, frag, n4, n6) ==
  [on |-> on, frag |-> frag, n |-> [v4 |-> n4, v6 |-> n6], accept |-> TRUE]
Off  == File(FALSE, TRUE, 1, 2)
Few  == File(TRUE, TRUE, 1, 2)
Many == File(TRUE, FALSE, 30, 31)
Bare == [File(TRUE, FALSE, 0, 0) EXCEPT !.accept = FALSE]
SmallFiles == {Off, Few, Many, Bare}

Setup(D, S, F, l, c) == [devs |-> D, sta |-> S, files |-> F, links |-> l, changes |-> c]
Small ==
  {Setup(Modems, "none", {Off, Few}, 2, 1),
   Setup(Modems, "none", {Few}, 3, 0),
   Setup({"m0"}, "none", {Off, Few}, 2, 2),
   Setup({"m0"}, "none", {Off}, 1, 3),
   Setup({"m0", Embms}, "none", {Few, Many}, 2, 2),
   Setup({}, "wlan", {Off, Few, Bare}, 1, 2),
   Setup({}, "ecm", {Few}, 1, 2)}

AllVars == <<vars, staVars>>
AllInit == Init /\ StaInit
AllNext ==
  \/ setup.sta = "none" /\ Next /\ UNCHANGED staVars
  \/ setup.sta # "none" /\ (StaNext \/ StaProcess)
  \/ setup.sta # "none" /\ UNCHANGED staVars
     /\ ((\E on \in BOOLEAN : Signal(on)) \/ (\E fl \in setup.files : FileChange(fl)))
AllSpec == AllInit /\ [][AllNext]_AllVars
=============================================================================
