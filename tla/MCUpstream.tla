----------------------------- MODULE MCUpstream -----------------------------
(***************************************************************************)
(* Small instances of Upstream.                                            *)
(***************************************************************************)
EXTENDS Upstream

Setup(D, F, c, l) == [devs |-> D, fams |-> F, calls |-> c, links |-> l]
Small ==
  {Setup({"rmnet", "usb"}, {"v4"}, 4, 2),
   Setup({"rmnet"}, Families, 3, 1),
   Setup({"wlan"}, Families, 3, 1),
   Setup({"rmnet", "wlan"}, {"v4"}, 3, 3),
   Setup({"rmnet", "wlan"}, Families, 1, 2)}
=============================================================================
