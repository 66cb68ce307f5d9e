-------------------------------- MODULE MCLive --------------------------------
(***************************************************************************)
(* An instance of LiveUpdates for TLC: two components of one tab, three     *)
(* WebSocket objects (an old one, its successor, and the second that a      *)
(* pending timer opens), two commits, two lost connections or restarts.     *)
(* Sockets are alike, and so are components.                                *)
(***************************************************************************)
EXTENDS LiveUpdates, TLC

Alike == Permutations(Sockets) \cup Permutations(Components)
===============================================================================
