----------------------------- MODULE MCHashMap -----------------------------
(***************************************************************************)
(* Instance of MapLoop for TLC: five keys, some of which collide or probe  *)
(* across the end of the table, and capacities 2, 4 and 8 in place of 64,  *)
(* 256 and 1024.                                                           *)
(***************************************************************************)
EXTENDS MapLoop

MCKey == {"a", "b", "c", "d", "e"}
MCHash == [a |-> 0, b |-> 0, c |-> 7, d |-> 2, e |-> 15]
=============================================================================
