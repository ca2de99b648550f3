-------------------------- MODULE RoutingTableMC --------------------------
(***************************************************************************)
(* Two machines, two inlets of one module and one of another; "deleteAll"  *)
(* is given the module's name or a single inlet.  Four slots: a run of     *)
(* matches, its neighbours and the full table all occur.                   *)
(***************************************************************************)
EXTENDS RoutingTable

CONSTANTS a, b, c, mod1

MCStrstr == [p \in Pattern |-> IF p = mod1 THEN {a, b} ELSE {p}]
===========================================================================
