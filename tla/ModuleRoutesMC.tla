--------------------------- MODULE ModuleRoutesMC ---------------------------
(***************************************************************************)
(* Three slots and four destinations that share hosts and paths: a         *)
(* released slot can have one before and one behind it, the shift loop     *)
(* copies two, and the table fills up.  As many addresses as slots, so     *)
(* that new memory may or may not be the one just released.                *)
(***************************************************************************)
EXTENDS ModuleRoutes, TLC

CONSTANTS h1, h2, p, q

MCDest == Host \X Path

Addresses == Permutations(Addr)
=============================================================================
