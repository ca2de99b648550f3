------------------------- MODULE ModuleDirectoryMC -------------------------
(* The machine of main.cpp with its two managers, and one coordinator.      *)
(* Two copies of each datagram of which one may be lost: enough for a copy  *)
(* to come late, twice or not at all.                                       *)
EXTENDS ModuleDirectory, TLC

CONSTANTS m1, mic, speaker

MainCpp == m1 :> <<mic, speaker>>
=============================================================================
