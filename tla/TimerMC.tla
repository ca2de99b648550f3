------------------------------- MODULE TimerMC -------------------------------
(* Two clients: one can go while one before or behind it stays.  A beat of  *)
(* 2 samples and intervals of 2 and 3 leave every kind of rest.             *)
EXTENDS Timer, TLC

CONSTANTS a, b

Intervals == a :> 2 @@ b :> 3
=============================================================================
