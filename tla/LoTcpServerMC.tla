---------------------------- MODULE LoTcpServerMC ---------------------------
(***************************************************************************)
(* Three connections: one is being served, one waits behind it in the      *)
(* socket array and one is still unaccepted.  The first carries two        *)
(* messages, so that one can be buffered behind another; hosts differ so   *)
(* that a wrong address shows.                                             *)
(***************************************************************************)
EXTENDS LoTcpServer, TLC

CONSTANTS c1, c2, c3, h1, h2, h3

MCFrom == (c1 :> h1) @@ (c2 :> h2) @@ (c3 :> h3)
MCNMsg == (c1 :> 2) @@ (c2 :> 1) @@ (c3 :> 1)
=============================================================================
