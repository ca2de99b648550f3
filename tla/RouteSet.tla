------------------------------ MODULE RouteSet ------------------------------
(***************************************************************************)
(* What an outlet of a module promises to the coordinator that wires it:   *)
(* a set of at most MAX_ANUM destinations.  Connecting adds one, unless    *)
(* the outlet is full or knows it already; disconnecting removes that one  *)
(* and no other; disconnecting everything under a pattern touches only     *)
(* destinations under the pattern, and some of them if there are any.      *)
(***************************************************************************)
EXTENDS FiniteSets, Naturals

CONSTANTS Route,      \* the destinations
          Pattern,    \* arguments of a "disconnect all"
          Under,      \* Under[p]: the destinations a pattern stands for
          MAX_ANUM    \* capacity of an outlet

VARIABLE routes

Init == routes = {}

Connect(r) == /\ Cardinality(routes) < MAX_ANUM
              /\ routes' = routes \union {r}

Disconnect(r) == routes' = routes \ {r}

DisconnectAll(p) ==
    \E gone \in SUBSET (routes \intersect Under[p]) :
        /\ routes \intersect Under[p] # {} => gone # {}
        /\ routes' = routes \ gone

Next == \/ \E r \in Route : Connect(r) \/ Disconnect(r)
        \/ \E p \in Pattern : DisconnectAll(p)

Spec == Init /\ [][Next]_routes
=============================================================================
