---------------------------- MODULE RoutingTable ----------------------------
(***************************************************************************)
(* MITAI/Core/RoutingTable: the destinations of one outlet of a module.    *)
(* The parallel arrays loAddr/oscAddr are one array of <<host, path>>      *)
(* pairs here (ModuleRoutes.tla splits them again, where two threads use   *)
(* them); aNum counts the slots in use.  Each operation is one step.       *)
(***************************************************************************)
EXTENDS Naturals, FiniteSets

CONSTANTS Host,       \* addresses of machines
          Path,       \* OSC paths of inlets
          Pattern,    \* arguments of deleteAllRoute
          Strstr,     \* Strstr[p]: the paths in which the text p occurs
          MAX_ANUM,   \* slots of a table
          NoRoute     \* NULL, in an unused slot

Route == Host \X Path

ASSUME SizeAssumption == MAX_ANUM \in Nat \ {0}
ASSUME PatternAssumption == Strstr \in [Pattern -> SUBSET Path]
ASSUME NullAssumption == NoRoute \notin Route

VARIABLES slot, aNum

tableVars == <<slot, aNum>>

Slots == 0 .. MAX_ANUM - 1
Used  == 0 .. aNum - 1

TableTypeOK ==
    /\ slot \in [Slots -> Route \union {NoRoute}]
    /\ aNum \in 0 .. MAX_ANUM

-----------------------------------------------------------------------------
(* RoutingTable() *)
TableInit == /\ slot = [i \in Slots |-> NoRoute]
             /\ aNum = 0

isRouting(r) == \E i \in Used : slot[i] = r

(* Mutant: known routes are appended again. *)
setRouteAgain(r) ==
    /\ ~ aNum > MAX_ANUM - 1
    /\ slot' = [slot EXCEPT ![aNum] = r]
    /\ aNum' = aNum + 1

(* A full table, then a known route, return early; the rest is an append.  *)
setRoute(r) ==
    /\ ~ aNum > MAX_ANUM - 1
    /\ ~ isRouting(r)
    /\ slot' = [slot EXCEPT ![aNum] = r]
    /\ aNum' = aNum + 1

(* Mutant: the loop over j stops one slot early. *)
shiftShort(i) == [j \in Slots |-> IF j < i THEN slot[j]
                                  ELSE IF j < aNum - 2 THEN slot[j + 1]
                                  ELSE NoRoute]

(* Slots i .. aNum-1 after slot i was released and its successors moved.   *)
shiftFrom(i) == [j \in Slots |-> IF j < i THEN slot[j]
                                 ELSE IF j < aNum - 1 THEN slot[j + 1]
                                 ELSE NoRoute]

(* Mutant: the last route takes the place of the one that goes. *)
deleteRouteSwap(r) ==
    \E i \in Used :
        /\ slot[i] = r
        /\ slot' = [slot EXCEPT ![i] = slot[aNum - 1], ![aNum - 1] = NoRoute]
        /\ aNum' = aNum - 1

(* The loop stops (break) at the first match. *)
deleteRoute(r) ==
    \E i \in Used :
        /\ slot[i] = r
        /\ \A k \in 0 .. i - 1 : slot[k] # r
        /\ slot' = shiftFrom(i)
        /\ aNum' = aNum - 1

(* deleteAllRoute goes on with i+1 after it moved slot i+1 into slot i: of *)
(* a run of matching slots it releases the first, the third, ...           *)
IsReleased(gone, p) ==
    \A i \in Used : i \in gone <=> slot[i][2] \in Strstr[p] /\ i - 1 \notin gone

(* The kept slots move down and keep their order. *)
Compacts(at, n, kept) ==
    /\ \A i, j \in 0 .. n - 1 : i < j => at[i] < at[j]
    /\ \A k \in kept : \E i \in 0 .. n - 1 : at[i] = k

deleteAllRoute(p) ==
    \E gone \in SUBSET Used : \E n \in 0 .. aNum :
        \E at \in [0 .. n - 1 -> Used \ gone] :
            /\ IsReleased(gone, p)
            /\ Compacts(at, n, Used \ gone)
            /\ slot' = [i \in Slots |-> IF i < n THEN slot[at[i]] ELSE NoRoute]
            /\ aNum' = n

TableNext == \/ \E r \in Route : setRoute(r) \/ deleteRoute(r)
             \/ \E p \in Pattern : deleteAllRoute(p)

TableSpec == TableInit /\ [][TableNext]_tableVars

-----------------------------------------------------------------------------
(* The used slots come first: slots behind them are released and NULL, so  *)
(* the destructor frees every address once (deleteRoute's shift).          *)
Compact == \A i \in Slots : i \in Used <=> slot[i] # NoRoute

(* A frame is sent once to a destination: no route is in two slots, however *)
(* often and in whatever order it was connected and disconnected.          *)
NoDuplicate == \A i, j \in Used : slot[i] = slot[j] => i = j

RouteInv == TableTypeOK /\ Compact /\ NoDuplicate

(* Frames are sent in the order of connection: a step never exchanges two  *)
(* routes that it keeps, whatever it removes between or before them.       *)
KeepsOrder ==
    \A i, j \in Used : \A k, l \in 0 .. aNum' - 1 :
        slot[i] = slot'[k] /\ slot[j] = slot'[l] /\ i < j => k < l

OrderKept == [][KeepsOrder]_tableVars

(* The table is the set of routes the coordinator believes in.             *)
Routes == {slot[i] : i \in Used}

RS == INSTANCE RouteSet WITH routes <- Routes,
                             Under <- [p \in Pattern |-> Host \X Strstr[p]]

ImplementsRouteSet == RS!Spec
=============================================================================
