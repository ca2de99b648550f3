---------------------------- MODULE ModuleManagers -----------------------------
(***************************************************************************)
(* The managers of one process, made, described and destroyed              *)
(* (Core/ModuleManager.h, Core/Module.cpp), with the methods they have in  *)
(* the lists of the two servers, which they share: those of a message are  *)
(* called in the order of the list until one returns 0, and deleting goes  *)
(* by path and types, whoever added them.                                  *)
(*                                                                         *)
(* One step is a call of the application or a message; what threads do to  *)
(* each other is in ModuleDirectory, ServiceMethods and ModuleNet.         *)
(***************************************************************************)
EXTENDS Naturals, Sequences, SequencesExt

CONSTANTS Mgr,     \* managers
          Osc,     \* Osc[g]: their OSCAddr, "" for those of main
          MAddrs,  \* addresses setMInfo may give
          Nodes    \* ids of modules

ASSUME ManagersAssumption == Mgr \intersect {Osc[g] : g \in Mgr} \X MAddrs \X Nodes = {} /\ "" \notin MAddrs

VARIABLES
    mgr,       \* [Mgr -> what a manager keeps]
    methods,   \* [udp, tcp]: [path, types, of]
    reached,   \* the manager the last route order reached, if any: a set
    undefined, \* what was undefined
    left,      \* bound: calls and messages
    lives      \* [order: managers as they were made, deaf: those that were there when another
               \*  one was destroyed, readdressed: those with two addresses, one after the other]

managers == <<mgr, methods, reached, undefined, left, lives>>

Infos == {"in", "out"}   \* inInfo, outInfo

Request == <<"/ModuleManager/RequestML">>
Routes(osc) == <<osc, "/AddRoute">>
Orders(g, a) == <<Osc[g], a>>
Node(g, a, id) == <<Osc[g], a, id>>

Blank == [stage |-> "none", info |-> {}, icon |-> FALSE, addr |-> "", mods |-> {},
          tables |-> 0, outNum |-> 0]

ManagersInit(calls) ==
    /\ mgr = [g \in Mgr |-> Blank] /\ methods = [udp |-> <<>>, tcp |-> <<>>]
    /\ reached = {} /\ undefined = "no" /\ left = calls
    /\ lives = [order |-> <<>>, deaf |-> {}, readdressed |-> {}]

Defined == undefined = "no" /\ left > 0 /\ left' = left - 1
MadeHere(g) == mgr[g].stage = "made"

(* lo_server_thread_add_method; lo_server_thread_del_method, for the paths *)
(* and types of the methods of M; and those that a message can be for      *)
AddMethod2(list, path, types, of) == Append(list, [path |-> path, types |-> types, of |-> of])
DelMethod2(list, M) ==
    LET rest[n \in 0 .. Len(list)] ==
            IF n = 0 THEN <<>> ELSE IF list[n] \in M THEN rest[n - 1] ELSE Append(rest[n - 1], list[n])
    IN rest[Len(list)]
Found(list, path, types) == {i \in 1 .. Len(list) : list[i].path = path /\ list[i].types = types}
FirstFound(list, path, types) ==
    list[CHOOSE i \in Found(list, path, types) : \A j \in Found(list, path, types) : i <= j].of

(* Module::init and ~Module *)
RoutePaths(here) == {Append(here, "/AddRoute"), Append(here, "/DeleteRoute")}
RouteMethods(list, of, here) ==
    LET add(l, path) == AddMethod2(AddMethod2(l, path, "ss", of), path, "ssi", of)
    IN add(add(list, Append(here, "/AddRoute")), Append(here, "/DeleteRoute"))
RoutesOf(list, here) == {m \in ToSet(list) : m.path \in RoutePaths(here) /\ m.types \in {"ss", "ssi"}}
NoRouteMethods(list, here) == DelMethod2(list, RoutesOf(list, here))

(* Of setMInfo, requestML and the destructor: a null text or icon is read. *)
sendModuleList(g) == undefined' = IF g.info = Infos /\ g.icon THEN undefined ELSE "null"

-----------------------------------------------------------------------------
(* The default constructor and init, or the constructor with a server,     *)
(* which begins a Module twice                                             *)
NewManager(g, twice) ==
    /\ mgr[g].stage = "none" /\ Defined
    /\ mgr' = [mgr EXCEPT ![g].stage = "made", ![g].outNum = 1, ![g].tables = IF twice THEN 2 ELSE 1]
    /\ LET once == RouteMethods(methods.tcp, g, <<Osc[g]>>) IN
       methods' = [udp |-> AddMethod2(methods.udp, Request, "i", g),
                   tcp |-> IF twice THEN RouteMethods(once, g, <<Osc[g]>>) ELSE once]
    /\ lives' = [lives EXCEPT !.order = Append(@, g)]
    /\ UNCHANGED <<reached, undefined>>

(* setMInfo: with an icon of its own a manager that does not find the file *)
(* announces itself nevertheless, with Default.png it does not.            *)
SetMInfo(g, a, own, found) ==
    /\ MadeHere(g) /\ Defined
    /\ mgr' = [mgr EXCEPT ![g].addr = a, ![g].info = Infos, ![g].icon = @ \/ found]
    /\ methods' = [methods EXCEPT !.tcp = AddMethod2(@, Orders(g, a), "is", g)]
    /\ lives' = [lives EXCEPT !.readdressed = IF mgr[g].addr \in {"", a} THEN @ ELSE @ \union {g}]
    /\ IF found \/ own THEN sendModuleList(mgr'[g]) ELSE UNCHANGED undefined
    /\ UNCHANGED reached

(* setInputInfo, setOutputInfo *)
SetOneInfo(g, which) ==
    /\ MadeHere(g) /\ Defined
    /\ mgr' = [mgr EXCEPT ![g].info = @ \union {which}]
    /\ UNCHANGED <<methods, reached, undefined, lives>>

(* requestML returns 1: all of them are called. *)
RequestML ==
    /\ Defined
    /\ LET asked == {methods.udp[i].of : i \in Found(methods.udp, Request, "i")} IN
       undefined' = IF \E g \in asked : ~ MadeHere(g) THEN "freed"
                    ELSE IF \E g \in asked : ~ (mgr[g].info = Infos /\ mgr[g].icon) THEN "null" ELSE undefined
    /\ UNCHANGED <<mgr, methods, reached, lives>>

(* module, which returns 0: only the first method for the address          *)
OrderModule(osc, a, id, create) ==
    /\ Found(methods.tcp, <<osc, a>>, "is") # {} /\ Defined
    /\ LET g == FirstFound(methods.tcp, <<osc, a>>, "is") IN
       IF ~ MadeHere(g) THEN undefined' = "freed" /\ UNCHANGED <<mgr, methods>>
       ELSE LET at == Node(g, mgr[g].addr, id) IN
            /\ IF create /\ at \notin mgr[g].mods
               THEN /\ mgr' = [mgr EXCEPT ![g].mods = @ \union {at}]
                    /\ methods' = [methods EXCEPT !.tcp = RouteMethods(@, at, at)]
               ELSE IF ~ create /\ at \in mgr[g].mods
               THEN /\ mgr' = [mgr EXCEPT ![g].mods = @ \ {at}]
                    /\ methods' = [methods EXCEPT !.tcp = NoRouteMethods(@, at)]
               ELSE UNCHANGED <<mgr, methods>>
            /\ UNCHANGED undefined
    /\ UNCHANGED <<reached, lives>>

-----------------------------------------------------------------------------
(* Module: the routes of a manager; those of modules are in ModuleRoutes   *)

(* addRoute reads a third argument, whether there is one or not.           *)
OrderRoute(osc, types, outID) ==
    LET g == FirstFound(methods.tcp, Routes(osc), types) IN
    /\ Found(methods.tcp, Routes(osc), types) # {} /\ g \in Mgr /\ Defined
    /\ \E index \in IF types = "ss" THEN {0, 9} ELSE {outID} :
          /\ reached' = {g}
          /\ undefined' = IF ~ MadeHere(g) THEN "freed"
                          ELSE IF index >= mgr[g].tables THEN "index" ELSE undefined
    /\ UNCHANGED <<mgr, methods, lives>>

SetOutNum(g, n) ==
    /\ MadeHere(g) /\ Defined
    /\ mgr' = [mgr EXCEPT ![g].outNum = n, ![g].tables = @ + (n - 1)]
    /\ UNCHANGED <<methods, reached, undefined, lives>>

(* sendDataTo: only that of integers looks at outNum.                      *)
SendDataTo(g, outID, float) ==
    /\ MadeHere(g) /\ Defined /\ (float \/ outID < mgr[g].outNum)
    /\ undefined' = IF outID >= mgr[g].tables THEN "index" ELSE undefined
    /\ UNCHANGED <<mgr, methods, reached, lives>>

(* connectTo and disconnectFrom of modules of one process *)
ConnectTo(g, h, outID) ==
    /\ MadeHere(g) /\ MadeHere(h) /\ Defined
    /\ undefined' = IF outID >= mgr[g].tables THEN "index" ELSE undefined
    /\ UNCHANGED <<mgr, methods, reached, lives>>

-----------------------------------------------------------------------------
(* Mutant: a destroyed manager keeps its modules. *)
LeavingKeeping(list, g) == {m \in ToSet(list) : m.path = Orders(g, mgr[g].addr) /\ m.types = "is"}

(* ~ModuleManager deletes the modules and its method at the last address.  *)
Leaving(list, g) == {m \in ToSet(list) : m.path = Orders(g, mgr[g].addr) /\ m.types = "is"}
                    \union (UNION {RoutesOf(list, at) : at \in mgr[g].mods})

(* ~ModuleManager, then ~Module *)
DestroyManager(g) ==
    /\ MadeHere(g) /\ Defined
    /\ sendModuleList(mgr[g])
    /\ LET without == DelMethod2(methods.tcp, Leaving(methods.tcp, g)) IN
       methods' = [udp |-> DelMethod2(methods.udp, {m \in ToSet(methods.udp) : m.path = Request /\ m.types = "i"}),
                   tcp |-> NoRouteMethods(without, <<Osc[g]>>)]
    /\ mgr' = [mgr EXCEPT ![g] = [Blank EXCEPT !.stage = "gone", !.addr = mgr[g].addr, !.icon = mgr[g].icon]]
    /\ lives' = [lives EXCEPT !.deaf = @ \union {h \in Mgr : MadeHere(h)}]
    /\ UNCHANGED reached

ManagersNext ==
    \/ \E g \in Mgr : \/ \E twice \in BOOLEAN : NewManager(g, twice)
                      \/ \E a \in MAddrs, own, found \in BOOLEAN : SetMInfo(g, a, own, found)
                      \/ \E which \in Infos : SetOneInfo(g, which)
                      \/ \E n \in 1 .. 2 : SetOutNum(g, n)
                      \/ \E outID \in 0 .. 2, float \in BOOLEAN : SendDataTo(g, outID, float)
                      \/ \E h \in Mgr, outID \in 0 .. 2 : ConnectTo(g, h, outID)
                      \/ DestroyManager(g)
    \/ RequestML
    \/ \E osc \in {Osc[g] : g \in Mgr} :
          \/ \E a \in MAddrs, id \in Nodes, create \in BOOLEAN : OrderModule(osc, a, id, create)
          \/ \E types \in {"ss", "ssi"}, outID \in 0 .. 2 : OrderRoute(osc, types, outID)

-----------------------------------------------------------------------------
ManagersTypeOK ==
    /\ \A g \in Mgr : mgr[g].stage \in {"none", "made", "gone"} /\ mgr[g].addr \in MAddrs \union {""}
    /\ undefined \in {"no", "null", "freed", "index"}

OwnerAlive(of) == IF of \in Mgr THEN MadeHere(of) ELSE \E g \in Mgr : of \in mgr[g].mods

(* A method outlives what it belongs to only if setMInfo gave a manager    *)
(* another address: the one at the first address stays.                    *)
MethodsAlive ==
    \A m \in ToSet(methods.udp) \union ToSet(methods.tcp) :
        ~ OwnerAlive(m.of) => /\ m.of \in lives.readdressed /\ m.types = "is"
                              /\ m.path # Orders(m.of, mgr[m.of].addr)

(* A manager hears requests, and route orders for its address, until       *)
(* another one - with that address - is destroyed, and never again.  Of    *)
(* the managers with one address only the oldest gets its route orders.    *)
HeardUntilOther ==
    /\ \A g \in Mgr : MadeHere(g) =>
          /\ Found(methods.udp, Request, "i") = {} <=> \A h \in Mgr : MadeHere(h) => h \in lives.deaf
          /\ (g \in {m.of : m \in ToSet(methods.udp)}) <=> g \notin lives.deaf
    /\ reached # {} /\ undefined = "no" => \A g \in reached : MadeHere(g) =>
          \A h \in Mgr : MadeHere(h) /\ Osc[h] = Osc[g] /\ h \notin lives.deaf
              => \E i, j \in 1 .. Len(lives.order) : i <= j /\ lives.order[i] = g /\ lives.order[j] = h

(* What is undefined has one of these reasons: a manager that announces    *)
(* itself without its icon file, or before it is described; a manager with *)
(* two addresses; an output that is not there - no one looks at the index  *)
(* of a route, and it is what lies in memory if the order has none.        *)
UndefinedExplained ==
    /\ undefined = "null" => \E g \in Mgr : ~ mgr[g].icon /\ mgr[g].stage # "none"
    /\ undefined = "freed" => lives.readdressed # {}

(* The managers of a process and their methods. *)
ManagersInv == ManagersTypeOK /\ MethodsAlive /\ HeardUntilOther /\ UndefinedExplained
================================================================================
