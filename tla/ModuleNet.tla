------------------------------ MODULE ModuleNet ------------------------------
(***************************************************************************)
(* The life of modules on a network: an application creates, connects and  *)
(* deletes modules through its Coordinator; the module managers of other   *)
(* machines make them and report them back; the coordinator keeps a token  *)
(* of each module that reported.  Every call is an OSC message to the TCP  *)
(* server thread of the other machine, which behaves as TcpInbox says: in  *)
(* order, one at a time, but a message may be lost while another waits     *)
(* behind it, and its handler may be told the address of another sender.   *)
(*                                                                         *)
(* A manager is <<machine, kind>>, and kind stands for its OSC path, which *)
(* may be the same on two machines; a module is <<manager, node id>>, its  *)
(* path being the kind and the id.  Modules have one input and one output. *)
(* The list of managers is complete (ModuleDirectory is about the list).   *)
(***************************************************************************)
EXTENDS Naturals, Sequences

CONSTANTS Host, Kind,
          CoHost,      \* the machine of the coordinator
          Mgr,         \* the module managers
          NID,         \* length of mListIDArray, 128 in the code
          MaxCalls,    \* bound: calls the application makes
          MaxRestarts, \* bound: restarts of a process
          NULL

Place == Host \X Kind
Id    == 0 .. NID - 1
Node  == Mgr \X Id

ASSUME NetAssumption == /\ CoHost \in Host /\ NID \in Nat \ {0}
                        /\ Mgr \subseteq (Host \ {CoHost}) \X Kind

VARIABLES
    tID,        \* Coordinator: the next node id
    mListIDArray, \* Coordinator: node id -> the manager asked to make it
    mtknMap,    \* Coordinator: node id -> token, or NULL
    call,       \* what addConnection or disconnect is about to send
    crash,      \* why the coordinator's process died
    nodes,      \* module -> its routes, for the modules there are
    inbox,      \* TCP messages each machine has not handled
    calls, restarts,
    \* what the properties need to know of the past
    disturbed,  \* ids whose messages were lost or misattributed, or whose
                \* process restarted, or that were given out while in use
    doomed,     \* ids ordered to be deleted
    wanted,     \* <<id, module>>: connections asked for and not retracted
    replaced    \* [old, target]: token found in place, manager told to delete

coordinator == <<tID, mListIDArray, mtknMap, call, crash>>
history     == <<disturbed, doomed, wanted, replaced>>
vars        == <<coordinator, nodes, inbox, calls, restarts, history>>

Token == [at : Place, info : Mgr]

ASSUME NullAssumption == NULL \notin Mgr \union Token

TypeOK ==
    /\ tID \in 0 .. NID
    /\ mListIDArray \in [Id -> Mgr \union {NULL}]
    /\ mtknMap \in [Id -> Token \union {NULL}]
    /\ call \in [op : {"add", "remove"}, from : Id, to : Id] \union {NULL}
    /\ crash \in {"no", "connect", "info"}
    /\ DOMAIN nodes \subseteq Node
    /\ \A n \in DOMAIN nodes : nodes[n] \subseteq Place \X Id
    /\ disturbed \subseteq Id /\ doomed \subseteq Id

Init ==
    /\ tID = 0 /\ mListIDArray = [i \in Id |-> NULL]
    /\ mtknMap = [i \in Id |-> NULL]
    /\ call = NULL /\ crash = "no"
    /\ nodes = [n \in {} |-> {}]
    /\ inbox = [h \in Host |-> <<>>]
    /\ calls = 0 /\ restarts = 0
    /\ disturbed = {} /\ doomed = {} /\ wanted = {} /\ replaced = {}

Post(q, h, m) == [q EXCEPT ![h] = Append(@, m)]

Messages == UNION {{inbox[h][i] : i \in 1 .. Len(inbox[h])} : h \in Host}

(* Anything left of the module that had this id. *)
InUse(id) == \/ mtknMap[id] # NULL
             \/ \E n \in DOMAIN nodes : n[2] = id
             \/ \E m \in Messages : m.id = id
             \/ call # NULL /\ id \in {call.from, call.to}

-----------------------------------------------------------------------------
(* Calls the application makes, one at a time.                             *)

Calling == /\ crash = "no" /\ call = NULL
           /\ calls < MaxCalls /\ calls' = calls + 1

(* createModule: the id comes back to 0 after the last one. *)
NextId == IF tID = NID THEN 0 ELSE tID

CreateModule(g) ==
    LET id == NextId IN
    /\ Calling
    /\ mListIDArray' = [mListIDArray EXCEPT ![id] = g]
    /\ inbox' = Post(inbox, g[1], [op |-> "create", kind |-> g[2], id |-> id])
    /\ tID' = id + 1
    /\ IF InUse(id) THEN disturbed' = disturbed \union {id} /\ UNCHANGED doomed
                    ELSE doomed' = doomed \ {id} /\ UNCHANGED disturbed
    /\ wanted' = {w \in wanted : w[1] # id}
    /\ UNCHANGED <<mtknMap, call, crash, nodes, restarts, replaced>>

(* deleteModule, of an id that createModule returned. *)
DeleteModule(id) ==
    /\ Calling /\ mListIDArray[id] # NULL
    /\ LET g == mListIDArray[id] IN
       inbox' = Post(inbox, g[1], [op |-> "delete", kind |-> g[2], id |-> id])
    /\ doomed' = doomed \union {id}
    /\ UNCHANGED <<coordinator, nodes, restarts, disturbed, wanted, replaced>>

Known(id) == mtknMap[id] # NULL

(* Mutant: mtknMap[tID2] is not looked up before it is used. *)
RouteCheckHalf(op, id1, id2) ==
    /\ Calling /\ Known(id1)
    /\ call' = [op |-> op, from |-> id1, to |-> id2]
    /\ UNCHANGED <<tID, mListIDArray, mtknMap, crash, nodes, inbox, restarts,
                   history>>

(* addConnection and disconnect make sure that both tokens are there ...   *)
RouteCheck(op, id1, id2) ==
    /\ Calling /\ Known(id1) /\ Known(id2)
    /\ call' = [op |-> op, from |-> id1, to |-> id2]
    /\ UNCHANGED <<tID, mListIDArray, mtknMap, crash, nodes, inbox, restarts,
                   history>>

Target(id) == <<mtknMap[id].at, id>>

RouteTo(op, id1, id2) ==
    Post(inbox, mtknMap[id1].at[1],
         [op |-> op, kind |-> mtknMap[id1].at[2], id |-> id1, dest |-> Target(id2)])

(* ... and fetch them, while the TCP thread may have taken one away: the   *)
(* map then makes up a null pointer, which is followed.                    *)
RouteSend ==
    /\ crash = "no" /\ call # NULL
    /\ IF Known(call.from) /\ Known(call.to)
       THEN /\ inbox' = RouteTo(call.op, call.from, call.to)
            /\ LET w == {<<call.from, Target(call.to)>>} IN
               wanted' = IF call.op = "add" THEN wanted \union w ELSE wanted \ w
            /\ call' = NULL
            /\ UNCHANGED crash
       ELSE /\ crash' = "connect"
            /\ UNCHANGED <<inbox, wanted, call>>
    /\ UNCHANGED <<tID, mListIDArray, mtknMap, nodes, calls, restarts, disturbed,
                   doomed, replaced>>

-----------------------------------------------------------------------------
(* The TCP thread of the coordinator.                                      *)

Senders == {inbox[CoHost][i].from : i \in 1 .. Len(inbox[CoHost])}

Misattributed(m, addr) ==
    disturbed' = IF addr = m.from THEN disturbed ELSE disturbed \union {m.id}

(* The list entry mListIDArray names; never assigned, the array names any  *)
(* entry or none (and a null pointer is followed).                         *)
Listed(id) == IF mListIDArray[id] = NULL THEN Mgr ELSE {mListIDArray[id]}

(* setMtkn: known at this address, ignored; id taken by another, that one  *)
(* is to be deleted, and map.insert leaves its token in place; new, the    *)
(* token copies the manager's input and output names from the list.        *)
setMtkn(addr) ==
    LET m  == Head(inbox[CoHost])
        at == <<addr, m.kind>>
        q  == [inbox EXCEPT ![CoHost] = Tail(@)]
    IN
    /\ m.op = "set"
    /\ \/ /\ Known(m.id) /\ mtknMap[m.id].at = at
          /\ inbox' = q
          /\ UNCHANGED <<mtknMap, crash, doomed, replaced>>
       \/ /\ Known(m.id) /\ mtknMap[m.id].at # at
          /\ \E g \in Listed(m.id) :
                /\ inbox' = Post(q, g[1], [op |-> "delete", kind |-> g[2], id |-> m.id])
                /\ replaced' = replaced \union {[old |-> mtknMap[m.id].at, target |-> g]}
          /\ doomed' = doomed \union {m.id}
          /\ UNCHANGED <<mtknMap, crash>>
       \/ /\ ~ Known(m.id)
          /\ \E g \in Listed(m.id) :
                mtknMap' = [mtknMap EXCEPT ![m.id] = [at |-> at, info |-> g]]
          /\ inbox' = q
          /\ UNCHANGED <<crash, doomed, replaced>>
       \/ /\ mListIDArray[m.id] = NULL
          /\ ~ (Known(m.id) /\ mtknMap[m.id].at = at)
          /\ crash' = "info" /\ inbox' = q
          /\ UNCHANGED <<mtknMap, doomed, replaced>>
    /\ Misattributed(m, addr)
    /\ UNCHANGED <<tID, mListIDArray, call, wanted>>

(* deleteMtkn: address, path and id must all match. *)
deleteMtkn(addr) ==
    LET m == Head(inbox[CoHost]) IN
    /\ m.op = "unset"
    /\ mtknMap' = IF Known(m.id) /\ mtknMap[m.id].at = <<addr, m.kind>>
                  THEN [mtknMap EXCEPT ![m.id] = NULL] ELSE mtknMap
    /\ inbox' = [inbox EXCEPT ![CoHost] = Tail(@)]
    /\ Misattributed(m, addr)
    /\ UNCHANGED <<tID, mListIDArray, call, crash, doomed, wanted, replaced>>

Coordinate ==
    /\ crash = "no" /\ inbox[CoHost] # <<>>
    /\ \E addr \in Senders : setMtkn(addr) \/ deleteMtkn(addr)
    /\ UNCHANGED <<nodes, calls, restarts>>

-----------------------------------------------------------------------------
(* The TCP thread of a machine with module managers.                       *)

Without(n)    == [x \in DOMAIN nodes \ {n} |-> nodes[x]]
Report(op, h, m) ==
    Post([inbox EXCEPT ![h] = Tail(@)], CoHost,
         [op |-> op, kind |-> m.kind, id |-> m.id, from |-> h])

(* Mutant: the module reports itself before its id is set. *)
CreateUnreported(h, m, n) ==
    /\ m.op = "create" /\ n \notin DOMAIN nodes
    /\ nodes' = [x \in DOMAIN nodes \union {n} |-> IF x = n THEN {} ELSE nodes[x]]
    /\ inbox' = [inbox EXCEPT ![h] = Tail(@)]

(* ModuleManager::module, argv[0] = 1: the module is made and asks the     *)
(* coordinator for a token, once.                                          *)
Create(h, m, n) ==
    /\ m.op = "create" /\ n \notin DOMAIN nodes
    /\ nodes' = [x \in DOMAIN nodes \union {n} |-> IF x = n THEN {} ELSE nodes[x]]
    /\ inbox' = Report("set", h, m)

(* Mutant: sendDeleteMdtkn is forgotten. *)
DeleteUnreported(h, m, n) ==
    /\ m.op = "delete" /\ n \in DOMAIN nodes
    /\ nodes' = Without(n)
    /\ inbox' = [inbox EXCEPT ![h] = Tail(@)]

(* argv[0] = 0 *)
Delete(h, m, n) ==
    /\ m.op = "delete" /\ n \in DOMAIN nodes
    /\ nodes' = Without(n)
    /\ inbox' = Report("unset", h, m)

(* Module::addRoute and Module::deleteRoute *)
Reroute(h, m, n) ==
    /\ m.op \in {"add", "remove"} /\ n \in DOMAIN nodes
    /\ nodes' = [nodes EXCEPT ![n] = IF m.op = "add" THEN @ \union {m.dest}
                                                     ELSE @ \ {m.dest}]
    /\ inbox' = [inbox EXCEPT ![h] = Tail(@)]

(* "err: Creating", nothing to delete, or no such method. *)
Ignore(h, m, n) ==
    /\ m.op = "create" <=> n \in DOMAIN nodes
    /\ inbox' = [inbox EXCEPT ![h] = Tail(@)]
    /\ UNCHANGED nodes

Manage(h) ==
    /\ inbox[h] # <<>>
    /\ LET m == Head(inbox[h])
           n == <<<<h, m.kind>>, m.id>>
       IN Create(h, m, n) \/ Delete(h, m, n) \/ Reroute(h, m, n) \/ Ignore(h, m, n)
    /\ UNCHANGED <<coordinator, calls, restarts, history>>

-----------------------------------------------------------------------------
(* The network and the machines.                                           *)

Lose(h) ==
    /\ Len(inbox[h]) >= 2
    /\ disturbed' = disturbed \union {Head(inbox[h]).id}
    /\ inbox' = [inbox EXCEPT ![h] = Tail(@)]
    /\ UNCHANGED <<coordinator, nodes, calls, restarts, doomed, wanted, replaced>>

Restarting == restarts < MaxRestarts /\ restarts' = restarts + 1

RestartManagers(h) ==
    LET gone == {n \in DOMAIN nodes : n[1][1] = h} IN
    /\ Restarting
    /\ nodes' = [n \in DOMAIN nodes \ gone |-> nodes[n]]
    /\ inbox' = [inbox EXCEPT ![h] = <<>>]
    /\ disturbed' = disturbed \union {n[2] : n \in gone}
                      \union {inbox[h][i].id : i \in 1 .. Len(inbox[h])}
    /\ UNCHANGED <<coordinator, calls, doomed, wanted, replaced>>

RestartCoordinator ==
    /\ Restarting
    /\ tID' = 0 /\ mListIDArray' = [i \in Id |-> NULL]
    /\ mtknMap' = [i \in Id |-> NULL]
    /\ call' = NULL /\ crash' = "no"
    /\ inbox' = [inbox EXCEPT ![CoHost] = <<>>]
    /\ disturbed' = disturbed \union {id \in Id : InUse(id)}
    /\ doomed' = {} /\ wanted' = {}
    /\ UNCHANGED <<nodes, calls, replaced>>

Application ==
    \/ \E g \in Mgr : CreateModule(g)
    \/ \E id \in Id : DeleteModule(id)
    \/ \E id1, id2 \in Id : id1 # id2 /\ \E op \in {"add", "remove"} : RouteCheck(op, id1, id2)
    \/ RouteSend

Next == \/ Application \/ Coordinate
        \/ \E h \in Host \ {CoHost} : Manage(h) \/ RestartManagers(h)
        \/ \E h \in Host : Lose(h)
        \/ RestartCoordinator

Spec == Init /\ [][Next]_vars

(***************************************************************************)
(* Properties.                                                             *)
(***************************************************************************)
(* The places of messages about id in the inbox of h, and the last of such *)
(* a set of places.                                                        *)
Pending(h, id, ops) ==
    {i \in 1 .. Len(inbox[h]) : inbox[h][i].id = id /\ inbox[h][i].op \in ops}
IsLast(i, places) == i \in places /\ \A j \in places : j <= i

(* For an id that nothing disturbed the coordinator and the managers agree *)
(* up to the messages under way: the token names the manager that was      *)
(* asked and its inputs, no other manager has a module of that id, and a   *)
(* module and its token come and go together.                              *)
NodesAgree ==
    \A id \in Id \ disturbed :
        LET g       == mListIDArray[id]
            reports == Pending(CoHost, id, {"set", "unset"})
            exists  == <<g, id>> \in DOMAIN nodes
        IN
        /\ Known(id) => mtknMap[id] = [at |-> g, info |-> g]
        /\ \A n \in DOMAIN nodes : n[2] = id => n[1] = g
        /\ reports = {} => (exists <=> Known(id))
        /\ \A i \in reports :
              IsLast(i, reports) => (exists <=> inbox[CoHost][i].op = "set")

(* ... and the routes of a module are the connections that were asked for  *)
(* and not retracted, once the orders under way are counted.               *)
RoutesAgree ==
    \A n \in DOMAIN nodes : n[2] \notin disturbed /\ Known(n[2]) =>
        \A d \in Place \X Id :
            LET h      == n[1][1]
                orders == {i \in Pending(h, n[2], {"add", "remove"}) : inbox[h][i].dest = d}
            IN <<n[2], d>> \in wanted <=>
                  \/ orders = {} /\ d \in nodes[n]
                  \/ \E i \in orders : IsLast(i, orders) /\ inbox[h][i].op = "add"

(* Tokens, managers, modules and their routes fit each other, and ids stay *)
(* in range.                                                               *)
NodesInv == TypeOK /\ NodesAgree /\ RoutesAgree

(* The coordinator's process dies of a null pointer only when the          *)
(* application connects a module that is being deleted or was disturbed,   *)
(* or when a module reports that an earlier run of it created.             *)
CrashExplained ==
    /\ crash = "connect" =>
          {call.from, call.to} \intersect (doomed \union disturbed) # {}
    /\ crash = "info" => restarts > 0

(* A module that was made gets its token, unless it is deleted, disturbed, *)
(* or the coordinator has died.                                            *)
GetsToken ==
    \A id \in Id :
        (\E n \in DOMAIN nodes : n[2] = id)
            ~> Known(id) \/ id \in doomed \union disturbed \/ crash # "no"

(* A module ordered to be deleted goes away, and its token with it.        *)
Goes ==
    \A id \in Id : id \in doomed ~>
        \/ ~ Known(id) /\ \A n \in DOMAIN nodes : n[2] # id
        \/ id \in disturbed \/ crash # "no"

(* Coordinator.cpp:54, "if one was registered before, delete that module": *)
(* the order to delete goes to the manager of the module whose token has   *)
(* the id.                                                                 *)
EarlierModuleDeleted == \A r \in replaced : r.target = r.old

(* The TCP server threads keep running (thread_func). *)
FairSpec == Spec /\ WF_vars(Coordinate) /\ \A h \in Host \ {CoHost} : WF_vars(Manage(h))
=============================================================================
