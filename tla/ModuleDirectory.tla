--------------------------- MODULE ModuleDirectory ---------------------------
(***************************************************************************)
(* How a coordinator's ModuleList learns of the module managers: whichever *)
(* starts first.  A manager that starts broadcasts an announcement three   *)
(* times; a list that starts broadcasts a request three times, which a     *)
(* manager answers with an announcement over TCP.                          *)
(*                                                                         *)
(* Two threads of a machine with managers matter: its main thread, which   *)
(* starts them one by one, and its UDP thread, which answers requests; two *)
(* of a coordinator: its UDP and TCP threads, which both add to mList.     *)
(* Datagrams are lost at most MaxLost times, arrive in any order; TCP      *)
(* messages come as TcpInbox says.                                         *)
(***************************************************************************)
EXTENDS Naturals, Sequences

CONSTANTS Co,          \* coordinators
          Machine,     \* machines with managers
          Managers,    \* Managers[m]: paths of its managers as main starts them
          Copies,      \* times a broadcast is sent, 3 in the code
          MaxLost,     \* bound: datagrams the network loses
          Nothing

Threads     == {"udp", "tcp"}
ManagerPath == UNION {{Managers[m][k] : k \in 1 .. Len(Managers[m])} : m \in Machine}
Mgr         == UNION {{<<m, Managers[m][k]>> : k \in 1 .. Len(Managers[m])} : m \in Machine}
ListEntry   == [ip : Machine, osc : ManagerPath, tID : Nat]

ASSUME DirectoryAssumption ==
    /\ \A m \in Machine : Managers[m] \in Seq(ManagerPath)
    /\ Copies \in Nat /\ MaxLost \in Nat

VARIABLES
    main,      \* [k, step]: which manager the main thread starts, and where it is
    walk,      \* [k, step, from]: the request its UDP thread is answering
    local,     \* ModuleManager: answer over TCP
    CoIP,      \* ModuleManager: the coordinator to answer to
    crashed,   \* machines whose process followed a null pointer
    co,        \* ModuleList: "down", "up" (methods registered), "asked"
    mList,
    inbox,     \* TCP messages the coordinator has not handled
    adding,    \* the entry a thread is about to push, or Nothing
    asks, news, \* copies of requests and announcements in the air
    losses,
    \* what the properties need to know of the past
    overlap,   \* coordinators whose two threads were adding at one time
    excused    \* <<coordinator, manager>>: an announcement that went astray

machine == <<main, walk, local, CoIP, crashed>>
lists   == <<co, mList, inbox, adding, overlap>>
directory == <<machine, lists, asks, news, losses, excused>>

Running(m) == m \notin crashed
Started(m) == main[m].k > Len(Managers[m])
Current(m) == <<m, Managers[m][main[m].k]>>
Methods(m) == IF main[m].step = "init" THEN main[m].k - 1 ELSE main[m].k

(* setMInfo has set the manager's information. *)
Informed(m, k) == k < main[m].k \/ (k = main[m].k /\ main[m].step = "announce")

DirectoryTypeOK ==
    /\ \A m \in Machine : /\ main[m].k \in 1 .. Len(Managers[m]) + 1
                          /\ main[m].step \in {"init", "local", "info", "announce"}
                          /\ walk[m] = Nothing \/ walk[m].k \in 1 .. Len(Managers[m])
    /\ local \in [Mgr -> BOOLEAN] /\ CoIP \in [Mgr -> Co \union {Nothing}]
    /\ crashed \subseteq Machine
    /\ co \in [Co -> {"down", "up", "asked"}]
    /\ mList \in [Co -> Seq(ListEntry)]
    /\ adding \in [Co \X Threads -> ListEntry \union {Nothing}]
    /\ asks \in [Co \X Machine -> 0 .. Copies]
    /\ losses \in 0 .. MaxLost

DirectoryInit ==
    /\ main = [m \in Machine |-> [k |-> 1, step |-> "init"]]
    /\ walk = [m \in Machine |-> Nothing]
    /\ local = [g \in Mgr |-> FALSE] /\ CoIP = [g \in Mgr |-> Nothing]
    /\ crashed = {}
    /\ co = [c \in Co |-> "down"]
    /\ mList = [c \in Co |-> <<>>] /\ inbox = [c \in Co |-> <<>>]
    /\ adding = [t \in Co \X Threads |-> Nothing]
    /\ asks = [x \in Co \X Machine |-> 0] /\ news = [x \in Co \X Mgr |-> 0]
    /\ losses = 0 /\ overlap = {} /\ excused = {}

-----------------------------------------------------------------------------
(* sendModuleList: over TCP to CoIP, or broadcast.                         *)

Unicast(g) ==
    /\ local[g] /\ CoIP[g] # Nothing
    /\ inbox' = [inbox EXCEPT ![CoIP[g]] = Append(@, g)]
    /\ UNCHANGED news

Broadcast(g) ==
    /\ ~ local[g]
    /\ news' = [x \in Co \X Mgr |-> IF x[2] = g THEN news[x] + Copies ELSE news[x]]
    /\ UNCHANGED inbox

sendModuleList(g) == Unicast(g) \/ Broadcast(g)

-----------------------------------------------------------------------------
(* The main thread of a machine: init, then setMInfo, of each manager.     *)

Step(m, from, to) ==
    /\ Running(m) /\ ~ Started(m) /\ main[m].step = from
    /\ main' = [main EXCEPT ![m].step = to]

(* ModuleManager::init: the method for requests is there from now on. *)
InitManager(m) ==
    /\ Step(m, "init", "local")
    /\ local' = [local EXCEPT ![Current(m)] = TRUE]
    /\ CoIP' = [CoIP EXCEPT ![Current(m)] = Nothing]
    /\ UNCHANGED <<walk, crashed, lists, asks, news, losses, excused>>

ClearLocal(m) ==
    /\ Step(m, "local", "info")
    /\ local' = [local EXCEPT ![Current(m)] = FALSE]
    /\ UNCHANGED <<walk, CoIP, crashed, lists, asks, news, losses, excused>>

(* setMInfo: inInfo, outInfo and the icon. *)
SetInfo(m) ==
    /\ Step(m, "info", "announce")
    /\ UNCHANGED <<walk, local, CoIP, crashed, lists, asks, news, losses, excused>>

(* The announcement is for everyone, but goes to one coordinator if the    *)
(* UDP thread happens to be answering it.                                  *)
Announce(m) ==
    LET g == Current(m) IN
    /\ Running(m) /\ ~ Started(m) /\ main[m].step = "announce"
    /\ sendModuleList(g)
    /\ excused' = IF local[g] THEN excused \union {<<c, g>> : c \in Co \ {CoIP[g]}}
                              ELSE excused
    /\ main' = [main EXCEPT ![m] = [k |-> main[m].k + 1, step |-> "init"]]
    /\ UNCHANGED <<walk, local, CoIP, crashed, co, mList, adding, overlap, asks, losses>>

-----------------------------------------------------------------------------
(* The UDP thread of a machine: the request goes to the requestML of every *)
(* manager in the method list, as each returns 1.                          *)

NextMethod(m, k) == IF k < Methods(m)
               THEN [walk EXCEPT ![m].k = k + 1, ![m].step = "set"]
               ELSE [walk EXCEPT ![m] = Nothing]

Receive(m, c) ==
    /\ Running(m) /\ walk[m] = Nothing /\ asks[<<c, m>>] > 0
    /\ asks' = [asks EXCEPT ![<<c, m>>] = @ - 1]
    /\ walk' = IF Methods(m) = 0 THEN walk
               ELSE [walk EXCEPT ![m] = [k |-> 1, step |-> "set", from |-> c]]
    /\ UNCHANGED <<main, local, CoIP, crashed, lists, news, losses, excused>>

At(m, step) == Running(m) /\ walk[m] # Nothing /\ walk[m].step = step
Asked(m)    == <<m, Managers[m][walk[m].k]>>

(* requestML: CoIP and local ... *)
SetCoIP(m) ==
    /\ At(m, "set")
    /\ CoIP' = [CoIP EXCEPT ![Asked(m)] = walk[m].from]
    /\ local' = [local EXCEPT ![Asked(m)] = TRUE]
    /\ walk' = [walk EXCEPT ![m].step = "send"]
    /\ UNCHANGED <<main, crashed, lists, asks, news, losses, excused>>

(* ... sendModuleList, which needs what setMInfo sets ...                  *)
Answer(m) ==
    /\ At(m, "send") /\ Informed(m, walk[m].k)
    /\ sendModuleList(Asked(m))
    /\ walk' = [walk EXCEPT ![m].step = "unset"]
    /\ UNCHANGED <<main, local, CoIP, crashed, co, mList, adding, overlap, asks, losses,
                   excused>>

AnswerTooEarly(m) ==
    /\ At(m, "send") /\ ~ Informed(m, walk[m].k)
    /\ crashed' = crashed \union {m}
    /\ UNCHANGED <<main, walk, local, CoIP, lists, asks, news, losses, excused>>

(* Mutant: requestML returns 0, and dispatch_method stops there. *)
UnsetLocalLast(m) ==
    /\ At(m, "unset")
    /\ local' = [local EXCEPT ![Asked(m)] = FALSE]
    /\ walk' = [walk EXCEPT ![m] = Nothing]
    /\ UNCHANGED <<main, CoIP, crashed, lists, asks, news, losses, excused>>

(* ... and local again. *)
UnsetLocal(m) ==
    /\ At(m, "unset")
    /\ local' = [local EXCEPT ![Asked(m)] = FALSE]
    /\ walk' = NextMethod(m, walk[m].k)
    /\ UNCHANGED <<main, CoIP, crashed, lists, asks, news, losses, excused>>

-----------------------------------------------------------------------------
(* A coordinator: ModuleList registers its methods, then asks.             *)

ListUp(c) ==
    /\ co[c] = "down"
    /\ co' = [co EXCEPT ![c] = "up"]
    /\ UNCHANGED <<machine, mList, inbox, adding, overlap, asks, news, losses, excused>>

requestML(c) ==
    /\ co[c] = "up"
    /\ co' = [co EXCEPT ![c] = "asked"]
    /\ asks' = [x \in Co \X Machine |-> IF x[1] = c THEN asks[x] + Copies ELSE asks[x]]
    /\ UNCHANGED <<machine, mList, inbox, adding, overlap, news, losses, excused>>

Listed(c, ip, osc) ==
    \E i \in 1 .. Len(mList[c]) : mList[c][i].ip = ip /\ mList[c][i].osc = osc

(* Mutant: the index of the entry is counted from one. *)
AddFromOne(c, t, ip, osc) ==
    adding' = IF Listed(c, ip, osc) THEN adding
              ELSE [adding EXCEPT ![<<c, t>>] =
                       [ip |-> ip, osc |-> osc, tID |-> Len(mList[c]) + 1]]

(* setMList and setMListTCP: look for the entry and count ...              *)
Add(c, t, ip, osc) ==
    adding' = IF Listed(c, ip, osc) THEN adding
              ELSE [adding EXCEPT ![<<c, t>>] =
                       [ip |-> ip, osc |-> osc, tID |-> Len(mList[c])]]

(* ... in the UDP thread, which knows the sender; ModuleList not up, there *)
(* is no method for it;                                                    *)
setMList(c, g) ==
    /\ news[<<c, g>>] > 0 /\ adding[<<c, "udp">>] = Nothing
    /\ news' = [news EXCEPT ![<<c, g>>] = @ - 1]
    /\ IF co[c] = "down" THEN UNCHANGED adding ELSE Add(c, "udp", g[1], g[2])
    /\ UNCHANGED <<machine, co, mList, inbox, overlap, asks, losses, excused>>

(* in the TCP thread, which may be told another sender;                    *)
setMListTCP(c) ==
    LET q == inbox[c]
        g == Head(q) IN
    /\ q # <<>> /\ adding[<<c, "tcp">>] = Nothing
    /\ inbox' = [inbox EXCEPT ![c] = Tail(q)]
    /\ \E i \in 1 .. Len(q) :
          /\ Add(c, "tcp", q[i][1], g[2])
          /\ excused' = IF q[i][1] = g[1] THEN excused ELSE excused \union {<<c, g>>}
    /\ UNCHANGED <<machine, co, mList, overlap, asks, news, losses>>

(* ... and push_back. *)
PushBack(c, t) ==
    /\ adding[<<c, t>>] # Nothing
    /\ mList' = [mList EXCEPT ![c] = Append(@, adding[<<c, t>>])]
    /\ adding' = [adding EXCEPT ![<<c, t>>] = Nothing]
    /\ overlap' = IF \E u \in Threads \ {t} : adding[<<c, u>>] # Nothing
                  THEN overlap \union {c} ELSE overlap
    /\ UNCHANGED <<machine, co, inbox, asks, news, losses, excused>>

-----------------------------------------------------------------------------
(* The network.                                                            *)

LoseDatagram ==
    /\ losses < MaxLost /\ losses' = losses + 1
    /\ \/ /\ \E x \in Co \X Machine : asks[x] > 0 /\ asks' = [asks EXCEPT ![x] = @ - 1]
          /\ UNCHANGED news
       \/ /\ \E x \in Co \X Mgr : news[x] > 0 /\ news' = [news EXCEPT ![x] = @ - 1]
          /\ UNCHANGED asks
    /\ UNCHANGED <<machine, lists, excused>>

LoseTCP(c) ==
    /\ Len(inbox[c]) >= 2
    /\ excused' = excused \union {<<c, Head(inbox[c])>>}
    /\ inbox' = [inbox EXCEPT ![c] = Tail(@)]
    /\ UNCHANGED <<machine, co, mList, adding, overlap, asks, news, losses>>

Main(m)     == InitManager(m) \/ ClearLocal(m) \/ SetInfo(m) \/ Announce(m)
UDP(m)      == \/ \E c \in Co : Receive(m, c)
               \/ SetCoIP(m) \/ Answer(m) \/ AnswerTooEarly(m) \/ UnsetLocal(m)
CoUDP(c)    == (\E g \in Mgr : setMList(c, g)) \/ PushBack(c, "udp")
CoTCP(c)    == setMListTCP(c) \/ PushBack(c, "tcp")
CoMain(c)   == ListUp(c) \/ requestML(c)

DirectoryNext ==
    \/ \E m \in Machine : Main(m) \/ UDP(m)
    \/ \E c \in Co : CoMain(c) \/ CoUDP(c) \/ CoTCP(c) \/ LoseTCP(c)
    \/ LoseDatagram

DirectorySpec == DirectoryInit /\ [][DirectoryNext]_directory

(* Threads keep running; a coordinator need not be started. *)
FairSpec ==
    /\ DirectorySpec
    /\ \A m \in Machine : WF_directory(Main(m)) /\ WF_directory(UDP(m))
    /\ \A c \in Co : WF_directory(requestML(c)) /\ WF_directory(CoUDP(c)) /\ WF_directory(CoTCP(c))

-----------------------------------------------------------------------------
Positions(c) == 1 .. Len(mList[c])

(* The list names every manager once, and tID is the index into the list   *)
(* that ModuleList.cpp:46 says it is, as long as its two threads have not  *)
(* been adding to it at one time.                                          *)
IndexUnlessOverlap ==
    \A c \in Co \ overlap : \A i, j \in Positions(c) :
        /\ mList[c][i].tID = i - 1
        /\ i # j => <<mList[c][i].ip, mList[c][i].osc>> # <<mList[c][j].ip, mList[c][j].osc>>

(* The process of a machine dies of a request only while its main thread   *)
(* is between the registration of a manager and the manager's information. *)
CrashWhileStarting ==
    \A m \in crashed : ~ Started(m) /\ main[m].step \in {"local", "info"}

(* Lists are indexed right unless their threads overlapped, and no process *)
(* dies but while it starts a manager.                                     *)
ListInv == DirectoryTypeOK /\ IndexUnlessOverlap /\ CrashWhileStarting

(* Whichever starts first, and though two of the three copies be lost: a   *)
(* list that asks comes to hold every manager, unless the machine died or  *)
(* the announcement went to another coordinator or astray.                 *)
Discovered ==
    \A c \in Co, g \in Mgr :
        co[c] = "asked" ~> Listed(c, g[1], g[2]) \/ g[1] \in crashed \/ <<c, g>> \in excused
=============================================================================
