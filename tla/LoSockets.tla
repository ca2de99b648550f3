------------------------------ MODULE LoSockets ------------------------------
(***************************************************************************)
(* Who opens, keeps and closes the sockets of liblo_new: servers           *)
(* (server.c) and their threads (server_thread.c), addresses (address.c)   *)
(* and sending (send.c), in a process that makes Server::Server and then   *)
(* calls the library as it likes.                                          *)
(*                                                                         *)
(* A descriptor is the lowest free number; the number of a socket that was *)
(* closed is soon that of another.  What the code keeps is the number:     *)
(* [fd, mine], mine as long as the socket it was given for has not been    *)
(* closed.  What an address says is LoAddress; memory is there, hosts are   *)
(* IPv4.  One step is a call of the library, or of one of its threads. *)
(***************************************************************************)
EXTENDS LoAddress

CONSTANTS Fd,               \* descriptors
          Servers, Addresses,
          Tries,            \* ports lo_server_new tries, 17
          Process           \* [todo: the servers Server::Server makes; does: the calls a program
                            \*  makes afterwards, at most calls; peers: connections that come]

VARIABLES
    process,
    net,     \* [file: what a descriptor is, client: lo_client_sockets, srv: servers, adr: addresses,
             \*  stranger: something was done to a descriptor that had become another's]
    threads, \* threads[s]: [active, own: it was made by lo_server_thread_new, made: st->thread,
             \*  at[k]: where the threads started for it are, now[k]: the socket of their message]
    main,    \* [pc, srv, free]: "runs", "spins" in Server::Server, "joins" srv to free it or not
    cause,   \* what happened so far that explains more
    fate     \* what must not happen

sockets == <<process, net, threads, main, cause, fate>>

None == [fd |-> -1, mine |-> TRUE]

Kind == {"udp", "listen", "unix", "stream", "gone", "other"}  \* "gone": the peer has closed it

(* struct _lo_address, struct _lo_server, lo_server_thread *)
AddressState == [proto : {"udp", "tcp", "unix"}, sock : [fd : Fd \union {-1}, mine : BOOLEAN], own : BOOLEAN]
ServerState == [proto : {"udp", "tcp", "unix"}, sockets : Seq([fd : Fd \union {-1}, mine : BOOLEAN]),
                sources : [Fd -> AddressState \union {NIL}]]
ThreadState == [active : BOOLEAN, own : BOOLEAN, made : 0 .. 2,
                at : [1 .. 2 -> {"off", "recv", "handler"}], now : [1 .. 2 -> Fd \union {-1}]]

ASSUME SocketAssumption ==
    /\ Fd \subseteq Nat \ {0} /\ Tries \in Nat \ {0}
    /\ NIL \notin Servers \union Kind /\ NIL \notin AddressState /\ NIL \notin ServerState
    /\ \A p \in Process : /\ p = [todo |-> p.todo, does |-> p.does, calls |-> p.calls, peers |-> p.peers]
                         /\ p.todo \in Seq({"udp", "tcp"})

NoThread == [active |-> FALSE, own |-> FALSE, made |-> 0,
             at |-> [k \in 1 .. 2 |-> "off"], now |-> [k \in 1 .. 2 |-> -1]]

SocketsInit ==
    /\ process \in Process
    /\ net = [file |-> [fd \in Fd |-> NIL], client |-> [udp |-> None, tcp |-> None],
              srv |-> [s \in Servers |-> NIL], adr |-> [a \in Addresses |-> NIL], stranger |-> FALSE]
    /\ threads = [s \in Servers |-> NoThread]
    /\ main = [pc |-> "runs", srv |-> NIL, free |-> FALSE]
    /\ cause = {} /\ fate = {}

-----------------------------------------------------------------------------
(* The kernel *)

FreeFd(n) == {fd \in Fd : n.file[fd] = NIL}
Lowest(n) == CHOOSE fd \in FreeFd(n) : \A other \in FreeFd(n) : fd <= other
NewSock(n) == IF FreeFd(n) = {} THEN None ELSE [fd |-> Lowest(n), mine |-> TRUE]
Opened(n, kind) == IF FreeFd(n) = {} THEN n ELSE [n EXCEPT !.file[Lowest(n)] = kind]

Usable(n, r) == r.fd # -1 /\ n.file[r.fd] # NIL
Touched(n, r) == [n EXCEPT !.stranger = @ \/ (Usable(n, r) /\ ~ r.mine)]

(* No number that is kept for a closed descriptor is right any more. *)
Forgotten(r, fd) == [r EXCEPT !.mine = @ /\ r.fd # fd]
AddressForgot(a, fd) == IF a = NIL THEN NIL ELSE [a EXCEPT !.sock = Forgotten(@, fd)]
ServerForgot(s, fd) ==
    IF s = NIL THEN NIL
    ELSE [s EXCEPT !.sockets = [i \in DOMAIN @ |-> Forgotten(@[i], fd)],
                   !.sources = [f \in Fd |-> AddressForgot(@[f], fd)]]

closesocket(n, r) ==
    IF ~ Usable(n, r) THEN n
    ELSE LET t == Touched(n, r) IN
         [t EXCEPT !.file[r.fd] = NIL,
                   !.client = [p \in DOMAIN @ |-> Forgotten(@[p], r.fd)],
                   !.adr = [a \in Addresses |-> AddressForgot(@[a], r.fd)],
                   !.srv = [s \in Servers |-> ServerForgot(@[s], r.fd)]]

-----------------------------------------------------------------------------
(* Servers: the outcomes of a call are [net, cause]; without a new server  *)
(* the call returned NULL.                                                *)

Outcome(n, c) == [net |-> n, cause |-> c]

Made(n, s, proto, kind) ==
    [Opened(n, kind) EXCEPT !.srv[s] = [proto |-> proto, sockets |-> <<NewSock(n)>>,
                                        sources |-> [fd \in Fd |-> NIL]]]

(* A path; the socket is closed when it cannot be bound. *)
NewUnix(n, s) == {Outcome(n, {})} \union
                 (IF FreeFd(n) = {} THEN {} ELSE {Outcome(Made(n, s, "unix", "unix"), {})})

KindOf(proto) == IF proto = "tcp" THEN "listen" ELSE "udp"

(* k times the port is in use: the socket is not closed before the next. *)
Tried(n, proto, k) ==
    LET v[i \in 0 .. k] == IF i = 0 THEN n ELSE Opened(v[i - 1], KindOf(proto)) IN v[k]

(* lo_server_join_multicast_group: when the interface is not found, the    *)
(* server is not freed, unlike after all other errors.                     *)
JoinFails(n, proto) == {Outcome(n, {}), Outcome(Opened(n, KindOf(proto)), {"interface"})}

(* listen; the newest server is what clients send from *)
Bound(n, s, proto) == [Made(n, s, proto, KindOf(proto)) EXCEPT !.client[proto] = NewSock(n)]

NewInet(n, s, proto, group) ==
    UNION {LET v == Tried(n, proto, k)
               c == IF k > 0 THEN {"ports"} ELSE {}
               ends == {Outcome(v, {})} \union
                       (IF FreeFd(v) = {} THEN {}
                        ELSE {Outcome(Bound(v, s, proto), {})} \union (IF group THEN JoinFails(v, proto) ELSE {}))
           IN {[o EXCEPT !.cause = @ \union c] : o \in ends}
           : k \in 0 .. Tries - 1}

ServerNew(n, s, proto, group) ==
    IF proto = "unix" THEN NewUnix(n, s) ELSE NewInet(n, s, proto, group)

(* The sockets of the server, the last one first *)
ServerFree(n, s) ==
    LET p == n.srv[s].proto
        list == n.srv[s].sockets
        shut(v, r) == closesocket([v EXCEPT !.client =
                           [q \in DOMAIN @ |-> IF q = p /\ r.fd = @[q].fd THEN None ELSE @[q]]], r)
        left[i \in 0 .. Len(list)] ==
            IF i = 0 THEN [n EXCEPT !.srv[s] = NIL] ELSE shut(left[i - 1], list[Len(list) - i + 1])
    IN left[Len(list)]

(* lo_address_copy, lo_address_init_with_sockaddr: the socket is not owned *)
Source(r) == [proto |-> "tcp", sock |-> r, own |-> FALSE]

(* lo_server_add_socket *)
AddSocket(n, s, r) ==
    [n EXCEPT !.srv[s].sockets = Append(@, r),
              !.srv[s].sources = [fd \in Fd |-> IF fd = r.fd THEN Source(r) ELSE @[fd]]]

(* lo_server_del_socket, which closes nothing *)
DelSocket(n, s, fd) ==
    LET at == {i \in DOMAIN n.srv[s].sockets : n.srv[s].sockets[i].fd = fd}
    IN IF fd = -1 \/ at = {} THEN n
       ELSE [n EXCEPT !.srv[s].sockets = RemoveAt(@, CHOOSE i \in at : \A j \in at : i <= j),
                      !.srv[s].sources[fd] = NIL]

-----------------------------------------------------------------------------
(* Addresses: one of the program, or the source of a message               *)

AddressAt(n, at) == IF at.srv = NIL THEN n.adr[at.key]
                    ELSE IF n.srv[at.srv] = NIL THEN NIL ELSE n.srv[at.srv].sources[at.key]
SetSock(n, at, r) == IF at.srv = NIL THEN [n EXCEPT !.adr[at.key].sock = r]
                     ELSE [n EXCEPT !.srv[at.srv].sources[at.key].sock = r]

AddressNew(n, a, proto) == [n EXCEPT !.adr[a] = [proto |-> proto, sock |-> None, own |-> TRUE]]

AddressFree(n, a) == LET v == IF n.adr[a].own THEN closesocket(n, n.adr[a].sock) ELSE n
                     IN [v EXCEPT !.adr[a] = NIL]

(* What a send ends with is [net, cause, sent]. *)
Sent(n, c, ok) == [net |-> n, cause |-> c, sent |-> ok]

(* create_socket: no descriptor, or no connection; or a socket, which is   *)
(* handed to the server the message is sent from.                          *)
CreateSocket(n, at, from) ==
    LET a == AddressAt(n, at)
        r == NewSock(n)
        v == SetSock(Opened(n, IF a.proto = "tcp" THEN "stream" ELSE a.proto), at, r)
        lent == from # NIL /\ a.proto = "tcp" /\ v.srv[from].sources[r.fd] = NIL
    IN {Sent(n, {}, FALSE)} \union
       (IF r = None THEN {}
        ELSE IF lent
             THEN LET u == AddSocket(v, from, r) IN
                  {Sent(IF at.srv = NIL THEN [u EXCEPT !.adr[at.key].own = FALSE] ELSE u, {"lent"}, TRUE)}
             ELSE {Sent(v, {}, TRUE)})

(* The end of send_data after an error: the source of a message that is    *)
(* also a socket of the server is cleared before it is closed.             *)
SendFailed(n, at, from) ==
    LET a == AddressAt(n, at)
        v == IF from = NIL THEN n ELSE DelSocket(n, from, a.sock.fd)
        b == AddressAt(v, at)
    IN IF a.proto # "tcp" THEN n
       ELSE IF b = NIL THEN v ELSE SetSock(closesocket(v, b.sock), at, None)

(* A socket whose peer has gone takes what is sent, or not; what is not    *)
(* connected, or not a datagram socket, does not.                          *)
Transfer(n, at, from) ==
    LET r == AddressAt(n, at).sock
        v == Touched(n, r)
        file == IF Usable(n, r) THEN n.file[r.fd] ELSE NIL
        works == file \in (IF AddressAt(n, at).proto = "udp" THEN {"udp"} ELSE {"stream", "gone"})
        c == IF at.srv = NIL THEN {} ELSE {"reply"}
    IN (IF ~ works \/ file = "gone" THEN {Sent(SendFailed(v, at, from), c, FALSE)} ELSE {})
       \union (IF works THEN {Sent(v, {}, TRUE)} ELSE {})

(* send_data: through the server's socket, the client socket or one of the *)
(* address's own                                                           *)
send_data(n, at, from) ==
    LET a == AddressAt(n, at) IN
    {Sent(n, {}, FALSE)} \union        \* it is too long, or the name cannot be resolved
    (IF a.proto = "udp" /\ (from # NIL \/ n.client.udp.fd # -1)
     THEN {Sent(Touched(n, IF from # NIL THEN n.srv[from].sockets[1] ELSE n.client.udp), {}, TRUE)}
     ELSE IF a.sock # None THEN Transfer(n, at, from)
     ELSE UNION {IF c.sent
                 THEN {[t EXCEPT !.cause = @ \union c.cause] : t \in Transfer(c.net, at, from)}
                 ELSE {c} : c \in CreateSocket(n, at, from)})

(* lo_send_message_from tries twice on TCP - the source that was cleared   *)
(* has no protocol any more; lo_send_bundle_from tries once.               *)
SendFrom(n, at, from, twice) ==
    UNION {IF o.sent \/ ~ twice \/ AddressAt(o.net, at) = NIL \/ AddressAt(n, at).proto # "tcp" THEN {o}
           ELSE {[t EXCEPT !.cause = @ \union o.cause] : t \in send_data(o.net, at, from)}
           : o \in send_data(n, at, from)}

-----------------------------------------------------------------------------
(* The program's threads: its main one, and those of the servers, which    *)
(* may call the library in a handler.                                      *)

(* What follows something done to another's descriptor is not looked at.   *)
MainRuns == main.pc = "runs" /\ process.todo = <<>> /\ ~ net.stranger
Calls(call) == call \in process.does /\ process.calls > 0 /\ process' = [process EXCEPT !.calls = @ - 1]
Alive == {s \in Servers : net.srv[s] # NIL}
Threaded == {s \in Servers : threads[s].own}

Becomes(o) == net' = o.net /\ cause' = cause \union o.cause

(* Server::Server: a thread each for "6340" and "6341"; without one it     *)
(* never returns.  Servers bounds how many there are.                      *)
Construct ==
    /\ main.pc = "runs" /\ process.todo # <<>> /\ Alive # Servers
    /\ process' = [process EXCEPT !.todo = Tail(@)]
    /\ LET s == CHOOSE s \in Servers : net.srv[s] = NIL IN
       \E o \in ServerNew(net, s, Head(process.todo), FALSE) :
          /\ Becomes(o)
          /\ IF o.net.srv[s] = NIL
             THEN main' = [main EXCEPT !.pc = "spins"] /\ UNCHANGED threads
             ELSE /\ threads' = [threads EXCEPT ![s] = [NoThread EXCEPT !.own = TRUE, !.active = TRUE,
                                                                       !.made = 1, !.at[1] = "recv"]]
                  /\ UNCHANGED main
    /\ UNCHANGED fate

(* lo_server_new, lo_server_thread_new and their relatives *)
NewServer(s, proto, group, own) ==
    /\ MainRuns /\ Calls("server") /\ s \notin Alive /\ threads[s] = NoThread
    /\ \E o \in ServerNew(net, s, proto, group) :
          /\ Becomes(o)
          /\ threads' = [threads EXCEPT ![s].own = own /\ o.net.srv[s] # NIL]
    /\ UNCHANGED <<main, fate>>

FreeServer(s) == /\ MainRuns /\ Calls("server") /\ s \in Alive \ Threaded
                 /\ net' = ServerFree(net, s)
                 /\ UNCHANGED <<threads, main, cause, fate>>

(* lo_server_thread_start: active stays set if there is no thread; a       *)
(* second one runs beside the first, if that has not seen active cleared.  *)
StartThread(s) ==
    /\ MainRuns /\ Calls("thread") /\ s \in Threaded \intersect Alive
    /\ IF threads[s].active THEN UNCHANGED <<threads, cause, fate>>
       ELSE \/ /\ threads' = [threads EXCEPT ![s].active = TRUE]
               /\ cause' = cause \union {"no thread"} /\ UNCHANGED fate
            \/ \E k \in 1 .. 2 :
                 /\ threads[s].at[k] = "off"
                 /\ threads' = [threads EXCEPT ![s] = [@ EXCEPT !.active = TRUE, !.made = k, !.at[k] = "recv"]]
                 /\ fate' = IF threads[s].at[3 - k] = "off" THEN fate ELSE fate \union {"two threads"}
                 /\ UNCHANGED cause
    /\ UNCHANGED <<net, main>>

(* Mutant: lo_server_thread_free does not wait for the thread. *)
StopThreadAtOnce(s, free) ==
    /\ MainRuns /\ Calls("thread") /\ s \in Threaded \intersect Alive
    /\ threads' = [threads EXCEPT ![s] = [@ EXCEPT !.active = FALSE, !.own = ~ free]]
    /\ IF free THEN net' = ServerFree(net, s) ELSE UNCHANGED net
    /\ UNCHANGED <<main, cause, fate>>

(* lo_server_thread_stop and lo_server_thread_free in the main thread:     *)
(* pthread_join waits if active was set, whatever thread was made, or none *)
StopThread(s, free) ==
    /\ MainRuns /\ Calls("thread") /\ s \in Threaded \intersect Alive
    /\ threads' = [threads EXCEPT ![s] = [@ EXCEPT !.active = FALSE, !.own = ~ (free /\ ~ threads[s].active)]]
    /\ IF ~ threads[s].active
       THEN /\ IF free THEN net' = ServerFree(net, s) ELSE UNCHANGED net
            /\ UNCHANGED <<main, fate>>
       ELSE /\ main' = [pc |-> "joins", srv |-> s, free |-> free]
            /\ fate' = IF threads[s].made = 0 THEN fate \union {"no thread joined"} ELSE fate
            /\ UNCHANGED net
    /\ UNCHANGED cause

Joined ==
    /\ main.pc = "joins"
    /\ LET s == main.srv  k == threads[s].made IN
       /\ k # 0 => threads[s].at[k] = "off"
       /\ threads' = [threads EXCEPT ![s] = [@ EXCEPT !.made = 0, !.own = ~ main.free]]
       /\ IF main.free /\ s \in Alive THEN net' = ServerFree(net, s) ELSE UNCHANGED net
       /\ fate' = IF s \in Alive THEN fate ELSE fate \union {"freed while it runs"}
    /\ main' = [main EXCEPT !.pc = "runs", !.srv = NIL, !.free = FALSE]
    /\ UNCHANGED <<process, cause>>

NewAddress(a, proto) == /\ MainRuns /\ Calls("address") /\ net.adr[a] = NIL
                        /\ net' = AddressNew(net, a, proto)
                        /\ UNCHANGED <<threads, main, cause, fate>>

FreeAddress(a) == /\ MainRuns /\ Calls("address") /\ net.adr[a] # NIL
                  /\ net' = AddressFree(net, a)
                  /\ UNCHANGED <<threads, main, cause, fate>>

(* In the main thread, from no server or one, a message or a bundle *)
SendMessage(a, from, twice) ==
    /\ MainRuns /\ Calls("send") /\ net.adr[a] # NIL /\ (from # NIL => from \in Alive)
    /\ \E o \in SendFrom(net, [srv |-> NIL, key |-> a], from, twice) : Becomes(o)
    /\ UNCHANGED <<threads, main, fate>>

(* The program opens something else. *)
OpenOther == /\ MainRuns /\ Calls("other") /\ FreeFd(net) # {}
             /\ net' = Opened(net, "other")
             /\ UNCHANGED <<threads, main, cause, fate>>

-----------------------------------------------------------------------------
(* Server threads *)

Runs(s, k) == threads[s].at[k] = "recv" /\ threads[s].active /\ s \in Alive /\ ~ net.stranger

PeerCloses(fd) == /\ net.file[fd] = "stream" /\ process.calls > 0
                  /\ net' = [net EXCEPT !.file[fd] = "gone"]
                  /\ UNCHANGED <<process, threads, main, cause, fate>>

(* recv_raw_stream: accept may find no descriptor, which makes it -1, the  *)
(* index of a source before the first.                                     *)
AcceptStream(s, k) ==
    /\ Runs(s, k) /\ net.srv[s].proto = "tcp" /\ process.peers > 0
    /\ process' = [process EXCEPT !.peers = @ - 1]
    /\ LET r == NewSock(net) IN
       /\ net' = AddSocket(Opened(net, "stream"), s, r)
       /\ fate' = IF r = None THEN fate \union {"source before the first"} ELSE fate
    /\ UNCHANGED <<threads, main, cause>>

(* The socket a server reads: of a TCP server, the oldest connection's. *)
Reading(s) == IF net.srv[s].proto # "tcp" THEN net.srv[s].sockets[1]
              ELSE IF Len(net.srv[s].sockets) > 1 THEN net.srv[s].sockets[2] ELSE None

(* A message comes; that of a stream has the source at its number. *)
Handle(s, k) ==
    /\ Runs(s, k)
    /\ LET r == Reading(s) IN
       /\ Usable(net, r) /\ net.file[r.fd] # "gone"
       /\ net' = Touched(net, r)
       /\ threads' = [threads EXCEPT ![s] = [@ EXCEPT !.at[k] = "handler", !.now[k] = IF net.srv[s].proto = "tcp" THEN r.fd ELSE -1]]
    /\ process.calls > 0
    /\ UNCHANGED <<process, main, cause, fate>>

(* The end of a stream: the number is closed and removed. *)
SocketEnds(s, k) ==
    /\ Runs(s, k) /\ net.srv[s].proto = "tcp"
    /\ LET r == Reading(s) IN
       /\ Usable(net, r) /\ net.file[r.fd] = "gone"
       /\ net' = DelSocket(closesocket(net, r), s, r.fd)
    /\ UNCHANGED <<process, threads, main, cause, fate>>

(* A handler answers: to the source of its message, from its server or     *)
(* without one.                                                            *)
Reply(s, k, from) ==
    /\ threads[s].at[k] = "handler" /\ s \in Alive /\ ~ net.stranger /\ Calls("reply")
    /\ LET fd == threads[s].now[k] IN
       /\ fd # -1 /\ net.srv[s].sources[fd] # NIL
       /\ \E o \in SendFrom(net, [srv |-> s, key |-> fd], from, TRUE) : Becomes(o)
    /\ UNCHANGED <<threads, main, fate>>

(* A handler stops its own thread, which cannot be joined, or frees it. *)
StopItself(s, k, free) ==
    /\ threads[s].at[k] = "handler" /\ s \in Alive /\ Calls("itself") /\ threads[s].active
    /\ threads' = [threads EXCEPT ![s] = [@ EXCEPT !.active = FALSE, !.own = ~ free]]
    /\ IF free THEN net' = ServerFree(net, s) ELSE UNCHANGED net
    /\ cause' = cause \union {"itself"}
    /\ UNCHANGED <<main, fate>>

(* The handler returns into the server; the loop ends when active is not   *)
(* set.                                                                    *)
ThreadGoesOn(s, k) ==
    /\ \/ threads[s].at[k] = "handler"
       \/ threads[s].at[k] = "recv" /\ (~ threads[s].active \/ s \notin Alive)
    /\ threads' = [threads EXCEPT ![s] = [@ EXCEPT !.now[k] = -1,
                      !.at[k] = IF threads[s].at[k] = "handler" /\ s \in Alive THEN "recv" ELSE "off"]]
    /\ fate' = IF s \in Alive THEN fate ELSE fate \union {"freed while it runs"}
    /\ UNCHANGED <<process, net, main, cause>>

MainThread ==
    \/ Construct \/ Joined \/ OpenOther
    \/ \E s \in Servers : \/ \E proto \in {"udp", "tcp", "unix"}, group, own \in BOOLEAN : NewServer(s, proto, group, own)
                          \/ FreeServer(s) \/ StartThread(s)
                          \/ \E free \in BOOLEAN : StopThread(s, free)
    \/ \E a \in Addresses : \/ \E proto \in {"udp", "tcp"} : NewAddress(a, proto)
                            \/ FreeAddress(a)
                            \/ \E from \in Servers \union {NIL}, twice \in BOOLEAN : SendMessage(a, from, twice)

ServerThreads == \E s \in Servers, k \in 1 .. 2 :
    \/ AcceptStream(s, k) \/ Handle(s, k) \/ SocketEnds(s, k) \/ ThreadGoesOn(s, k)
    \/ \E from \in {s, NIL} : Reply(s, k, from)
    \/ \E free \in BOOLEAN : StopItself(s, k, free)

SocketsNext == MainThread \/ ServerThreads \/ \E fd \in Fd : PeerCloses(fd)

-----------------------------------------------------------------------------
SocketsTypeOK ==
    /\ net.file \in [Fd -> Kind \union {NIL}]
    /\ \A s \in Alive : net.srv[s] \in ServerState
    /\ \A a \in Addresses : net.adr[a] = NIL \/ net.adr[a] \in AddressState
    /\ threads \in [Servers -> ThreadState]
    /\ main.pc \in {"runs", "spins", "joins"}

(* Open sockets nobody can close any more *)
KeptBy(s) == {r.fd : r \in {x \in ToSet(net.srv[s].sockets) : x.mine}}
Kept == (UNION {KeptBy(s) : s \in Alive})
        \union {net.adr[a].sock.fd : a \in {b \in Addresses : net.adr[b] # NIL /\ net.adr[b].own
                                                              /\ net.adr[b].sock.mine}}
Leaked == {fd \in Fd : net.file[fd] \notin {NIL, "other"} /\ fd \notin Kept}

(* A socket is closed by whoever keeps it, once, and nothing is done to a  *)
(* descriptor that has become another's, unless an address gave its socket *)
(* to a server or a handler's answer failed.  Sockets are lost in these    *)
(* two ways, with each port that was in use, and with an interface that    *)
(* was not found.                                                          *)
SocketsKept == /\ net.stranger => cause \intersect {"lent", "reply"} # {}
               /\ Leaked # {} => cause \intersect {"lent", "reply", "ports", "interface"} # {}

(* UDP is sent from a live UDP server's socket, the newest one's. *)
ClientSocket ==
    ~ net.stranger /\ net.client.udp # None
    => \E s \in Alive : net.srv[s].proto = "udp" /\ net.srv[s].sockets[1] = net.client.udp

(* No thread runs in a server that is freed, and no two in one, unless a   *)
(* handler stopped its own thread, which is never joined; a thread that is *)
(* joined was made, unless starting it failed.                             *)
ThreadsEnd == /\ fate \intersect {"freed while it runs", "two threads"} # {} => "itself" \in cause
              /\ "no thread joined" \in fate => "no thread" \in cause

SocketsInv == SocketsTypeOK /\ SocketsKept /\ ClientSocket /\ ThreadsEnd
==============================================================================
