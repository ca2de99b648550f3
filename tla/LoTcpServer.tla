---------------------------- MODULE LoTcpServer ----------------------------
(***************************************************************************)
(* The TCP side of liblo_new/server.c as MITAI's TCP server thread runs    *)
(* it: lo_server_wait accepts connections, lo_server_recv polls and calls  *)
(* lo_server_recv_raw_stream, which reads one socket into its buffer and   *)
(* cuts length-prefixed messages out of it.  Every lo_send to the server   *)
(* opens a connection of its own (send.c), sends a length and then a body, *)
(* and closes it; a client may also die half-way.                          *)
(*                                                                         *)
(* A message is two parts, its length and its body; part k of connection c *)
(* is <<c, k>>, and message m of c is the parts 2m-1 and 2m.  The SLIP     *)
(* framing no client of MITAI asks for and the bundle queue (which leaves  *)
(* the poll timeouts alone while it is empty) are left out.                *)
(***************************************************************************)
EXTENDS Naturals, Sequences, FiniteSets

CONSTANTS Conn,      \* connections clients open
          Host,      \* machines
          From,      \* From[c]: the machine that opens c
          NMsg,      \* NMsg[c]: messages it means to send
          NULL

(* send_data connects when it has a message to send. *)
ASSUME ClientAssumption == From \in [Conn -> Host] /\ NMsg \in [Conn -> Nat \ {0}]
ASSUME FiniteAssumption == IsFiniteSet(Conn)

VARIABLES
    stage,      \* client: "new", "open", "closed"
    sent,       \* client: parts written to the connection
    got,        \* parts of it the server's recv() returned
    backlog,    \* connections the listening socket has not accepted
    sockets,    \* s->sockets[1..]; s->sockets[0] is the listening socket
    buffer,     \* s->contexts[1..].buffer
    addr,       \* s->addr
    errno,      \* of the server thread
    pc,         \* where the server thread is
    ready,      \* revents of the last poll in recv_raw_stream
    data,       \* the message cut out of a buffer
    delivered,  \* [msg, addr]: messages dispatched, and s->addr meanwhile
    lost        \* messages cut out of a buffer and dropped

client == <<stage, sent>>
vars == <<client, got, backlog, sockets, buffer, addr, errno, pc, ready, data,
          delivered, lost>>

Part      == Conn \X (Nat \ {0})
Listener  == 0
Last(seq) == seq[Len(seq)]
Open      == 1 .. Len(sockets)
Accepted  == {sockets[i] : i \in Open}
InBacklog == {backlog[i] : i \in 1 .. Len(backlog)}

(* poll() reports unread parts and the end of the stream. *)
Readable(c) == sent[c] > got[c] \/ stage[c] = "closed"
Revents     == {i \in Open : Readable(sockets[i])}
                 \union (IF backlog # <<>> THEN {Listener} ELSE {})

(* lo_server_buffer_contains_msg *)
containsMsg(i) == Len(buffer[i]) >= 2
Waiting == {i \in Open : containsMsg(i)}

TypeOK ==
    /\ stage \in [Conn -> {"new", "open", "closed"}]
    /\ sent \in [Conn -> Nat] /\ got \in [Conn -> Nat]
    /\ backlog \in Seq(Conn) /\ sockets \in Seq(Conn)
    /\ buffer \in Seq(Seq(Part)) /\ Len(buffer) = Len(sockets)
    /\ addr \in Host \union {NULL}
    /\ errno \in {"other", "EAGAIN"}
    /\ pc \in {"wait", "recv", "raw", "scan1", "scan0", "dispatch"}
    /\ ready \subseteq 0 .. Cardinality(Conn)
    /\ data \in Seq(Part)
    /\ \A d \in {delivered[i] : i \in 1 .. Len(delivered)} :
          d.msg \in Seq(Part) /\ d.addr \in Host
    /\ lost \in SUBSET Seq(Part)

Init ==
    /\ stage = [c \in Conn |-> "new"]
    /\ sent = [c \in Conn |-> 0] /\ got = [c \in Conn |-> 0]
    /\ backlog = <<>> /\ sockets = <<>> /\ buffer = <<>>
    /\ addr = NULL /\ errno = "other"
    /\ pc = "wait" /\ ready = {} /\ data = <<>>
    /\ delivered = <<>> /\ lost = {}

-----------------------------------------------------------------------------
(* Clients: create_socket connects, send_data writes the length and the    *)
(* body, lo_address_free closes; a crash closes earlier.                   *)

server == <<got, sockets, buffer, addr, errno, pc, ready, data, delivered, lost>>

Connect(c) ==
    /\ stage[c] = "new"
    /\ stage' = [stage EXCEPT ![c] = "open"]
    /\ backlog' = Append(backlog, c)
    /\ UNCHANGED <<sent, server>>

SendPart(c) ==
    /\ stage[c] = "open" /\ sent[c] < 2 * NMsg[c]
    /\ sent' = [sent EXCEPT ![c] = @ + 1]
    /\ UNCHANGED <<stage, backlog, server>>

Close(c) ==
    /\ stage[c] = "open"
    /\ stage' = [stage EXCEPT ![c] = "closed"]
    /\ UNCHANGED <<sent, backlog, server>>

-----------------------------------------------------------------------------
(* Mutant: the new socket goes to the front of the array. *)
AcceptFirst ==
    /\ backlog # <<>>
    /\ sockets' = <<Head(backlog)>> \o sockets
    /\ buffer'  = << <<>> >> \o buffer
    /\ addr'    = From[Head(backlog)]
    /\ backlog' = Tail(backlog)

(* Mutant: accept is not given s->addr once it is set. *)
AcceptKeepsAddr ==
    /\ backlog # <<>>
    /\ sockets' = Append(sockets, Head(backlog))
    /\ buffer'  = Append(buffer, <<>>)
    /\ addr'    = IF addr = NULL THEN From[Head(backlog)] ELSE addr
    /\ backlog' = Tail(backlog)

(* accept(), lo_server_add_socket, init_context; accept stores the peer in *)
(* s->addr.                                                                *)
Accept ==
    /\ backlog # <<>>
    /\ sockets' = Append(sockets, Head(backlog))
    /\ buffer'  = Append(buffer, <<>>)
    /\ addr'    = From[Head(backlog)]
    /\ backlog' = Tail(backlog)

(* lo_server_wait polls again after each connection it accepted. *)
WaitAccept ==
    /\ pc = "wait" /\ Waiting = {}
    /\ Accept
    /\ UNCHANGED <<client, got, errno, pc, ready, data, delivered, lost>>

(* ... and returns 1 once a message is buffered or a socket readable; when *)
(* its timeout ends first, thread_func only calls it again.                *)
WaitReady ==
    /\ pc = "wait"
    /\ Waiting # {} \/ (backlog = <<>> /\ Revents # {})
    /\ pc' = "recv"
    /\ UNCHANGED <<client, got, backlog, sockets, buffer, addr, errno, ready,
                   data, delivered, lost>>

(* What recv_raw_stream held in data is overwritten when it starts again.  *)
Overwrite == lost' = IF data = <<>> THEN lost ELSE lost \union {data}

(* lo_server_buffer_copy_for_dispatch: the first message of a buffer.      *)
Cut(i) ==
    /\ data' = SubSeq(buffer[i], 1, 2)
    /\ buffer' = [buffer EXCEPT ![i] = SubSeq(@, 3, Len(@))]
    /\ pc' = "dispatch"

(* lo_server_recv and recv_raw_stream look for a whole message first. *)
Buffered ==
    /\ pc \in {"recv", "raw"}
    /\ \E i \in Waiting : (\A j \in Waiting : i <= j) /\ Cut(i)
    /\ Overwrite
    /\ UNCHANGED <<client, got, backlog, sockets, addr, errno, ready, delivered>>

RecvPoll ==
    /\ pc = "recv" /\ Waiting = {} /\ Revents # {}
    /\ pc' = "raw"
    /\ UNCHANGED <<client, got, backlog, sockets, buffer, addr, errno, ready,
                   data, delivered, lost>>

(* The loop over the sockets starts at (sockets_len - 1) && !data: at 1 or *)
(* at 0, never higher.                                                     *)
RawPoll ==
    /\ pc = "raw" /\ Waiting = {} /\ Revents # {}
    /\ ready' = Revents
    /\ Overwrite
    /\ data' = <<>>
    /\ pc' = IF sockets # <<>> THEN "scan1" ELSE "scan0"
    /\ UNCHANGED <<client, got, backlog, sockets, buffer, addr, errno, delivered>>

-----------------------------------------------------------------------------
(* lo_server_recv_raw_stream_socket on s->sockets[1].                      *)

SkipSocket ==
    /\ pc = "scan1" /\ 1 \notin ready
    /\ pc' = "scan0"
    /\ UNCHANGED <<client, got, backlog, sockets, buffer, addr, errno, ready,
                   data, delivered, lost>>

(* recv() returns some of the parts there are.  Without a whole message it *)
(* is called again for as long as it fills the buffer, so that it stops    *)
(* there only when nothing is left to read; a last call that finds nothing *)
(* sets errno, or sees the end of the stream (EndOfStream).                *)
ReadSocket ==
    LET c == sockets[1] IN
    /\ pc = "scan1" /\ 1 \in ready
    /\ \E n \in 1 .. sent[c] - got[c] :
        LET read == buffer[1] \o [k \in 1 .. n |-> <<c, got[c] + k>>] IN
        /\ got' = [got EXCEPT ![c] = @ + n]
        /\ \/ /\ Len(read) >= 2
              /\ data' = SubSeq(read, 1, 2)
              /\ buffer' = [buffer EXCEPT ![1] = SubSeq(read, 3, Len(read))]
              /\ UNCHANGED errno
           \/ /\ Len(read) < 2 /\ got'[c] = sent[c]
              /\ buffer' = [buffer EXCEPT ![1] = read]
              /\ errno' \in {errno} \union (IF stage[c] = "open" THEN {"EAGAIN"} ELSE {})
              /\ UNCHANGED data
    /\ pc' = "scan0"
    /\ UNCHANGED <<client, backlog, sockets, addr, ready, delivered, lost>>

(* Mutant: the socket leaves the array, its context stays. *)
delSocketOnly ==
    /\ sockets' = Tail(sockets)
    /\ buffer' = SubSeq(buffer, 1, Len(buffer) - 1)

(* lo_server_del_socket(s, 1): the sockets move down; the contexts do not, *)
(* the removed one is zeroed and the last falls out of use.                *)
delSocket ==
    /\ sockets' = Tail(sockets)
    /\ buffer' = SubSeq([buffer EXCEPT ![1] = <<>>], 1, Len(buffer) - 1)

(* Mutant: the end of the stream is not acted upon. *)
EndOfStreamIgnored ==
    LET c == sockets[1] IN
    /\ pc = "scan1" /\ 1 \in ready
    /\ stage[c] = "closed" /\ got[c] = sent[c]
    /\ pc' = "scan0"
    /\ UNCHANGED <<client, got, sockets, buffer, backlog, addr, errno, ready, data,
                   delivered, lost>>

(* recv() returned 0.  It does not set errno, yet errno decides whether    *)
(* the socket goes.                                                        *)
EndOfStream ==
    LET c == sockets[1] IN
    /\ pc = "scan1" /\ 1 \in ready
    /\ stage[c] = "closed" /\ got[c] = sent[c]
    /\ IF errno = "EAGAIN" THEN UNCHANGED <<sockets, buffer>> ELSE delSocket
    /\ pc' = "scan0"
    /\ UNCHANGED <<client, got, backlog, addr, errno, ready, data, delivered, lost>>

(* The listening socket comes last: a new connection sends the thread back *)
(* to poll, whatever it holds in data.                                     *)
RawAccept ==
    /\ pc = "scan0" /\ Listener \in ready
    /\ Accept
    /\ pc' = "raw"
    /\ UNCHANGED <<client, got, errno, ready, data, delivered, lost>>

(* Without a message lo_server_recv returns 0 and the thread waits again.  *)
RawReturn ==
    /\ pc = "scan0" /\ Listener \notin ready
    /\ pc' = IF data # <<>> THEN "dispatch" ELSE "wait"
    /\ ready' = {}
    /\ UNCHANGED <<client, got, backlog, sockets, buffer, addr, errno, data,
                   delivered, lost>>

(* dispatch_data: the handler asks lo_server_get_addr who sent the         *)
(* message, and leaves its own errno behind.                               *)
Dispatch ==
    /\ pc = "dispatch"
    /\ delivered' = Append(delivered, [msg |-> data, addr |-> addr])
    /\ data' = <<>>
    /\ errno' \in {errno, "other"}
    /\ ready' = {}
    /\ pc' = "wait"
    /\ UNCHANGED <<client, got, backlog, sockets, buffer, addr, lost>>

-----------------------------------------------------------------------------
Client == \E c \in Conn : Connect(c) \/ SendPart(c) \/ Close(c)
Server == \/ WaitAccept \/ WaitReady \/ Buffered \/ RecvPoll \/ RawPoll
          \/ SkipSocket \/ ReadSocket \/ EndOfStream
          \/ RawAccept \/ RawReturn \/ Dispatch
Next   == Client \/ Server

Spec     == Init /\ [][Next]_vars
(* The server thread keeps running (thread_func).  Every client closes its *)
(* connection: lo_address_free follows lo_send, and the kernel closes for  *)
(* a dead process.                                                         *)
FairSpec == Spec /\ WF_vars(Server) /\ \A c \in Conn : WF_vars(Close(c))

-----------------------------------------------------------------------------
(* Parts of c that left the buffers in messages. *)
Cuts == lost \union {delivered[i].msg : i \in 1 .. Len(delivered)}
             \union (IF data = <<>> THEN {} ELSE {data})
TakenOf(c) == 2 * Cardinality({m \in Cuts : m[1][1] = c})

(* However the stream is chopped, whenever sockets come and go: the buffer *)
(* of a socket holds exactly the next unread parts of its own connection,  *)
(* and no buffer behind the first has any, so that contexts which do not   *)
(* move with their sockets do no harm.                                     *)
StreamConserved ==
    /\ \A c \in Accepted \union InBacklog :
          c # Head(sockets \o backlog) => got[c] = TakenOf(c)
    /\ sockets # <<>> =>
          LET c == sockets[1] IN
          buffer[1] = [k \in 1 .. got[c] - TakenOf(c) |-> <<c, TakenOf(c) + k>>]
    /\ \A i \in Open \ {1} : buffer[i] = <<>>

(* A dispatched message is the two parts of one message of one connection, *)
(* none is dispatched twice, and those of a connection come in order.      *)
WholeMessagesInOrder ==
    /\ \A i \in 1 .. Len(delivered) :
          LET m == delivered[i].msg IN
          /\ m[1][2] % 2 = 1
          /\ m[2] = <<m[1][1], m[1][2] + 1>>
    /\ \A i, j \in 1 .. Len(delivered) :
          i < j /\ delivered[i].msg[1][1] = delivered[j].msg[1][1]
             => delivered[i].msg[1][2] < delivered[j].msg[1][2]

(* The bytes of a connection stay its own, and its messages are whole, in  *)
(* order and dispatched once.                                              *)
StreamInv == TypeOK /\ StreamConserved /\ WholeMessagesInOrder

(* Connections are served one after the other in the order of acceptance:  *)
(* what is dispatched comes from the oldest open connection.               *)
OldestServed ==
    pc = "dispatch" => sockets # <<>> /\ data[1][1] = sockets[1]

(* lo_server_get_addr answers for the newest connection; the handler is    *)
(* told the sender's address as long as no other has been accepted since.  *)
AddressOfNewest ==
    pc = "dispatch" =>
        /\ addr = From[Last(sockets)]
        /\ Len(sockets) = 1 => addr = From[data[1][1]]

(* Whoever connects while another is served: the handler gets the message  *)
(* of the oldest connection together with the address of the newest, and   *)
(* both are one sender's as long as nobody else has been accepted.         *)
ServedInTurn == OldestServed /\ AddressOfNewest

(* However the stream is cut and sockets come and go, the server is the    *)
(* inbox the coordinator and the module managers rely on: the messages of  *)
(* a connection are counted as they are dispatched or dropped, and what is *)
(* left of it waits behind that of the connections before it.              *)
Message(c) == {c} \X (1 .. NMsg[c])
Number(m)  == <<m[1][1], (m[1][2] + 1) \div 2>>
Finished   == lost \union {delivered[i].msg : i \in 1 .. Len(delivered)}
Undone(c)  == LET n == Cardinality({m \in Finished : m[1][1] = c})
              IN [k \in 1 .. NMsg[c] - n |-> <<c, n + k>>]
Queued == LET from[i \in 1 .. Len(sockets \o backlog) + 1] ==
                  IF i > Len(sockets \o backlog) THEN <<>>
                  ELSE Undone((sockets \o backlog)[i]) \o from[i + 1]
          IN from[1]
Dead    == UNION {{m \in Message(c) : stage[c] = "closed" /\ sent[c] < 2 * m[2]} : c \in Conn}
Handled == [i \in 1 .. Len(delivered) |-> <<Number(delivered[i].msg), delivered[i].addr>>]

Inbox == INSTANCE TcpInbox WITH inbox <- Queued, dead <- Dead, handled <- Handled

ImplementsInbox == Inbox!Spec

Gone(c) == c \notin Accepted \union InBacklog

(* When clients close their connections sooner or later, the thread gets   *)
(* rid of every one of them, unless it is stuck with an errno that an      *)
(* earlier recv left behind.                                               *)
Drained == \A c \in Conn : stage[c] = "closed" ~> Gone(c) \/ errno = "EAGAIN"

(* lo_lowlevel.h:783, of lo_server_recv: "The message will be dispatched   *)
(* to a matching method if one is found": none that was cut out of the     *)
(* stream is dropped.                                                      *)
NothingLost == lost = {}
=============================================================================
