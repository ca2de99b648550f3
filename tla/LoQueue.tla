-------------------------------- MODULE LoQueue --------------------------------
(***************************************************************************)
(* Bundles on their way through liblo_new: a sender makes bundles, puts    *)
(* one on the wire and frees them; the server thread reads the packets and *)
(* handles their messages, or queues them until their time (server.c).     *)
(* Packets may be lost and overtake one another.                           *)
(*                                                                         *)
(* One unit of time is 0.01 s, the precision the server waits with.  The   *)
(* delay of 100 s that an empty queue stands for is Far.                   *)
(***************************************************************************)
EXTENDS LoBundle, LoStream, LoCoerce

CONSTANTS Args,        \* what a message of the sender may hold
          MsgPath,     \* the path it sends messages under
          Times,       \* time tags
          ForeignPacket, \* packets of another OSC implementation
          Host, Foreign, \* the addresses of the two
          LO_MAX_MSG_SIZE,
          MaxElements, \* bound: elements of the bundles at one time
          MaxNow       \* bound: the time

VARIABLES sender,    \* what the two senders have still to send
          wire,      \* the packets under way
          now,
          pc, source,  \* server thread: where it is, s->addr
          enqueue,     \* LO_SERVER_ENQUEUE
          queued,      \* s->queued
          arrived,     \* number of messages read
          done         \* the messages handled

thread == <<pc, source, enqueue, queued, arrived, done>>
vars   == <<heap, sender, wire, now, thread>>

Far      == 10000
Elements == SumOver(LiveBundles, LAMBDA b : Len(bndl[b].elmnts))

Init == /\ HeapInit
        /\ sender = {Host, Foreign} /\ wire = {} /\ now = 1
        /\ pc = "wait" /\ source = NULL /\ enqueue = TRUE
        /\ queued = <<>> /\ arrived = 0 /\ done = <<>>

-----------------------------------------------------------------------------
(* The senders *)

(* calloc takes any free cell. *)
Fresh(S, content) == CHOOSE c \in S : content[c] = NULL

Build ==
    /\ Host \in sender
    /\ \/ \E args \in Args : NULL \in Range(msg) /\ NewMessage(Fresh(MessageCell, msg), args)
       \/ \E ts \in Times : NULL \in Range(bndl) /\ NewBundle(Fresh(BundleCell, bndl), ts)
       \/ /\ Elements < MaxElements
          /\ \/ \E b \in BundleCell, c \in MessageCell : AddMessage(b, MsgPath, c)
             \/ \E b, n \in BundleCell : AddBundle(b, n)
       \/ \E c \in Cell : FreeRecursive(c)
    /\ UNCHANGED <<sender, wire, now, thread>>

(* lo_send_bundle: send_data refuses what is longer than LO_MAX_MSG_SIZE.  *)
SendBundle(b) ==
    /\ Host \in sender /\ b \in LiveBundles
    /\ sender' = sender \ {Host}
    /\ wire' = IF lo_bundle_length(b) > LO_MAX_MSG_SIZE THEN wire
               ELSE wire \union {[data |-> lo_bundle_serialise(b), from |-> Host]}
    /\ msg' = [c \in MessageCell |-> NULL] /\ bndl' = [c \in BundleCell |-> NULL]
    /\ refs' = [c \in Cell |-> 0]
    /\ UNCHANGED <<touched, now, thread>>

(* lo_send_timestamped: a message is made, put into a bundle, sent and     *)
(* freed: lo_message_free takes off the reference of the bundle and frees  *)
(* it, lo_bundle_free leaves elements alone.  Nothing of it stays.         *)
SendTimestamped(ts, args) ==
    /\ Host \in sender /\ Live = {}
    /\ sender' = sender \ {Host}
    /\ LET packet == BundleBytes(ts, <<lo_message_serialise(MessageOf(args), MsgPath)>>)
       IN wire' = IF Len(packet) > LO_MAX_MSG_SIZE THEN wire
                  ELSE wire \union {[data |-> packet, from |-> Host]}
    /\ UNCHANGED <<heap, now, thread>>

(* Another sender, without that limit. *)
SendForeign(p) ==
    /\ sender = {Foreign} /\ sender' = {}
    /\ wire' = wire \union {[data |-> p, from |-> Foreign]}
    /\ UNCHANGED <<heap, now, thread>>

Lose(p) == wire' = wire \ {p} /\ UNCHANGED <<heap, sender, now, thread>>

(* Nothing depends on the time until a packet is there. *)
Tick == /\ Host \notin sender /\ now < MaxNow
        /\ now' = now + 1
        /\ UNCHANGED <<heap, sender, wire, thread>>

-----------------------------------------------------------------------------
(* The server thread *)

(* Mutant: the difference is taken the other way round. *)
DelayTurned == IF queued = <<>> THEN Far
               ELSE IF queued[1].ts < now THEN now - queued[1].ts ELSE 0

(* lo_server_next_event_delay *)
Delay == IF queued = <<>> THEN Far
         ELSE IF queued[1].ts > now THEN queued[1].ts - now ELSE 0

(* What dispatch_method leaves; the source of a message is found when its  *)
(* handler asks for it, from s->addr (lo_address_resolve_source).          *)
Handled(m, via, addr, known, on) ==
    [id |-> m.id, ts |-> m.ts, at |-> now, via |-> via, off |-> ~ on,
     known |-> known, from |-> m.from, told |-> addr]

(* Mutant: a message goes behind those with an earlier time only. *)
QueueDataFirst(q, m) ==
    LET k == Cardinality({i \in 1 .. Len(q) : q[i].ts < m.ts})
    IN SubSeq(q, 1, k) \o <<m>> \o SubSeq(q, k + 1, Len(q))

(* Mutant: a message goes to the end. *)
QueueDataLast(q, m) == Append(q, m)

(* The place of the first message with a later time. *)
FirstLater(q, ts) ==
    LET later == {i \in 1 .. Len(q) : q[i].ts > ts}
    IN IF later = {} THEN Len(q) + 1 ELSE CHOOSE i \in later : \A j \in later : i <= j

(* queue_data: before that *)
QueueData(q, m) == InsertAt(q, FirstLater(q, m.ts), m)

(* dispatch_queued: all messages, or until one with a later time than the  *)
(* first one                                                               *)
DispatchQueued(all) ==
    LET n == IF all THEN Len(queued) ELSE FirstLater(queued, queued[1].ts) - 1
    IN /\ queued' = SubSeq(queued, n + 1, Len(queued))
       /\ done' = done \o [i \in 1 .. n |-> Handled(queued[i], "queue", source, arrived, enqueue')]

(* dispatch_data: what is handled at once *)
AtOnce(ts) == ts = LO_TT_IMMEDIATE \/ ts <= now \/ ~ enqueue

(* dispatch_data, one message of the time ts; the state is [queued,        *)
(* arrived, done].                                                         *)
TakeMessage(state, ts, addr) ==
    LET m == [id |-> state.arrived + 1, ts |-> ts, from |-> addr] IN
    IF AtOnce(ts)
    THEN [queued |-> state.queued, arrived |-> m.id,
          done |-> Append(state.done, Handled(m, "packet", addr, m.id, enqueue))]
    ELSE [queued |-> QueueData(state.queued, m), arrived |-> m.id, done |-> state.done]

(* The times of the messages that lo_server_recv_raw, which cuts, finds in *)
(* a packet; one is an unsigned number of seconds.                         *)
TimesOf(p) ==
    LET cut  == SubSeq(p.data, 1, IF Len(p.data) > LO_MAX_MSG_SIZE THEN LO_MAX_MSG_SIZE ELSE Len(p.data))
        read == SelectSeq(dispatch_data(cut), LAMBDA e : e.kind = "message")
    IN [i \in 1 .. Len(read) |-> read[i].ts]

Receive(p, times) ==
    LET after[k \in 0 .. Len(times)] ==
            IF k = 0 THEN [queued |-> queued, arrived |-> arrived, done |-> done]
            ELSE TakeMessage(after[k - 1], times[k], p.from)
        end == after[Len(times)]
    IN /\ UNCHANGED <<heap, sender, now, enqueue>>
       /\ wire' = wire \ {p}
       /\ source' = p.from            \* recvfrom stores it
       /\ queued' = end.queued /\ arrived' = end.arrived /\ done' = end.done

(* lo_server_wait: something is there or due; or the program calls         *)
(* lo_server_recv, which can wait for itself.                              *)
Wait == /\ pc = "wait" /\ pc' = "recv"
        /\ UNCHANGED <<heap, sender, wire, now, source, enqueue, queued, arrived, done>>

(* lo_server_recv until its poll *)
Recv == /\ pc = "recv"
        /\ UNCHANGED <<heap, sender, wire, now, source, enqueue, arrived>>
        /\ IF Delay > 1
           THEN pc' = "poll" /\ UNCHANGED <<queued, done>>
           ELSE pc' = "wait" /\ DispatchQueued(FALSE)

(* The poll finds a packet, or its time is up. *)
PollData == /\ pc = "poll" /\ pc' = "wait"
            /\ \E p \in wire : \E times \in {TimesOf(p)} \intersect Seq(Nat) : Receive(p, times)

PollTimeout == /\ pc = "poll" /\ wire = {} /\ Delay <= 1
               /\ UNCHANGED <<heap, sender, wire, now, source, enqueue, arrived>>
               /\ pc' = "wait" /\ DispatchQueued(FALSE)

(* lo_server_enable_queue(s, 0, remaining), between two calls of           *)
(* lo_server_recv; it stays disabled.                                      *)
Disable(remaining) ==
    /\ pc = "wait" /\ enqueue /\ Host \notin sender
    /\ enqueue' = FALSE
    /\ IF remaining /\ queued # <<>>
       THEN DispatchQueued(TRUE)
       ELSE UNCHANGED <<queued, done>>
    /\ UNCHANGED <<heap, sender, wire, now, pc, source, arrived>>

Server == Wait \/ Recv \/ PollData \/ PollTimeout

Next == \/ Build
        \/ \E b \in BundleCell : SendBundle(b)
        \/ \E ts \in Times, args \in Args : SendTimestamped(ts, args)
        \/ \E p \in ForeignPacket : SendForeign(p)
        \/ \E p \in wire : Lose(p)
        \/ Tick \/ Server
        \/ \E remaining \in BOOLEAN : Disable(remaining)

Spec == Init /\ [][Next]_vars
(* The server thread runs - each of its steps, and no other, changes pc -  *)
(* unless poll has nothing to return for; and time goes on.                *)
ServerRuns == /\ pc = "poll" => wire # {} \/ Delay <= 1
              /\ pc' \in {"wait", "recv", "poll"} \ {pc}
TimePasses == Host \notin sender /\ now < MaxNow /\ now' = now + 1
FairSpec   == Spec /\ WF_pc(ServerRuns) /\ WF_now(TimePasses)

-----------------------------------------------------------------------------
Message == [id : Nat, ts : Nat, from : {Host, Foreign}]

(* Types; and what is written into the memory of a message has room there. *)
TypeOK ==
    /\ \A c \in MessageCell : msg[c] # NULL =>
          msg[c].datasize >= Len(msg[c].data) /\ msg[c].typesize >= Len(msg[c].types) + 2
    /\ \A b \in LiveBundles : bndl[b].ts \in Times /\ ElementsOf(b) \subseteq
          [path : {MsgPath}, at : MessageCell] \union [path : {NoPath}, at : BundleCell]
    /\ refs \in [Cell -> Nat] /\ touched \in BOOLEAN
    /\ sender \subseteq {Host, Foreign} /\ now \in 1 .. MaxNow
    /\ \A p \in wire : TimesOf(p) \in Seq(Nat)
    /\ pc \in {"wait", "recv", "poll"}
    /\ source \in {NULL, Host, Foreign} /\ enqueue \in BOOLEAN
    /\ queued \in Seq(Message) /\ arrived \in Nat
    /\ \A k \in 1 .. Len(done) : done[k].ts \in Nat /\ done[k].told \in {Host, Foreign}

(* However bundles are shared between bundles, put into one another and    *)
(* freed: references are counted right, nothing that is still held goes,   *)
(* no bundle is inside itself; and messages stay within their memory.      *)
HeapInv == TypeOK /\ RefsRight /\ Acyclic

(* What the server reads from a bundle is what the sender had put into it, *)
(* nested bundles with their time tags, messages with their arguments, each *)
(* start with its end; and the bundle is as long as lo_bundle_length says, *)
(* for which the memory was allocated.                                     *)
RoundTrip ==
    Host \in sender => \A b \in LiveBundles :
        LET data == lo_bundle_serialise(b) IN
        dispatch_data(data) = EventsOf(b) /\ lo_bundle_length(b) = Len(data)

(* The places in a bundle where an element of it ends. *)
Boundaries(d) == {16} \union {e[1] + e[2] : e \in ToSet(ElementsAt(d, 16, Len(d) - 16).at)}

(* Wherever a bundle is cut (recvfrom cuts what is longer than             *)
(* LO_MAX_MSG_SIZE), the server handles nothing of it and calls the error  *)
(* handler; only one cut where an element of the outer bundle ends is      *)
(* taken for a whole one.  (Looked at when the packet has just been sent.) *)
PartOnlyAtBoundary ==
    sender = {Foreign} /\ now = 1 /\ pc = "wait" /\ enqueue => \A p \in wire :
        LET whole == dispatch_data(p.data)
            ends  == Boundaries(p.data)
        IN \A k \in 1 .. Len(p.data) - 1 :
              LET events == dispatch_data(SubSeq(p.data, 1, k)) IN
              IF k \in ends THEN IsStrictPrefix(Front(events), Front(whole))
              ELSE Len(events) = 1 /\ events[1].kind = "error"

(* An application that counts the calls of its bundle handlers: there are  *)
(* never more ends than starts, and fewer only if the error handler was    *)
(* called - a message that cannot be read takes the end with it.           *)
EndMissedOnlyOnError ==
    \A p \in wire :
        LET events == dispatch_data(p.data)
            n(kind) == Cardinality({k \in 1 .. Len(events) : events[k].kind = kind})
        IN n("end") <= n("start") /\ n("start") - n("end") <= n("error")

(* What arrives is what was sent; what is not handled is announced, with   *)
(* the exceptions named in the parts.                                      *)
PacketInv == RoundTrip /\ SlipOnlyPlain /\ StreamsCut /\ PartOnlyAtBoundary /\ EndMissedOnlyOnError

(* No message is handled more than 0.01 s before its time, unless the      *)
(* queue was switched off; and none before its time as its packet comes.   *)
NeverEarly == \A k \in 1 .. Len(done) :
    done[k].off \/ done[k].ts <= done[k].at + (IF done[k].via = "queue" THEN 1 ELSE 0)

(* A message is handled before one with an earlier time only if that one   *)
(* had not arrived then, or if it was handled as it came, being due (or    *)
(* the queue off), while the other one still waited.                       *)
InOrder == \A i \in 1 .. Len(done) : \A j \in i + 1 .. Len(done) :
    done[i].ts > done[j].ts =>
        \/ done[j].id > done[i].known
        \/ done[i].via = "packet" /\ (done[i].off \/ done[i].ts <= done[i].at)

(* A handler is told the sender of its message, except for a message from  *)
(* the queue whose handler asks after a packet of another sender came.     *)
SourceOfQueuedOnly == \A k \in 1 .. Len(done) :
    done[k].told # done[k].from => done[k].via = "queue"

(* When messages are handled, in which order, and whom they come from.     *)
HandledInv == NeverEarly /\ InOrder /\ SourceOfQueuedOnly

(* Every packet is read and every queued message handled in the end.       *)
Delivered == <>[](wire = {} /\ queued = <<>>)

(* The queue is the abstract one, which knows nothing of packets, polls    *)
(* and lists: kept messages come once, by time, and in order of arrival.   *)
Abstract(q) == [k \in 1 .. Len(q) |-> [id |-> q[k].id, ts |-> q[k].ts]]
Timed == INSTANCE TimedQueue WITH kept <- ToSet(Abstract(queued)), handled <- Abstract(done)
ImplementsQueue == Timed!Spec

(* What a message is dispatched to (LoMethods), for every small pattern,   *)
(* text and list of methods that a server can begin with, and what its     *)
(* arguments become on the way (LoCoerce).                                 *)
DispatchExact == pc = "wait" /\ arrived = 0 => DispatchesAll /\ CoercesAll
================================================================================
