------------------------------ MODULE TcpInbox ------------------------------
(***************************************************************************)
(* What the TCP server thread of a machine promises to the components that *)
(* send it messages: they are handled one at a time, those of a connection *)
(* in order and the connections in the order in which they were made, each *)
(* at most once.  The handler is told the address of some connection in    *)
(* the inbox, and the oldest message may vanish while another connection   *)
(* is behind it.  Message m of connection c is <<c, m>>.                   *)
(***************************************************************************)
EXTENDS Naturals, Sequences

CONSTANTS Conn, Host, From, NMsg

VARIABLES inbox,     \* messages that have not been handled
          dead,      \* messages their client will never complete
          handled    \* the messages handled so far, with the address told

Senders(q) == {From[q[i][1]] : i \in 1 .. Len(q)}

Init == inbox = <<>> /\ dead = {} /\ handled = <<>>

Send(c) == /\ inbox' = inbox \o [m \in 1 .. NMsg[c] |-> <<c, m>>]
           /\ UNCHANGED <<dead, handled>>

Die(m) == /\ dead' = dead \union ({m[1]} \X (m[2] .. NMsg[m[1]]))
          /\ UNCHANGED <<inbox, handled>>

Handle == /\ inbox # <<>> /\ Head(inbox) \notin dead
          /\ \E a \in Senders(inbox) : handled' = Append(handled, <<Head(inbox), a>>)
          /\ inbox' = Tail(inbox)
          /\ UNCHANGED dead

Drop == /\ \E i \in 1 .. Len(inbox) : inbox[i][1] # Head(inbox)[1]
        /\ inbox' = Tail(inbox)
        /\ UNCHANGED <<dead, handled>>

Forget == \E k \in 1 .. Len(inbox) :
        /\ \A i \in 1 .. k : inbox[i] \in dead
        /\ inbox' = SubSeq(inbox, k + 1, Len(inbox))
        /\ UNCHANGED <<dead, handled>>

Next == \/ \E c \in Conn : Send(c)
        \/ \E c \in Conn : \E m \in 1 .. NMsg[c] : Die(<<c, m>>)
        \/ Handle \/ Drop \/ Forget

Spec == Init /\ [][Next]_<<inbox, dead, handled>>
=============================================================================
