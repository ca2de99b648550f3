------------------------------ MODULE TimedQueue ------------------------------
(***************************************************************************)
(* What the queue of an OSC server promises: a message that arrives before *)
(* its time is kept; the kept messages are handled by time, those of one   *)
(* time together and in the order of their arrival, and each of them once. *)
(* Messages are [id, ts], with ids in the order of arrival.                *)
(***************************************************************************)
EXTENDS Naturals, Sequences, SequencesExt

VARIABLES kept,      \* the messages that wait for their time
          handled    \* the messages handled, in order

Known == kept \union ToSet(handled)

(* The messages handled in a step; S has all of them. *)
New        == SubSeq(handled', Len(handled) + 1, Len(handled'))
Handles(S) == IsPrefix(handled, handled') /\ ToSet(New) = S

Init == kept = {} /\ handled = <<>>

(* A packet of new messages is read; some are handled, the others kept. *)
Arrive == LET new == Known' \ Known IN
          /\ \A m \in new : \A n \in Known : n.id < m.id
          /\ kept' = kept \union (new \ ToSet(handled'))
          /\ Handles(new \ kept')
          /\ \A i \in 1 .. Len(New) : \A j \in i + 1 .. Len(New) : New[i].id < New[j].id

(* The next ones are handled; or all of them. *)
Due          == {m \in kept : \A n \in kept : m.ts <= n.ts}
Before(m, n) == m.ts < n.ts \/ (m.ts = n.ts /\ m.id < n.id)
Give(S)      == /\ kept' = kept \ S
                /\ Handles(S)
                /\ \A i \in 1 .. Len(New) : \A j \in i + 1 .. Len(New) : Before(New[i], New[j])

Next == Arrive \/ Give(Due) \/ Give(kept)

Spec == Init /\ [][Next]_<<kept, handled>>
===============================================================================
