--------------------------- MODULE LoQueue_proofs ---------------------------
(***************************************************************************)
(* Proofs about the server thread of LoQueue.tla for every size of a       *)
(* packet, all arguments, time tags and packets of another sender.         *)
(*                                                                         *)
(* The list is ordered by time, and by arrival among messages of one time  *)
(* (ListGood); everything answered was answered rightly and fits what was  *)
(* answered before it and what is still queued (DoneGood).  queue_data and *)
(* dispatch_queued keep this.  Of a packet no more is known than that the  *)
(* times of its messages are numbers: Receive takes them one by one with a *)
(* recursive function, which exists (TakenExists), and of which            *)
(* Enlarged holds by induction on the messages taken, on a set of          *)
(* numbers, by the least number outside it.                                *)
(*                                                                         *)
(* Each step then leaves queue and answers alone, is Enlarged, or answers  *)
(* the first messages of the list (Gave): what TimedQueue.tla allows.      *)
(***************************************************************************)
EXTENDS LoQueue, FiniteSetTheorems, WellFoundedInduction, SequenceTheorems, TLAPS

Peer == {Host, Foreign}
Answered == [id : Nat, ts : Nat, at : Nat, via : {"queue", "packet"}, off : BOOLEAN, known : Nat,
             from : Peer, told : Peer \union {NULL}]

(* By time, and those of one time in the order of their arrival. *)
Before(m, o) == m.id # o.id /\ (m.ts < o.ts \/ (m.ts = o.ts /\ m.id < o.id))

ListGood(q, n) ==
    /\ q \in Seq(Message) /\ n \in Nat
    /\ \A i \in 1 .. Len(q) : q[i].id <= n
    /\ \A i, j \in 1 .. Len(q) : i < j => Before(q[i], q[j])

(* Messages of such a list, one by one *)
LEMMA ListFacts ==
    ASSUME NEW q, NEW n, ListGood(q, n)
    PROVE  /\ Len(q) \in Nat
           /\ \A i \in 1 .. Len(q) : /\ q[i] \in Message /\ q[i].ts \in Nat /\ q[i].id \in Nat
                                     /\ q[i].from \in Peer /\ q[i].id <= n
<1>1. q \in Seq(Message) /\ Len(q) \in Nat
  BY DEF ListGood
<1>2. \A i \in 1 .. Len(q) : q[i] \in Message
  BY <1>1
<1>3. \A m \in Message : m.ts \in Nat /\ m.id \in Nat /\ m.from \in Peer
  BY DEF Message, Peer
<1> QED BY <1>1, <1>2, <1>3 DEF ListGood

(* A natural number is the least of some. *)
LEMMA LeastOf ==
    ASSUME NEW S \in SUBSET Nat, S # {}
    PROVE  \E x \in S : \A y \in S : x <= y
<1>1. PICK x \in S : \A y \in S : ~ (<<y, x>> \in OpToRel(<, Nat))
  BY NatLessThanWellFounded, WFMin
<1>2. \A y \in S : x <= y
  <2> SUFFICES ASSUME NEW y \in S, y < x PROVE FALSE
    OBVIOUS
  <2>1. <<y, x>> \in OpToRel(<, Nat)
    BY DEF OpToRel
  <2> QED BY <1>1, <2>1
<1> QED BY <1>2

(* A set of numbers that has 0 and the next of each has all. *)
LEMMA Induction ==
    ASSUME NEW S \in SUBSET Nat, 0 \in S, \A n \in S : n + 1 \in S
    PROVE  \A n \in Nat : n \in S
<1> DEFINE T == Nat \ S
<1> SUFFICES ASSUME T # {} PROVE FALSE
  OBVIOUS
<1>1. T \in SUBSET Nat
  OBVIOUS
<1> HIDE DEF T
<1>2. PICK x \in T : \A y \in T : x <= y
  BY <1>1, LeastOf
<1>3. x \in Nat \ S /\ x # 0
  BY DEF T
<1>4. x - 1 \in T
  <2>1. x - 1 \in Nat /\ x = (x - 1) + 1
    BY <1>3
  <2> QED BY <1>3, <2>1 DEF T
<1> QED BY <1>2, <1>3, <1>4

(* The place of the first message with a later time. *)
LEMMA FirstLaterIs ==
    ASSUME NEW q, NEW n, ListGood(q, n), NEW ts \in Nat
    PROVE  /\ FirstLater(q, ts) \in 1 .. Len(q) + 1
           /\ \A i \in 1 .. FirstLater(q, ts) - 1 : q[i].ts <= ts
           /\ \A i \in FirstLater(q, ts) .. Len(q) : q[i].ts > ts
<1> DEFINE N == Len(q)
           later == {i \in 1 .. N : q[i].ts > ts}
           k == FirstLater(q, ts)
<1>1. N \in Nat /\ \A i \in 1 .. N : q[i].ts \in Nat /\ q[i].id \in Nat
  BY ListFacts
<1>2. k = IF later = {} THEN N + 1 ELSE CHOOSE i \in later : \A j \in later : i <= j
  BY DEF FirstLater
<1>3. \A i, j \in 1 .. N : i < j => q[i].ts <= q[j].ts
  BY <1>1 DEF ListGood, Before
<1> HIDE DEF N, k
<1>4. CASE later = {}
  BY <1>1, <1>2, <1>4 DEF k, N
<1>5. CASE later # {}
  <2>1. later \in SUBSET Nat
    BY <1>1
  <2>2. k \in later /\ \A j \in later : k <= j
    <3> HIDE DEF later
    <3>1. \E i \in later : \A j \in later : i <= j
      BY <1>5, <2>1, LeastOf
    <3> QED BY <1>2, <1>5, <3>1
  <2>3. k \in 1 .. N + 1
    BY <1>1, <2>2
  <2>4. \A i \in 1 .. k - 1 : q[i].ts <= ts
    <3> SUFFICES ASSUME NEW i \in 1 .. k - 1, ~ q[i].ts <= ts PROVE FALSE
      OBVIOUS
    <3>1. i \in 1 .. N /\ i < k
      BY <1>1, <2>3
    <3>2. i \in later
      BY <1>1, <3>1
    <3> QED BY <2>2, <2>3, <3>1, <3>2
  <2>5. \A i \in k .. N : q[i].ts > ts
    <3> SUFFICES ASSUME NEW i \in k .. N PROVE q[i].ts > ts
      OBVIOUS
    <3>1. i \in 1 .. N /\ k \in 1 .. N /\ q[k].ts > ts /\ (i = k \/ k < i)
      BY <1>1, <2>2, <2>3
    <3> QED BY <1>1, <1>3, <3>1
  <2> QED BY <2>3, <2>4, <2>5 DEF k, N
<1> QED BY <1>4, <1>5

(* queue_data *)
LEMMA QueueDataIs ==
    ASSUME NEW q, NEW n, ListGood(q, n), NEW m \in Message, m.id = n + 1
    PROVE  /\ ListGood(QueueData(q, m), n + 1)
           /\ Len(QueueData(q, m)) = Len(q) + 1
           /\ \A i \in 1 .. Len(q) : \E j \in 1 .. Len(q) + 1 : QueueData(q, m)[j] = q[i]
           /\ \A j \in 1 .. Len(q) + 1 : QueueData(q, m)[j] = m \/ \E i \in 1 .. Len(q) : QueueData(q, m)[j] = q[i]
           /\ \E j \in 1 .. Len(q) + 1 : QueueData(q, m)[j] = m
<1> DEFINE N == Len(q)
           k == FirstLater(q, m.ts)
           r == QueueData(q, m)
<1>1. q \in Seq(Message) /\ N \in Nat /\ n \in Nat /\ m.ts \in Nat /\ m.id \in Nat
      /\ \A i \in 1 .. N : q[i] \in Message /\ q[i].ts \in Nat /\ q[i].id \in Nat /\ q[i].id <= n
  <2>1. m.ts \in Nat /\ m.id \in Nat
    BY DEF Message
  <2> QED BY <2>1, ListFacts DEF ListGood
<1>2. k \in 1 .. N + 1 /\ (\A i \in 1 .. k - 1 : q[i].ts <= m.ts) /\ \A i \in k .. N : q[i].ts > m.ts
  BY <1>1, FirstLaterIs
<1>3. r = SubSeq(q, 1, k - 1) \o <<m>> \o SubSeq(q, k, N)
  BY DEF QueueData, InsertAt
<1> HIDE DEF k, r
<1>4. /\ SubSeq(q, 1, k - 1) \in Seq(Message) /\ Len(SubSeq(q, 1, k - 1)) = k - 1
      /\ \A i \in 1 .. k - 1 : SubSeq(q, 1, k - 1)[i] = q[i]
  BY <1>1, <1>2
<1>5. /\ SubSeq(q, k, N) \in Seq(Message) /\ Len(SubSeq(q, k, N)) = N - k + 1
      /\ \A i \in 1 .. N - k + 1 : SubSeq(q, k, N)[i] = q[k + i - 1]
  BY <1>1, <1>2
<1> DEFINE A == SubSeq(q, 1, k - 1)
           B == SubSeq(q, k, N)
           C == A \o <<m>>
<1>6. C \in Seq(Message) /\ Len(C) = k /\ \A i \in 1 .. k : C[i] = IF i < k THEN q[i] ELSE m
  <2> HIDE DEF A
  <2>1. <<m>> \in Seq(Message) /\ Len(<<m>>) = 1 /\ <<m>>[1] = m
    OBVIOUS
  <2>2. A \in Seq(Message) /\ Len(A) = k - 1 /\ \A i \in 1 .. k - 1 : A[i] = q[i]
    BY <1>4 DEF A
  <2>3. C \in Seq(Message) /\ Len(C) = k
    BY <1>2, <2>1, <2>2
  <2>4. \A i \in 1 .. k : C[i] = IF i < k THEN q[i] ELSE m
    BY <1>2, <2>1, <2>2
  <2> QED BY <2>3, <2>4
<1>7. /\ r \in Seq(Message) /\ Len(r) = N + 1
      /\ \A i \in 1 .. N + 1 : r[i] = IF i < k THEN q[i] ELSE IF i = k THEN m ELSE q[i - 1]
  <2> HIDE DEF C
  <2>1. r = C \o B
    BY <1>3 DEF C
  <2>2. B \in Seq(Message) /\ Len(B) = N - k + 1 /\ \A i \in 1 .. N - k + 1 : B[i] = q[k + i - 1]
    BY <1>5
  <2> HIDE DEF B
  <2>3. r \in Seq(Message) /\ Len(r) = N + 1
    <3>1. r \in Seq(Message) /\ Len(r) = Len(C) + Len(B)
      BY <1>6, <2>1, <2>2
    <3> QED BY <1>1, <1>2, <1>6, <2>2, <3>1
  <2>4. ASSUME NEW i \in 1 .. N + 1 PROVE r[i] = IF i < k THEN q[i] ELSE IF i = k THEN m ELSE q[i - 1]
    <3>1. CASE i <= k
      <4>1. r[i] = C[i]
        BY <1>1, <1>2, <1>6, <2>1, <2>2, <3>1
      <4>2. i \in 1 .. k
        BY <1>2, <3>1
      <4> QED BY <1>2, <1>6, <4>1, <4>2
    <3>2. CASE i > k
      <4>1. r[i] = B[i - k] /\ i - k \in 1 .. N - k + 1
        BY <1>1, <1>2, <1>6, <2>1, <2>2, <3>2
      <4>2. k + (i - k) - 1 = i - 1
        BY <1>1, <1>2
      <4> QED BY <1>1, <1>2, <2>2, <3>2, <4>1, <4>2
    <3> QED BY <1>1, <1>2, <3>1, <3>2
  <2> QED BY <2>3, <2>4
<1> HIDE DEF N
<1>8. \A i \in 1 .. N + 1 : r[i].id <= n + 1
  <2> SUFFICES ASSUME NEW i \in 1 .. N + 1 PROVE r[i].id <= n + 1
    OBVIOUS
  <2>1. i < k => i \in 1 .. N
    BY <1>1, <1>2
  <2>2. i > k => i - 1 \in 1 .. N
    BY <1>1, <1>2
  <2> QED BY <1>1, <1>2, <1>7, <2>1, <2>2
<1>9. \A i, j \in 1 .. N + 1 : i < j => Before(r[i], r[j])
  <2> SUFFICES ASSUME NEW i \in 1 .. N + 1, NEW j \in 1 .. N + 1, i < j PROVE Before(r[i], r[j])
    OBVIOUS
  <2>0. \A a, b \in 1 .. N : a < b => Before(q[a], q[b])
    BY DEF ListGood, N
  <2>1. CASE j < k
    <3>1. i \in 1 .. N /\ j \in 1 .. N /\ r[i] = q[i] /\ r[j] = q[j]
      BY <1>1, <1>2, <1>7, <2>1
    <3> QED BY <2>0, <3>1
  <2>2. CASE j = k
    <3>1. i \in 1 .. N /\ i \in 1 .. k - 1 /\ r[i] = q[i] /\ r[j] = m
      BY <1>1, <1>2, <1>7, <2>2
    <3>2. q[i].ts <= m.ts /\ q[i].id < m.id
      BY <1>1, <1>2, <3>1
    <3> QED BY <1>1, <3>1, <3>2 DEF Before
  <2>3. CASE i < k /\ k < j
    <3>1. r[i] = q[i] /\ r[j] = q[j - 1] /\ i \in 1 .. N /\ j - 1 \in 1 .. N /\ i < j - 1
      BY <1>1, <1>2, <1>7, <2>3
    <3> QED BY <2>0, <3>1
  <2>4. CASE i = k
    <3>1. j - 1 \in k .. N /\ r[i] = m /\ r[j] = q[j - 1] /\ j - 1 \in 1 .. N
      BY <1>1, <1>2, <1>7, <2>4
    <3>2. q[j - 1].ts > m.ts /\ q[j - 1].id # m.id
      BY <1>1, <1>2, <3>1
    <3> QED BY <1>1, <3>1, <3>2 DEF Before
  <2>5. CASE i > k
    <3>1. i - 1 \in 1 .. N /\ j - 1 \in 1 .. N /\ i - 1 < j - 1 /\ r[i] = q[i - 1] /\ r[j] = q[j - 1]
      BY <1>1, <1>2, <1>7, <2>5
    <3> QED BY <2>0, <3>1
  <2> QED BY <1>1, <1>2, <2>1, <2>2, <2>3, <2>4, <2>5
<1>10. \A i \in 1 .. N : \E j \in 1 .. N + 1 : r[j] = q[i]
  <2> SUFFICES ASSUME NEW i \in 1 .. N PROVE \E j \in 1 .. N + 1 : r[j] = q[i]
    OBVIOUS
  <2>1. CASE i < k
    <3>1. i \in 1 .. N + 1 /\ r[i] = q[i]
      BY <1>1, <1>7, <2>1
    <3> QED BY <3>1
  <2>2. CASE i >= k
    <3>1. i + 1 \in 1 .. N + 1 /\ (i + 1) - 1 = i /\ ~ i + 1 < k /\ i + 1 # k
      BY <1>1, <1>2, <2>2
    <3>2. r[i + 1] = q[i]
      BY <1>7, <3>1
    <3> QED BY <3>1, <3>2
  <2> QED BY <1>1, <1>2, <2>1, <2>2
<1>11. \A j \in 1 .. N + 1 : r[j] = m \/ \E i \in 1 .. N : r[j] = q[i]
  <2> SUFFICES ASSUME NEW j \in 1 .. N + 1, j # k PROVE \E i \in 1 .. N : r[j] = q[i]
    BY <1>7
  <2>1. j < k => j \in 1 .. N /\ r[j] = q[j]
    BY <1>1, <1>2, <1>7
  <2>2. j > k => j - 1 \in 1 .. N /\ r[j] = q[j - 1]
    BY <1>1, <1>2, <1>7
  <2> QED BY <1>2, <2>1, <2>2
<1>12. k \in 1 .. N + 1 /\ r[k] = m
  BY <1>2, <1>7
<1> QED BY <1>1, <1>7, <1>8, <1>9, <1>10, <1>11, <1>12 DEF ListGood, N, r

-----------------------------------------------------------------------------
(* What is handled at its time, and whom its handler is told. *)
WellAnswered(r) ==
    /\ r.via = "packet" => (r.off \/ r.ts <= r.at) /\ r.told = r.from
    /\ r.via = "queue"  => r.off \/ r.ts <= r.at + 1

(* r may have been handled before m. *)
Suits(r, m) == r.id # m.id /\ (r.via = "queue" => r.ts <= m.ts \/ r.known < m.id)

DoneGood(q, n, d) ==
    /\ d \in Seq(Answered)
    /\ \A k \in 1 .. Len(d) : d[k].id <= n /\ d[k].known <= n /\ WellAnswered(d[k])
    /\ \A k \in 1 .. Len(d) : \A i \in 1 .. Len(q) : Suits(d[k], q[i])
    /\ \A i, j \in 1 .. Len(d) : i < j => Suits(d[i], d[j])

(* Messages arrived: the list q, the number n and the answers d became     *)
(* these.                                                                  *)
Enlarged(q, n, d, q1, n1, d1) ==
    /\ n <= n1
    /\ Len(d) <= Len(d1) /\ \A i \in 1 .. Len(d) : d1[i] = d[i]
    /\ \A i \in Len(d) + 1 .. Len(d1) : d1[i].id > n
    /\ \A i, j \in Len(d) + 1 .. Len(d1) : i < j => d1[i].id < d1[j].id
    /\ \A i \in 1 .. Len(q) : \E j \in 1 .. Len(q1) : q1[j] = q[i]
    /\ \A j \in 1 .. Len(q1) : q1[j].id > n \/ \E i \in 1 .. Len(q) : q1[j] = q[i]

(* Answers, one by one *)
LEMMA DoneFacts ==
    ASSUME NEW q, NEW n, NEW d, n \in Nat, DoneGood(q, n, d)
    PROVE  /\ Len(d) \in Nat
           /\ \A k \in 1 .. Len(d) : /\ d[k] \in Answered /\ d[k].id \in Nat /\ d[k].ts \in Nat /\ d[k].at \in Nat
                                     /\ d[k].known \in Nat /\ d[k].via \in {"queue", "packet"}
<1>1. \A k \in 1 .. Len(d) : d[k] \in Answered
  BY DEF DoneGood
<1>2. \A r \in Answered : /\ r.id \in Nat /\ r.ts \in Nat /\ r.at \in Nat /\ r.known \in Nat
                          /\ r.via \in {"queue", "packet"}
  BY DEF Answered
<1>3. Len(d) \in Nat
  BY DEF DoneGood
<1> QED BY <1>1, <1>2, <1>3

(* What a message is answered with. *)
LEMMA HandledIs ==
    ASSUME NEW m \in Message, NEW via \in {"queue", "packet"}, NEW addr \in Peer \union {NULL}, NEW known \in Nat,
           NEW on \in BOOLEAN, now \in Nat
    PROVE  LET r == Handled(m, via, addr, known, on) IN
           /\ r \in Answered /\ r.id = m.id /\ r.ts = m.ts /\ r.at = now /\ r.via = via /\ r.off = ~ on
           /\ r.known = known /\ r.from = m.from /\ r.told = addr
<1>1. m.id \in Nat /\ m.ts \in Nat /\ m.from \in Peer
  BY DEF Message, Peer
<1>2. (~ on) \in BOOLEAN
  OBVIOUS
<1> QED BY <1>1, <1>2 DEF Handled, Answered

(* dispatch_data, one message *)
LEMMA TakeMessageIs ==
    ASSUME NEW q, NEW n, NEW d, ListGood(q, n), DoneGood(q, n, d), now \in Nat \ {0}, enqueue \in BOOLEAN,
           NEW ts \in Nat, NEW addr \in Peer
    PROVE  LET s == TakeMessage([queued |-> q, arrived |-> n, done |-> d], ts, addr) IN
           /\ s.arrived = n + 1
           /\ ListGood(s.queued, n + 1) /\ DoneGood(s.queued, n + 1, s.done)
           /\ Enlarged(q, n, d, s.queued, n + 1, s.done)
<1> DEFINE m == [id |-> n + 1, ts |-> ts, from |-> addr]
           r == Handled(m, "packet", addr, n + 1, enqueue)
           s == TakeMessage([queued |-> q, arrived |-> n, done |-> d], ts, addr)
<1>1. n \in Nat /\ n + 1 \in Nat /\ q \in Seq(Message) /\ Len(q) \in Nat
      /\ \A i \in 1 .. Len(q) : q[i].id \in Nat /\ q[i].ts \in Nat /\ q[i].id <= n
  <2>1. n \in Nat /\ q \in Seq(Message)
    BY DEF ListGood
  <2>2. /\ Len(q) \in Nat
        /\ \A i \in 1 .. Len(q) : q[i].ts \in Nat /\ q[i].id \in Nat /\ q[i].id <= n
    BY ListFacts
  <2> QED BY <2>1, <2>2
<1>2. d \in Seq(Answered) /\ Len(d) \in Nat
      /\ \A k \in 1 .. Len(d) : /\ d[k].id \in Nat /\ d[k].known \in Nat /\ d[k].ts \in Nat
                                /\ d[k].id <= n /\ d[k].known <= n /\ WellAnswered(d[k])
  BY <1>1, DoneFacts DEF DoneGood
<1>3. m \in Message /\ m.id = n + 1 /\ m.ts = ts /\ m.from = addr
  BY <1>1 DEF Message, Peer
<1>4. r \in Answered /\ r.id = n + 1 /\ r.ts = ts /\ r.at = now /\ r.via = "packet" /\ r.off = ~ enqueue
      /\ r.known = n + 1 /\ r.from = addr /\ r.told = addr
  <2> HIDE DEF m, r
  <2>1. r = Handled(m, "packet", addr, n + 1, enqueue)
    BY DEF r
  <2>2. now \in Nat /\ addr \in Peer \union {NULL} /\ "packet" \in {"queue", "packet"}
    OBVIOUS
  <2> QED BY <1>1, <1>3, <2>1, <2>2, HandledIs
<1>5. s = IF AtOnce(ts) THEN [queued |-> q, arrived |-> n + 1, done |-> Append(d, r)]
          ELSE [queued |-> QueueData(q, m), arrived |-> n + 1, done |-> d]
  BY DEF TakeMessage
<1> HIDE DEF m, r, s
<1>6. CASE AtOnce(ts)
  <2>1. s.queued = q /\ s.arrived = n + 1 /\ s.done = Append(d, r)
    BY <1>5, <1>6
  <2> DEFINE e == Append(d, r)
             N == Len(d)
  <2>2. e \in Seq(Answered) /\ Len(e) = N + 1 /\ (\A k \in 1 .. N : e[k] = d[k]) /\ e[N + 1] = r
    BY <1>2, <1>4
  <2> HIDE DEF e
  <2>3. ListGood(q, n + 1)
    BY <1>1 DEF ListGood
  <2>4. WellAnswered(r)
    <3>1. ts <= now \/ ~ enqueue
      BY <1>6 DEF AtOnce, LO_TT_IMMEDIATE
    <3> QED BY <1>4, <3>1 DEF WellAnswered
  <2>5. \A k \in 1 .. N + 1 : k \in 1 .. N \/ k = N + 1
    BY <1>2
  <2>6. \A k \in 1 .. N + 1 : e[k].id <= n + 1 /\ e[k].known <= n + 1 /\ WellAnswered(e[k])
    <3> SUFFICES ASSUME NEW k \in 1 .. N + 1
                 PROVE  e[k].id <= n + 1 /\ e[k].known <= n + 1 /\ WellAnswered(e[k])
      OBVIOUS
    <3>1. CASE k \in 1 .. N
      BY <1>1, <1>2, <2>2, <3>1
    <3>2. CASE k = N + 1
      BY <1>1, <1>4, <2>2, <2>4, <3>2
    <3> QED BY <2>5, <3>1, <3>2
  <2>7. \A k \in 1 .. N + 1 : \A i \in 1 .. Len(q) : Suits(e[k], q[i])
    <3> SUFFICES ASSUME NEW k \in 1 .. N + 1, NEW i \in 1 .. Len(q) PROVE Suits(e[k], q[i])
      OBVIOUS
    <3>1. CASE k \in 1 .. N
      BY <2>2, <3>1 DEF DoneGood
    <3>2. CASE k = N + 1
      <4>1. e[k] = r /\ r.id # q[i].id
        BY <1>1, <1>4, <2>2, <3>2
      <4> QED BY <1>4, <4>1 DEF Suits
    <3> QED BY <2>5, <3>1, <3>2
  <2>8. \A i, j \in 1 .. N + 1 : i < j => Suits(e[i], e[j])
    <3> SUFFICES ASSUME NEW i \in 1 .. N + 1, NEW j \in 1 .. N + 1, i < j PROVE Suits(e[i], e[j])
      OBVIOUS
    <3>1. i \in 1 .. N /\ e[i] = d[i]
      BY <1>2, <2>2
    <3>2. CASE j \in 1 .. N
      BY <2>2, <3>1, <3>2 DEF DoneGood
    <3>3. CASE j = N + 1
      <4>1. e[j] = r /\ r.id # d[i].id /\ d[i].known < r.id
        BY <1>1, <1>2, <1>4, <2>2, <3>1, <3>3
      <4> QED BY <3>1, <4>1 DEF Suits
    <3> QED BY <2>5, <3>2, <3>3
  <2>9. DoneGood(q, n + 1, e)
    BY <2>2, <2>6, <2>7, <2>8 DEF DoneGood
  <2>10. Enlarged(q, n, d, q, n + 1, e)
    <3>1. \A i \in N + 1 .. N + 1 : i = N + 1
      BY <1>2
    <3>2. \A i \in N + 1 .. N + 1 : e[i].id > n
      BY <1>1, <1>4, <2>2, <3>1
    <3>3. \A i, j \in N + 1 .. N + 1 : ~ i < j
      BY <1>2
    <3>4. N <= Len(e) /\ n <= n + 1
      BY <1>1, <1>2, <2>2
    <3> QED BY <2>2, <3>2, <3>3, <3>4 DEF Enlarged
  <2> QED BY <2>1, <2>3, <2>9, <2>10 DEF s, e
<1>7. CASE ~ AtOnce(ts)
  <2> DEFINE p == QueueData(q, m)
  <2>1. s.queued = p /\ s.arrived = n + 1 /\ s.done = d
    BY <1>5, <1>7
  <2>2. /\ ListGood(p, n + 1) /\ Len(p) = Len(q) + 1
        /\ \A i \in 1 .. Len(q) : \E j \in 1 .. Len(q) + 1 : p[j] = q[i]
        /\ \A j \in 1 .. Len(q) + 1 : p[j] = m \/ \E i \in 1 .. Len(q) : p[j] = q[i]
    BY <1>3, QueueDataIs
  <2> HIDE DEF p
  <2>3. \A k \in 1 .. Len(d) : d[k].id <= n + 1 /\ d[k].known <= n + 1 /\ WellAnswered(d[k])
    BY <1>1, <1>2
  <2>4. \A k \in 1 .. Len(d) : \A i \in 1 .. Len(p) : Suits(d[k], p[i])
    <3> SUFFICES ASSUME NEW k \in 1 .. Len(d), NEW i \in 1 .. Len(p) PROVE Suits(d[k], p[i])
      OBVIOUS
    <3>1. CASE p[i] = m
      <4>1. m.id # d[k].id /\ d[k].known < m.id
        BY <1>1, <1>2, <1>3
      <4> QED BY <3>1, <4>1 DEF Suits
    <3>2. CASE \E j \in 1 .. Len(q) : p[i] = q[j]
      BY <3>2 DEF DoneGood
    <3> QED BY <2>2, <3>1, <3>2
  <2>5. DoneGood(p, n + 1, d)
    BY <2>3, <2>4 DEF DoneGood
  <2>6. Enlarged(q, n, d, p, n + 1, d)
    <3>1. \A i \in Len(d) + 1 .. Len(d) : FALSE
      BY <1>2
    <3>2. n <= n + 1 /\ Len(d) <= Len(d) /\ m.id > n
      BY <1>1, <1>2, <1>3
    <3>3. \A j \in 1 .. Len(p) : p[j].id > n \/ \E i \in 1 .. Len(q) : p[j] = q[i]
      BY <2>2, <3>2
    <3>4. \A i \in 1 .. Len(q) : \E j \in 1 .. Len(p) : p[j] = q[i]
      BY <2>2
    <3> QED BY <3>1, <3>2, <3>3, <3>4 DEF Enlarged
  <2> QED BY <2>1, <2>2, <2>5, <2>6 DEF s, p
<1> QED BY <1>6, <1>7 DEF s

(* Enlarging goes on. *)
LEMMA EnlargedOn ==
    ASSUME NEW q0, NEW n0, NEW d0, NEW q, NEW n, NEW d, NEW q1, NEW n1, NEW d1,
           ListGood(q0, n0), DoneGood(q0, n0, d0), ListGood(q, n), DoneGood(q, n, d),
           ListGood(q1, n1), DoneGood(q1, n1, d1),
           Enlarged(q0, n0, d0, q, n, d), Enlarged(q, n, d, q1, n1, d1)
    PROVE  Enlarged(q0, n0, d0, q1, n1, d1)
<1>1. n0 \in Nat /\ n \in Nat /\ n1 \in Nat
  BY DEF ListGood
<1>2. /\ Len(d0) \in Nat /\ Len(d) \in Nat /\ Len(d1) \in Nat
      /\ Len(q0) \in Nat /\ Len(q) \in Nat /\ Len(q1) \in Nat
  BY <1>1, DoneFacts, ListFacts
<1>3. \A i \in 1 .. Len(d) : d[i].id \in Nat /\ d[i].id <= n
  BY <1>1, DoneFacts DEF DoneGood
<1>4. \A i \in 1 .. Len(d1) : d1[i].id \in Nat
  BY <1>1, DoneFacts
<1>5. \A i \in 1 .. Len(q1) : q1[i].id \in Nat
  BY ListFacts
<1>6. n0 <= n1 /\ Len(d0) <= Len(d1) /\ n0 <= n /\ n <= n1 /\ Len(d0) <= Len(d) /\ Len(d) <= Len(d1)
  BY <1>1, <1>2 DEF Enlarged
<1>7. \A i \in 1 .. Len(d0) : d1[i] = d0[i]
  <2> SUFFICES ASSUME NEW i \in 1 .. Len(d0) PROVE d1[i] = d0[i]
    OBVIOUS
  <2>1. i \in 1 .. Len(d)
    BY <1>2, <1>6
  <2> QED BY <2>1 DEF Enlarged
<1>8. \A i \in Len(d0) + 1 .. Len(d1) : d1[i].id > n0
  <2> SUFFICES ASSUME NEW i \in Len(d0) + 1 .. Len(d1) PROVE d1[i].id > n0
    OBVIOUS
  <2>1. CASE i <= Len(d)
    <3>1. i \in Len(d0) + 1 .. Len(d) /\ i \in 1 .. Len(d)
      BY <1>2, <2>1
    <3> QED BY <3>1 DEF Enlarged
  <2>2. CASE i > Len(d)
    <3>1. i \in Len(d) + 1 .. Len(d1) /\ i \in 1 .. Len(d1)
      BY <1>2, <2>2
    <3>2. d1[i].id > n /\ d1[i].id \in Nat
      BY <1>4, <3>1 DEF Enlarged
    <3> QED BY <1>1, <1>6, <3>2
  <2> QED BY <1>2, <2>1, <2>2
<1>9. \A i, j \in Len(d0) + 1 .. Len(d1) : i < j => d1[i].id < d1[j].id
  <2> SUFFICES ASSUME NEW i \in Len(d0) + 1 .. Len(d1), NEW j \in Len(d0) + 1 .. Len(d1), i < j
               PROVE  d1[i].id < d1[j].id
    OBVIOUS
  <2>1. CASE j <= Len(d)
    <3>1. i \in Len(d0) + 1 .. Len(d) /\ j \in Len(d0) + 1 .. Len(d) /\ i \in 1 .. Len(d) /\ j \in 1 .. Len(d)
      BY <1>2, <2>1
    <3>2. d1[i] = d[i] /\ d1[j] = d[j] /\ d[i].id < d[j].id
      BY <3>1 DEF Enlarged
    <3> QED BY <3>2
  <2>2. CASE i <= Len(d) /\ j > Len(d)
    <3>1. i \in 1 .. Len(d) /\ j \in Len(d) + 1 .. Len(d1) /\ j \in 1 .. Len(d1)
      BY <1>2, <2>2
    <3>2. d1[i] = d[i] /\ d1[j].id > n
      BY <3>1 DEF Enlarged
    <3>3. d1[i].id \in Nat /\ d1[i].id <= n /\ d1[j].id \in Nat
      BY <1>3, <1>4, <3>1, <3>2
    <3> QED BY <1>1, <3>2, <3>3
  <2>3. CASE i > Len(d)
    <3>1. i \in Len(d) + 1 .. Len(d1) /\ j \in Len(d) + 1 .. Len(d1)
      BY <1>2, <2>3
    <3> QED BY <3>1 DEF Enlarged
  <2> QED BY <1>2, <2>1, <2>2, <2>3
<1>10. \A i \in 1 .. Len(q0) : \E j \in 1 .. Len(q1) : q1[j] = q0[i]
  <2> SUFFICES ASSUME NEW i \in 1 .. Len(q0) PROVE \E j \in 1 .. Len(q1) : q1[j] = q0[i]
    OBVIOUS
  <2>1. PICK k \in 1 .. Len(q) : q[k] = q0[i]
    BY DEF Enlarged
  <2>2. PICK j \in 1 .. Len(q1) : q1[j] = q[k]
    BY DEF Enlarged
  <2> QED BY <2>1, <2>2
<1>11. \A j \in 1 .. Len(q1) : q1[j].id > n0 \/ \E i \in 1 .. Len(q0) : q1[j] = q0[i]
  <2> SUFFICES ASSUME NEW j \in 1 .. Len(q1) PROVE q1[j].id > n0 \/ \E i \in 1 .. Len(q0) : q1[j] = q0[i]
    OBVIOUS
  <2>1. CASE q1[j].id > n
    BY <1>1, <1>5, <1>6, <2>1
  <2>2. CASE \E k \in 1 .. Len(q) : q1[j] = q[k]
    <3>1. PICK k \in 1 .. Len(q) : q1[j] = q[k]
      BY <2>2
    <3>2. q[k].id > n0 \/ \E i \in 1 .. Len(q0) : q[k] = q0[i]
      BY DEF Enlarged
    <3> QED BY <3>1, <3>2
  <2> QED BY <2>1, <2>2 DEF Enlarged
<1> QED BY <1>6, <1>7, <1>8, <1>9, <1>10, <1>11 DEF Enlarged

-----------------------------------------------------------------------------
(* The function of Receive *)
Start == [queued |-> queued, arrived |-> arrived, done |-> done]
Taken(times, addr, f) ==
    f = [k \in 0 .. Len(times) |-> IF k = 0 THEN Start ELSE TakeMessage(f[k - 1], times[k], addr)]

(* There is such a function: by induction, for the first k messages. *)
LEMMA TakenExists ==
    ASSUME NEW times \in Seq(Nat), NEW addr
    PROVE  \E f : Taken(times, addr, f)
<1> DEFINE N == Len(times)
           B(g, n) == IF n = 0 THEN Start ELSE TakeMessage(g[n - 1], times[n], addr)
           F(g) == g = [n \in 0 .. N |-> g[n]]
           Fine(n, g) == \A k \in 0 .. n : g[k] = B(g, k)
           Some(n) == \E g : F(g) /\ Fine(n, g)
           S == {n \in Nat : n <= N => Some(n)}
<1>0. N \in Nat
  OBVIOUS
<1> HIDE DEF N
<1>1. 0 \in S
  <2> DEFINE g == [n \in 0 .. N |-> Start]
  <2>1. F(g)
    OBVIOUS
  <2>2. Fine(0, g)
    <3>1. 0 .. 0 = {0} /\ 0 \in 0 .. N
      BY <1>0
    <3> QED BY <3>1
  <2> QED BY <2>1, <2>2
<1>2. ASSUME NEW n \in S PROVE n + 1 \in S
  <2> HIDE DEF Some
  <2> SUFFICES ASSUME n + 1 <= N PROVE Some(n + 1)
    OBVIOUS
  <2>1. n \in Nat /\ n <= N /\ Some(n)
    BY <1>0
  <2> USE DEF Some
  <2>2. PICK g : F(g) /\ Fine(n, g)
    BY <2>1
  <2> DEFINE e == [k \in 0 .. N |-> IF k = n + 1 THEN B(g, k) ELSE g[k]]
  <2>3. \A k \in 0 .. N : e[k] = IF k = n + 1 THEN B(g, k) ELSE g[k]
    OBVIOUS
  <2>4. F(e)
    BY <2>3
  <2> HIDE DEF e
  <2>5. ASSUME NEW k \in 0 .. n + 1 PROVE e[k] = B(e, k)
    <3>1. k \in 0 .. N /\ k \in Nat
      BY <2>1, <1>0
    <3>2. B(e, k) = B(g, k)
      <4>1. CASE k = 0
        BY <4>1
      <4>2. CASE k # 0
        <5>1. k - 1 \in 0 .. N /\ k - 1 # n + 1
          BY <2>1, <3>1, <4>2, <1>0
        <5>2. e[k - 1] = g[k - 1]
          BY <2>3, <5>1
        <5> QED BY <4>2, <5>2
      <4> QED BY <4>1, <4>2
    <3>3. CASE k = n + 1
      BY <2>3, <3>1, <3>2, <3>3
    <3>4. CASE k # n + 1
      <4>1. k \in 0 .. n
        BY <2>1, <3>1, <3>4
      <4> QED BY <2>2, <2>3, <3>1, <3>2, <3>4, <4>1
    <3> QED BY <3>3, <3>4
  <2> QED BY <2>4, <2>5
<1>3. N \in S
  BY <1>0, <1>1, <1>2, Induction
<1>4. PICK f : F(f) /\ Fine(N, f)
  BY <1>0, <1>3
<1>5. f = [k \in 0 .. N |-> B(f, k)]
  BY <1>4
<1>6. Taken(times, addr, f)
  BY <1>5 DEF Taken, N
<1> QED BY <1>6

(* lo_server_recv_raw and dispatch_data: messages are answered or queued.  *)
LEMMA ReceiveIs ==
    ASSUME ListGood(queued, arrived), DoneGood(queued, arrived, done), now \in Nat \ {0}, enqueue \in BOOLEAN,
           NEW p, p.from \in Peer, NEW times \in Seq(Nat), Receive(p, times)
    PROVE  /\ ListGood(queued', arrived') /\ DoneGood(queued', arrived', done')
           /\ Enlarged(queued, arrived, done, queued', arrived', done')
<1> DEFINE N == Len(times)
           g == CHOOSE f : Taken(times, p.from, f)
           Right(k) == LET s == g[k] IN
                       /\ s = [queued |-> s.queued, arrived |-> s.arrived, done |-> s.done]
                       /\ ListGood(s.queued, s.arrived) /\ DoneGood(s.queued, s.arrived, s.done)
                       /\ Enlarged(queued, arrived, done, s.queued, s.arrived, s.done)
           S == {k \in Nat : k <= N => Right(k)}
<1>1. Taken(times, p.from, g)
  BY TakenExists
<1>2. queued' = g[N].queued /\ arrived' = g[N].arrived /\ done' = g[N].done
  BY DEF Receive, Taken, Start
<1> HIDE DEF g
<1>3. N \in Nat
  OBVIOUS
<1>4. g[0] = Start
  <2>1. 0 \in 0 .. N
    BY <1>3
  <2> QED BY <1>1, <2>1 DEF Taken
<1>5. \A k \in 1 .. N : g[k] = TakeMessage(g[k - 1], times[k], p.from)
  <2> SUFFICES ASSUME NEW k \in 1 .. N PROVE g[k] = TakeMessage(g[k - 1], times[k], p.from)
    OBVIOUS
  <2>1. k \in 0 .. N /\ k # 0
    BY <1>3
  <2> QED BY <1>1, <2>1 DEF Taken
<1>6. 0 \in S
  <2>1. g[0].queued = queued /\ g[0].arrived = arrived /\ g[0].done = done
    BY <1>4 DEF Start
  <2>2. Enlarged(queued, arrived, done, queued, arrived, done)
    <3>1. arrived \in Nat /\ Len(done) \in Nat
      BY DEF ListGood, DoneGood
    <3> QED BY <3>1 DEF Enlarged
  <2> QED BY <1>4, <2>1, <2>2 DEF Start
<1>7. ASSUME NEW k \in S PROVE k + 1 \in S
  <2> HIDE DEF Right
  <2> SUFFICES ASSUME k + 1 <= N PROVE Right(k + 1)
    OBVIOUS
  <2>1. k \in Nat /\ k <= N /\ Right(k)
    BY <1>3
  <2> USE DEF Right
  <2> DEFINE q == g[k].queued
             n == g[k].arrived
             d == g[k].done
             ts == times[k + 1]
             s == TakeMessage([queued |-> q, arrived |-> n, done |-> d], ts, p.from)
  <2>2. g[k + 1] = s
    <3>1. k + 1 \in 1 .. N /\ (k + 1) - 1 = k
      BY <1>3, <2>1
    <3>2. g[k + 1] = TakeMessage(g[(k + 1) - 1], times[k + 1], p.from)
      BY <1>5, <3>1
    <3>3. g[k] = [queued |-> q, arrived |-> n, done |-> d]
      BY <2>1
    <3> QED BY <3>1, <3>2, <3>3
  <2>3. ts \in Nat
    BY <1>3, <2>1
  <2>4. /\ ListGood(q, n) /\ DoneGood(q, n, d)
        /\ Enlarged(queued, arrived, done, q, n, d)
    BY <2>1
  <2> HIDE DEF q, n, d, ts
  <2>5. /\ s.arrived = n + 1
        /\ ListGood(s.queued, n + 1) /\ DoneGood(s.queued, n + 1, s.done)
        /\ Enlarged(q, n, d, s.queued, n + 1, s.done)
    BY <2>3, <2>4, TakeMessageIs
  <2>6. s = [queued |-> s.queued, arrived |-> s.arrived, done |-> s.done]
    BY DEF TakeMessage
  <2> HIDE DEF s
  <2>7. Enlarged(queued, arrived, done, s.queued, n + 1, s.done)
    BY <2>4, <2>5, EnlargedOn
  <2> QED BY <2>2, <2>5, <2>6, <2>7
<1>8. N \in S
  BY <1>3, <1>6, <1>7, Induction
<1> QED BY <1>2, <1>3, <1>8

-----------------------------------------------------------------------------
(* The parts of a sequence put together *)
LEMMA Joined ==
    ASSUME NEW S, NEW d \in Seq(S), NEW f \in Seq(S)
    PROVE  /\ d \o f \in Seq(S) /\ Len(d \o f) = Len(d) + Len(f)
           /\ \A i \in 1 .. Len(d) : (d \o f)[i] = d[i]
           /\ \A i \in 1 .. Len(f) : (d \o f)[Len(d) + i] = f[i]
<1>1. /\ d \o f \in Seq(S) /\ Len(d \o f) = Len(d) + Len(f)
      /\ \A i \in 1 .. Len(d) + Len(f) : (d \o f)[i] = IF i <= Len(d) THEN d[i] ELSE f[i - Len(d)]
  BY ConcatProperties
<1>2. Len(d) \in Nat /\ Len(f) \in Nat
  OBVIOUS
<1>3. \A i \in 1 .. Len(d) : i \in 1 .. Len(d) + Len(f) /\ i <= Len(d)
  BY <1>2
<1>4. \A i \in 1 .. Len(f) : Len(d) + i \in 1 .. Len(d) + Len(f) /\ ~ Len(d) + i <= Len(d) /\ Len(d) + i - Len(d) = i
  BY <1>2
<1>5. \A i \in 1 .. Len(d) : (d \o f)[i] = d[i]
  BY <1>1, <1>3
<1>6. ASSUME NEW i \in 1 .. Len(f) PROVE (d \o f)[Len(d) + i] = f[i]
  <2>1. (d \o f)[Len(d) + i] = f[Len(d) + i - Len(d)]
    BY <1>1, <1>4
  <2> QED BY <1>4, <2>1
<1> QED BY <1>1, <1>5, <1>6

(* dispatch_queued: the first c messages of q have been answered, p and e  *)
(* are left.                                                               *)
Given(q, n, d, addr, on, c, p, e) ==
    /\ p \in Seq(Message) /\ Len(p) = Len(q) - c
    /\ \A i \in 1 .. Len(q) - c : p[i] = q[i + c]
    /\ e \in Seq(Answered) /\ Len(e) = Len(d) + c
    /\ \A i \in 1 .. Len(d) : e[i] = d[i]
    /\ \A i \in 1 .. c : e[Len(d) + i] = Handled(q[i], "queue", addr, n, on)

(* The first c messages are due, or the queue is off. *)
OnTime(q, c, on) == \A i \in 1 .. c : ~ on \/ q[i].ts <= now + 1

(* That is what dispatch_queued computes. *)
LEMMA GivenIs ==
    ASSUME NEW q, NEW n, NEW d, ListGood(q, n), DoneGood(q, n, d), now \in Nat \ {0},
           NEW addr \in Peer \union {NULL}, NEW on \in BOOLEAN, NEW c \in 1 .. Len(q)
    PROVE  Given(q, n, d, addr, on, c, SubSeq(q, c + 1, Len(q)),
                 d \o [i \in 1 .. c |-> Handled(q[i], "queue", addr, n, on)])
<1> DEFINE p == SubSeq(q, c + 1, Len(q))
           r(i) == Handled(q[i], "queue", addr, n, on)
           f == [i \in 1 .. c |-> r(i)]
<1>1. n \in Nat /\ q \in Seq(Message) /\ d \in Seq(Answered)
  BY DEF ListGood, DoneGood
<1>2. Len(q) \in Nat /\ \A i \in 1 .. Len(q) : q[i] \in Message
  BY ListFacts
<1>3. p \in Seq(Message) /\ Len(p) = Len(q) - c
  BY <1>1, <1>2
<1>4. ASSUME NEW i \in 1 .. Len(q) - c PROVE p[i] = q[i + c]
  <2>1. p[i] = q[(c + 1) + i - 1] /\ (c + 1) + i - 1 = i + c
    BY <1>1, <1>2
  <2> QED BY <2>1
<1>5. \A i \in 1 .. c : r(i) \in Answered
  <2> SUFFICES ASSUME NEW i \in 1 .. c PROVE r(i) \in Answered
    OBVIOUS
  <2>1. q[i] \in Message /\ "queue" \in {"queue", "packet"} /\ now \in Nat
    BY <1>2
  <2> QED BY <1>1, <2>1, HandledIs
<1> HIDE DEF p, r
<1>6. f \in Seq(Answered) /\ Len(f) = c /\ \A i \in 1 .. c : f[i] = r(i)
  <2>1. c \in Nat
    BY <1>2
  <2> QED BY <1>5, <2>1
<1> HIDE DEF f
<1>7. /\ d \o f \in Seq(Answered) /\ Len(d \o f) = Len(d) + Len(f)
      /\ \A i \in 1 .. Len(d) : (d \o f)[i] = d[i]
      /\ \A i \in 1 .. Len(f) : (d \o f)[Len(d) + i] = f[i]
  <2>1. \A g \in Seq(Answered) :
           /\ d \o g \in Seq(Answered) /\ Len(d \o g) = Len(d) + Len(g)
           /\ \A i \in 1 .. Len(d) : (d \o g)[i] = d[i]
           /\ \A i \in 1 .. Len(g) : (d \o g)[Len(d) + i] = g[i]
    BY <1>1, Joined
  <2> QED BY <1>6, <2>1
<1>8. \A i \in 1 .. c : (d \o f)[Len(d) + i] = r(i)
  BY <1>6, <1>7
<1> DEFINE e == d \o f
<1>9. Len(e) = Len(d) + c /\ e \in Seq(Answered) /\ (\A i \in 1 .. Len(d) : e[i] = d[i])
      /\ \A i \in 1 .. c : e[Len(d) + i] = r(i)
  BY <1>6, <1>7, <1>8
<1> HIDE DEF e
<1>10. Given(q, n, d, addr, on, c, p, e)
  BY <1>3, <1>4, <1>9 DEF Given, r
<1> QED BY <1>10 DEF p, e, f, r

(* List and answers stay right when the first messages are answered. *)
LEMMA GiveIs ==
    ASSUME NEW q, NEW n, NEW d, ListGood(q, n), DoneGood(q, n, d), now \in Nat \ {0},
           NEW addr \in Peer \union {NULL}, NEW on \in BOOLEAN, NEW c \in 1 .. Len(q),
           OnTime(q, c, on),
           NEW p, NEW e, Given(q, n, d, addr, on, c, p, e)
    PROVE  /\ ListGood(p, n) /\ DoneGood(p, n, e)
           /\ \A i \in 1 .. c : e[Len(d) + i].id = q[i].id /\ e[Len(d) + i].ts = q[i].ts
<1> DEFINE r(i) == Handled(q[i], "queue", addr, n, on)
           M == Len(q)
           N == Len(d)
<1>1. n \in Nat /\ q \in Seq(Message)
  BY DEF ListGood
<1>2. /\ M \in Nat
      /\ \A i \in 1 .. M : q[i] \in Message /\ q[i].ts \in Nat /\ q[i].id \in Nat /\ q[i].id <= n
  BY ListFacts
<1>3. d \in Seq(Answered) /\ N \in Nat
      /\ \A k \in 1 .. N : /\ d[k].id \in Nat /\ d[k].known \in Nat /\ d[k].ts \in Nat
                           /\ d[k].id <= n /\ d[k].known <= n /\ WellAnswered(d[k])
  BY <1>1, DoneFacts DEF DoneGood
<1>4. p \in Seq(Message) /\ Len(p) = M - c /\ \A i \in 1 .. M - c : p[i] = q[i + c]
  BY DEF Given
<1>5. \A i \in 1 .. c : i \in 1 .. M
  BY <1>2
<1>6. \A i \in 1 .. c : /\ r(i) \in Answered /\ r(i).id = q[i].id /\ r(i).ts = q[i].ts /\ r(i).at = now
                        /\ r(i).via = "queue" /\ r(i).off = ~ on /\ r(i).known = n
  <2> SUFFICES ASSUME NEW i \in 1 .. c
               PROVE  /\ r(i) \in Answered /\ r(i).id = q[i].id /\ r(i).ts = q[i].ts /\ r(i).at = now
                      /\ r(i).via = "queue" /\ r(i).off = ~ on /\ r(i).known = n
    OBVIOUS
  <2>1. "queue" \in {"queue", "packet"} /\ now \in Nat
    OBVIOUS
  <2>2. PICK m \in Message : m = q[i]
    BY <1>2, <1>5
  <2> DEFINE h == Handled(m, "queue", addr, n, on)
  <2>3. /\ h \in Answered /\ h.id = m.id /\ h.ts = m.ts /\ h.at = now
        /\ h.via = "queue" /\ h.off = ~ on /\ h.known = n
    BY <1>1, <2>1, HandledIs
  <2>4. h = r(i)
    BY <2>2
  <2> HIDE DEF h, r
  <2> QED BY <2>2, <2>3, <2>4
<1>8. /\ e \in Seq(Answered) /\ Len(e) = N + c
      /\ \A i \in 1 .. N : e[i] = d[i]
      /\ \A i \in 1 .. c : e[N + i] = r(i)
  BY DEF Given
<1> HIDE DEF r, M, N
<1>9. \A k \in 1 .. N + c : k \in 1 .. N \/ \E i \in 1 .. c : k = N + i
  <2> SUFFICES ASSUME NEW k \in 1 .. N + c, k \notin 1 .. N PROVE \E i \in 1 .. c : k = N + i
    OBVIOUS
  <2>1. k - N \in 1 .. c /\ k = N + (k - N)
    BY <1>2, <1>3
  <2> QED BY <2>1
<1>10. \A i \in 1 .. M - c : i + c \in 1 .. M
  BY <1>2
<1>11. ListGood(p, n)
  <2>1. \A i \in 1 .. M - c : p[i].id <= n
    BY <1>2, <1>4, <1>10
  <2>2. ASSUME NEW i \in 1 .. M - c, NEW j \in 1 .. M - c, i < j PROVE Before(p[i], p[j])
    <3>1. i + c \in 1 .. M /\ j + c \in 1 .. M /\ i + c < j + c
      BY <1>2, <1>10, <2>2
    <3>2. Before(q[i + c], q[j + c])
      BY <3>1 DEF ListGood, M
    <3> QED BY <1>4, <3>2
  <2> QED BY <1>1, <1>4, <2>1, <2>2 DEF ListGood
<1>12. \A k \in 1 .. N + c : e[k].id <= n /\ e[k].known <= n /\ WellAnswered(e[k])
  <2> SUFFICES ASSUME NEW k \in 1 .. N + c PROVE e[k].id <= n /\ e[k].known <= n /\ WellAnswered(e[k])
    OBVIOUS
  <2>1. CASE k \in 1 .. N
    BY <1>3, <1>8, <2>1
  <2>2. CASE \E i \in 1 .. c : k = N + i
    <3>1. PICK i \in 1 .. c : k = N + i
      BY <2>2
    <3>2. e[k] = r(i) /\ i \in 1 .. M
      BY <1>5, <1>8, <3>1
    <3>3. WellAnswered(r(i))
      <4>1. ~ on \/ r(i).ts <= r(i).at + 1
        BY <1>6 DEF OnTime
      <4> QED BY <1>6, <4>1 DEF WellAnswered
    <3> QED BY <1>1, <1>2, <1>6, <3>2, <3>3
  <2> QED BY <1>9, <2>1, <2>2
<1>13. \A i \in 1 .. c : \A j \in 1 .. M : i < j => Suits(r(i), q[j])
  <2> SUFFICES ASSUME NEW i \in 1 .. c, NEW j \in 1 .. M, i < j PROVE Suits(r(i), q[j])
    OBVIOUS
  <2>1. i \in 1 .. M /\ Before(q[i], q[j])
    BY <1>5 DEF ListGood, M
  <2>2. q[i].ts <= q[j].ts
    BY <1>2, <2>1 DEF Before
  <2>3. q[i].id # q[j].id
    BY <2>1 DEF Before
  <2> QED BY <1>6, <2>2, <2>3 DEF Suits
<1>14. \A k \in 1 .. N + c : \A i \in 1 .. M - c : Suits(e[k], p[i])
  <2> SUFFICES ASSUME NEW k \in 1 .. N + c, NEW i \in 1 .. M - c PROVE Suits(e[k], p[i])
    OBVIOUS
  <2>1. i + c \in 1 .. M /\ p[i] = q[i + c]
    BY <1>4, <1>10
  <2>2. CASE k \in 1 .. N
    BY <1>8, <2>1, <2>2 DEF DoneGood, M, N
  <2>3. CASE \E j \in 1 .. c : k = N + j
    <3>1. PICK j \in 1 .. c : k = N + j
      BY <2>3
    <3>2. e[k] = r(j) /\ j < i + c
      BY <1>2, <1>8, <3>1
    <3> QED BY <1>13, <2>1, <3>2
  <2> QED BY <1>9, <2>2, <2>3
<1>15. \A k, l \in 1 .. N + c : k < l => Suits(e[k], e[l])
  <2> SUFFICES ASSUME NEW k \in 1 .. N + c, NEW l \in 1 .. N + c, k < l PROVE Suits(e[k], e[l])
    OBVIOUS
  <2>1. CASE l \in 1 .. N
    <3>1. k \in 1 .. N
      BY <1>3, <2>1
    <3> QED BY <1>8, <2>1, <3>1 DEF DoneGood, N
  <2>2. CASE \E j \in 1 .. c : l = N + j
    <3>1. PICK j \in 1 .. c : l = N + j
      BY <2>2
    <3>2. e[l] = r(j) /\ r(j).id = q[j].id /\ r(j).ts = q[j].ts /\ j \in 1 .. M
      BY <1>5, <1>6, <1>8, <3>1
    <3>3. CASE k \in 1 .. N
      <4>1. Suits(d[k], q[j])
        BY <3>2, <3>3 DEF DoneGood, M, N
      <4> QED BY <1>8, <3>2, <3>3, <4>1 DEF Suits
    <3>4. CASE \E i \in 1 .. c : k = N + i
      <4>1. PICK i \in 1 .. c : k = N + i
        BY <3>4
      <4>2. e[k] = r(i) /\ i < j
        BY <1>3, <1>8, <3>1, <4>1
      <4>3. Suits(r(i), q[j])
        BY <1>13, <3>2, <4>2
      <4> QED BY <3>2, <4>2, <4>3 DEF Suits
    <3> QED BY <1>9, <3>3, <3>4
  <2> QED BY <1>9, <2>1, <2>2
<1>16. DoneGood(p, n, e)
  BY <1>4, <1>8, <1>12, <1>14, <1>15 DEF DoneGood
<1>17. \A i \in 1 .. c : e[N + i].id = q[i].id /\ e[N + i].ts = q[i].ts
  BY <1>6, <1>8
<1> QED BY <1>4, <1>8, <1>11, <1>16, <1>17 DEF M, N

(* What is left, and what was added *)
Leaves(q, d, q1, d1, c) ==
    /\ Len(q1) = Len(q) - c /\ \A i \in 1 .. Len(q) - c : q1[i] = q[i + c]
    /\ Len(d1) = Len(d) + c
    /\ \A i \in 1 .. Len(d) : d1[i] = d[i]
    /\ \A i \in 1 .. c : d1[Len(d) + i].id = q[i].id /\ d1[Len(d) + i].ts = q[i].ts

(* dispatch_queued answers all, or those of the first time. *)
LEMMA DispatchQueuedIs ==
    ASSUME ListGood(queued, arrived), DoneGood(queued, arrived, done), now \in Nat \ {0},
           source \in Peer \union {NULL}, enqueue' \in BOOLEAN, queued # <<>>, NEW all \in BOOLEAN,
           IF all THEN ~ enqueue' ELSE queued[1].ts <= now + 1, DispatchQueued(all)
    PROVE  /\ ListGood(queued', arrived) /\ DoneGood(queued', arrived, done')
           /\ \E c \in 1 .. Len(queued) :
                 /\ IF all THEN c = Len(queued) ELSE /\ \A i \in 1 .. c : queued[i].ts = queued[1].ts
                                                     /\ \A i \in c + 1 .. Len(queued) : queued[i].ts > queued[1].ts
                 /\ Len(queued') = Len(queued) - c /\ \A i \in 1 .. Len(queued) - c : queued'[i] = queued[i + c]
                 /\ Len(done') = Len(done) + c
                 /\ \A i \in 1 .. Len(done) : done'[i] = done[i]
                 /\ \A i \in 1 .. c : done'[Len(done) + i].id = queued[i].id /\ done'[Len(done) + i].ts = queued[i].ts
<1> DEFINE M == Len(queued)
           c == IF all THEN M ELSE FirstLater(queued, queued[1].ts) - 1
<1>1. /\ M \in Nat /\ queued \in Seq(Message)
      /\ \A i \in 1 .. M : queued[i].ts \in Nat /\ queued[i].id \in Nat
  BY ListFacts DEF ListGood
<1>2. M # 0
  <2> SUFFICES ASSUME M = 0 PROVE FALSE
    OBVIOUS
  <2>1. queued = <<>>
    BY <1>1, EmptySeq
  <2> QED BY <2>1
<1>3. 1 \in 1 .. M /\ queued[1].ts \in Nat
  BY <1>1, <1>2
<1>4. \A i \in 1 .. M : queued[1].ts <= queued[i].ts
  <2> SUFFICES ASSUME NEW i \in 1 .. M PROVE queued[1].ts <= queued[i].ts
    OBVIOUS
  <2>1. CASE i = 1
    BY <1>3, <2>1
  <2>2. CASE 1 < i
    <3>1. Before(queued[1], queued[i])
      BY <1>3, <2>2 DEF ListGood
    <3> QED BY <1>1, <1>3, <3>1 DEF Before
  <2> QED BY <1>1, <2>1, <2>2
<1>5. /\ c \in 1 .. M
      /\ IF all THEN c = M ELSE /\ \A i \in 1 .. c : queued[i].ts = queued[1].ts
                                /\ \A i \in c + 1 .. M : queued[i].ts > queued[1].ts
  <2>1. CASE all
    BY <1>1, <1>2, <2>1
  <2>2. CASE ~ all
    <3> DEFINE k == FirstLater(queued, queued[1].ts)
    <3>1. /\ k \in 1 .. M + 1 /\ \A i \in 1 .. k - 1 : queued[i].ts <= queued[1].ts
          /\ \A i \in k .. M : queued[i].ts > queued[1].ts
      BY <1>3, FirstLaterIs
    <3>2. c = k - 1
      BY <2>2
    <3> HIDE DEF k, c
    <3>3. k # 1
      <4> SUFFICES ASSUME k = 1 PROVE FALSE
        OBVIOUS
      <4>1. queued[1].ts > queued[1].ts
        BY <1>3, <3>1
      <4> QED BY <1>3, <4>1
    <3>4. c \in 1 .. M /\ c + 1 = k
      BY <1>1, <3>1, <3>2, <3>3
    <3>5. \A i \in 1 .. c : i \in 1 .. M /\ queued[i].ts <= queued[1].ts
      BY <1>1, <3>1, <3>2, <3>4
    <3>6. \A i \in 1 .. c : queued[i].ts = queued[1].ts
      BY <1>1, <1>3, <1>4, <3>5
    <3> QED BY <2>2, <3>1, <3>4, <3>6
  <2> QED BY <2>1, <2>2
<1>6. /\ queued' = SubSeq(queued, c + 1, Len(queued))
      /\ done' = done \o [i \in 1 .. c |-> Handled(queued[i], "queue", source, arrived, enqueue')]
  BY DEF DispatchQueued
<1> HIDE DEF c
<1>7. \A i \in 1 .. c : ~ enqueue' \/ queued[i].ts <= now + 1
  BY <1>5
<1>8. Given(queued, arrived, done, source, enqueue', c, queued', done')
  BY <1>5, <1>6, GivenIs
<1>9. /\ ListGood(queued', arrived) /\ DoneGood(queued', arrived, done')
      /\ \A i \in 1 .. c : done'[Len(done) + i].id = queued[i].id /\ done'[Len(done) + i].ts = queued[i].ts
  <2>1. PICK on \in BOOLEAN : on = enqueue'
    OBVIOUS
  <2>2. Given(queued, arrived, done, source, on, c, queued', done')
    BY <1>8, <2>1
  <2>3. OnTime(queued, c, on)
    BY <1>7, <2>1 DEF OnTime
  <2> QED BY <1>5, <2>2, <2>3, GiveIs
<1> QED BY <1>5, <1>8, <1>9 DEF Given

-----------------------------------------------------------------------------
(* The list is in order, what was answered was answered rightly, and all   *)
(* that is there came from one of the two peers.                           *)
QueueInv ==
    /\ ListGood(queued, arrived) /\ DoneGood(queued, arrived, done)
    /\ now \in Nat \ {0} /\ enqueue \in BOOLEAN /\ source \in Peer \union {NULL}
    /\ \A p \in wire : p.from \in Peer

(* What a step does to the queue. *)
Still      == UNCHANGED <<queued, done>>
Arrived    == Enlarged(queued, arrived, done, queued', arrived', done')
Gave(all)  ==
    \E c \in 1 .. Len(queued) :
       /\ IF all THEN c = Len(queued) ELSE /\ \A i \in 1 .. c : queued[i].ts = queued[1].ts
                                           /\ \A i \in c + 1 .. Len(queued) : queued[i].ts > queued[1].ts
       /\ Leaves(queued, done, queued', done', c)
Moved == Still \/ Arrived \/ Gave(TRUE) \/ Gave(FALSE)

(* An empty list, and no answers *)
LEMMA QueueInit == Init => QueueInv
<1> SUFFICES ASSUME Init PROVE QueueInv
  OBVIOUS
<1>1. queued = <<>> /\ arrived = 0 /\ done = <<>> /\ wire = {} /\ now = 1 /\ enqueue = TRUE /\ source = NULL
  BY DEF Init
<1>2. Len(queued) = 0 /\ Len(done) = 0 /\ queued \in Seq(Message) /\ done \in Seq(Answered)
  BY <1>1
<1>3. \A i \in 1 .. 0 : FALSE
  OBVIOUS
<1>4. ListGood(queued, arrived)
  BY <1>1, <1>2, <1>3 DEF ListGood
<1>5. DoneGood(queued, arrived, done)
  BY <1>2, <1>3 DEF DoneGood
<1> QED BY <1>1, <1>4, <1>5 DEF QueueInv

(* dispatch_queued is called when the first message is due, or the queue   *)
(* has been switched off.                                                  *)
LEMMA DispatchQueuedStep ==
    ASSUME QueueInv, queued # <<>>, enqueue' \in BOOLEAN, NEW all \in BOOLEAN,
           IF all THEN ~ enqueue' ELSE queued[1].ts <= now + 1, DispatchQueued(all)
    PROVE  ListGood(queued', arrived) /\ DoneGood(queued', arrived, done') /\ Gave(all)
BY DispatchQueuedIs DEF QueueInv, Gave, Leaves

(* Where the server handles messages the first one is due. *)
LEMMA DueSoon ==
    ASSUME QueueInv, ~ Delay > 1
    PROVE  queued # <<>> /\ queued[1].ts <= now + 1
<1>1. Far > 1
  BY DEF Far
<1>2. queued # <<>> /\ ~ (IF queued[1].ts > now THEN queued[1].ts - now ELSE 0) > 1
  BY <1>1 DEF Delay
<1>3. now \in Nat /\ queued[1].ts \in Nat
  <2>1. queued \in Seq(Message)
    BY DEF QueueInv, ListGood
  <2>2. 1 \in 1 .. Len(queued)
    BY <1>2, <2>1
  <2> QED BY <2>2, ListFacts DEF QueueInv
<1> QED BY <1>2, <1>3

(* The delay is a number. *)
LEMMA DelayNat ==
    ASSUME QueueInv
    PROVE  Delay \in Nat
<1>1. queued # <<>> => now \in Nat /\ queued[1].ts \in Nat
  <2>1. queued \in Seq(Message)
    BY DEF QueueInv, ListGood
  <2>2. queued # <<>> => 1 \in 1 .. Len(queued)
    BY <2>1
  <2> QED BY <2>2, ListFacts DEF QueueInv
<1>2. CASE queued = <<>>
  BY <1>2 DEF Delay, Far
<1>3. CASE queued # <<>>
  BY <1>1, <1>3 DEF Delay
<1> QED BY <1>2, <1>3

(* A call of dispatch_queued by lo_server_recv *)
LEMMA RecvStep ==
    ASSUME QueueInv, ~ Delay > 1, DispatchQueued(FALSE), UNCHANGED <<arrived, now, enqueue, source>>, wire' = wire
    PROVE  QueueInv' /\ Moved
<1>1. queued # <<>> /\ queued[1].ts <= now + 1
  BY DueSoon
<1>2. ListGood(queued', arrived) /\ DoneGood(queued', arrived, done') /\ Gave(FALSE)
  BY <1>1, DispatchQueuedStep DEF QueueInv
<1> QED BY <1>2 DEF QueueInv, Moved

(* lo_server_enable_queue *)
LEMMA DisableStep ==
    ASSUME QueueInv, NEW remaining \in BOOLEAN, Disable(remaining)
    PROVE  QueueInv' /\ Moved
<1>1. enqueue' = FALSE /\ UNCHANGED <<arrived, now, source, wire>>
  BY DEF Disable, heap
<1>2. CASE remaining /\ queued # <<>>
  <2>1. DispatchQueued(TRUE)
    BY <1>2 DEF Disable
  <2>2. ListGood(queued', arrived) /\ DoneGood(queued', arrived, done') /\ Gave(TRUE)
    BY <1>1, <1>2, <2>1, DispatchQueuedStep
  <2> QED BY <1>1, <2>2 DEF QueueInv, Moved
<1>3. CASE ~ (remaining /\ queued # <<>>)
  BY <1>1, <1>3 DEF Disable, QueueInv, Moved, Still
<1> QED BY <1>2, <1>3

(* A packet read by lo_server_recv *)
LEMMA PollDataStep ==
    ASSUME QueueInv, PollData
    PROVE  QueueInv' /\ Moved
<1>1. PICK p \in wire : \E times \in {TimesOf(p)} \intersect Seq(Nat) : Receive(p, times)
  BY DEF PollData
<1>2. PICK times \in Seq(Nat) : Receive(p, times)
  BY <1>1
<1>3. p.from \in Peer
  BY DEF QueueInv
<1>4. ListGood(queued', arrived') /\ DoneGood(queued', arrived', done') /\ Arrived
  BY <1>2, <1>3, ReceiveIs DEF QueueInv, Arrived
<1>5. wire' = wire \ {p} /\ source' = p.from /\ UNCHANGED <<now, enqueue>>
  BY <1>2 DEF Receive
<1> QED BY <1>3, <1>4, <1>5 DEF QueueInv, Moved

(* Every step keeps the invariant and is one of these. *)
LEMMA QueueStep ==
    ASSUME QueueInv, [Next]_vars
    PROVE  QueueInv' /\ Moved
<1>1. CASE UNCHANGED <<now, thread>> /\ \A p \in wire' : p \in wire \/ p.from \in Peer
  BY <1>1 DEF QueueInv, thread, Moved, Still
<1>2. CASE Build
  BY <1>1, <1>2 DEF Build
<1>3. ASSUME NEW b \in BundleCell, SendBundle(b) PROVE QueueInv' /\ Moved
  <2>1. \A p \in wire' : p \in wire \/ p.from = Host
    BY <1>3 DEF SendBundle
  <2> QED BY <1>1, <1>3, <2>1 DEF SendBundle, Peer
<1>4. ASSUME NEW ts \in Times, NEW args \in Args, SendTimestamped(ts, args) PROVE QueueInv' /\ Moved
  <2>1. \A p \in wire' : p \in wire \/ p.from = Host
    BY <1>4 DEF SendTimestamped
  <2> QED BY <1>1, <1>4, <2>1 DEF SendTimestamped, Peer
<1>5. ASSUME NEW p \in ForeignPacket, SendForeign(p) PROVE QueueInv' /\ Moved
  <2>1. \A x \in wire' : x \in wire \/ x.from = Foreign
    BY <1>5 DEF SendForeign
  <2> QED BY <1>1, <1>5, <2>1 DEF SendForeign, Peer
<1>6. ASSUME NEW p \in wire, Lose(p) PROVE QueueInv' /\ Moved
  BY <1>1, <1>6 DEF Lose
<1>7. CASE Tick
  <2>1. now' = now + 1 /\ wire' = wire /\ UNCHANGED thread
    BY <1>7 DEF Tick
  <2>2. now' \in Nat \ {0}
    BY <2>1 DEF QueueInv
  <2> QED BY <2>1, <2>2 DEF QueueInv, thread, Moved, Still
<1>8. CASE Wait
  BY <1>8 DEF Wait, QueueInv, Moved, Still
<1>9. CASE Recv
  <2>1. UNCHANGED <<wire, now, source, enqueue, arrived>>
    BY <1>9 DEF Recv
  <2>2. CASE Delay > 1
    <3>1. UNCHANGED <<queued, done>>
      BY <1>9, <2>2 DEF Recv
    <3> QED BY <2>1, <3>1 DEF QueueInv, Moved, Still
  <2>3. CASE ~ Delay > 1
    <3>1. DispatchQueued(FALSE)
      BY <1>9, <2>3 DEF Recv
    <3> QED BY <2>1, <2>3, <3>1, RecvStep
  <2> QED BY <2>2, <2>3
<1>10. CASE PollTimeout
  <2>1. UNCHANGED <<wire, now, source, enqueue, arrived>> /\ DispatchQueued(FALSE) /\ Delay <= 1
    BY <1>10 DEF PollTimeout
  <2>2. ~ Delay > 1
    <3>1. Delay \in Nat
      BY DelayNat
    <3> QED BY <2>1, <3>1
  <2> QED BY <2>1, <2>2, RecvStep
<1>11. CASE UNCHANGED vars
  BY <1>1, <1>11 DEF vars
<1> QED BY <1>2, <1>3, <1>4, <1>5, <1>6, <1>7, <1>8, <1>9, <1>10, <1>11, PollDataStep, DisableStep DEF Next, Server

(* The list and the answers stay as QueueInv says. *)
LEMMA Queue == Spec => []QueueInv
<1>1. QueueInv /\ [Next]_vars => QueueInv'
  BY QueueStep
<1> QED BY <1>1, QueueInit, PTL DEF Spec

(* HandledInv: no message is answered before its time, a later one before  *)
(* an earlier one only where the code says so, and only handlers of queued *)
(* messages may be told a wrong source.                                    *)
LEMMA QueueHandled == QueueInv => HandledInv
<1> SUFFICES ASSUME QueueInv PROVE HandledInv
  OBVIOUS
<1>1. /\ Len(done) \in Nat
      /\ \A k \in 1 .. Len(done) : /\ done[k].id \in Nat /\ done[k].ts \in Nat /\ done[k].at \in Nat
                                   /\ done[k].known \in Nat /\ done[k].via \in {"queue", "packet"}
                                   /\ WellAnswered(done[k])
  <2>1. arrived \in Nat /\ DoneGood(queued, arrived, done)
    BY DEF QueueInv, ListGood
  <2>2. \A k \in 1 .. Len(done) : WellAnswered(done[k])
    BY <2>1 DEF DoneGood
  <2> QED BY <2>1, <2>2, DoneFacts
<1>2. NeverEarly
  <2> SUFFICES ASSUME NEW k \in 1 .. Len(done)
               PROVE  done[k].off \/ done[k].ts <= done[k].at + (IF done[k].via = "queue" THEN 1 ELSE 0)
    BY DEF NeverEarly
  <2>1. WellAnswered(done[k]) /\ done[k].ts \in Nat /\ done[k].at \in Nat /\ done[k].via \in {"queue", "packet"}
    BY <1>1
  <2>2. CASE done[k].via = "queue"
    BY <2>1, <2>2 DEF WellAnswered
  <2>3. CASE done[k].via # "queue"
    BY <2>1, <2>3 DEF WellAnswered
  <2> QED BY <2>2, <2>3
<1>3. InOrder
  <2> SUFFICES ASSUME NEW i \in 1 .. Len(done), NEW j \in i + 1 .. Len(done), done[i].ts > done[j].ts
               PROVE  \/ done[j].id > done[i].known
                      \/ done[i].via = "packet" /\ (done[i].off \/ done[i].ts <= done[i].at)
    BY DEF InOrder
  <2>1. i \in 1 .. Len(done) /\ j \in 1 .. Len(done) /\ i < j
    BY <1>1
  <2>2. Suits(done[i], done[j])
    BY <2>1 DEF QueueInv, DoneGood
  <2>3. CASE done[i].via = "packet"
    BY <1>1, <2>3 DEF WellAnswered
  <2>4. CASE done[i].via = "queue"
    <3>1. done[i].ts <= done[j].ts \/ done[i].known < done[j].id
      BY <2>2, <2>4 DEF Suits
    <3> QED BY <1>1, <2>1, <3>1
  <2> QED BY <1>1, <2>3, <2>4
<1>4. SourceOfQueuedOnly
  <2> SUFFICES ASSUME NEW k \in 1 .. Len(done), done[k].told # done[k].from PROVE done[k].via = "queue"
    BY DEF SourceOfQueuedOnly
  <2> QED BY <1>1 DEF WellAnswered
<1> QED BY <1>2, <1>3, <1>4 DEF HandledInv

(* The server answers messages at their time, in their order and to the    *)
(* right peer, as far as HandledInv says, for any bundles, any packets of  *)
(* other senders, any order, loss and number of them.                      *)
THEOREM Handling == Spec => []HandledInv
BY Queue, QueueHandled, PTL

-----------------------------------------------------------------------------
(* The abstract queue: what is kept and what has been handled. *)
Shown(m) == [id |-> m.id, ts |-> m.ts]
SetOf(q) == {Shown(q[i]) : i \in 1 .. Len(q)}

(* The abstract image of a list, one by one and as a set *)
LEMMA AbstractIs ==
    ASSUME NEW q, Len(q) \in Nat
    PROVE  /\ Abstract(q) \in Seq([id : {q[i].id : i \in 1 .. Len(q)}, ts : {q[i].ts : i \in 1 .. Len(q)}])
           /\ Len(Abstract(q)) = Len(q)
           /\ \A i \in 1 .. Len(q) : Abstract(q)[i] = Shown(q[i])
           /\ ToSet(Abstract(q)) = SetOf(q) /\ Timed!ToSet(Abstract(q)) = SetOf(q)
<1> DEFINE D == [id : {q[i].id : i \in 1 .. Len(q)}, ts : {q[i].ts : i \in 1 .. Len(q)}]
           N == Len(q)
<1>1. \A i \in 1 .. N : Shown(q[i]) \in D
  BY DEF Shown
<1>2. Abstract(q) = [i \in 1 .. N |-> Shown(q[i])]
  BY DEF Abstract, Shown
<1> HIDE DEF D, N
<1>3. N \in Nat
  BY DEF N
<1>4. Abstract(q) \in Seq(D) /\ Len(Abstract(q)) = N /\ \A i \in 1 .. N : Abstract(q)[i] = Shown(q[i])
  BY <1>1, <1>2, <1>3
<1>5. DOMAIN Abstract(q) = 1 .. N
  BY <1>2
<1>6. ToSet(Abstract(q)) = SetOf(q) /\ Timed!ToSet(Abstract(q)) = SetOf(q)
  BY <1>4, <1>5 DEF ToSet, Timed!ToSet, SetOf, N
<1> QED BY <1>4, <1>6 DEF N, D

(* Sequences are the same whose elements are. *)
LEMMA SeqsEqual ==
    ASSUME NEW S, NEW T, NEW s \in Seq(S), NEW t \in Seq(T), Len(s) = Len(t), \A i \in 1 .. Len(s) : s[i] = t[i]
    PROVE  s = t
<1>1. s \in Seq(S \union T) /\ t \in Seq(S \union T)
  <2>1. Len(s) \in Nat /\ Len(t) \in Nat /\ (\A i \in 1 .. Len(s) : s[i] \in S) /\ (\A i \in 1 .. Len(t) : t[i] \in T)
    OBVIOUS
  <2>2. s \in [1 .. Len(s) -> S \union T] /\ t \in [1 .. Len(t) -> S \union T]
    BY <2>1
  <2> QED BY <2>1, <2>2, SeqDef
<1> QED BY <1>1, SeqEqual

(* The answers of a step. *)
Prolongs(d, d1) == /\ Len(d) \in Nat /\ Len(d1) \in Nat /\ Len(d) <= Len(d1)
                   /\ \A i \in 1 .. Len(d) : d1[i] = d[i]
Later(d, d1)    == SubSeq(Abstract(d1), Len(Abstract(d)) + 1, Len(Abstract(d1)))
Added(d, d1)    == {Shown(d1[i]) : i \in Len(d) + 1 .. Len(d1)}

(* x is what was added to d. *)
IsNew(d, d1, x) ==
    /\ Timed!IsPrefix(Abstract(d), Abstract(d1))
    /\ Len(x) = Len(d1) - Len(d)
    /\ \A i \in 1 .. Len(d1) - Len(d) : x[i] = Shown(d1[Len(d) + i])
    /\ Timed!ToSet(x) = Added(d, d1)

(* What was added is the end of the image. *)
LEMMA NewIs ==
    ASSUME NEW d, NEW d1, Prolongs(d, d1),
           NEW x, x = Later(d, d1)
    PROVE  IsNew(d, d1, x)
<1> DEFINE A == Abstract(d)
           B == Abstract(d1)
           M == Len(d)
           N == Len(d1)
<1>0. M \in Nat /\ N \in Nat /\ M <= N /\ \A i \in 1 .. M : d1[i] = d[i]
  BY DEF Prolongs
<1>1. PICK S, T : A \in Seq(S) /\ B \in Seq(T)
  BY <1>0, AbstractIs
<1>2. Len(A) = M /\ (\A i \in 1 .. M : A[i] = Shown(d[i])) /\ Len(B) = N /\ \A i \in 1 .. N : B[i] = Shown(d1[i])
  BY <1>0, AbstractIs
<1>3. x = SubSeq(B, M + 1, N) /\ M \in Nat /\ N \in Nat /\ M <= N
  BY <1>0, <1>2 DEF Later
<1>4. \A i \in 1 .. M : i \in 1 .. N
  BY <1>3
<1>5. \A i \in 1 .. M : A[i] = B[i]
  BY <1>0, <1>2, <1>4
<1> HIDE DEF A, B, M, N
<1>6. SubSeq(A, 1, M) = SubSeq(B, 1, M)
  <2>1. /\ SubSeq(A, 1, M) \in Seq(S) /\ SubSeq(B, 1, M) \in Seq(T)
        /\ Len(SubSeq(A, 1, M)) = M /\ Len(SubSeq(B, 1, M)) = M
        /\ \A i \in 1 .. M : SubSeq(A, 1, M)[i] = A[i]
        /\ \A i \in 1 .. M : SubSeq(B, 1, M)[i] = B[i]
    BY <1>1, <1>2, <1>3
  <2>2. \A i \in 1 .. M : SubSeq(A, 1, M)[i] = SubSeq(B, 1, M)[i]
    BY <1>5, <2>1
  <2> QED BY <2>1, <2>2, SeqsEqual
<1>7. Timed!IsPrefix(A, B)
  BY <1>2, <1>3, <1>6 DEF Timed!IsPrefix
<1>8. /\ x \in Seq(T) /\ Len(x) = N - M
      /\ \A i \in 1 .. N - M : x[i] = B[M + 1 + i - 1]
  <2>1. M + 1 \in Int /\ N \in Int /\ \A i \in M + 1 .. N : i \in 1 .. N
    BY <1>3
  <2>2. \A i \in M + 1 .. N : B[i] \in T
    BY <1>1, <1>2, <2>1
  <2>3. /\ x \in Seq(T) /\ Len(x) = IF M + 1 <= N THEN N - (M + 1) + 1 ELSE 0
        /\ \A i \in 1 .. N - (M + 1) + 1 : x[i] = B[M + 1 + i - 1]
    <3>1. PICK k \in Int : k = M + 1
      BY <2>1
    <3>2. N \in Int /\ \A i \in k .. N : B[i] \in T
      BY <2>1, <2>2, <3>1
    <3> DEFINE y == SubSeq(B, k, N)
    <3>3. /\ y \in Seq(T) /\ Len(y) = IF k <= N THEN N - k + 1 ELSE 0
          /\ \A i \in 1 .. N - k + 1 : y[i] = B[k + i - 1]
      BY <3>2, SubSeqProperties
    <3>4. x = y
      BY <1>3, <3>1
    <3> HIDE DEF y
    <3> QED BY <3>1, <3>3, <3>4
  <2>4. N - (M + 1) + 1 = N - M /\ (~ M + 1 <= N => N - M = 0)
    BY <1>3
  <2> QED BY <2>3, <2>4
<1>9. \A i \in 1 .. N - M : x[i] = Shown(d1[M + i])
  <2> SUFFICES ASSUME NEW i \in 1 .. N - M PROVE x[i] = Shown(d1[M + i])
    OBVIOUS
  <2>1. x[i] = B[M + 1 + i - 1] /\ M + 1 + i - 1 = M + i /\ M + i \in 1 .. N
    BY <1>3, <1>8
  <2> QED BY <1>2, <2>1
<1>10. Timed!ToSet(x) = {Shown(d1[i]) : i \in M + 1 .. N}
  <2>1. DOMAIN x = 1 .. N - M
    BY <1>8
  <2>2. ASSUME NEW i \in 1 .. N - M PROVE M + i \in M + 1 .. N
    BY <1>3
  <2>3. ASSUME NEW i \in M + 1 .. N PROVE i - M \in 1 .. N - M /\ M + (i - M) = i
    BY <1>3
  <2>4. \A i \in 1 .. N - M : x[i] \in {Shown(d1[j]) : j \in M + 1 .. N}
    BY <1>9, <2>2
  <2>5. \A i \in M + 1 .. N : \E j \in 1 .. N - M : x[j] = Shown(d1[i])
    <3> SUFFICES ASSUME NEW i \in M + 1 .. N PROVE \E j \in 1 .. N - M : x[j] = Shown(d1[i])
      OBVIOUS
    <3>1. x[i - M] = Shown(d1[M + (i - M)])
      BY <1>9, <2>3
    <3> QED BY <2>3, <3>1
  <2> QED BY <2>1, <2>4, <2>5 DEF Timed!ToSet
<1> QED BY <1>7, <1>8, <1>9, <1>10 DEF A, B, M, N, Added, IsNew

(* What the image shows of a message *)
LEMMA ShownIs ==
    ASSUME NEW m
    PROVE  Shown(m).id = m.id /\ Shown(m).ts = m.ts
BY DEF Shown

(* Reading a packet is an arrival of the abstract queue. *)
New(q, d, q1, d1) == (SetOf(q1) \union SetOf(d1)) \ (SetOf(q) \union SetOf(d))
Arrives(q, d, q1, d1, W, x) ==
    /\ \A m \in W : \A k \in SetOf(q) \union SetOf(d) : k.id < m.id
    /\ SetOf(q1) = SetOf(q) \union (W \ SetOf(d1))
    /\ Timed!IsPrefix(Abstract(d), Abstract(d1)) /\ Timed!ToSet(x) = W \ SetOf(q1)
    /\ \A i \in 1 .. Len(x) : \A j \in i + 1 .. Len(x) : x[i].id < x[j].id

(* An enlarged list is an arrival. *)
LEMMA ArriveIs ==
    ASSUME NEW q, NEW n, NEW d, NEW q1, NEW n1, NEW d1, ListGood(q, n), DoneGood(q, n, d),
           ListGood(q1, n1), DoneGood(q1, n1, d1), Enlarged(q, n, d, q1, n1, d1),
           NEW W, W = New(q, d, q1, d1),
           NEW x, x = Later(d, d1)
    PROVE  Arrives(q, d, q1, d1, W, x)
<1> DEFINE M == Len(d)
           N == Len(d1)
           X == Added(d, d1)
           A == SetOf(q)
           B == SetOf(d)
           A1 == SetOf(q1)
           B1 == SetOf(d1)
<1>1. n \in Nat /\ n1 \in Nat
  BY DEF ListGood
<1>2. M \in Nat /\ N \in Nat /\ M <= N /\ \A i \in 1 .. M : d1[i] = d[i]
  BY <1>1, DoneFacts DEF Enlarged
<1>3. /\ Timed!IsPrefix(Abstract(d), Abstract(d1))
      /\ Len(x) = N - M
      /\ \A i \in 1 .. N - M : x[i] = Shown(d1[M + i])
      /\ Timed!ToSet(x) = X
  <2>1. Prolongs(d, d1)
    BY <1>2 DEF Prolongs
  <2>2. IsNew(d, d1, x)
    BY <2>1, NewIs
  <2> QED BY <2>2 DEF IsNew
<1>4. /\ \A i \in 1 .. Len(q) : q[i].id \in Nat /\ q[i].id <= n
      /\ \A i \in 1 .. M : d[i].id \in Nat /\ d[i].id <= n
      /\ \A i \in 1 .. Len(q1) : q1[i].id \in Nat
      /\ \A i \in 1 .. N : d1[i].id \in Nat
  BY <1>1, ListFacts, DoneFacts DEF DoneGood
<1>5. \A m \in A \union B : m.id \in Nat /\ m.id <= n
  BY <1>4, ShownIs DEF SetOf
<1>6. \A m \in A1 \union B1 : m.id \in Nat
  BY <1>4, ShownIs DEF SetOf
<1>7. \A m \in A1 : m \in A \/ m.id > n
  <2> SUFFICES ASSUME NEW j \in 1 .. Len(q1) PROVE Shown(q1[j]) \in A \/ Shown(q1[j]).id > n
    BY DEF SetOf
  <2>1. q1[j].id > n \/ \E i \in 1 .. Len(q) : q1[j] = q[i]
    BY DEF Enlarged
  <2> QED BY <2>1, ShownIs DEF SetOf
<1>8. A \subseteq A1
  <2> SUFFICES ASSUME NEW i \in 1 .. Len(q) PROVE Shown(q[i]) \in A1
    BY DEF SetOf
  <2>1. \E j \in 1 .. Len(q1) : q1[j] = q[i]
    BY DEF Enlarged
  <2> QED BY <2>1 DEF SetOf
<1>9. B1 = B \union X
  <2>1. \A i \in 1 .. N : i \in 1 .. M \/ i \in M + 1 .. N
    BY <1>2
  <2>2. (\A i \in 1 .. M : i \in 1 .. N) /\ \A i \in M + 1 .. N : i \in 1 .. N
    BY <1>2
  <2>3. B1 \subseteq B \union X
    BY <1>2, <2>1 DEF SetOf, Added
  <2>4. B \subseteq B1 /\ X \subseteq B1
    BY <1>2, <2>2 DEF SetOf, Added
  <2> QED BY <2>3, <2>4
<1>10. \A m \in X : m.id > n
  BY ShownIs DEF Enlarged, Added
<1>11. \A m \in A1 : \A k \in B1 : k.id # m.id
  <2> SUFFICES ASSUME NEW i \in 1 .. Len(q1), NEW k \in 1 .. N PROVE Shown(d1[k]).id # Shown(q1[i]).id
    BY DEF SetOf
  <2>1. Suits(d1[k], q1[i])
    BY DEF DoneGood
  <2> QED BY <2>1, ShownIs DEF Suits
<1>12. \A i \in 1 .. N - M : \A j \in i + 1 .. N - M : x[i].id < x[j].id
  <2> SUFFICES ASSUME NEW i \in 1 .. N - M, NEW j \in i + 1 .. N - M PROVE x[i].id < x[j].id
    OBVIOUS
  <2>1. j \in 1 .. N - M /\ M + i \in M + 1 .. N /\ M + j \in M + 1 .. N /\ M + i < M + j
    BY <1>2
  <2>2. d1[M + i].id < d1[M + j].id
    BY <2>1 DEF Enlarged
  <2>3. x[i] = Shown(d1[M + i]) /\ x[j] = Shown(d1[M + j])
    BY <1>3, <2>1
  <2> QED BY <2>2, <2>3, ShownIs
<1> HIDE DEF A, B, A1, B1, X, M, N
<1>13. W = (A1 \union B1) \ (A \union B)
  BY DEF A, B, A1, B1, New
<1>14. \A m \in W : m \in A1 \union B1 /\ m.id > n
  BY <1>7, <1>9, <1>10, <1>13
<1>15. \A m \in A1 \union B1 : m.id > n => m \in W
  <2> SUFFICES ASSUME NEW m \in A1 \union B1, m.id > n, m \in A \union B PROVE FALSE
    BY <1>13
  <2> QED BY <1>1, <1>5
<1>16. \A m \in W : \A k \in A \union B : k.id < m.id
  <2> SUFFICES ASSUME NEW m \in W, NEW k \in A \union B PROVE k.id < m.id
    OBVIOUS
  <2>1. m.id > n /\ m.id \in Nat /\ k.id \in Nat /\ k.id <= n
    BY <1>5, <1>6, <1>14
  <2> QED BY <1>1, <2>1
<1>17. A1 = A \union (W \ B1)
  <2>1. \A m \in A1 : m \in A \/ (m \in W /\ m \notin B1)
    BY <1>7, <1>11, <1>15
  <2>2. \A m \in W : m \in B1 \/ m \in A1
    BY <1>14
  <2> QED BY <1>8, <2>1, <2>2
<1>18. X = W \ A1
  <2>1. \A m \in X : m \in W /\ m \notin A1
    BY <1>9, <1>10, <1>11, <1>15
  <2>2. \A m \in W : m \in A1 \/ m \in X
    BY <1>9, <1>13
  <2> QED BY <2>1, <2>2
<1> QED BY <1>3, <1>12, <1>16, <1>17, <1>18 DEF A, B, A1, B1, Arrives

(* Answering the first c messages of the list is a giving. *)
First(q, c) == {Shown(q[i]) : i \in 1 .. c}
Gives(q, d, q1, d1, c, x) ==
    /\ SetOf(q1) = SetOf(q) \ First(q, c)
    /\ Timed!IsPrefix(Abstract(d), Abstract(d1)) /\ Timed!ToSet(x) = First(q, c)
    /\ \A i \in 1 .. Len(x) : \A j \in i + 1 .. Len(x) : Timed!Before(x[i], x[j])

(* Leaving the rest is giving. *)
LEMMA GiveFirst ==
    ASSUME NEW q, NEW n, NEW d, NEW q1, NEW d1, ListGood(q, n), DoneGood(q, n, d), Len(d1) \in Nat,
           NEW c \in 1 .. Len(q), Leaves(q, d, q1, d1, c),
           NEW x, x = Later(d, d1)
    PROVE  Gives(q, d, q1, d1, c, x)
<1> DEFINE M == Len(d)
           N == Len(q)
           S == First(q, c)
<1> USE DEF First
<1>0. /\ Len(q1) = Len(q) - c /\ \A i \in 1 .. Len(q) - c : q1[i] = q[i + c]
      /\ Len(d1) = Len(d) + c
      /\ \A i \in 1 .. Len(d) : d1[i] = d[i]
      /\ \A i \in 1 .. c : d1[Len(d) + i].id = q[i].id /\ d1[Len(d) + i].ts = q[i].ts
  BY DEF Leaves
<1>1. n \in Nat /\ M \in Nat /\ N \in Nat /\ Len(d1) \in Nat
  BY DoneFacts, ListFacts DEF ListGood
<1>2. /\ Timed!IsPrefix(Abstract(d), Abstract(d1))
      /\ Len(x) = Len(d1) - M
      /\ \A i \in 1 .. Len(d1) - M : x[i] = Shown(d1[M + i])
      /\ Timed!ToSet(x) = Added(d, d1)
  <2>1. Prolongs(d, d1)
    BY <1>0, <1>1 DEF Prolongs
  <2>2. IsNew(d, d1, x)
    BY <2>1, NewIs
  <2> QED BY <2>2 DEF IsNew
<1>3. \A i \in 1 .. c : Shown(d1[M + i]) = Shown(q[i])
  BY <1>0 DEF Shown
<1>4. \A i, j \in 1 .. N : i < j => Before(q[i], q[j])
  BY DEF ListGood
<1> HIDE DEF M, N
<1>5. Len(x) = c /\ \A i \in 1 .. c : x[i] = Shown(q[i])
  <2>1. Len(d1) - M = c
    BY <1>0, <1>1 DEF M, N
  <2> QED BY <1>2, <1>3, <2>1
<1>6. Timed!ToSet(x) = S
  <2>1. \A i \in 1 .. c : M + i \in M + 1 .. Len(d1)
    BY <1>0, <1>1 DEF M, N
  <2>2. \A i \in M + 1 .. Len(d1) : i - M \in 1 .. c /\ M + (i - M) = i
    BY <1>0, <1>1 DEF M, N
  <2>3. \A i \in M + 1 .. Len(d1) : Shown(d1[i]) \in S
    <3> SUFFICES ASSUME NEW i \in M + 1 .. Len(d1) PROVE Shown(d1[i]) \in S
      OBVIOUS
    <3>1. Shown(d1[M + (i - M)]) = Shown(q[i - M])
      BY <1>3, <2>2
    <3> QED BY <2>2, <3>1
  <2>4. \A i \in 1 .. c : Shown(q[i]) \in {Shown(d1[j]) : j \in M + 1 .. Len(d1)}
    <3> SUFFICES ASSUME NEW i \in 1 .. c PROVE Shown(q[i]) \in {Shown(d1[j]) : j \in M + 1 .. Len(d1)}
      OBVIOUS
    <3>1. Shown(d1[M + i]) = Shown(q[i]) /\ M + i \in M + 1 .. Len(d1)
      BY <1>3, <2>1
    <3> QED BY <3>1
  <2> QED BY <1>2, <2>3, <2>4 DEF Added, M
<1>7. \A i \in 1 .. c : \A j \in i + 1 .. c : Timed!Before(x[i], x[j])
  <2> SUFFICES ASSUME NEW i \in 1 .. c, NEW j \in i + 1 .. c PROVE Timed!Before(x[i], x[j])
    OBVIOUS
  <2>1. j \in 1 .. c /\ i \in 1 .. N /\ j \in 1 .. N /\ i < j
    BY <1>1 DEF N
  <2>2. Before(q[i], q[j]) /\ x[i] = Shown(q[i]) /\ x[j] = Shown(q[j])
    BY <1>4, <1>5, <2>1
  <2> QED BY <2>2, ShownIs DEF Before, Timed!Before
<1>8. SetOf(q1) = SetOf(q) \ S
  <2>1. \A i \in 1 .. N - c : i + c \in 1 .. N
    BY <1>1 DEF N
  <2>2. ASSUME NEW i \in 1 .. N - c PROVE Shown(q1[i]) \in SetOf(q) /\ Shown(q1[i]) \notin S
    <3>1. q1[i] = q[i + c]
      BY <1>0, <2>2 DEF N
    <3>2. Shown(q1[i]) \in SetOf(q)
      BY <2>1, <3>1 DEF SetOf, N
    <3>3. ASSUME NEW k \in 1 .. c, Shown(q1[i]) = Shown(q[k]) PROVE FALSE
      <4>1. k \in 1 .. N /\ k < i + c
        BY <1>1 DEF N
      <4>2. Before(q[k], q[i + c])
        BY <1>4, <2>1, <4>1
      <4>3. q[k].id = q[i + c].id
        BY <3>1, <3>3, ShownIs
      <4> QED BY <4>2, <4>3 DEF Before
    <3> QED BY <3>2, <3>3
  <2>3. ASSUME NEW k \in 1 .. N, k \notin 1 .. c PROVE Shown(q[k]) \in SetOf(q1)
    <3>1. k - c \in 1 .. N - c /\ (k - c) + c = k
      BY <1>1, <2>3 DEF N
    <3>2. q1[k - c] = q[(k - c) + c]
      BY <1>0, <3>1 DEF N
    <3>3. k - c \in 1 .. Len(q1)
      BY <1>0, <3>1 DEF N
    <3> QED BY <3>1, <3>2, <3>3 DEF SetOf
  <2>4. \A m \in SetOf(q) : m \in S \/ m \in SetOf(q1)
    BY <2>3 DEF SetOf, N
  <2>5. \A m \in SetOf(q1) : m \in SetOf(q) /\ m \notin S
    BY <1>0, <2>2 DEF SetOf, N
  <2> QED BY <2>4, <2>5
<1> QED BY <1>2, <1>5, <1>6, <1>7, <1>8 DEF Gives

(* What TimedQueue says of the state and of the next one. *)
LEMMA Seen ==
    ASSUME QueueInv, QueueInv'
    PROVE  /\ ToSet(Abstract(queued)) = SetOf(queued) /\ ToSet(Abstract(queued)) ' = SetOf(queued')
           /\ Timed!Known = SetOf(queued) \union SetOf(done)
           /\ Timed!Known' = SetOf(queued') \union SetOf(done')
           /\ Timed!ToSet(Abstract(done)') = SetOf(done')
           /\ Abstract(done)' = Abstract(done')
           /\ Timed!New = Later(done, done')
<1>1. Len(queued) \in Nat /\ Len(done) \in Nat
  BY DEF QueueInv, ListGood, DoneGood
<1>2. Len(queued') \in Nat /\ Len(done') \in Nat
  BY DEF QueueInv, ListGood, DoneGood
<1>3. Abstract(done)' = Abstract(done') /\ Abstract(queued)' = Abstract(queued')
  BY DEF Abstract
<1>4. /\ ToSet(Abstract(queued)) = SetOf(queued) /\ ToSet(Abstract(queued')) = SetOf(queued')
      /\ Timed!ToSet(Abstract(done)) = SetOf(done) /\ Timed!ToSet(Abstract(done')) = SetOf(done')
  BY <1>1, <1>2, AbstractIs
<1> QED BY <1>3, <1>4 DEF Timed!Known, Timed!New, Later

(* A packet read is an arrival. *)
LEMMA ArriveStep ==
    ASSUME QueueInv, QueueInv', Arrived
    PROVE  Timed!Arrive
<1> DEFINE W == New(queued, done, queued', done')
           x == Later(done, done')
<1>1. Arrives(queued, done, queued', done', W, x)
  <2> HIDE DEF W, x
  <2>1. x = Later(done, done') /\ W = New(queued, done, queued', done')
    BY DEF W, x
  <2>2. ListGood(queued, arrived) /\ DoneGood(queued, arrived, done)
    BY DEF QueueInv
  <2>3. ListGood(queued', arrived') /\ DoneGood(queued', arrived', done')
    BY DEF QueueInv
  <2> QED BY <2>1, <2>2, <2>3, ArriveIs DEF Arrived
<1>2. Timed!Known' \ Timed!Known = W
  BY Seen DEF New
<1>3. Timed!New = x
  BY Seen
<1> HIDE DEF W, x
<1>4. Timed!Handles(W \ SetOf(queued'))
  BY <1>1, <1>3, Seen DEF Timed!Handles, Arrives
<1> QED BY <1>1, <1>2, <1>3, <1>4, Seen DEF Timed!Arrive, Arrives

(* What dispatch_queued does is a giving. *)
LEMMA GiveStep ==
    ASSUME QueueInv, QueueInv', NEW all \in BOOLEAN, Gave(all)
    PROVE  Timed!Next
<1> DEFINE x == Later(done, done')
<1>1. PICK c \in 1 .. Len(queued) :
       /\ IF all THEN c = Len(queued) ELSE /\ \A i \in 1 .. c : queued[i].ts = queued[1].ts
                                           /\ \A i \in c + 1 .. Len(queued) : queued[i].ts > queued[1].ts
       /\ Leaves(queued, done, queued', done', c)
  BY DEF Gave
<1> DEFINE S == First(queued, c)
<1>2. ListGood(queued, arrived) /\ DoneGood(queued, arrived, done) /\ Len(done') \in Nat
  BY DEF QueueInv, DoneGood
<1>3. Gives(queued, done, queued', done', c, x)
  <2> HIDE DEF x
  <2>1. x = Later(done, done')
    BY DEF x
  <2> QED BY <1>1, <1>2, <2>1, GiveFirst
<1> HIDE DEF x, S
<1>4. Timed!New = x
  BY Seen DEF x
<1>5. Timed!Give(S)
  BY <1>3, <1>4, Seen DEF Timed!Give, Timed!Handles, Gives, S
<1>6. Len(queued) \in Nat /\ \A i \in 1 .. Len(queued) : queued[i].ts \in Nat
  BY <1>2, ListFacts
<1>7. CASE all
  <2>1. S = SetOf(queued)
    BY <1>1, <1>7 DEF S, First, SetOf
  <2> QED BY <1>5, <2>1, Seen DEF Timed!Next
<1>8. CASE ~ all
  <2> DEFINE D == {m \in SetOf(queued) : \A k \in SetOf(queued) : m.ts <= k.ts}
  <2>1. 1 \in 1 .. c /\ 1 \in 1 .. Len(queued) /\ \A i \in 1 .. c : i \in 1 .. Len(queued)
    BY <1>6
  <2>2. \A i \in 1 .. Len(queued) : queued[1].ts <= queued[i].ts
    <3> SUFFICES ASSUME NEW i \in 1 .. Len(queued) PROVE queued[1].ts <= queued[i].ts
      OBVIOUS
    <3>1. i \in 1 .. c \/ i \in c + 1 .. Len(queued)
      BY <1>6
    <3> QED BY <1>1, <1>6, <1>8, <2>1, <3>1
  <2>3. ASSUME NEW i \in 1 .. c PROVE Shown(queued[i]) \in D
    <3>1. Shown(queued[i]) \in SetOf(queued)
      BY <2>1 DEF SetOf
    <3>2. queued[i].ts = queued[1].ts
      BY <1>1, <1>8
    <3>3. \A k \in SetOf(queued) : queued[1].ts <= k.ts
      BY <2>2, ShownIs DEF SetOf
    <3> QED BY <3>1, <3>2, <3>3, ShownIs
  <2>4. ASSUME NEW i \in 1 .. Len(queued), Shown(queued[i]) \in D PROVE i \in 1 .. c
    <3> SUFFICES ASSUME i \notin 1 .. c PROVE FALSE
      OBVIOUS
    <3>1. i \in c + 1 .. Len(queued)
      BY <1>6
    <3>2. queued[i].ts > queued[1].ts
      BY <1>1, <1>8, <3>1
    <3>3. Shown(queued[1]) \in SetOf(queued)
      BY <2>1 DEF SetOf
    <3>4. queued[i].ts <= queued[1].ts
      BY <2>4, <3>3, ShownIs
    <3> QED BY <1>6, <2>1, <3>2, <3>4
  <2>5. S = D
    <3>1. S \subseteq D
      BY <2>3 DEF S, First
    <3>2. D \subseteq S
      <4> SUFFICES ASSUME NEW i \in 1 .. Len(queued), Shown(queued[i]) \in D PROVE Shown(queued[i]) \in S
        BY DEF SetOf
      <4> QED BY <2>4 DEF S, First
    <3> QED BY <3>1, <3>2
  <2> HIDE DEF D
  <2>6. Timed!Due = D
    BY Seen DEF Timed!Due, D
  <2> QED BY <1>5, <2>5, <2>6 DEF Timed!Next
<1> QED BY <1>7, <1>8

(* An empty list is an empty queue. *)
LEMMA TimedInit == Init => Timed!Init
<1> SUFFICES ASSUME Init PROVE Timed!Init
  OBVIOUS
<1>1. queued = <<>> /\ done = <<>>
  BY DEF Init
<1>2. Len(<<>>) = 0 /\ 1 .. 0 = {}
  OBVIOUS
<1>3. Abstract(<<>>) = <<>>
  BY <1>2 DEF Abstract
<1>4. ToSet(<<>>) = {}
  BY DEF ToSet
<1> QED BY <1>1, <1>3, <1>4 DEF Timed!Init

(* Every step is one of the abstract queue, or none. *)
LEMMA TimedStep ==
    ASSUME QueueInv, [Next]_vars
    PROVE  [Timed!Next]_<<ToSet(Abstract(queued)), Abstract(done)>>
<1>1. QueueInv' /\ Moved
  BY QueueStep
<1>2. CASE Still
  BY <1>2 DEF Still
<1>3. CASE Arrived
  BY <1>1, <1>3, ArriveStep DEF Timed!Next
<1>4. CASE Gave(TRUE) \/ Gave(FALSE)
  BY <1>1, <1>4, GiveStep
<1> QED BY <1>1, <1>2, <1>3, <1>4 DEF Moved

(* The list of the server is a queue by time: what arrives is handled at   *)
(* once or kept, and kept messages go all, or those of the earliest time,  *)
(* in the order of their times and arrivals (TimedQueue.tla).              *)
THEOREM QueueRefinement == Spec => ImplementsQueue
<1>1. QueueInv /\ [Next]_vars => [Timed!Next]_<<ToSet(Abstract(queued)), Abstract(done)>>
  BY TimedStep
<1> QED BY <1>1, Queue, TimedInit, PTL DEF Spec, ImplementsQueue, Timed!Spec
=============================================================================
