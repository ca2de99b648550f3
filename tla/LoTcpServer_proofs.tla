------------------------- MODULE LoTcpServer_proofs -------------------------
(***************************************************************************)
(* Proofs about LoTcpServer.tla for every set of clients and machines and  *)
(* every number of messages.                                               *)
(*                                                                         *)
(* Only the first socket is ever read.  Of its connection the server has   *)
(* cut out the messages 1 .. CutNum, and its buffer begins with the next   *)
(* part; the connections behind it have not been read at all, which is why *)
(* the contexts that stay behind when the sockets move do no harm.         *)
(*                                                                         *)
(* That the server is the inbox of TcpInbox.tla follows: what it owes of a *)
(* connection are the messages after the first DoneNum, which are CutNum   *)
(* but for the one it holds in data, and what is queued is, connection for *)
(* connection, what it owes (Queue).  Queues one behind the other are      *)
(* joined by recursion; the lemmas about that are proved by Induction.     *)
(***************************************************************************)
EXTENDS LoTcpServer, FiniteSetTheorems, FunctionTheorems,
        SequenceTheorems, WellFoundedInduction, TLAPS

Msg(c, k)      == << <<c, 2 * k - 1>>, <<c, 2 * k>> >>
Parts(c, a, b) == [k \in 1 .. b - a |-> <<c, a + k>>]

(* The first n[c] messages of every c *)
UpTo(n) == {Msg(x[1], x[2]) : x \in {y \in Conn \X (Nat \ {0}) : y[2] <= n[y[1]]}}
CutNum  == [c \in Conn |-> Cardinality({m \in Cuts : m[1][1] = c})]

Elems(s)    == {s[i] : i \in 1 .. Len(s)}
Distinct(s) == \A i, j \in 1 .. Len(s) : s[i] = s[j] => i = j

Fresh(c) == c \in Accepted \union InBacklog /\ (sockets # <<>> => c # sockets[1])

ConnInv ==
    /\ Distinct(sockets) /\ Distinct(backlog)
    /\ Accepted \intersect InBacklog = {}
    /\ \A c \in Accepted \union InBacklog : stage[c] # "new"
    /\ \A c \in Conn : got[c] <= sent[c] /\ (stage[c] = "new" => sent[c] = 0)
    /\ \A c \in Conn : Fresh(c) => got[c] = 0

BufferInv ==
    /\ CutNum \in [Conn -> Nat] /\ Cuts = UpTo(CutNum)
    /\ \A c \in Conn : 2 * CutNum[c] <= got[c]
    /\ sockets # <<>> =>
          buffer[1] = Parts(sockets[1], 2 * CutNum[sockets[1]], got[sockets[1]])
    /\ \A i \in Open \ {1} : buffer[i] = <<>>

DeliveredInv ==
    /\ delivered \in Seq([msg : Seq(Part), addr : Host])
    /\ \A i, j \in 1 .. Len(delivered) :
          i < j /\ delivered[i].msg[1][1] = delivered[j].msg[1][1]
             => delivered[i].msg[1][2] < delivered[j].msg[1][2]
    /\ data # <<>> =>
          /\ pc \in {"raw", "scan0", "dispatch"} /\ sockets # <<>>
          /\ data = Msg(sockets[1], CutNum[sockets[1]]) /\ CutNum[sockets[1]] > 0
          /\ \A i \in 1 .. Len(delivered) :
                delivered[i].msg[1][1] = sockets[1] => delivered[i].msg[1][2] < data[1][2]
    /\ pc = "dispatch" => data # <<>>

ServerInv ==
    /\ pc = "scan1" => sockets # <<>>
    /\ sockets # <<>> => addr = From[Last(sockets)]

IInv == TypeOK /\ ConnInv /\ BufferInv /\ DeliveredInv /\ ServerInv

-----------------------------------------------------------------------------
(* The elements of a sequence *)

LEMMA AppendElems ==
    ASSUME NEW S, NEW s \in Seq(S), NEW e \in S
    PROVE  /\ Append(s, e) \in Seq(S) /\ Len(Append(s, e)) = Len(s) + 1
           /\ Append(s, e)[Len(s) + 1] = e /\ \A i \in 1 .. Len(s) : Append(s, e)[i] = s[i]
           /\ Elems(Append(s, e)) = Elems(s) \union {e}
           /\ Distinct(s) /\ e \notin Elems(s) => Distinct(Append(s, e))
<1> DEFINE t == Append(s, e)
<1>1. t \in Seq(S) /\ Len(t) = Len(s) + 1 /\ t[Len(s) + 1] = e /\ \A i \in 1 .. Len(s) : t[i] = s[i]
  OBVIOUS
<1>2. Len(s) \in Nat
  OBVIOUS
<1> HIDE DEF t
<1>3. Elems(t) \subseteq Elems(s) \union {e}
  <2> SUFFICES ASSUME NEW i \in 1 .. Len(s) + 1 PROVE t[i] \in Elems(s) \union {e}
    BY <1>1 DEF Elems
  <2>1. CASE i = Len(s) + 1
    BY <1>1, <2>1
  <2>2. CASE i \in 1 .. Len(s)
    BY <1>1, <2>2 DEF Elems
  <2> QED BY <1>2, <2>1, <2>2
<1>4. Elems(s) \union {e} \subseteq Elems(t)
  <2>1. e \in Elems(t)
    BY <1>1, <1>2 DEF Elems
  <2>2. ASSUME NEW i \in 1 .. Len(s) PROVE s[i] \in Elems(t)
    BY <1>1, <1>2 DEF Elems
  <2> QED BY <2>1, <2>2 DEF Elems
<1>5. Distinct(s) /\ e \notin Elems(s) => Distinct(t)
  <2> SUFFICES ASSUME Distinct(s), e \notin Elems(s), NEW i \in 1 .. Len(t), NEW j \in 1 .. Len(t), t[i] = t[j]
               PROVE  i = j
    BY DEF Distinct
  <2>1. \A k \in 1 .. Len(s) : s[k] # e
    BY DEF Elems
  <2> QED BY <1>1, <1>2, <2>1 DEF Distinct
<1> QED BY <1>1, <1>3, <1>4, <1>5 DEF t

LEMMA TailElems ==
    ASSUME NEW S, NEW s \in Seq(S), s # <<>>
    PROVE  /\ Tail(s) \in Seq(S) /\ Len(Tail(s)) = Len(s) - 1 /\ Len(s) \in Nat \ {0}
           /\ \A i \in 1 .. Len(s) - 1 : Tail(s)[i] = s[i + 1]
           /\ s[1] \in S /\ Head(s) = s[1]
           /\ Elems(s) = Elems(Tail(s)) \union {s[1]}
           /\ Distinct(s) => Distinct(Tail(s)) /\ s[1] \notin Elems(Tail(s))
<1> DEFINE t == Tail(s)
<1>1. t \in Seq(S) /\ Len(t) = Len(s) - 1 /\ Len(s) \in Nat \ {0}
      /\ (\A i \in 1 .. Len(s) - 1 : t[i] = s[i + 1]) /\ s[1] \in S /\ Head(s) = s[1]
  OBVIOUS
<1> HIDE DEF t
<1>2. Elems(s) \subseteq Elems(t) \union {s[1]}
  <2> SUFFICES ASSUME NEW i \in 1 .. Len(s), i # 1 PROVE s[i] \in Elems(t)
    BY DEF Elems
  <2>1. i - 1 \in 1 .. Len(t) /\ t[i - 1] = s[i]
    BY <1>1
  <2> QED BY <2>1 DEF Elems
<1>3. Elems(t) \union {s[1]} \subseteq Elems(s)
  <2>1. ASSUME NEW i \in 1 .. Len(t) PROVE t[i] \in Elems(s)
    <3>1. i + 1 \in 1 .. Len(s) /\ t[i] = s[i + 1]
      BY <1>1
    <3> QED BY <3>1 DEF Elems
  <2>2. s[1] \in Elems(s)
    BY <1>1 DEF Elems
  <2> QED BY <2>1, <2>2 DEF Elems
<1>4. Distinct(s) => Distinct(t) /\ s[1] \notin Elems(t)
  BY <1>1 DEF Distinct, Elems
<1> QED BY <1>1, <1>2, <1>3, <1>4 DEF t

-----------------------------------------------------------------------------
(* Parts of a stream and messages *)

LEMMA PartsLen ==
    ASSUME NEW c, NEW a \in Nat, NEW b \in Nat, a <= b
    PROVE  /\ Parts(c, a, b) \in Seq({c} \X (Nat \ {0})) /\ Len(Parts(c, a, b)) = b - a
           /\ \A k \in 1 .. b - a : Parts(c, a, b)[k] = <<c, a + k>>
BY DEF Parts

LEMMA PartsType ==
    ASSUME NEW c \in Conn, NEW a \in Nat, NEW b \in Nat, a <= b
    PROVE  Parts(c, a, b) \in Seq(Part)
<1>1. \A k \in 1 .. b - a : <<c, a + k>> \in Part
  BY DEF Part
<1> QED BY <1>1 DEF Parts

LEMMA PartsJoin ==
    ASSUME NEW c, NEW a \in Nat, NEW b \in Nat, NEW n \in Nat, a <= b
    PROVE  Parts(c, a, b) \o [k \in 1 .. n |-> <<c, b + k>>] = Parts(c, a, b + n)
<1> DEFINE s == Parts(c, a, b)
           t == [k \in 1 .. n |-> <<c, b + k>>]
           u == Parts(c, a, b + n)
           P == {c} \X (Nat \ {0})
<1> SUFFICES s \o t = u
  OBVIOUS
<1>1. s \in Seq(P) /\ Len(s) = b - a /\ \A k \in 1 .. b - a : s[k] = <<c, a + k>>
  BY DEF Parts
<1>2. t \in Seq(P) /\ Len(t) = n /\ \A k \in 1 .. n : t[k] = <<c, b + k>>
  OBVIOUS
<1>3. u \in Seq(P) /\ Len(u) = b + n - a /\ \A k \in 1 .. b + n - a : u[k] = <<c, a + k>>
  BY DEF Parts
<1> HIDE DEF s, t, u, P
<1> DEFINE st == s \o t
<1>4. st \in Seq(P) /\ Len(st) = b - a + n
      /\ \A k \in 1 .. b - a + n : st[k] = IF k <= b - a THEN s[k] ELSE t[k - (b - a)]
  <2>1. st \in Seq(P) /\ Len(st) = Len(s) + Len(t)
        /\ \A k \in 1 .. Len(s) + Len(t) : st[k] = IF k <= Len(s) THEN s[k] ELSE t[k - Len(s)]
    BY <1>1, <1>2, ConcatProperties
  <2> HIDE DEF st
  <2> QED BY <1>1, <1>2, <2>1
<1> HIDE DEF st
<1>5. \A k \in 1 .. b - a + n : st[k] = u[k]
  <2> SUFFICES ASSUME NEW k \in 1 .. b - a + n PROVE st[k] = u[k]
    OBVIOUS
  <2>1. u[k] = <<c, a + k>>
    BY <1>3
  <2>2. CASE k <= b - a
    BY <1>1, <1>4, <2>1, <2>2
  <2>3. CASE k > b - a
    <3>1. k - (b - a) \in 1 .. n /\ b + (k - (b - a)) = a + k
      BY <2>3
    <3>2. st[k] = t[k - (b - a)]
      BY <1>4, <2>3
    <3>3. t[k - (b - a)] = <<c, b + (k - (b - a))>>
      BY <1>2, <3>1
    <3> QED BY <2>1, <3>1, <3>2, <3>3
  <2> QED BY <2>2, <2>3
<1>6. st = u
  BY <1>3, <1>4, <1>5, SeqEqual
<1> QED BY <1>6 DEF st

LEMMA PartsCut ==
    ASSUME NEW c, NEW n \in Nat, NEW b \in Nat, 2 * n + 2 <= b
    PROVE  LET s == Parts(c, 2 * n, b)
           IN  /\ Len(s) = b - 2 * n
               /\ SubSeq(s, 1, 2) = Msg(c, n + 1)
               /\ SubSeq(s, 3, Len(s)) = Parts(c, 2 * (n + 1), b)
<1> DEFINE s == Parts(c, 2 * n, b)
           P == {c} \X (Nat \ {0})
           u == Parts(c, 2 * (n + 1), b)
           v == SubSeq(s, 3, Len(s))
           w == SubSeq(s, 1, 2)
           m == Msg(c, n + 1)
<1>1. s \in Seq(P) /\ Len(s) = b - 2 * n /\ \A k \in 1 .. b - 2 * n : s[k] = <<c, 2 * n + k>>
  BY DEF Parts
<1>2. u \in Seq(P) /\ Len(u) = b - 2 * (n + 1) /\ \A k \in 1 .. b - 2 * (n + 1) : u[k] = <<c, 2 * (n + 1) + k>>
  BY DEF Parts
<1>3. m \in Seq(P) /\ Len(m) = 2 /\ m[1] = <<c, 2 * n + 1>> /\ m[2] = <<c, 2 * n + 2>>
  <2>1. 2 * (n + 1) - 1 = 2 * n + 1 /\ 2 * (n + 1) = 2 * n + 2
    OBVIOUS
  <2> QED BY <2>1 DEF Msg
<1> HIDE DEF s, u, P, m
<1>4. \A k \in 1 .. Len(s) : s[k] \in P
  BY <1>1, ElementOfSeq
<1>5. w \in Seq(P) /\ Len(w) = 2 /\ \A k \in 1 .. 2 : w[k] = s[k]
  <2>1. \A k \in 1 .. 2 : s[k] \in P
    BY <1>1, <1>4
  <2>2. w \in Seq(P) /\ Len(w) = 2 /\ \A k \in 1 .. 2 - 1 + 1 : w[k] = s[1 + k - 1]
    BY <2>1, SubSeqProperties
  <2> QED BY <2>2
<1>6. v \in Seq(P) /\ Len(v) = b - 2 * n - 2 /\ \A k \in 1 .. b - 2 * n - 2 : v[k] = s[k + 2]
  <2> DEFINE l == Len(s)
  <2>1. l \in Int /\ l = b - 2 * n /\ \A k \in 3 .. l : s[k] \in P
    BY <1>1, <1>4
  <2> HIDE DEF l
  <2>2. LET x == SubSeq(s, 3, l)
        IN  x \in Seq(P) /\ Len(x) = (IF 3 <= l THEN l - 3 + 1 ELSE 0) /\ \A k \in 1 .. l - 3 + 1 : x[k] = s[3 + k - 1]
    BY <2>1, SubSeqProperties
  <2> QED BY <2>1, <2>2 DEF l
<1> HIDE DEF v, w
<1>7. w = m
  <2>1. s[1] = <<c, 2 * n + 1>> /\ s[2] = <<c, 2 * n + 2>>
    BY <1>1
  <2>2. w[1] = s[1] /\ w[2] = s[2]
    BY <1>5
  <2>3. w[1] = m[1] /\ w[2] = m[2] /\ Len(w) = 2 /\ Len(m) = 2
    BY <1>3, <1>5, <2>1, <2>2
  <2>4. \A k \in 1 .. Len(w) : w[k] = m[k]
    BY <2>3
  <2> QED BY <1>3, <1>5, <2>3, <2>4, SeqEqual
<1>8. v = u
  <2>1. ASSUME NEW k \in 1 .. b - 2 * n - 2 PROVE v[k] = u[k]
    <3>1. k + 2 \in 1 .. b - 2 * n /\ 2 * n + (k + 2) = 2 * (n + 1) + k /\ k \in 1 .. b - 2 * (n + 1)
      OBVIOUS
    <3>2. s[k + 2] = <<c, 2 * n + (k + 2)>>
      BY <1>1, <3>1
    <3>3. u[k] = <<c, 2 * (n + 1) + k>>
      BY <1>2, <3>1
    <3> QED BY <1>6, <3>1, <3>2, <3>3
  <2>2. Len(v) = Len(u) /\ Len(v) = b - 2 * n - 2
    BY <1>2, <1>6
  <2> QED BY <1>2, <1>6, <2>1, <2>2, SeqEqual
<1> QED BY <1>1, <1>7, <1>8 DEF s, u, v, w, m

LEMMA MsgInUpTo ==
    ASSUME NEW n \in [Conn -> Nat], NEW c \in Conn
    PROVE  /\ \A k \in Nat \ {0} : Msg(c, k) \in UpTo(n) <=> k <= n[c]
           /\ {m \in UpTo(n) : m[1][1] = c} = {Msg(c, k) : k \in 1 .. n[c]}
<1>1. \A k \in Nat \ {0} : k <= n[c] => Msg(c, k) \in UpTo(n)
  <2> SUFFICES ASSUME NEW k \in Nat \ {0}, k <= n[c] PROVE Msg(c, k) \in UpTo(n)
    OBVIOUS
  <2> DEFINE y == <<c, k>>
  <2>1. y \in Conn \X (Nat \ {0}) /\ y[1] = c /\ y[2] = k
    OBVIOUS
  <2> HIDE DEF y
  <2> QED BY <2>1 DEF UpTo
<1>2. \A m \in UpTo(n) : m[1][1] = c => \E k \in 1 .. n[c] : m = Msg(c, k)
  BY DEF UpTo, Msg
<1>3. \A k, l \in Nat : Msg(c, k) = Msg(c, l) => k = l
  BY DEF Msg
<1>4. \A k : Msg(c, k)[1][1] = c
  BY DEF Msg
<1>5. \A k \in Nat \ {0} : Msg(c, k) \in UpTo(n) => k <= n[c]
  BY <1>2, <1>3, <1>4
<1> QED BY <1>1, <1>2, <1>4, <1>5

LEMMA Counting ==
    ASSUME NEW n \in [Conn -> Nat]
    PROVE  [c \in Conn |-> Cardinality({m \in UpTo(n) : m[1][1] = c})] = n
<1> SUFFICES ASSUME NEW c \in Conn PROVE Cardinality({m \in UpTo(n) : m[1][1] = c}) = n[c]
  OBVIOUS
<1> DEFINE f == [k \in 1 .. n[c] |-> Msg(c, k)]
           T == {Msg(c, k) : k \in 1 .. n[c]}
<1>1. n[c] \in Nat /\ {m \in UpTo(n) : m[1][1] = c} = T
  BY MsgInUpTo
<1>2. f \in Bijection(1 .. n[c], T)
  <2>1. f \in [1 .. n[c] -> T]
    OBVIOUS
  <2>2. \A k, l \in 1 .. n[c] : f[k] = f[l] => k = l
    BY <1>1 DEF Msg
  <2>3. \A m \in T : \E k \in 1 .. n[c] : f[k] = m
    OBVIOUS
  <2> QED BY <2>1, <2>2, <2>3, Fun_IsBij
<1>3. ExistsBijection(1 .. n[c], T)
  BY <1>2, Fun_ExistsBij
<1>4. IsFiniteSet(1 .. n[c]) /\ Cardinality(1 .. n[c]) = n[c]
  BY <1>1, FS_Interval
<1> HIDE DEF f, T
<1> QED BY <1>1, <1>3, <1>4, FS_Bijection

(* One more message of c *)
LEMMA OneMore ==
    ASSUME NEW n \in [Conn -> Nat], NEW c \in Conn
    PROVE  UpTo([n EXCEPT ![c] = @ + 1]) = UpTo(n) \union {Msg(c, n[c] + 1)}
<1> DEFINE p == [n EXCEPT ![c] = @ + 1]
<1>1. p \in [Conn -> Nat] /\ p[c] = n[c] + 1 /\ \A d \in Conn : d # c => p[d] = n[d]
  OBVIOUS
<1>2. \A m \in UpTo(p) : \E d \in Conn : \E k \in 1 .. p[d] : m = Msg(d, k)
  BY <1>1 DEF UpTo
<1>3. \A m \in UpTo(n) : \E d \in Conn : \E k \in 1 .. n[d] : m = Msg(d, k)
  BY DEF UpTo
<1> HIDE DEF p
<1>4. UpTo(p) \subseteq UpTo(n) \union {Msg(c, n[c] + 1)}
  <2> SUFFICES ASSUME NEW d \in Conn, NEW k \in 1 .. p[d]
               PROVE  Msg(d, k) \in UpTo(n) \union {Msg(c, n[c] + 1)}
    BY <1>2
  <2>1. CASE k <= n[d]
    BY <1>1, <2>1, MsgInUpTo
  <2>2. CASE k > n[d]
    BY <1>1, <2>2
  <2> QED BY <1>1, <2>1, <2>2
<1>5. UpTo(n) \union {Msg(c, n[c] + 1)} \subseteq UpTo(p)
  <2>1. Msg(c, n[c] + 1) \in UpTo(p)
    BY <1>1, MsgInUpTo
  <2>2. \A d \in Conn : \A k \in 1 .. n[d] : Msg(d, k) \in UpTo(p)
    BY <1>1, MsgInUpTo
  <2> QED BY <1>3, <2>1, <2>2
<1> QED BY <1>4, <1>5 DEF p

-----------------------------------------------------------------------------
(* CutNum counts what Cuts says. *)
LEMMA CutNumIs == \A n \in [Conn -> Nat] : Cuts = UpTo(n) => CutNum = n
BY Counting DEF CutNum

LEMMA CutNumIsNext == \A n \in [Conn -> Nat] : Cuts' = UpTo(n) => CutNum' = n
BY Counting DEF CutNum

(* The thread starts with no connection and nothing read. *)
LEMMA InitInv == Init => IInv
<1> SUFFICES ASSUME Init PROVE IInv
  OBVIOUS
<1> USE DEF Init
<1>1. TypeOK
  <2>1. delivered = <<>> /\ Len(delivered) = 0 /\ backlog \in Seq(Conn) /\ sockets \in Seq(Conn)
        /\ buffer \in Seq(Seq(Part)) /\ Len(buffer) = 0 /\ Len(sockets) = 0 /\ data \in Seq(Part)
    OBVIOUS
  <2> QED BY <2>1 DEF TypeOK
<1>2. Accepted = {} /\ InBacklog = {} /\ Open = {}
  BY DEF Accepted, InBacklog, Open
<1>3. ConnInv
  BY <1>2 DEF ConnInv, Fresh, Distinct
<1>4. CutNum = [c \in Conn |-> 0] /\ Cuts = UpTo(CutNum)
  <2> DEFINE z == [c \in Conn |-> 0]
  <2>1. z \in [Conn -> Nat] /\ UpTo(z) = {} /\ Cuts = {}
    BY DEF UpTo, Cuts
  <2>2. CutNum = z
    BY <2>1, CutNumIs
  <2> QED BY <2>1, <2>2
<1>5. BufferInv
  BY <1>2, <1>4 DEF BufferInv
<1>6. DeliveredInv /\ ServerInv
  BY DEF DeliveredInv, ServerInv
<1> QED BY <1>1, <1>3, <1>5, <1>6 DEF IInv

(* The sockets that poll reports fit in what its array was made for. *)
LEMMA ReventsType == IInv => Revents \subseteq 0 .. Cardinality(Conn)
<1> SUFFICES ASSUME IInv PROVE Revents \subseteq 0 .. Cardinality(Conn)
  OBVIOUS
<1> DEFINE n == Len(sockets)
<1>1. sockets \in [1 .. n -> Conn] /\ n \in Nat
  BY DEF IInv, TypeOK
<1>2. sockets \in Injection(1 .. n, Conn)
  BY <1>1, Fun_IsInj DEF IInv, ConnInv, Distinct
<1>3. Cardinality(1 .. n) <= Cardinality(Conn)
  BY <1>2, FS_Injection, FiniteAssumption
<1>4. Cardinality(Conn) \in Nat
  BY FS_CardinalityType, FiniteAssumption
<1>5. Cardinality(1 .. n) = n
  <2> HIDE DEF n
  <2> QED BY <1>1, FS_Interval
<1> QED BY <1>1, <1>3, <1>4, <1>5 DEF Revents, Open, Listener

-----------------------------------------------------------------------------
(* Clients *)

LEMMA ClientKeeps == IInv /\ Client => IInv'
<1> SUFFICES ASSUME IInv, Client PROVE IInv'
  OBVIOUS
<1>1. UNCHANGED server
  BY DEF Client, Connect, SendPart, Close
<1>2. Cuts' = Cuts /\ CutNum' = CutNum /\ Accepted' = Accepted /\ Open' = Open
  BY <1>1 DEF server, Cuts, CutNum, Accepted, Open
<1>3. BufferInv' /\ DeliveredInv' /\ ServerInv'
  BY <1>1, <1>2 DEF server, IInv, BufferInv, DeliveredInv, ServerInv
<1>4. /\ stage \in [Conn -> {"new", "open", "closed"}] /\ sent \in [Conn -> Nat] /\ got \in [Conn -> Nat]
      /\ backlog \in Seq(Conn)
  BY DEF IInv, TypeOK
<1>5. ASSUME NEW c \in Conn, Connect(c) PROVE TypeOK' /\ ConnInv'
  <2>1. /\ stage[c] = "new" /\ stage' = [stage EXCEPT ![c] = "open"] /\ sent' = sent /\ got' = got
        /\ backlog' = Append(backlog, c) /\ sockets' = sockets
    BY <1>5 DEF Connect, server
  <2>2. backlog' \in Seq(Conn) /\ Elems(backlog') = Elems(backlog) \union {c}
        /\ (Distinct(backlog) /\ c \notin Elems(backlog) => Distinct(backlog'))
    BY <1>4, <2>1, AppendElems
  <2>3. c \notin Accepted /\ c \notin InBacklog
    BY <2>1 DEF IInv, ConnInv
  <2>4. InBacklog' = InBacklog \union {c}
    BY <2>2 DEF InBacklog, Elems
  <2>5. TypeOK'
    BY <1>1, <1>4, <2>1, <2>2 DEF server, IInv, TypeOK
  <2>6. Distinct(backlog')
    BY <2>2, <2>3 DEF IInv, ConnInv, InBacklog, Elems
  <2>7. got[c] = 0
    BY <1>4, <2>1 DEF IInv, ConnInv
  <2> QED BY <1>2, <1>4, <2>1, <2>3, <2>4, <2>5, <2>6, <2>7 DEF IInv, ConnInv, Fresh
<1>6. ASSUME NEW c \in Conn, SendPart(c) PROVE TypeOK' /\ ConnInv'
  <2>1. TypeOK'
    BY <1>1, <1>4, <1>6 DEF SendPart, server, IInv, TypeOK
  <2>2. InBacklog' = InBacklog
    BY <1>6 DEF SendPart, InBacklog
  <2> QED BY <1>1, <1>2, <1>4, <1>6, <2>1, <2>2 DEF SendPart, server, IInv, ConnInv, Fresh
<1>7. ASSUME NEW c \in Conn, Close(c) PROVE TypeOK' /\ ConnInv'
  <2>1. TypeOK'
    BY <1>1, <1>4, <1>7 DEF Close, server, IInv, TypeOK
  <2>2. InBacklog' = InBacklog
    BY <1>7 DEF Close, InBacklog
  <2> QED BY <1>1, <1>2, <1>4, <1>7, <2>1, <2>2 DEF Close, server, IInv, ConnInv, Fresh
<1> QED BY <1>3, <1>5, <1>6, <1>7 DEF Client, IInv

-----------------------------------------------------------------------------
(* The server thread *)

(* accept takes the oldest connection of the backlog; its buffer is empty, *)
(* and it is empty rightly if the socket is now the first.                 *)
LEMMA AcceptKeeps ==
    ASSUME IInv, Accept, UNCHANGED <<client, got, data, delivered, lost>>
    PROVE  /\ ConnInv' /\ BufferInv' /\ CutNum' = CutNum
           /\ backlog' \in Seq(Conn) /\ sockets' \in Seq(Conn) /\ buffer' \in Seq(Seq(Part))
           /\ Len(buffer') = Len(sockets') /\ sockets' # <<>>
           /\ addr' = From[Last(sockets')] /\ addr' \in Host
           /\ sockets # <<>> => sockets'[1] = sockets[1]
<1> DEFINE c == backlog[1]
<1>1. /\ backlog \in Seq(Conn) /\ sockets \in Seq(Conn) /\ buffer \in Seq(Seq(Part)) /\ Len(buffer) = Len(sockets)
      /\ got \in [Conn -> Nat] /\ sent \in [Conn -> Nat]
  BY DEF IInv, TypeOK
<1>2. /\ c \in Conn /\ Head(backlog) = c /\ backlog' = Tail(backlog) /\ backlog' \in Seq(Conn)
      /\ Elems(backlog) = Elems(backlog') \union {c} /\ Distinct(backlog') /\ c \notin Elems(backlog')
  BY <1>1, TailElems DEF Accept, IInv, ConnInv
<1> HIDE DEF c
<1>3. c \in InBacklog /\ c \notin Accepted
  BY <1>2 DEF InBacklog, Elems, IInv, ConnInv
<1>4. /\ sockets' \in Seq(Conn) /\ Len(sockets') = Len(sockets) + 1 /\ sockets'[Len(sockets) + 1] = c
      /\ \A i \in 1 .. Len(sockets) : sockets'[i] = sockets[i]
      /\ Elems(sockets') = Elems(sockets) \union {c} /\ Distinct(sockets')
  <2>1. sockets' = Append(sockets, c) /\ Distinct(sockets) /\ c \notin Elems(sockets)
    BY <1>2, <1>3 DEF Accept, IInv, ConnInv, Accepted, Open, Elems
  <2> QED BY <1>1, <1>2, <2>1, AppendElems
<1>5. /\ buffer' \in Seq(Seq(Part)) /\ Len(buffer') = Len(buffer) + 1 /\ buffer'[Len(buffer) + 1] = <<>>
      /\ \A i \in 1 .. Len(buffer) : buffer'[i] = buffer[i]
  BY <1>1 DEF Accept
<1>6. sockets' # <<>> /\ Len(sockets) \in Nat /\ (sockets = <<>> <=> Len(sockets) = 0)
  BY <1>1, <1>4
<1>7. addr' = From[c] /\ addr' \in Host /\ Last(sockets') = c
  BY <1>2, <1>4, <1>6, ClientAssumption DEF Accept, Last
<1>8. Accepted' = Accepted \union {c} /\ InBacklog = InBacklog' \union {c} /\ c \notin InBacklog'
  BY <1>2, <1>4 DEF Accepted, InBacklog, Elems, Open
<1>9. sockets # <<>> => sockets'[1] = sockets[1]
  BY <1>4, <1>6
<1>10. Cuts' = Cuts /\ CutNum' = CutNum
  BY DEF Cuts, CutNum
<1>11. ConnInv'
  <2>1. \A d : Fresh(d)' => Fresh(d)
    BY <1>4, <1>6, <1>8, <1>9 DEF Fresh
  <2>2. stage' = stage /\ sent' = sent /\ got' = got
    BY DEF client
  <2> QED BY <1>2, <1>3, <1>4, <1>8, <2>1, <2>2 DEF IInv, ConnInv
<1>12. BufferInv'
  <2>1. CASE sockets # <<>>
    <3>1. buffer'[1] = buffer[1] /\ \A i \in Open' \ {1} : buffer'[i] = <<>>
      <4>1. \A i \in Open' : i = Len(buffer) + 1 \/ i \in Open
        BY <1>1, <1>4, <1>6 DEF Open
      <4>2. 1 \in Open /\ Open = 1 .. Len(buffer)
        BY <1>1, <1>6, <2>1 DEF Open
      <4> QED BY <1>5, <4>1, <4>2 DEF IInv, BufferInv
    <3> QED BY <1>9, <1>10, <2>1, <3>1 DEF IInv, BufferInv
  <2>2. CASE sockets = <<>>
    <3>1. Fresh(c) /\ got[c] = 0
      BY <1>2, <1>3, <2>2 DEF Fresh, IInv, ConnInv
    <3>2. CutNum[c] = 0
      BY <1>2, <3>1 DEF IInv, BufferInv
    <3>3. sockets'[1] = c /\ buffer'[1] = <<>> /\ Open' = {1}
      BY <1>1, <1>4, <1>5, <1>6, <2>2 DEF Open
    <3>4. Parts(c, 0, 0) = <<>>
      BY DEF Parts
    <3> QED BY <1>10, <3>1, <3>2, <3>3, <3>4 DEF IInv, BufferInv
  <2> QED BY <2>1, <2>2
<1> QED BY <1>1, <1>2, <1>4, <1>5, <1>6, <1>7, <1>9, <1>10, <1>11, <1>12

LEMMA WaitAcceptKeeps == IInv /\ WaitAccept => IInv'
<1> SUFFICES ASSUME IInv, WaitAccept PROVE IInv'
  OBVIOUS
<1>1. /\ ConnInv' /\ BufferInv' /\ CutNum' = CutNum
      /\ backlog' \in Seq(Conn) /\ sockets' \in Seq(Conn) /\ buffer' \in Seq(Seq(Part))
      /\ Len(buffer') = Len(sockets') /\ sockets' # <<>>
      /\ addr' = From[Last(sockets')] /\ addr' \in Host
  BY AcceptKeeps DEF WaitAccept
<1>2. TypeOK'
  BY <1>1 DEF WaitAccept, client, IInv, TypeOK
<1>3. DeliveredInv' /\ ServerInv'
  BY <1>1 DEF WaitAccept, IInv, DeliveredInv, ServerInv
<1> QED BY <1>1, <1>2, <1>3 DEF IInv

LEMMA RawAcceptKeeps == IInv /\ RawAccept => IInv'
<1> SUFFICES ASSUME IInv, RawAccept PROVE IInv'
  OBVIOUS
<1>1. /\ ConnInv' /\ BufferInv' /\ CutNum' = CutNum
      /\ backlog' \in Seq(Conn) /\ sockets' \in Seq(Conn) /\ buffer' \in Seq(Seq(Part))
      /\ Len(buffer') = Len(sockets') /\ sockets' # <<>>
      /\ addr' = From[Last(sockets')] /\ addr' \in Host
      /\ sockets # <<>> => sockets'[1] = sockets[1]
  BY AcceptKeeps DEF RawAccept
<1>2. TypeOK'
  BY <1>1 DEF RawAccept, client, IInv, TypeOK
<1>3. DeliveredInv' /\ ServerInv'
  BY <1>1 DEF RawAccept, IInv, DeliveredInv, ServerInv
<1> QED BY <1>1, <1>2, <1>3 DEF IInv

(* The steps that only move the thread on *)
LEMMA MovesKeep == IInv /\ (WaitReady \/ RecvPoll \/ SkipSocket \/ RawReturn) => IInv'
<1> SUFFICES ASSUME IInv, WaitReady \/ RecvPoll \/ SkipSocket \/ RawReturn PROVE IInv'
  OBVIOUS
<1>1. /\ UNCHANGED <<client, got, backlog, sockets, buffer, addr, errno, data, delivered, lost>>
      /\ ready' \in {ready, {}}
      /\ \/ pc = "wait" /\ pc' = "recv"
         \/ pc = "recv" /\ pc' = "raw"
         \/ pc = "scan1" /\ pc' = "scan0"
         \/ pc = "scan0" /\ pc' = IF data # <<>> THEN "dispatch" ELSE "wait"
  BY DEF WaitReady, RecvPoll, SkipSocket, RawReturn
<1>2. Cuts' = Cuts /\ CutNum' = CutNum /\ Accepted' = Accepted /\ InBacklog' = InBacklog /\ Open' = Open
  BY <1>1 DEF Cuts, CutNum, Accepted, InBacklog, Open
<1>3. TypeOK'
  BY <1>1 DEF client, IInv, TypeOK
<1>4. ConnInv' /\ BufferInv'
  BY <1>1, <1>2 DEF client, IInv, ConnInv, Fresh, BufferInv
<1>5. DeliveredInv' /\ ServerInv'
  BY <1>1, <1>2 DEF IInv, DeliveredInv, ServerInv
<1> QED BY <1>3, <1>4, <1>5 DEF IInv

-----------------------------------------------------------------------------
(* Messages *)

LEMMA MsgType ==
    ASSUME NEW c \in Conn, NEW k \in Nat \ {0}
    PROVE  /\ Msg(c, k) \in Seq(Part) /\ Msg(c, k) # <<>> /\ Msg(c, k)[1] = <<c, 2 * k - 1>>
           /\ Msg(c, k)[1][1] = c /\ Msg(c, k)[1][2] = 2 * k - 1 /\ Msg(c, k)[2] = <<c, 2 * k>>
<1>1. <<c, 2 * k - 1>> \in Part /\ <<c, 2 * k>> \in Part
  BY DEF Part
<1> QED BY <1>1 DEF Msg

(* The messages cut out so far *)
LEMMA CutsAre ==
    ASSUME BufferInv
    PROVE  \A m \in Cuts : \E c \in Conn : \E k \in 1 .. CutNum[c] : m = Msg(c, k)
BY DEF BufferInv, UpTo

LEMMA DeliveredAre ==
    ASSUME BufferInv, NEW i \in 1 .. Len(delivered)
    PROVE  \E c \in Conn : \E k \in 1 .. CutNum[c] : delivered[i].msg = Msg(c, k)
<1>1. delivered[i].msg \in Cuts
  BY DEF Cuts
<1> QED BY <1>1, CutsAre

LEMMA DeliveredBelow ==
    ASSUME BufferInv, NEW i \in 1 .. Len(delivered), NEW c \in Conn, delivered[i].msg[1][1] = c
    PROVE  delivered[i].msg[1][2] \in Nat /\ delivered[i].msg[1][2] < 2 * (CutNum[c] + 1) - 1
<1>1. CutNum \in [Conn -> Nat]
  BY DEF BufferInv
<1>2. PICK d \in Conn : \E k \in 1 .. CutNum[d] : delivered[i].msg = Msg(d, k)
  BY DeliveredAre
<1>3. PICK k \in 1 .. CutNum[d] : delivered[i].msg = Msg(d, k)
  BY <1>2
<1>4. k \in Nat \ {0} /\ k <= CutNum[d]
  BY <1>1
<1> DEFINE m == delivered[i].msg
<1>5. m = Msg(d, k) /\ Msg(d, k)[1][1] = d /\ Msg(d, k)[1][2] = 2 * k - 1
  BY <1>3, <1>4, MsgType
<1>6. delivered[i].msg[1][1] = d /\ delivered[i].msg[1][2] = 2 * k - 1
  BY <1>5
<1> QED BY <1>1, <1>4, <1>6

(* The next message of the first socket is cut out. *)
LEMMA CutOne ==
    ASSUME IInv, NEW c \in Conn, Cuts' = Cuts \union {Msg(c, CutNum[c] + 1)}
    PROVE  /\ CutNum' = [CutNum EXCEPT ![c] = @ + 1]
           /\ CutNum' \in [Conn -> Nat] /\ Cuts' = UpTo(CutNum')
<1> DEFINE p == [CutNum EXCEPT ![c] = @ + 1]
<1>1. CutNum \in [Conn -> Nat] /\ Cuts = UpTo(CutNum)
  BY DEF IInv, BufferInv
<1>2. UpTo(p) = UpTo(CutNum) \union {Msg(c, CutNum[c] + 1)}
  BY <1>1, OneMore
<1>3. p \in [Conn -> Nat]
  BY <1>1
<1> HIDE DEF p
<1>4. Cuts' = UpTo(p)
  BY <1>1, <1>2
<1>5. CutNum' = p
  BY <1>3, <1>4, CutNumIsNext
<1> QED BY <1>3, <1>4, <1>5 DEF p

LEMMA NextNotCut ==
    ASSUME IInv, NEW c \in Conn
    PROVE  Msg(c, CutNum[c] + 1) \notin Cuts
<1>1. CutNum \in [Conn -> Nat] /\ Cuts = UpTo(CutNum)
  BY DEF IInv, BufferInv
<1>2. CutNum[c] + 1 \in Nat \ {0} /\ ~ (CutNum[c] + 1 <= CutNum[c])
  BY <1>1
<1> QED BY <1>1, <1>2, MsgInUpTo

LEMMA BufferedKeeps == IInv /\ Buffered => IInv' /\ data' \notin Cuts
<1> SUFFICES ASSUME IInv, Buffered PROVE IInv' /\ data' \notin Cuts
  OBVIOUS
<1> DEFINE c == sockets[1]
           n == CutNum[c]
<1>1. /\ sockets \in Seq(Conn) /\ buffer \in Seq(Seq(Part)) /\ Len(buffer) = Len(sockets)
      /\ got \in [Conn -> Nat] /\ lost \in SUBSET Seq(Part) /\ data \in Seq(Part)
  BY DEF IInv, TypeOK
<1>2. PICK i \in Waiting : Cut(i)
  BY DEF Buffered
<1>3. i = 1 /\ 1 \in Open /\ sockets # <<>> /\ Len(buffer[1]) >= 2
  BY <1>1 DEF Waiting, containsMsg, Open, IInv, BufferInv
<1>4. c \in Conn /\ n \in Nat /\ 2 * n <= got[c] /\ got[c] \in Nat
  BY <1>1, <1>3 DEF Open, IInv, BufferInv
<1>5. buffer[1] = Parts(c, 2 * n, got[c])
  BY <1>3 DEF IInv, BufferInv
<1> HIDE DEF c, n
<1>6. Len(buffer[1]) = got[c] - 2 * n
  <2>1. 2 * n \in Nat
    BY <1>4
  <2> QED BY <1>4, <1>5, <2>1, PartsLen
<1>7. /\ SubSeq(buffer[1], 1, 2) = Msg(c, n + 1)
      /\ SubSeq(buffer[1], 3, Len(buffer[1])) = Parts(c, 2 * (n + 1), got[c])
  <2>1. 2 * n + 2 <= got[c]
    BY <1>3, <1>4, <1>6
  <2> QED BY <1>4, <1>5, <2>1, PartsCut
<1>8. data' = Msg(c, n + 1) /\ data' # <<>> /\ data' \in Seq(Part) /\ data'[1][2] = 2 * (n + 1) - 1
  <2>1. n + 1 \in Nat \ {0} /\ c \in Conn
    BY <1>4
  <2>2. data' = Msg(c, n + 1)
    BY <1>2, <1>3, <1>7 DEF Cut
  <2>3. Msg(c, n + 1) # <<>> /\ Msg(c, n + 1) \in Seq(Part) /\ Msg(c, n + 1)[1][2] = 2 * (n + 1) - 1
    BY <2>1, MsgType
  <2> QED BY <2>2, <2>3
<1>9. /\ buffer' = [buffer EXCEPT ![1] = Parts(c, 2 * (n + 1), got[c])]
      /\ buffer' \in Seq(Seq(Part)) /\ Len(buffer') = Len(buffer)
  <2>1. Parts(c, 2 * (n + 1), got[c]) \in Seq(Part)
    <3>1. 2 * (n + 1) \in Nat /\ 2 * (n + 1) <= got[c]
      BY <1>3, <1>4, <1>6
    <3> QED BY <1>4, <3>1, PartsType
  <2>2. buffer' = [buffer EXCEPT ![1] = Parts(c, 2 * (n + 1), got[c])]
    BY <1>2, <1>3, <1>7 DEF Cut
  <2>3. 1 \in 1 .. Len(buffer)
    BY <1>1, <1>3 DEF Open
  <2> QED BY <1>1, <2>1, <2>2, <2>3, ExceptSeq
<1>10. Cuts' = Cuts \union {Msg(c, n + 1)}
  BY <1>8 DEF Buffered, Overwrite, Cuts
<1>11. CutNum' = [CutNum EXCEPT ![c] = @ + 1] /\ CutNum' \in [Conn -> Nat] /\ Cuts' = UpTo(CutNum')
  BY <1>4, <1>10, CutOne DEF n
<1>12. CutNum'[c] = n + 1 /\ \A d \in Conn : d # c => CutNum'[d] = CutNum[d]
  BY <1>4, <1>11 DEF IInv, BufferInv, n
<1>13. TypeOK'
  BY <1>2, <1>1, <1>8, <1>9 DEF Buffered, Overwrite, Cut, client, IInv, TypeOK
<1>14. ConnInv'
  BY DEF Buffered, client, IInv, ConnInv, Fresh, Accepted, Open, InBacklog
<1>15. BufferInv'
  <2>1. sockets' = sockets /\ got' = got /\ sockets'[1] = c
    BY DEF Buffered, c
  <2>2. \A d \in Conn : 2 * CutNum'[d] <= got[d]
    BY <1>3, <1>4, <1>6, <1>12 DEF IInv, BufferInv
  <2>3. buffer'[1] = Parts(c, 2 * (n + 1), got[c]) /\ \A k \in Open \ {1} : buffer'[k] = <<>>
    BY <1>1, <1>3, <1>9 DEF IInv, BufferInv, Open
  <2> QED BY <1>11, <1>12, <2>1, <2>2, <2>3 DEF BufferInv, Open
<1>16. DeliveredInv'
  <2>1. \A k \in 1 .. Len(delivered) : delivered[k].msg[1][1] = c => delivered[k].msg[1][2] < data'[1][2]
    BY <1>4, <1>8, DeliveredBelow DEF IInv, n
  <2>2. delivered' = delivered /\ pc' = "dispatch" /\ sockets' = sockets /\ sockets'[1] = c
    BY <1>2 DEF Buffered, Cut, c
  <2> QED BY <1>3, <1>4, <1>8, <1>12, <2>1, <2>2 DEF IInv, DeliveredInv
<1>17. ServerInv'
  BY <1>2 DEF Buffered, Cut, IInv, ServerInv
<1>18. data' \notin Cuts
  BY <1>4, <1>8, NextNotCut DEF n
<1> QED BY <1>13, <1>14, <1>15, <1>16, <1>17, <1>18 DEF IInv

LEMMA RawPollKeeps == IInv /\ RawPoll => IInv'
<1> SUFFICES ASSUME IInv, RawPoll PROVE IInv'
  OBVIOUS
<1>1. Cuts' = Cuts
  BY DEF RawPoll, Overwrite, Cuts
<1>2. CutNum' = CutNum /\ Accepted' = Accepted /\ InBacklog' = InBacklog /\ Open' = Open
  BY <1>1 DEF RawPoll, CutNum, Accepted, InBacklog, Open
<1>3. TypeOK'
  <2>1. ready' \subseteq 0 .. Cardinality(Conn)
    BY ReventsType DEF RawPoll
  <2>2. lost' \in SUBSET Seq(Part) /\ data' \in Seq(Part)
    BY DEF RawPoll, Overwrite, IInv, TypeOK
  <2> QED BY <2>1, <2>2 DEF RawPoll, client, IInv, TypeOK
<1>4. ConnInv' /\ BufferInv'
  BY <1>1, <1>2 DEF RawPoll, client, IInv, ConnInv, Fresh, BufferInv
<1>5. DeliveredInv' /\ ServerInv'
  BY DEF RawPoll, IInv, DeliveredInv, ServerInv
<1> QED BY <1>3, <1>4, <1>5 DEF IInv

LEMMA ReadSocketKeeps == IInv /\ ReadSocket => IInv' /\ (data' # <<>> => data' \notin Cuts)
<1> SUFFICES ASSUME IInv, ReadSocket PROVE IInv' /\ (data' # <<>> => data' \notin Cuts)
  OBVIOUS
<1> DEFINE c == sockets[1]
           n == CutNum[c]
<1>1. /\ sockets \in Seq(Conn) /\ buffer \in Seq(Seq(Part)) /\ Len(buffer) = Len(sockets)
      /\ got \in [Conn -> Nat] /\ sent \in [Conn -> Nat]
  BY DEF IInv, TypeOK
<1>2. pc = "scan1" /\ sockets # <<>> /\ data = <<>> /\ 1 \in 1 .. Len(buffer) /\ 1 \in Open
  <2>1. pc = "scan1" /\ sockets # <<>> /\ data = <<>>
    BY DEF ReadSocket, IInv, ServerInv, DeliveredInv
  <2> QED BY <1>1, <2>1 DEF Open
<1>3. c \in Conn /\ n \in Nat /\ 2 * n <= got[c] /\ got[c] \in Nat
  BY <1>1, <1>2 DEF Open, IInv, BufferInv
<1>4. buffer[1] = Parts(c, 2 * n, got[c])
  BY <1>2 DEF IInv, BufferInv
<1>5. PICK k \in 1 .. sent[c] - got[c] :
         LET read == buffer[1] \o [j \in 1 .. k |-> <<c, got[c] + j>>] IN
         /\ got' = [got EXCEPT ![c] = @ + k]
         /\ \/ /\ Len(read) >= 2
               /\ data' = SubSeq(read, 1, 2)
               /\ buffer' = [buffer EXCEPT ![1] = SubSeq(read, 3, Len(read))]
               /\ UNCHANGED errno
            \/ /\ Len(read) < 2 /\ got'[c] = sent[c]
               /\ buffer' = [buffer EXCEPT ![1] = read]
               /\ errno' \in {errno} \union (IF stage[c] = "open" THEN {"EAGAIN"} ELSE {})
               /\ UNCHANGED data
  BY DEF ReadSocket
<1>6. /\ UNCHANGED <<client, backlog, sockets, addr, ready, delivered, lost>> /\ pc' = "scan0" /\ sockets'[1] = c
  BY DEF ReadSocket
<1> HIDE DEF c, n
<1> DEFINE b == got[c] + k
           read == Parts(c, 2 * n, b)
<1>7. /\ k \in Nat /\ b \in Nat /\ 2 * n \in Nat /\ 2 * n <= b /\ b <= sent[c]
      /\ got' \in [Conn -> Nat] /\ got'[c] = b /\ \A d \in Conn : d # c => got'[d] = got[d]
  <2>1. got' = [got EXCEPT ![c] = @ + k] /\ sent[c] \in Nat
    BY <1>1, <1>3, <1>5
  <2>2. k \in Nat /\ got[c] + k <= sent[c]
    BY <1>3, <2>1
  <2> QED BY <1>1, <1>3, <2>1, <2>2
<1>8. buffer[1] \o [j \in 1 .. k |-> <<c, got[c] + j>>] = read
  <2>1. Parts(c, 2 * n, got[c]) \o [j \in 1 .. k |-> <<c, got[c] + j>>] = Parts(c, 2 * n, got[c] + k)
    BY <1>3, <1>7, PartsJoin
  <2> QED BY <1>4, <2>1
<1> HIDE DEF b
<1>9. read \in Seq(Part) /\ Len(read) = b - 2 * n
  BY <1>3, <1>7, PartsType, PartsLen
<1> HIDE DEF read
<1>10. ConnInv'
  <2>1. \A d \in Conn : Fresh(d)' => Fresh(d) /\ d # c
    BY <1>2, <1>6 DEF Fresh, Accepted, Open, InBacklog, c
  <2>2. \A d \in Conn : got'[d] <= sent[d]
    BY <1>3, <1>7 DEF IInv, ConnInv
  <2>3. Accepted' = Accepted /\ InBacklog' = InBacklog /\ stage' = stage /\ sent' = sent
    BY <1>6 DEF Accepted, Open, InBacklog, client
  <2> QED BY <1>6, <1>7, <2>1, <2>2, <2>3 DEF IInv, ConnInv
<1>11. ServerInv'
  BY <1>6 DEF IInv, ServerInv
<1>12. ASSUME buffer' \in Seq(Seq(Part)), Len(buffer') = Len(buffer), errno' \in {"other", "EAGAIN"},
              data' \in Seq(Part)
       PROVE  TypeOK'
  BY <1>1, <1>6, <1>7, <1>12 DEF client, IInv, TypeOK
<1>13. CASE /\ Len(read) >= 2 /\ data' = SubSeq(read, 1, 2)
            /\ buffer' = [buffer EXCEPT ![1] = SubSeq(read, 3, Len(read))]
            /\ UNCHANGED errno
  <2>1. 2 * n + 2 <= b /\ n + 1 \in Nat \ {0} /\ 2 * (n + 1) \in Nat /\ 2 * (n + 1) <= b
    BY <1>3, <1>7, <1>9, <1>13
  <2>2. data' = Msg(c, n + 1) /\ SubSeq(read, 3, Len(read)) = Parts(c, 2 * (n + 1), b)
    BY <1>3, <1>7, <1>13, <2>1, PartsCut DEF read
  <2>3. data' # <<>> /\ data' \in Seq(Part) /\ data'[1][2] = 2 * (n + 1) - 1
    BY <1>3, <2>1, <2>2, MsgType
  <2>4. Parts(c, 2 * (n + 1), b) \in Seq(Part)
    BY <1>3, <1>7, <2>1, PartsType
  <2>5. /\ buffer' \in Seq(Seq(Part)) /\ Len(buffer') = Len(buffer) /\ buffer'[1] = Parts(c, 2 * (n + 1), b)
        /\ \A i \in 1 .. Len(buffer) : i # 1 => buffer'[i] = buffer[i]
    <3>1. buffer' = [buffer EXCEPT ![1] = Parts(c, 2 * (n + 1), b)]
      BY <1>13, <2>2
    <3> QED BY <1>1, <1>2, <2>4, <3>1, ExceptSeq
  <2>6. Cuts' = Cuts \union {Msg(c, n + 1)}
    BY <1>2, <1>6, <2>2, <2>3 DEF Cuts
  <2>7. CutNum' = [CutNum EXCEPT ![c] = @ + 1] /\ CutNum' \in [Conn -> Nat] /\ Cuts' = UpTo(CutNum')
    BY <1>3, <2>6, CutOne DEF n
  <2>8. CutNum'[c] = n + 1 /\ \A d \in Conn : d # c => CutNum'[d] = CutNum[d]
    BY <1>3, <2>7 DEF IInv, BufferInv, n
  <2>9. BufferInv'
    <3>1. \A d \in Conn : 2 * CutNum'[d] <= got'[d]
      BY <1>7, <2>1, <2>8 DEF IInv, BufferInv
    <3>2. \A i \in Open \ {1} : buffer'[i] = <<>>
      BY <1>1, <2>5 DEF IInv, BufferInv, Open
    <3> QED BY <1>6, <1>7, <2>5, <2>7, <2>8, <3>1, <3>2 DEF BufferInv, Open
  <2>10. DeliveredInv'
    <3>1. \A i \in 1 .. Len(delivered) : delivered[i].msg[1][1] = c => delivered[i].msg[1][2] < data'[1][2]
      BY <1>3, <2>3, DeliveredBelow DEF IInv, n
    <3> QED BY <1>2, <1>3, <1>6, <2>2, <2>3, <2>8, <3>1 DEF IInv, DeliveredInv
  <2>11. TypeOK'
    BY <1>12, <1>13, <2>3, <2>5 DEF IInv, TypeOK
  <2>12. data' \notin Cuts
    BY <1>3, <2>2, NextNotCut DEF n
  <2> QED BY <1>10, <1>11, <2>9, <2>10, <2>11, <2>12 DEF IInv
<1>14. CASE /\ Len(read) < 2
            /\ buffer' = [buffer EXCEPT ![1] = read]
            /\ errno' \in {errno} \union (IF stage[c] = "open" THEN {"EAGAIN"} ELSE {})
            /\ UNCHANGED data
  <2>1. /\ buffer' \in Seq(Seq(Part)) /\ Len(buffer') = Len(buffer) /\ buffer'[1] = read
        /\ \A i \in 1 .. Len(buffer) : i # 1 => buffer'[i] = buffer[i]
    BY <1>1, <1>2, <1>9, <1>14, ExceptSeq
  <2>2. Cuts' = Cuts /\ CutNum' = CutNum
    BY <1>6, <1>14 DEF Cuts, CutNum
  <2>3. BufferInv'
    <3>1. \A d \in Conn : 2 * CutNum[d] <= got'[d]
      BY <1>3, <1>7 DEF IInv, BufferInv, n
    <3>2. \A i \in Open \ {1} : buffer'[i] = <<>>
      BY <1>1, <2>1 DEF IInv, BufferInv, Open
    <3> QED BY <1>6, <1>7, <2>1, <2>2, <3>1, <3>2 DEF IInv, BufferInv, Open, n, read
  <2>4. DeliveredInv'
    BY <1>2, <1>6, <1>14 DEF IInv, DeliveredInv
  <2>5. TypeOK'
    BY <1>12, <1>14, <2>1 DEF IInv, TypeOK
  <2> QED BY <1>2, <1>10, <1>11, <1>14, <2>3, <2>4, <2>5 DEF IInv
<1>15. QED BY <1>5, <1>8, <1>13, <1>14

LEMMA EndOfStreamKeeps == IInv /\ EndOfStream => IInv'
<1> SUFFICES ASSUME IInv, EndOfStream PROVE IInv'
  OBVIOUS
<1>1. /\ sockets \in Seq(Conn) /\ buffer \in Seq(Seq(Part)) /\ Len(buffer) = Len(sockets)
      /\ got \in [Conn -> Nat]
  BY DEF IInv, TypeOK
<1>2. /\ UNCHANGED <<client, got, backlog, addr, errno, ready, data, delivered, lost>>
      /\ pc = "scan1" /\ pc' = "scan0" /\ sockets # <<>> /\ data = <<>>
  BY DEF EndOfStream, IInv, ServerInv, DeliveredInv
<1>3. Cuts' = Cuts /\ CutNum' = CutNum /\ InBacklog' = InBacklog
  BY <1>2 DEF Cuts, CutNum, InBacklog
<1>4. DeliveredInv'
  BY <1>2 DEF IInv, DeliveredInv
<1>5. CASE UNCHANGED <<sockets, buffer>>
  <2>1. Accepted' = Accepted /\ Open' = Open
    BY <1>5 DEF Accepted, Open
  <2>2. TypeOK'
    BY <1>2, <1>5 DEF client, IInv, TypeOK
  <2>3. ConnInv' /\ BufferInv' /\ ServerInv'
    BY <1>2, <1>3, <1>5, <2>1 DEF client, IInv, ConnInv, Fresh, BufferInv, ServerInv
  <2> QED BY <1>4, <2>2, <2>3 DEF IInv
<1>6. CASE delSocket
  <2> DEFINE e == [buffer EXCEPT ![1] = <<>>]
             l == Len(buffer)
  <2>1. /\ sockets' = Tail(sockets) /\ sockets' \in Seq(Conn) /\ Len(sockets') = Len(sockets) - 1
        /\ Len(sockets) \in Nat \ {0} /\ \A i \in 1 .. Len(sockets) - 1 : sockets'[i] = sockets[i + 1]
        /\ Elems(sockets) = Elems(sockets') \union {sockets[1]}
        /\ Distinct(sockets') /\ sockets[1] \notin Elems(sockets')
    BY <1>1, <1>2, <1>6, TailElems DEF delSocket, IInv, ConnInv
  <2>2. e \in Seq(Seq(Part)) /\ Len(e) = l /\ l \in Nat \ {0} /\ \A i \in 1 .. l : e[i] = <<>>
    <3>1. l \in Nat /\ l = Len(sockets) /\ 1 \in 1 .. l /\ <<>> \in Seq(Part)
      BY <1>1, <2>1
    <3>2. e \in Seq(Seq(Part)) /\ Len(e) = l /\ \A i \in 1 .. l : e[i] = IF i = 1 THEN <<>> ELSE buffer[i]
      BY <1>1, <3>1, ExceptSeq
    <3> QED BY <3>1, <3>2 DEF IInv, BufferInv, Open
  <2>3. buffer' = SubSeq(e, 1, l - 1)
    BY <1>6 DEF delSocket
  <2> HIDE DEF e, l
  <2>4. buffer' \in Seq(Seq(Part)) /\ Len(buffer') = l - 1 /\ \A i \in 1 .. l - 1 : buffer'[i] = <<>>
    <3>1. 1 \in Int /\ l - 1 \in Int /\ \A i \in 1 .. l - 1 : e[i] \in Seq(Part)
      BY <2>2
    <3>2. /\ buffer' \in Seq(Seq(Part)) /\ Len(buffer') = IF 1 <= l - 1 THEN l - 1 - 1 + 1 ELSE 0
          /\ \A i \in 1 .. l - 1 - 1 + 1 : buffer'[i] = e[1 + i - 1]
      BY <2>3, <3>1, SubSeqProperties
    <3> QED BY <2>2, <3>2
  <2>5. Len(buffer') = Len(sockets')
    BY <1>1, <2>1, <2>4 DEF l
  <2>6. TypeOK'
    BY <1>2, <2>1, <2>4, <2>5 DEF client, IInv, TypeOK
  <2>7. \A d \in Elems(sockets') \union InBacklog : Fresh(d) /\ d # sockets[1]
    BY <1>2, <2>1 DEF Fresh, Accepted, Open, Elems, InBacklog, IInv, ConnInv
  <2>8. Accepted' = Elems(sockets') /\ Accepted = Elems(sockets)
    BY DEF Accepted, Open, Elems
  <2>9. ConnInv'
    <3>1. \A d : Fresh(d)' => Fresh(d)
      BY <1>3, <2>7, <2>8 DEF Fresh
    <3> QED BY <1>2, <1>3, <2>1, <2>8, <3>1 DEF client, IInv, ConnInv
  <2>10. BufferInv'
    <3>1. ASSUME sockets' # <<>> PROVE buffer'[1] = Parts(sockets'[1], 2 * CutNum'[sockets'[1]], got'[sockets'[1]])
      <4> DEFINE d == sockets'[1]
      <4>1. 1 \in 1 .. Len(sockets') /\ d \in Conn /\ d \in Elems(sockets')
        BY <2>1, <3>1 DEF Elems
      <4>2. got[d] = 0
        BY <2>7, <4>1 DEF IInv, ConnInv
      <4>3. CutNum[d] = 0
        BY <4>1, <4>2 DEF IInv, BufferInv
      <4>4. buffer'[1] = <<>> /\ Parts(d, 0, 0) = <<>>
        BY <2>4, <2>5, <4>1 DEF Parts
      <4> QED BY <1>2, <1>3, <4>2, <4>3, <4>4
    <3>2. \A i \in Open' \ {1} : buffer'[i] = <<>>
      BY <2>4, <2>5 DEF Open
    <3> QED BY <1>2, <1>3, <3>1, <3>2 DEF IInv, BufferInv
  <2>11. ServerInv'
    <3>1. sockets' # <<>> => Last(sockets') = Last(sockets)
      BY <2>1 DEF Last
    <3> QED BY <1>2, <3>1 DEF IInv, ServerInv
  <2> QED BY <1>4, <2>6, <2>9, <2>10, <2>11 DEF IInv
<1> QED BY <1>5, <1>6 DEF EndOfStream

LEMMA DispatchKeeps == IInv /\ Dispatch => IInv'
<1> SUFFICES ASSUME IInv, Dispatch PROVE IInv'
  OBVIOUS
<1> DEFINE D == [msg : Seq(Part), addr : Host]
           r == [msg |-> data, addr |-> addr]
<1>1. /\ delivered \in Seq(D) /\ pc = "dispatch" /\ data # <<>> /\ sockets # <<>> /\ addr = From[Last(sockets)]
      /\ data \in Seq(Part) /\ sockets \in Seq(Conn)
  BY DEF Dispatch, IInv, DeliveredInv, ServerInv, TypeOK
<1>2. Last(sockets) \in Conn /\ addr \in Host /\ sockets[1] \in Conn
  BY <1>1, ClientAssumption DEF Last
<1>3. r \in D /\ r.msg = data /\ r.addr = addr
  BY <1>1, <1>2
<1>4. /\ delivered' \in Seq(D) /\ Len(delivered') = Len(delivered) + 1 /\ delivered'[Len(delivered) + 1] = r
      /\ \A i \in 1 .. Len(delivered) : delivered'[i] = delivered[i]
  <2>1. delivered' = Append(delivered, r)
    BY DEF Dispatch
  <2> HIDE DEF D, r
  <2> QED BY <1>1, <1>3, <2>1, AppendElems
<1> HIDE DEF D, r
<1>5. Len(delivered) \in Nat
  BY <1>1
<1>6. /\ UNCHANGED <<client, got, backlog, sockets, buffer, addr, lost>>
      /\ data' = <<>> /\ ready' = {} /\ pc' = "wait" /\ errno' \in {errno, "other"}
  BY DEF Dispatch
<1>7. Cuts' = Cuts
  <2>1. {delivered'[i].msg : i \in 1 .. Len(delivered')} = {delivered[i].msg : i \in 1 .. Len(delivered)} \union {data}
    <3>1. \A i \in 1 .. Len(delivered') : i \in 1 .. Len(delivered) \/ i = Len(delivered) + 1
      BY <1>4, <1>5
    <3>2. \A i \in 1 .. Len(delivered) : i \in 1 .. Len(delivered')
      BY <1>4, <1>5
    <3>3. Len(delivered) + 1 \in 1 .. Len(delivered')
      BY <1>4, <1>5
    <3>4. {delivered'[i].msg : i \in 1 .. Len(delivered')} \subseteq {delivered[i].msg : i \in 1 .. Len(delivered)} \union {data}
      BY <1>3, <1>4, <3>1
    <3>5. {delivered[i].msg : i \in 1 .. Len(delivered)} \union {data} \subseteq {delivered'[i].msg : i \in 1 .. Len(delivered')}
      BY <1>3, <1>4, <3>2, <3>3
    <3> QED BY <3>4, <3>5
  <2> QED BY <1>1, <1>6, <2>1 DEF Cuts
<1>8. CutNum' = CutNum /\ Accepted' = Accepted /\ InBacklog' = InBacklog /\ Open' = Open
  BY <1>6, <1>7 DEF CutNum, Accepted, InBacklog, Open
<1>9. TypeOK'
  <2>1. \A d \in {delivered'[i] : i \in 1 .. Len(delivered')} : d.msg \in Seq(Part) /\ d.addr \in Host
    <3>1. \A i \in 1 .. Len(delivered') : delivered'[i] \in D
      BY <1>4
    <3> QED BY <3>1 DEF D
  <2> QED BY <1>6, <2>1 DEF client, IInv, TypeOK
<1>10. ConnInv' /\ BufferInv'
  BY <1>6, <1>7, <1>8 DEF client, IInv, ConnInv, Fresh, BufferInv
<1>11. DeliveredInv'
  <2>1. \A i, j \in 1 .. Len(delivered') :
          i < j /\ delivered'[i].msg[1][1] = delivered'[j].msg[1][1]
             => delivered'[i].msg[1][2] < delivered'[j].msg[1][2]
    <3> SUFFICES ASSUME NEW i \in 1 .. Len(delivered'), NEW j \in 1 .. Len(delivered'), i < j,
                        delivered'[i].msg[1][1] = delivered'[j].msg[1][1]
                 PROVE  delivered'[i].msg[1][2] < delivered'[j].msg[1][2]
      OBVIOUS
    <3>1. i \in 1 .. Len(delivered) /\ delivered'[i] = delivered[i]
      BY <1>4, <1>5
    <3>2. CASE j \in 1 .. Len(delivered)
      BY <1>4, <3>1, <3>2 DEF IInv, DeliveredInv
    <3>3. CASE j = Len(delivered) + 1
      <4>1. CutNum[sockets[1]] \in Nat \ {0} /\ data = Msg(sockets[1], CutNum[sockets[1]])
        BY <1>1, <1>2 DEF IInv, DeliveredInv, BufferInv
      <4>2. data[1][1] = sockets[1]
        BY <1>2, <4>1, MsgType
      <4> QED BY <1>1, <1>3, <1>4, <3>1, <3>3, <4>2 DEF IInv, DeliveredInv
    <3> QED BY <1>4, <1>5, <3>2, <3>3
  <2> QED BY <1>4, <1>6, <2>1 DEF DeliveredInv, D
<1>12. ServerInv'
  BY <1>6 DEF IInv, ServerInv
<1> QED BY <1>9, <1>10, <1>11, <1>12 DEF IInv

LEMMA StepKeeps == IInv /\ [Next]_vars => IInv'
<1> SUFFICES ASSUME IInv, [Next]_vars PROVE IInv'
  OBVIOUS
<1>1. CASE Client
  BY <1>1, ClientKeeps
<1>2. CASE Server
  BY <1>2, WaitAcceptKeeps, RawAcceptKeeps, MovesKeep, BufferedKeeps, RawPollKeeps, ReadSocketKeeps,
     EndOfStreamKeeps, DispatchKeeps DEF Server
<1>3. CASE UNCHANGED vars
  <2> USE <1>3 DEF vars, client, IInv
  <2>1. Cuts' = Cuts /\ CutNum' = CutNum /\ Accepted' = Accepted /\ InBacklog' = InBacklog /\ Open' = Open
    BY DEF Cuts, CutNum, Accepted, InBacklog, Open
  <2>2. TypeOK'
    BY DEF TypeOK
  <2>3. ConnInv' /\ BufferInv'
    BY <2>1 DEF ConnInv, Fresh, BufferInv
  <2>4. DeliveredInv' /\ ServerInv'
    BY <2>1 DEF DeliveredInv, ServerInv
  <2> QED BY <2>2, <2>3, <2>4
<1> QED BY <1>1, <1>2, <1>3 DEF Next

-----------------------------------------------------------------------------
(* The connections, buffers, messages and addresses of the server agree    *)
(* after every step of the clients and of the thread.                      *)
THEOREM Invariant == Spec => []IInv
<1>1. Init => IInv
  BY InitInv
<1>2. IInv /\ [Next]_vars => IInv'
  BY StepKeeps
<1> QED BY <1>1, <1>2, PTL DEF Spec

(* However a stream is chopped and whenever sockets come and go, the       *)
(* buffer of a socket holds the next unread parts of its own connection,   *)
(* and what is dispatched are whole messages, once each, in order.         *)
THEOREM Stream == Spec => []StreamInv
<1>1. IInv => StreamConserved
  <2> SUFFICES ASSUME IInv PROVE StreamConserved
    OBVIOUS
  <2>1. sockets \in Seq(Conn) /\ backlog \in Seq(Conn) /\ CutNum \in [Conn -> Nat]
    BY DEF IInv, TypeOK, BufferInv
  <2>2. \A c \in Conn : TakenOf(c) = 2 * CutNum[c]
    BY DEF TakenOf, CutNum
  <2>3. ASSUME NEW c \in Accepted \union InBacklog, c # Head(sockets \o backlog) PROVE got[c] = TakenOf(c)
    <3>1. c \in Conn
      BY <2>1 DEF Accepted, InBacklog, Open
    <3>2. sockets # <<>> => c # sockets[1]
      BY <2>1, <2>3
    <3>3. got[c] = 0 /\ 2 * CutNum[c] <= got[c]
      BY <3>1, <3>2 DEF Fresh, IInv, ConnInv, BufferInv
    <3> QED BY <2>1, <2>2, <3>1, <3>3
  <2>4. ASSUME sockets # <<>>
        PROVE  LET c == sockets[1] IN
               buffer[1] = [k \in 1 .. got[c] - TakenOf(c) |-> <<c, TakenOf(c) + k>>]
    <3>1. sockets[1] \in Conn
      BY <2>1, <2>4
    <3> QED BY <2>2, <2>4, <3>1 DEF IInv, BufferInv, Parts
  <2>5. \A i \in Open \ {1} : buffer[i] = <<>>
    BY DEF IInv, BufferInv
  <2> QED BY <2>3, <2>4, <2>5 DEF StreamConserved
<1>2. IInv => WholeMessagesInOrder
  <2> SUFFICES ASSUME IInv PROVE WholeMessagesInOrder
    OBVIOUS
  <2>1. ASSUME NEW i \in 1 .. Len(delivered)
        PROVE  LET m == delivered[i].msg IN m[1][2] % 2 = 1 /\ m[2] = <<m[1][1], m[1][2] + 1>>
    <3>1. CutNum \in [Conn -> Nat]
      BY DEF IInv, BufferInv
    <3>2. PICK c \in Conn : \E k \in 1 .. CutNum[c] : delivered[i].msg = Msg(c, k)
      BY DeliveredAre DEF IInv
    <3>3. PICK k \in 1 .. CutNum[c] : delivered[i].msg = Msg(c, k)
      BY <3>2
    <3>4. k \in Nat \ {0} /\ (2 * k - 1) % 2 = 1 /\ 2 * k - 1 + 1 = 2 * k
      BY <3>1
    <3>5. delivered[i].msg[1] = <<c, 2 * k - 1>> /\ delivered[i].msg[2] = <<c, 2 * k>>
      BY <3>3 DEF Msg
    <3> QED BY <3>4, <3>5
  <2> QED BY <2>1 DEF WholeMessagesInOrder, IInv, DeliveredInv
<1>3. IInv => StreamInv
  BY <1>1, <1>2 DEF StreamInv, IInv
<1> QED BY <1>3, Invariant, PTL

(* What is dispatched comes from the oldest open connection, and the       *)
(* handler is told the address of the newest.                              *)
THEOREM Served == Spec => []ServedInTurn
<1>1. IInv => ServedInTurn
  <2> SUFFICES ASSUME IInv, pc = "dispatch"
               PROVE  /\ sockets # <<>> /\ data[1][1] = sockets[1]
                      /\ addr = From[Last(sockets)]
                      /\ Len(sockets) = 1 => addr = From[data[1][1]]
    BY DEF ServedInTurn, OldestServed, AddressOfNewest
  <2>1. /\ sockets # <<>> /\ data = Msg(sockets[1], CutNum[sockets[1]]) /\ CutNum[sockets[1]] > 0
        /\ addr = From[Last(sockets)]
    BY DEF IInv, DeliveredInv, ServerInv
  <2>2. data[1][1] = sockets[1]
    BY <2>1 DEF Msg
  <2> QED BY <2>1, <2>2 DEF Last
<1> QED BY <1>1, Invariant, PTL

-----------------------------------------------------------------------------
(* Queues one behind the other *)

(* Induction, of sets of numbers *)
LEMMA Induction ==
    ASSUME NEW S \in SUBSET Nat, 0 \in S, \A n \in S : n + 1 \in S
    PROVE  \A n \in Nat : n \in S
<1> DEFINE T == Nat \ S
<1> SUFFICES ASSUME T # {} PROVE FALSE
  OBVIOUS
<1>1. T \subseteq Nat
  OBVIOUS
<1> HIDE DEF T
<1>2. PICK x \in T : \A y \in T : ~ (<<y, x>> \in OpToRel(<, Nat))
  BY <1>1, NatLessThanWellFounded, WFMin
<1>3. x \in Nat \ S /\ x # 0
  BY DEF T
<1>4. x - 1 \in T
  <2>1. x - 1 \in Nat /\ x = (x - 1) + 1
    BY <1>3
  <2> QED BY <1>3, <2>1 DEF T
<1>5. <<x - 1, x>> \in OpToRel(<, Nat)
  BY <1>1, <1>3, <1>4 DEF OpToRel
<1> QED BY <1>2, <1>4, <1>5

(* The sequences u[1], ..., u[n], one behind the other *)
Joined(u) ==
  LET from[i \in 1 .. Len(u) + 1] == IF i > Len(u) THEN <<>> ELSE u[i] \o from[i + 1]
  IN from[1]

(* from, in Joined, is f. *)
Joins(u, f) == f = [i \in 1 .. Len(u) + 1 |-> IF i > Len(u) THEN <<>> ELSE u[i] \o f[i + 1]]

LEMMA Exists ==
    ASSUME NEW T, NEW u \in Seq(Seq(T))
    PROVE  \E f \in [1 .. Len(u) + 1 -> Seq(T)] : Joins(u, f)
<1> DEFINE N == Len(u)
           Fine(k, f) == \A i \in N + 1 - k .. N + 1 : f[i] = IF i > N THEN <<>> ELSE u[i] \o f[i + 1]
           S == {k \in Nat : k <= N => \E f \in [1 .. N + 1 -> Seq(T)] : Fine(k, f)}
<1>0. N \in Nat /\ \A i \in 1 .. N : u[i] \in Seq(T)
  OBVIOUS
<1> HIDE DEF N
<1>1. 0 \in S
  <2> DEFINE f == [i \in 1 .. N + 1 |-> <<>>]
  <2>1. f \in [1 .. N + 1 -> Seq(T)] /\ f[N + 1] = <<>>
    BY <1>0
  <2>2. N + 1 - 0 .. N + 1 = {N + 1}
    BY <1>0
  <2> HIDE DEF f
  <2>3. Fine(0, f)
    BY <1>0, <2>1, <2>2
  <2> QED BY <2>1, <2>3
<1>2. ASSUME NEW k \in S PROVE k + 1 \in S
  <2> SUFFICES ASSUME k + 1 <= N PROVE \E f \in [1 .. N + 1 -> Seq(T)] : Fine(k + 1, f)
    OBVIOUS
  <2>0. k \in Nat /\ k <= N /\ N - k \in 1 .. N /\ N + 1 - (k + 1) = N - k
    BY <1>0
  <2>1. PICK f \in [1 .. N + 1 -> Seq(T)] : Fine(k, f)
    BY <2>0
  <2> DEFINE v == u[N - k] \o f[N - k + 1]
             g == [f EXCEPT ![N - k] = v]
  <2>2. N - k + 1 \in 1 .. N + 1 /\ u[N - k] \o f[N - k + 1] \in Seq(T)
    <3>1. N - k + 1 \in 1 .. N + 1
      BY <1>0, <2>0
    <3>2. f[N - k + 1] \in Seq(T) /\ u[N - k] \in Seq(T)
      BY <1>0, <2>0, <3>1
    <3> QED BY <3>1, <3>2
  <2>3. /\ g \in [1 .. N + 1 -> Seq(T)] /\ g[N - k] = u[N - k] \o f[N - k + 1]
        /\ \A i \in 1 .. N + 1 : i # N - k => g[i] = f[i]
    <3>1. v \in Seq(T) /\ N - k \in 1 .. N + 1 /\ f \in [1 .. N + 1 -> Seq(T)]
      BY <1>0, <2>0, <2>2
    <3> HIDE DEF v
    <3>2. /\ g \in [1 .. N + 1 -> Seq(T)] /\ g[N - k] = v
          /\ \A i \in 1 .. N + 1 : i # N - k => g[i] = f[i]
      BY <3>1
    <3> QED BY <3>2 DEF v
  <2> HIDE DEF g
  <2>4. ASSUME NEW i \in N - k .. N + 1 PROVE g[i] = IF i > N THEN <<>> ELSE u[i] \o g[i + 1]
    <3>0. i \in Nat /\ i \in 1 .. N + 1
      BY <1>0, <2>0
    <3>1. CASE i = N - k
      <4>1. N - k + 1 \in 1 .. N + 1 /\ N - k + 1 # N - k /\ ~ (i > N)
        BY <1>0, <2>0, <3>1
      <4>2. g[N - k + 1] = f[N - k + 1]
        BY <2>3, <4>1
      <4>3. g[i] = u[i] \o g[i + 1]
        BY <2>3, <3>1, <4>2
      <4> QED BY <4>1, <4>3
    <3>2. CASE i # N - k
      <4>1. i \in N + 1 - k .. N + 1
        BY <1>0, <2>0, <3>0, <3>2
      <4>2. f[i] = IF i > N THEN <<>> ELSE u[i] \o f[i + 1]
        BY <2>1, <4>1
      <4>3. g[i] = f[i]
        BY <2>3, <3>0, <3>2
      <4>4. CASE i > N
        BY <4>2, <4>3, <4>4
      <4>5. CASE ~ (i > N)
        <5>1. i + 1 \in 1 .. N + 1 /\ i + 1 # N - k
          BY <1>0, <2>0, <3>0, <4>1, <4>5
        <5>2. g[i + 1] = f[i + 1]
          BY <2>3, <5>1
        <5>3. g[i] = u[i] \o g[i + 1]
          BY <4>2, <4>3, <4>5, <5>2
        <5> QED BY <4>5, <5>3
      <4> QED BY <4>4, <4>5
    <3> QED BY <3>1, <3>2
  <2>5. Fine(k + 1, g)
    BY <2>0, <2>4
  <2> QED BY <2>3, <2>5
<1>3. N \in S
  BY <1>0, <1>1, <1>2, Induction
<1>4. PICK f \in [1 .. N + 1 -> Seq(T)] : Fine(N, f)
  BY <1>3
<1>5. N + 1 - N = 1
  BY <1>0
<1>6. f = [i \in 1 .. N + 1 |-> IF i > N THEN <<>> ELSE u[i] \o f[i + 1]]
  BY <1>4, <1>5
<1> QED BY <1>6 DEF Joins, N

Behind(w, u, d) == Len(u) = Len(w) + d /\ \A i \in 1 .. Len(w) : w[i] = u[i + d]

(* Such functions agree, also on what queues have in common. *)
LEMMA Agree ==
    ASSUME NEW T, NEW u \in Seq(Seq(T)), NEW w \in Seq(Seq(T)), NEW d \in Nat, Behind(w, u, d),
           NEW f, Joins(u, f), NEW g, Joins(w, g)
    PROVE  \A i \in 1 .. Len(w) + 1 : g[i] = f[i + d]
<1> DEFINE N == Len(w)
           S == {k \in Nat : k <= N => g[N + 1 - k] = f[N + 1 - k + d]}
<1>0. N \in Nat /\ Len(u) = N + d /\ \A i \in 1 .. Len(w) : w[i] = u[i + d]
  BY DEF Behind
<1> HIDE DEF N
<1>1. \A i \in 1 .. N : g[i] = w[i] \o g[i + 1] /\ f[i + d] = u[i + d] \o f[i + 1 + d]
  <2> SUFFICES ASSUME NEW i \in 1 .. N PROVE g[i] = w[i] \o g[i + 1] /\ f[i + d] = u[i + d] \o f[i + 1 + d]
    OBVIOUS
  <2>1. i \in 1 .. Len(w) + 1 /\ ~ (i > Len(w)) /\ i + d \in 1 .. Len(u) + 1 /\ ~ (i + d > Len(u)) /\ i + d + 1 = i + 1 + d
    BY <1>0 DEF N
  <2>2. g[i] = w[i] \o g[i + 1]
    BY <2>1 DEF Joins
  <2>3. f[i + d] = u[i + d] \o f[i + d + 1]
    BY <2>1 DEF Joins
  <2> QED BY <2>1, <2>2, <2>3
<1>2. 0 \in S
  <2>1. N + 1 \in 1 .. Len(w) + 1 /\ N + 1 > Len(w) /\ N + 1 + d \in 1 .. Len(u) + 1 /\ N + 1 + d > Len(u)
        /\ N + 1 - 0 = N + 1
    BY <1>0 DEF N
  <2>2. g[N + 1] = <<>> /\ f[N + 1 + d] = <<>>
    BY <2>1 DEF Joins
  <2> QED BY <2>1, <2>2
<1>3. ASSUME NEW k \in S PROVE k + 1 \in S
  <2> SUFFICES ASSUME k + 1 <= N PROVE g[N - k] = f[N - k + d]
    <3>1. k \in Nat /\ N + 1 - (k + 1) = N - k
      BY <1>0
    <3> QED BY <3>1
  <2>1. k \in Nat /\ k <= N /\ N - k \in 1 .. N /\ N - k + 1 = N + 1 - k
    BY <1>0
  <2>2. g[N + 1 - k] = f[N + 1 - k + d]
    BY <2>1
  <2>3. g[N - k] = w[N - k] \o g[N + 1 - k] /\ f[N - k + d] = u[N - k + d] \o f[N + 1 - k + d]
    BY <1>1, <2>1
  <2>4. w[N - k] = u[N - k + d]
    BY <1>0, <2>1 DEF N
  <2> QED BY <2>2, <2>3, <2>4
<1>4. \A k \in Nat : k \in S
  BY <1>2, <1>3, Induction
<1> SUFFICES ASSUME NEW i \in 1 .. N + 1 PROVE g[i] = f[i + d]
  BY DEF N
<1>5. N + 1 - i \in Nat /\ N + 1 - i <= N /\ N + 1 - (N + 1 - i) = i
  BY <1>0
<1>6. N + 1 - i \in S
  BY <1>4, <1>5
<1> QED BY <1>5, <1>6

LEMMA AgreeOne ==
    ASSUME NEW T, NEW u \in Seq(Seq(T)), NEW f, Joins(u, f), NEW g, Joins(u, g)
    PROVE  g[1] = f[1]
<1>1. Behind(u, u, 0) /\ 1 \in 1 .. Len(u) + 1
  BY DEF Behind
<1>2. \A i \in 1 .. Len(u) + 1 : g[i] = f[i + 0]
  BY <1>1, Agree
<1> QED BY <1>1, <1>2

LEMMA JoinedIs ==
    ASSUME NEW T, NEW u \in Seq(Seq(T))
    PROVE  \E f \in [1 .. Len(u) + 1 -> Seq(T)] : Joins(u, f) /\ Joined(u) = f[1]
<1>1. PICK f \in [1 .. Len(u) + 1 -> Seq(T)] : Joins(u, f)
  BY Exists
<1> DEFINE g == CHOOSE g : Joins(u, g)
<1>2. Joins(u, g)
  BY <1>1
<1>3. Joined(u) = g[1]
  BY DEF Joined, Joins
<1> HIDE DEF g
<1>4. g[1] = f[1]
  BY <1>1, <1>2, AgreeOne
<1> QED BY <1>1, <1>3, <1>4

(* No queue, the first queue, one queue more, and what all contain *)
LEMMA JoinedNone == Joined(<<>>) = <<>>
<1>1. PICK f \in [1 .. Len(<<>>) + 1 -> Seq({})] : Joins(<<>>, f) /\ Joined(<<>>) = f[1]
  <2>1. <<>> \in Seq(Seq({}))
    OBVIOUS
  <2> QED BY <2>1, JoinedIs
<1>2. 1 \in 1 .. Len(<<>>) + 1 /\ 1 > Len(<<>>)
  OBVIOUS
<1> QED BY <1>1, <1>2 DEF Joins

LEMMA AgreeFirst ==
    ASSUME NEW T, NEW u \in Seq(Seq(T)), NEW t \in Seq(Seq(T)), NEW f, Joins(u, f), NEW g, Joins(t, g),
           Behind(t, u, 1)
    PROVE  g[1] = f[2]
<1>1. \A i \in 1 .. Len(t) + 1 : g[i] = f[i + 1]
  BY Agree
<1>2. 1 \in 1 .. Len(t) + 1
  OBVIOUS
<1> QED BY <1>1, <1>2

LEMMA JoinedFirst ==
    ASSUME NEW T, NEW u \in Seq(Seq(T)), u # <<>>
    PROVE  Joined(u) = u[1] \o Joined(Tail(u)) /\ Joined(Tail(u)) \in Seq(T) /\ u[1] \in Seq(T)
<1> DEFINE t == Tail(u)
<1>1. PICK f \in [1 .. Len(u) + 1 -> Seq(T)] : Joins(u, f) /\ Joined(u) = f[1]
  BY JoinedIs
<1>2. t \in Seq(Seq(T)) /\ Len(t) = Len(u) - 1 /\ Len(u) \in Nat \ {0} /\ u[1] \in Seq(T)
      /\ \A i \in 1 .. Len(t) : t[i] = u[i + 1]
  OBVIOUS
<1> HIDE DEF t
<1>3. PICK g \in [1 .. Len(t) + 1 -> Seq(T)] : Joins(t, g) /\ Joined(t) = g[1]
  BY <1>2, JoinedIs
<1>4. 1 \in 0 .. Len(u) /\ 1 \in 1 .. Len(t) + 1
  BY <1>2
<1>5. g[1] = f[2]
  <2>1. Behind(t, u, 1)
    BY <1>2 DEF Behind
  <2>2. t \in Seq(Seq(T)) /\ Joins(t, g) /\ Joins(u, f)
    BY <1>1, <1>2, <1>3
  <2> QED BY <2>1, <2>2, AgreeFirst
<1>6. f[1] = u[1] \o f[2]
  <2>1. 1 \in 1 .. Len(u) + 1 /\ ~ (1 > Len(u)) /\ 1 + 1 = 2
    BY <1>2
  <2> QED BY <1>1, <2>1 DEF Joins
<1>7. g[1] \in Seq(T)
  BY <1>3, <1>4
<1> QED BY <1>1, <1>2, <1>3, <1>5, <1>6, <1>7 DEF t

LEMMA JoinedLast ==
    ASSUME NEW T, NEW u \in Seq(Seq(T)), NEW x \in Seq(T)
    PROVE  Joined(Append(u, x)) = Joined(u) \o x
<1> DEFINE w == Append(u, x)
           N == Len(u)
<1>1. PICK f \in [1 .. Len(u) + 1 -> Seq(T)] : Joins(u, f) /\ Joined(u) = f[1]
  BY JoinedIs
<1>2. w \in Seq(Seq(T)) /\ Len(w) = N + 1 /\ N \in Nat /\ w[N + 1] = x
      /\ \A i \in 1 .. N : w[i] = u[i] /\ u[i] \in Seq(T)
  OBVIOUS
<1> HIDE DEF w
<1>3. PICK g \in [1 .. Len(w) + 1 -> Seq(T)] : Joins(w, g) /\ Joined(w) = g[1]
  BY <1>2, JoinedIs
<1> DEFINE S == {k \in Nat : k <= N => g[N + 1 - k] = f[N + 1 - k] \o x}
<1>4. f \in [1 .. N + 1 -> Seq(T)] /\ N = Len(u)
  BY <1>1
<1> HIDE DEF N
<1>5. 0 \in S
  <2>1. N + 1 \in 1 .. Len(u) + 1 /\ N + 1 > Len(u) /\ N + 1 \in 1 .. Len(w) + 1 /\ ~ (N + 1 > Len(w))
        /\ N + 2 \in 1 .. Len(w) + 1 /\ N + 2 > Len(w) /\ N + 1 + 1 = N + 2 /\ N + 1 - 0 = N + 1
    BY <1>2, <1>4
  <2>2. f[N + 1] = <<>> /\ g[N + 2] = <<>>
    BY <1>1, <1>3, <2>1 DEF Joins
  <2>3. g[N + 1] = w[N + 1] \o g[N + 1 + 1]
    BY <1>3, <2>1 DEF Joins
  <2>4. g[N + 1] = x \o <<>>
    BY <1>2, <2>1, <2>2, <2>3
  <2>5. x \o <<>> = x /\ <<>> \o x = x
    OBVIOUS
  <2> QED BY <2>1, <2>2, <2>4, <2>5
<1>6. ASSUME NEW k \in S PROVE k + 1 \in S
  <2> SUFFICES ASSUME k + 1 <= N PROVE g[N - k] = f[N - k] \o x
    <3>1. k \in Nat /\ N + 1 - (k + 1) = N - k
      BY <1>2
    <3> QED BY <3>1
  <2>1. k \in Nat /\ k <= N /\ N - k \in 1 .. N /\ N - k + 1 = N + 1 - k /\ N + 1 - k \in 1 .. N + 1
        /\ N - k \in 1 .. Len(u) + 1 /\ ~ (N - k > Len(u)) /\ N - k \in 1 .. Len(w) + 1 /\ ~ (N - k > Len(w))
    BY <1>2, <1>4
  <2>2. g[N + 1 - k] = f[N + 1 - k] \o x
    BY <2>1
  <2>3. g[N - k] = w[N - k] \o g[N + 1 - k] /\ f[N - k] = u[N - k] \o f[N + 1 - k]
    BY <1>1, <1>3, <2>1 DEF Joins
  <2>4. w[N - k] = u[N - k] /\ u[N - k] \in Seq(T) /\ f[N + 1 - k] \in Seq(T)
    BY <1>2, <1>4, <2>1
  <2>5. \A a, b \in Seq(T) : a \o (b \o x) = (a \o b) \o x
    OBVIOUS
  <2> QED BY <2>2, <2>3, <2>4, <2>5
<1>7. N \in S
  BY <1>2, <1>5, <1>6, Induction
<1>8. N + 1 - N = 1
  BY <1>2
<1> QED BY <1>1, <1>2, <1>3, <1>7, <1>8 DEF w

LEMMA JoinedAll ==
    ASSUME NEW T, NEW u \in Seq(Seq(T)), NEW i \in 1 .. Len(u)
    PROVE  Joined(u) \in Seq(T) /\ Elems(u[i]) \subseteq Elems(Joined(u))
<1> DEFINE N == Len(u)
<1>1. PICK f \in [1 .. N + 1 -> Seq(T)] : Joins(u, f) /\ Joined(u) = f[1]
  BY JoinedIs
<1>2. N \in Nat /\ (\A k \in 1 .. N : u[k] \in Seq(T)) /\ 1 \in 1 .. N + 1
  OBVIOUS
<1>3. \A k \in 1 .. N : f[k] = u[k] \o f[k + 1]
  <2> SUFFICES ASSUME NEW k \in 1 .. N PROVE f[k] = u[k] \o f[k + 1]
    OBVIOUS
  <2>1. k \in 1 .. Len(u) + 1 /\ ~ (k > Len(u))
    OBVIOUS
  <2> QED BY <1>1, <2>1 DEF Joins
<1> HIDE DEF N
<1>4. \A a, b \in Seq(T) : Elems(a) \subseteq Elems(a \o b) /\ Elems(b) \subseteq Elems(a \o b)
  <2> SUFFICES ASSUME NEW a \in Seq(T), NEW b \in Seq(T)
               PROVE  Elems(a) \subseteq Elems(a \o b) /\ Elems(b) \subseteq Elems(a \o b)
    OBVIOUS
  <2> DEFINE c == a \o b
  <2>1. /\ Len(c) = Len(a) + Len(b) /\ Len(a) \in Nat /\ Len(b) \in Nat
        /\ (\A k \in 1 .. Len(a) : c[k] = a[k])
        /\ \A k \in 1 .. Len(b) : c[Len(a) + k] = b[k]
    OBVIOUS
  <2> HIDE DEF c
  <2>2. (\A k \in 1 .. Len(a) : k \in 1 .. Len(c)) /\ \A k \in 1 .. Len(b) : Len(a) + k \in 1 .. Len(c)
    BY <2>1
  <2>3. Elems(a) \subseteq Elems(c)
    BY <2>1, <2>2 DEF Elems
  <2>4. Elems(b) \subseteq Elems(c)
    BY <2>1, <2>2 DEF Elems
  <2> QED BY <2>3, <2>4 DEF c
<1> DEFINE S == {k \in Nat : k < i => Elems(u[i]) \subseteq Elems(f[i - k])}
<1>5. 0 \in S
  <2>1. i \in 1 .. N /\ i - 0 = i /\ i + 1 \in 1 .. N + 1
    BY <1>2 DEF N
  <2>2. u[i] \in Seq(T) /\ f[i + 1] \in Seq(T) /\ f[i] = u[i] \o f[i + 1]
    BY <1>1, <1>2, <1>3, <2>1
  <2> QED BY <1>4, <2>1, <2>2
<1>6. ASSUME NEW k \in S PROVE k + 1 \in S
  <2> SUFFICES ASSUME k + 1 < i PROVE Elems(u[i]) \subseteq Elems(f[i - (k + 1)])
    OBVIOUS
  <2> DEFINE m == i - (k + 1)
  <2>1. k \in Nat /\ k < i /\ m \in 1 .. N /\ m + 1 = i - k /\ m + 1 \in 1 .. N + 1
    BY <1>2 DEF N
  <2>2. u[m] \in Seq(T) /\ f[m + 1] \in Seq(T) /\ f[m] = u[m] \o f[m + 1]
    BY <1>1, <1>2, <1>3, <2>1
  <2> HIDE DEF m
  <2>3. Elems(f[m + 1]) \subseteq Elems(f[m])
    BY <1>4, <2>2
  <2>4. Elems(u[i]) \subseteq Elems(f[m + 1])
    BY <2>1
  <2> QED BY <2>3, <2>4 DEF m
<1>7. i - 1 \in S
  <2>1. i - 1 \in Nat
    OBVIOUS
  <2> QED BY <1>5, <1>6, <2>1, Induction
<1>8. i - 1 < i /\ i - (i - 1) = 1
  OBVIOUS
<1> QED BY <1>1, <1>2, <1>7, <1>8

-----------------------------------------------------------------------------
(* The inbox *)

InboxInv ==
    /\ \A c \in Conn : sent[c] <= 2 * NMsg[c]
    /\ data # <<>> => data \notin Finished
    /\ data # <<>> /\ pc = "raw" => Len(sockets) > 1
    /\ pc = "scan1" => Len(buffer[1]) < 2

DoneNum == [c \in Conn |-> Cardinality({m \in Finished : m[1][1] = c})]
Chain   == sockets \o backlog

LEMMA CutsFinished == Cuts = Finished \union (IF data = <<>> THEN {} ELSE {data})
BY DEF Cuts, Finished

LEMMA InboxInit == Init => InboxInv
<1> SUFFICES ASSUME Init PROVE InboxInv
  OBVIOUS
<1>1. \A c \in Conn : NMsg[c] \in Nat \ {0} /\ sent[c] = 0
  BY ClientAssumption DEF Init
<1> QED BY <1>1 DEF Init, InboxInv

LEMMA InboxStep == IInv /\ InboxInv /\ [Next]_vars => InboxInv'
<1> SUFFICES ASSUME IInv, InboxInv, [Next]_vars PROVE InboxInv'
  OBVIOUS
<1>1. \A c \in Conn : NMsg[c] \in Nat /\ sent[c] \in Nat
  BY ClientAssumption DEF IInv, TypeOK
<1>2. /\ sockets \in Seq(Conn) /\ Len(sockets) \in Nat /\ buffer \in Seq(Seq(Part)) /\ Len(buffer) = Len(sockets)
      /\ (data # <<>> => pc \in {"raw", "scan0", "dispatch"} /\ sockets # <<>>)
      /\ (pc = "scan1" => sockets # <<>>)
  BY DEF IInv, TypeOK, DeliveredInv, ServerInv
<1>3. ASSUME UNCHANGED <<sent, lost, delivered, data>>, pc' \notin {"raw", "scan1"}
      PROVE  InboxInv'
  BY <1>3 DEF InboxInv, Finished
<1>4. CASE Client
  <2>1. UNCHANGED <<server, data, lost, delivered, sockets, buffer, pc>>
    BY <1>4 DEF Client, Connect, SendPart, Close, server
  <2>2. \A c \in Conn : sent'[c] <= 2 * NMsg[c]
    <3>1. CASE sent' = sent
      BY <3>1 DEF InboxInv
    <3>2. CASE \E c \in Conn : sent[c] < 2 * NMsg[c] /\ sent' = [sent EXCEPT ![c] = @ + 1]
      <4>1. PICK c \in Conn : sent[c] < 2 * NMsg[c] /\ sent' = [sent EXCEPT ![c] = @ + 1]
        BY <3>2
      <4>2. sent \in [Conn -> Nat]
        BY DEF IInv, TypeOK
      <4>3. sent'[c] = sent[c] + 1 /\ \A d \in Conn : d # c => sent'[d] = sent[d]
        BY <4>1, <4>2
      <4> QED BY <1>1, <4>1, <4>3 DEF InboxInv
    <3> QED BY <1>4, <3>1, <3>2 DEF Client, Connect, SendPart, Close
  <2> QED BY <2>1, <2>2 DEF InboxInv, Finished
<1>5. CASE WaitAccept
  <2>1. UNCHANGED <<sent, lost, delivered, data>> /\ pc' = "wait"
    BY <1>5 DEF WaitAccept, client
  <2> QED BY <1>3, <2>1
<1>6. CASE WaitReady
  <2>1. UNCHANGED <<sent, lost, delivered, data>> /\ pc' = "recv"
    BY <1>6 DEF WaitReady, client
  <2> QED BY <1>3, <2>1
<1>7. CASE Buffered
  <2>1. sent' = sent /\ pc' = "dispatch" /\ Finished' = Cuts
    BY <1>7, CutsFinished DEF Buffered, Cut, Overwrite, Finished, client
  <2>2. data' \notin Cuts
    BY <1>7, BufferedKeeps
  <2> QED BY <2>1, <2>2 DEF InboxInv
<1>8. CASE RecvPoll
  <2>1. UNCHANGED <<sent, lost, delivered, data>> /\ pc' = "raw" /\ data = <<>>
    BY <1>2, <1>8 DEF RecvPoll, client
  <2> QED BY <2>1 DEF InboxInv, Finished
<1>9. CASE RawPoll
  <2>1. sent' = sent /\ buffer' = buffer /\ data' = <<>> /\ Waiting = {} /\ (pc' = "scan1" => sockets # <<>>)
    BY <1>9 DEF RawPoll, client
  <2>2. pc' = "scan1" => Len(buffer[1]) < 2
    <3> SUFFICES ASSUME sockets # <<>> PROVE Len(buffer[1]) < 2
      BY <2>1
    <3>1. 1 \in Open /\ 1 \in 1 .. Len(buffer)
      BY <1>2 DEF Open
    <3>2. ~ containsMsg(1) /\ Len(buffer[1]) \in Nat
      BY <1>2, <2>1, <3>1 DEF Waiting
    <3> QED BY <3>2 DEF containsMsg
  <2> QED BY <2>1, <2>2 DEF InboxInv
<1>10. CASE SkipSocket
  <2>1. UNCHANGED <<sent, lost, delivered, data>> /\ pc' = "scan0"
    BY <1>10 DEF SkipSocket, client
  <2> QED BY <1>3, <2>1
<1>11. CASE ReadSocket
  <2>1. UNCHANGED <<sent, lost, delivered>> /\ pc' = "scan0" /\ data = <<>>
    BY <1>2, <1>11 DEF ReadSocket, client
  <2>2. Finished' = Cuts
    BY <2>1, CutsFinished DEF Finished
  <2>3. data' # <<>> => data' \notin Cuts
    BY <1>11, ReadSocketKeeps
  <2> QED BY <2>1, <2>2, <2>3 DEF InboxInv
<1>12. CASE EndOfStream
  <2>1. UNCHANGED <<sent, lost, delivered, data>> /\ pc' = "scan0"
    BY <1>12 DEF EndOfStream, client
  <2> QED BY <1>3, <2>1
<1>13. CASE RawAccept
  <2>1. UNCHANGED <<sent, lost, delivered, data>> /\ pc' = "raw" /\ sockets' = Append(sockets, Head(backlog))
    BY <1>13 DEF RawAccept, Accept, client
  <2>2. data' # <<>> => Len(sockets') > 1
    BY <1>2, <2>1
  <2> QED BY <2>1, <2>2 DEF InboxInv, Finished
<1>14. CASE RawReturn
  <2>1. UNCHANGED <<sent, lost, delivered, data>> /\ pc' \in {"dispatch", "wait"}
    BY <1>14 DEF RawReturn, client
  <2> QED BY <1>3, <2>1
<1>15. CASE Dispatch
  <2>1. sent' = sent /\ data' = <<>> /\ pc' = "wait"
    BY <1>15 DEF Dispatch, client
  <2> QED BY <2>1 DEF InboxInv
<1>16. CASE UNCHANGED vars
  BY <1>16 DEF vars, client, InboxInv, Finished
<1> QED BY <1>4, <1>5, <1>6, <1>7, <1>8, <1>9, <1>10, <1>11, <1>12, <1>13, <1>14, <1>15, <1>16 DEF Next, Server

-----------------------------------------------------------------------------
(* What has been dispatched or dropped of each connection are its first    *)
(* messages: those that were cut, but the one in data.                     *)
LEMMA DoneIs ==
    ASSUME IInv, InboxInv
    PROVE  /\ DoneNum \in [Conn -> Nat] /\ Finished = UpTo(DoneNum)
           /\ \A c \in Conn : DoneNum[c] <= CutNum[c] /\ CutNum[c] <= NMsg[c]
                              /\ 2 * CutNum[c] <= sent[c] /\ 2 * CutNum[c] <= got[c]
           /\ data = <<>> => DoneNum = CutNum
           /\ data # <<>> => sockets[1] \in Conn /\ CutNum = [DoneNum EXCEPT ![sockets[1]] = @ + 1]
<1>1. CutNum \in [Conn -> Nat] /\ Cuts = UpTo(CutNum)
  BY DEF IInv, BufferInv
<1>2. \A c \in Conn : CutNum[c] <= NMsg[c] /\ 2 * CutNum[c] <= sent[c] /\ 2 * CutNum[c] <= got[c]
  <2> SUFFICES ASSUME NEW c \in Conn
               PROVE  CutNum[c] <= NMsg[c] /\ 2 * CutNum[c] <= sent[c] /\ 2 * CutNum[c] <= got[c]
    OBVIOUS
  <2>1. NMsg[c] \in Nat /\ got[c] \in Nat /\ sent[c] \in Nat /\ CutNum[c] \in Nat
    BY <1>1, ClientAssumption DEF IInv, TypeOK
  <2>2. 2 * CutNum[c] <= got[c] /\ got[c] <= sent[c] /\ sent[c] <= 2 * NMsg[c]
    BY DEF IInv, BufferInv, ConnInv, InboxInv
  <2> QED BY <2>1, <2>2
<1>3. CASE data = <<>>
  <2>1. Finished = UpTo(CutNum)
    BY <1>1, <1>3, CutsFinished
  <2>2. DoneNum = CutNum
    BY <1>1, <2>1, Counting DEF DoneNum
  <2>3. \A c \in Conn : CutNum[c] <= CutNum[c]
    BY <1>1
  <2> QED BY <1>1, <1>2, <1>3, <2>1, <2>2, <2>3
<1>4. CASE data # <<>>
  <2> DEFINE c == sockets[1]
             p == [CutNum EXCEPT ![c] = @ - 1]
  <2>1. c \in Conn /\ data = Msg(c, CutNum[c]) /\ CutNum[c] > 0 /\ data \notin Finished
    <3>1. sockets \in Seq(Conn) /\ sockets # <<>> /\ data = Msg(c, CutNum[c]) /\ CutNum[c] > 0
      BY <1>4 DEF IInv, TypeOK, DeliveredInv
    <3> QED BY <1>4, <3>1 DEF InboxInv
  <2> HIDE DEF c
  <2> DEFINE n == CutNum
  <2>2. n \in [Conn -> Nat] /\ n[c] \in Nat /\ n[c] > 0 /\ n[c] - 1 \in Nat /\ n[c] - 1 + 1 = n[c]
    BY <1>1, <2>1
  <2> HIDE DEF n
  <2>3. p = [n EXCEPT ![c] = n[c] - 1] /\ p \in [Conn -> Nat] /\ p[c] = n[c] - 1
        /\ \A d \in Conn : d # c => p[d] = n[d]
    BY <2>2, <2>1 DEF n
  <2> HIDE DEF p
  <2>4. [p EXCEPT ![c] = @ + 1] = n
    <3> DEFINE q == [p EXCEPT ![c] = @ + 1]
    <3>1. q \in [Conn -> Nat] /\ q[c] = p[c] + 1 /\ \A d \in Conn : d # c => q[d] = p[d]
      BY <2>1, <2>3
    <3> HIDE DEF q
    <3>2. \A d \in Conn : q[d] = n[d]
      BY <2>2, <2>3, <3>1
    <3>3. q = [d \in Conn |-> q[d]] /\ n = [d \in Conn |-> n[d]]
      BY <2>2, <3>1
    <3>4. [d \in Conn |-> q[d]] = [d \in Conn |-> n[d]]
      BY <3>2
    <3> QED BY <3>3, <3>4 DEF q
  <2>5. /\ p \in [Conn -> Nat] /\ p[c] + 1 = CutNum[c] /\ CutNum = [p EXCEPT ![c] = @ + 1]
        /\ \A d \in Conn : p[d] <= CutNum[d]
    <3>1. \A d \in Conn : p[d] <= n[d]
      BY <2>2, <2>3
    <3> QED BY <2>2, <2>3, <2>4, <3>1 DEF n
  <2>6. Cuts = UpTo(p) \union {data}
    BY <1>1, <2>1, <2>5, OneMore
  <2>7. data \notin UpTo(p)
    <3>1. CutNum[c] \in Nat \ {0} /\ ~ (CutNum[c] <= p[c])
      BY <1>1, <2>1, <2>5
    <3> QED BY <2>1, <2>5, <3>1, MsgInUpTo
  <2>8. Finished = UpTo(p)
    <3>1. Cuts = Finished \union {data}
      BY <1>4, CutsFinished
    <3> HIDE DEF Cuts, Finished, UpTo
    <3> QED BY <2>1, <2>6, <2>7, <3>1
  <2>9. DoneNum = p
    BY <2>5, <2>8, Counting DEF DoneNum
  <2> QED BY <1>2, <1>4, <2>1, <2>5, <2>8, <2>9 DEF c
<1> QED BY <1>3, <1>4

(* The connections, with the one that is read in front *)
LEMMA ChainIs ==
    ASSUME IInv
    PROVE  /\ Chain \in Seq(Conn) /\ Len(Chain) = Len(sockets) + Len(backlog)
           /\ Len(sockets) \in Nat /\ Len(backlog) \in Nat
           /\ \A i \in 1 .. Len(sockets) : Chain[i] = sockets[i]
           /\ Distinct(Chain)
<1>1. sockets \in Seq(Conn) /\ backlog \in Seq(Conn) /\ Distinct(sockets) /\ Distinct(backlog)
      /\ Accepted \intersect InBacklog = {}
  BY DEF IInv, TypeOK, ConnInv
<1>2. /\ Chain \in Seq(Conn) /\ Len(Chain) = Len(sockets) + Len(backlog)
      /\ Len(sockets) \in Nat /\ Len(backlog) \in Nat
      /\ (\A i \in 1 .. Len(sockets) : Chain[i] = sockets[i])
      /\ \A i \in 1 .. Len(backlog) : Chain[Len(sockets) + i] = backlog[i]
  BY <1>1 DEF Chain
<1>3. \A i \in 1 .. Len(sockets), j \in 1 .. Len(backlog) : sockets[i] # backlog[j]
  BY <1>1 DEF Accepted, InBacklog, Open
<1>4. ASSUME NEW i \in 1 .. Len(Chain), NEW j \in 1 .. Len(Chain), Chain[i] = Chain[j]
      PROVE  i = j
  <2>1. \A k \in 1 .. Len(Chain) : k \in 1 .. Len(sockets) \/ (k - Len(sockets) \in 1 .. Len(backlog) /\ k = Len(sockets) + (k - Len(sockets)))
    BY <1>2
  <2>2. CASE i \in 1 .. Len(sockets) /\ j \in 1 .. Len(sockets)
    BY <1>1, <1>2, <1>4, <2>2 DEF Distinct
  <2>3. ASSUME NEW a \in 1 .. Len(sockets), NEW b \in 1 .. Len(Chain), b - Len(sockets) \in 1 .. Len(backlog),
               b = Len(sockets) + (b - Len(sockets))
        PROVE  Chain[a] # Chain[b]
    BY <1>2, <1>3, <2>3
  <2>4. CASE i - Len(sockets) \in 1 .. Len(backlog) /\ j - Len(sockets) \in 1 .. Len(backlog)
    <3>1. i = Len(sockets) + (i - Len(sockets)) /\ j = Len(sockets) + (j - Len(sockets))
      BY <1>2
    <3>2. Chain[i] = backlog[i - Len(sockets)] /\ Chain[j] = backlog[j - Len(sockets)]
      BY <1>2, <2>4, <3>1
    <3>3. i - Len(sockets) = j - Len(sockets)
      BY <1>1, <1>4, <2>4, <3>2 DEF Distinct
    <3> QED BY <1>2, <3>3
  <2> QED BY <1>4, <2>1, <2>2, <2>3, <2>4
<1> QED BY <1>2, <1>4 DEF Distinct

-----------------------------------------------------------------------------
(* The messages of the connections chain, but the first done[c] of every c *)

Rest(c, n)        == [k \in 1 .. NMsg[c] - n |-> <<c, n + k>>]
Rests(chain, done) == [i \in 1 .. Len(chain) |-> Rest(chain[i], done[chain[i]])]
Queue(chain, done) == Joined(Rests(chain, done))
Within(done)       == done \in [Conn -> Nat] /\ \A c \in Conn : done[c] <= NMsg[c]

LEMMA RestIs ==
    ASSUME NEW c \in Conn, NEW n \in Nat, n <= NMsg[c]
    PROVE  /\ Rest(c, n) \in Seq(Conn \X Nat) /\ Len(Rest(c, n)) = NMsg[c] - n /\ NMsg[c] - n \in Nat
           /\ \A k \in 1 .. NMsg[c] - n : Rest(c, n)[k] = <<c, n + k>>
<1> DEFINE l == NMsg[c] - n
<1>1. l \in Nat
  BY ClientAssumption
<1>2. Rest(c, n) = [k \in 1 .. l |-> <<c, n + k>>]
  BY DEF Rest
<1> HIDE DEF l
<1>3. \A k \in 1 .. l : <<c, n + k>> \in Conn \X Nat
  BY <1>1
<1>4. Rest(c, n) \in Seq(Conn \X Nat) /\ Len(Rest(c, n)) = l /\ \A k \in 1 .. l : Rest(c, n)[k] = <<c, n + k>>
  BY <1>1, <1>2, <1>3
<1> QED BY <1>1, <1>4 DEF l

LEMMA RestOne ==
    ASSUME NEW c \in Conn, NEW n \in Nat, n < NMsg[c]
    PROVE  Rest(c, n) = << <<c, n + 1>> >> \o Rest(c, n + 1)
<1>1. NMsg[c] \in Nat /\ n + 1 \in Nat /\ n + 1 <= NMsg[c] /\ n <= NMsg[c]
  BY ClientAssumption
<1> DEFINE r == Rest(c, n)
           q == Rest(c, n + 1)
           l == NMsg[c] - n
           e == <<c, n + 1>>
<1>2. r \in Seq(Conn \X Nat) /\ Len(r) = l /\ \A k \in 1 .. l : r[k] = <<c, n + k>>
  BY <1>1, RestIs
<1>3. q \in Seq(Conn \X Nat) /\ Len(q) = NMsg[c] - (n + 1) /\ \A k \in 1 .. NMsg[c] - (n + 1) : q[k] = <<c, n + 1 + k>>
  BY <1>1, RestIs
<1>4. NMsg[c] - (n + 1) = l - 1 /\ l \in Nat \ {0}
  BY <1>1
<1>5. e \in Conn \X Nat
  BY <1>1
<1> HIDE DEF r, q, l
<1>6. \A k \in 2 .. l : r[k] = q[k - 1]
  <2> SUFFICES ASSUME NEW k \in 2 .. l PROVE r[k] = q[k - 1]
    OBVIOUS
  <2>1. r[k] = <<c, n + k>>
    BY <1>2, <1>4
  <2>2. q[k - 1] = <<c, n + 1 + (k - 1)>>
    BY <1>3, <1>4
  <2>3. n + 1 + (k - 1) = n + k
    BY <1>4
  <2> QED BY <2>1, <2>2, <2>3
<1>7. r[1] = e
  BY <1>2, <1>4 DEF e
<1> HIDE DEF e
<1>8. r = <<e>> \o q
  BY <1>2, <1>3, <1>4, <1>5, <1>6, <1>7
<1> QED BY <1>8 DEF r, q, e

LEMMA RestsAre ==
    ASSUME NEW chain \in Seq(Conn), NEW done, Within(done)
    PROVE  /\ Rests(chain, done) \in Seq(Seq(Conn \X Nat)) /\ Len(Rests(chain, done)) = Len(chain)
           /\ Len(chain) \in Nat /\ \A i \in 1 .. Len(chain) : chain[i] \in Conn
           /\ \A i \in 1 .. Len(chain) : Rests(chain, done)[i] = Rest(chain[i], done[chain[i]])
<1>1. Len(chain) \in Nat /\ \A i \in 1 .. Len(chain) : chain[i] \in Conn
  OBVIOUS
<1>2. \A c \in Conn : Rest(c, done[c]) \in Seq(Conn \X Nat)
  <2> SUFFICES ASSUME NEW c \in Conn PROVE Rest(c, done[c]) \in Seq(Conn \X Nat)
    OBVIOUS
  <2>1. done[c] \in Nat /\ done[c] <= NMsg[c]
    BY DEF Within
  <2> QED BY <2>1, RestIs
<1>3. \A i \in 1 .. Len(chain) : Rest(chain[i], done[chain[i]]) \in Seq(Conn \X Nat)
  BY <1>1, <1>2
<1>4. /\ Rests(chain, done) \in Seq(Seq(Conn \X Nat)) /\ Len(Rests(chain, done)) = Len(chain)
      /\ \A i \in 1 .. Len(chain) : Rests(chain, done)[i] = Rest(chain[i], done[chain[i]])
  <2> HIDE DEF Rest
  <2> QED BY <1>1, <1>3 DEF Rests
<1> QED BY <1>1, <1>4

LEMMA QueueAppend ==
    ASSUME NEW chain \in Seq(Conn), NEW done, Within(done), NEW c \in Conn
    PROVE  Queue(Append(chain, c), done) = Queue(chain, done) \o Rest(c, done[c])
<1> DEFINE w == Append(chain, c)
           u == Rests(chain, done)
           v == Rests(w, done)
           x == Rest(c, done[c])
           N == Len(chain)
<1>1. w \in Seq(Conn) /\ Len(w) = N + 1 /\ w[N + 1] = c /\ N \in Nat /\ \A i \in 1 .. N : w[i] = chain[i]
  BY AppendElems
<1> HIDE DEF w
<1>2. u \in Seq(Seq(Conn \X Nat)) /\ Len(u) = N /\ \A i \in 1 .. N : u[i] = Rest(chain[i], done[chain[i]])
  BY RestsAre
<1>3. v \in Seq(Seq(Conn \X Nat)) /\ Len(v) = N + 1 /\ \A i \in 1 .. N + 1 : v[i] = Rest(w[i], done[w[i]])
  BY <1>1, RestsAre
<1> HIDE DEF u, v, N
<1>4. x = v[N + 1] /\ x \in Seq(Conn \X Nat)
  <2>1. N + 1 \in 1 .. N + 1 /\ N + 1 \in 1 .. Len(v)
    BY <1>1, <1>3
  <2>2. v[N + 1] = Rest(w[N + 1], done[w[N + 1]])
    BY <1>3, <2>1
  <2>3. v[N + 1] \in Seq(Conn \X Nat)
    BY <1>3, <2>1
  <2> QED BY <1>1, <2>2, <2>3
<1>5. \A i \in 1 .. N : v[i] = u[i]
  <2> SUFFICES ASSUME NEW i \in 1 .. N PROVE v[i] = u[i]
    OBVIOUS
  <2>1. i \in 1 .. N + 1
    BY <1>1
  <2>2. v[i] = Rest(w[i], done[w[i]]) /\ u[i] = Rest(chain[i], done[chain[i]]) /\ w[i] = chain[i]
    BY <1>1, <1>2, <1>3, <2>1
  <2> QED BY <2>2
<1> HIDE DEF x
<1>6. v = Append(u, x)
  BY <1>1, <1>2, <1>3, <1>4, <1>5
<1>7. Joined(v) = Joined(u) \o x
  BY <1>2, <1>4, <1>6, JoinedLast
<1> QED BY <1>7 DEF Queue, u, v, x, w

LEMMA QueueTail ==
    ASSUME NEW chain \in Seq(Conn), NEW done, Within(done), chain # <<>>
    PROVE  /\ Queue(chain, done) = Rest(chain[1], done[chain[1]]) \o Queue(Tail(chain), done)
           /\ Queue(Tail(chain), done) \in Seq(Conn \X Nat)
<1> DEFINE t == Tail(chain)
           u == Rests(chain, done)
           v == Rests(t, done)
           N == Len(chain)
<1>1. t \in Seq(Conn) /\ Len(t) = N - 1 /\ N \in Nat \ {0} /\ \A i \in 1 .. N - 1 : t[i] = chain[i + 1]
  BY TailElems
<1> HIDE DEF t
<1>2. u \in Seq(Seq(Conn \X Nat)) /\ Len(u) = N /\ \A i \in 1 .. N : u[i] = Rest(chain[i], done[chain[i]])
  BY RestsAre
<1>3. v \in Seq(Seq(Conn \X Nat)) /\ Len(v) = N - 1 /\ \A i \in 1 .. N - 1 : v[i] = Rest(t[i], done[t[i]])
  BY <1>1, RestsAre
<1> HIDE DEF u, v, N
<1>4. u[1] = Rest(chain[1], done[chain[1]]) /\ \A i \in 1 .. N - 1 : v[i] = u[i + 1]
  <2>1. 1 \in 1 .. N
    BY <1>1
  <2>2. ASSUME NEW i \in 1 .. N - 1 PROVE v[i] = u[i + 1]
    <3>1. i + 1 \in 1 .. N
      BY <1>1
    <3>2. v[i] = Rest(t[i], done[t[i]]) /\ u[i + 1] = Rest(chain[i + 1], done[chain[i + 1]]) /\ t[i] = chain[i + 1]
      BY <1>1, <1>2, <1>3, <3>1
    <3> QED BY <3>2
  <2>3. u[1] = Rest(chain[1], done[chain[1]])
    BY <1>2, <2>1
  <2> QED BY <2>2, <2>3
<1>5. Tail(u) = v /\ u # <<>>
  BY <1>1, <1>2, <1>3, <1>4
<1>6. Joined(u) = u[1] \o Joined(v) /\ Joined(v) \in Seq(Conn \X Nat)
  BY <1>2, <1>5, JoinedFirst
<1> QED BY <1>4, <1>6 DEF Queue, u, v, t

LEMMA QueueIs ==
    ASSUME NEW chain \in Seq(Conn), NEW done, Within(done)
    PROVE  Queue(chain, done) \in Seq(Conn \X Nat)
<1>1. CASE chain = <<>>
  <2>1. Len(<<>>) = 0
    OBVIOUS
  <2>2. Rests(chain, done) = <<>>
    <3>1. Rests(chain, done) \in Seq(Seq(Conn \X Nat)) /\ Len(Rests(chain, done)) = 0
      BY <1>1, <2>1, RestsAre
    <3> QED BY <3>1
  <2>3. Queue(chain, done) = <<>>
    BY <2>2, JoinedNone DEF Queue
  <2> QED BY <2>3
<1>2. CASE chain # <<>>
  <2> DEFINE u == Rests(chain, done)
  <2>1. u \in Seq(Seq(Conn \X Nat)) /\ 1 \in 1 .. Len(u)
    <3>1. u \in Seq(Seq(Conn \X Nat)) /\ Len(u) = Len(chain) /\ Len(chain) \in Nat
      BY RestsAre
    <3>2. Len(chain) # 0
      BY <1>2
    <3> QED BY <3>1, <3>2
  <2> HIDE DEF u
  <2>2. Joined(u) \in Seq(Conn \X Nat)
    BY <2>1, JoinedAll
  <2> QED BY <2>2 DEF u, Queue
<1> QED BY <1>1, <1>2

(* One message of the first connection is done. *)
LEMMA QueueOne ==
    ASSUME NEW chain \in Seq(Conn), NEW done, Within(done), NEW next, Within(next), chain # <<>>,
           Distinct(chain), done[chain[1]] < NMsg[chain[1]],
           next = [done EXCEPT ![chain[1]] = @ + 1]
    PROVE  /\ Queue(chain, done) # <<>> /\ Head(Queue(chain, done)) = <<chain[1], done[chain[1]] + 1>>
           /\ Tail(Queue(chain, done)) = Queue(chain, next)
<1> DEFINE c == chain[1]
           n == done[c]
           e == <<c, n + 1>>
           t == Tail(chain)
           q == Queue(t, done)
           r == Rest(c, n + 1)
<1>1. c \in Conn /\ n \in Nat /\ n < NMsg[c] /\ n + 1 \in Nat /\ n + 1 <= NMsg[c] /\ next[c] = n + 1
      /\ \A d \in Conn : d # c => next[d] = done[d]
  <2>1. c \in Conn
    OBVIOUS
  <2>2. done \in [Conn -> Nat] /\ NMsg[c] \in Nat
    BY <2>1, ClientAssumption DEF Within
  <2> QED BY <2>1, <2>2
<1>2. Queue(chain, done) = Rest(c, n) \o q /\ q \in Seq(Conn \X Nat)
  BY QueueTail
<1>3. Queue(chain, next) = Rest(c, next[c]) \o Queue(t, next)
  BY QueueTail
<1>4. Rest(c, n) = <<e>> \o r
  BY <1>1, RestOne
<1>5. Queue(t, next) = q
  <2>1. t \in Seq(Conn) /\ c \notin Elems(t)
    BY TailElems
  <2> HIDE DEF t, c
  <2>2. \A i \in 1 .. Len(t) : t[i] \in Conn /\ t[i] # c
    BY <2>1 DEF Elems
  <2>3. \A i \in 1 .. Len(t) : next[t[i]] = done[t[i]]
    BY <1>1, <2>2
  <2>4. Rests(t, next) = Rests(t, done)
    BY <2>3 DEF Rests
  <2> QED BY <2>4 DEF Queue
<1>6. r \in Seq(Conn \X Nat) /\ e \in Conn \X Nat
  BY <1>1, RestIs
<1> HIDE DEF r, e, q
<1>7. Queue(chain, done) = <<e>> \o r \o q /\ Queue(chain, next) = r \o q
  BY <1>1, <1>2, <1>3, <1>4, <1>5 DEF r
<1>8. Queue(chain, done) # <<>> /\ Head(Queue(chain, done)) = e /\ Tail(Queue(chain, done)) = Queue(chain, next)
  <2> DEFINE x == r \o q
             y == Queue(chain, done)
  <2>1. x \in Seq(Conn \X Nat) /\ y = <<e>> \o x
    BY <1>2, <1>6, <1>7
  <2> HIDE DEF x, y
  <2>2. y # <<>> /\ Head(y) = e /\ Tail(y) = x
    BY <1>6, <2>1
  <2> QED BY <1>7, <2>2 DEF x, y
<1> QED BY <1>8 DEF e

(* A connection of the chain that has messages left is in the queue. *)
LEMMA QueueHas ==
    ASSUME NEW chain \in Seq(Conn), NEW done, Within(done), NEW i \in 1 .. Len(chain),
           NEW c, c = chain[i], NEW k \in 1 .. NMsg[c] - done[c]
    PROVE  <<c, done[c] + k>> \in Elems(Queue(chain, done))
<1> DEFINE u == Rests(chain, done)
<1>1. u \in Seq(Seq(Conn \X Nat)) /\ i \in 1 .. Len(u) /\ c \in Conn /\ u[i] = Rest(c, done[c])
  BY RestsAre
<1>2. done[c] \in Nat /\ done[c] <= NMsg[c]
  BY <1>1 DEF Within
<1>3. k \in 1 .. Len(Rest(c, done[c])) /\ Rest(c, done[c])[k] = <<c, done[c] + k>>
  <2>1. Len(Rest(c, done[c])) = NMsg[c] - done[c]
        /\ \A l \in 1 .. NMsg[c] - done[c] : Rest(c, done[c])[l] = <<c, done[c] + l>>
    BY <1>1, <1>2, RestIs
  <2> QED BY <2>1
<1> HIDE DEF u
<1>4. <<c, done[c] + k>> \in Elems(u[i])
  BY <1>1, <1>3 DEF Elems
<1>5. Elems(u[i]) \subseteq Elems(Joined(u))
  BY <1>1, JoinedAll
<1> QED BY <1>4, <1>5 DEF Queue, u

-----------------------------------------------------------------------------
(* What is queued, by the messages done *)

LEMMA QueuedIs ==
    ASSUME Chain \in Seq(Conn), Within(DoneNum)
    PROVE  Queued = Queue(Chain, DoneNum)
<1> DEFINE u == Rests(Chain, DoneNum)
           N == Len(Chain)
           P(g) == g = [i \in 1 .. N + 1 |-> IF i > N THEN <<>> ELSE Undone(Chain[i]) \o g[i + 1]]
           h == CHOOSE g : P(g)
<1>1. u \in Seq(Seq(Conn \X Nat)) /\ Len(u) = N /\ N \in Nat /\ (\A i \in 1 .. N : Chain[i] \in Conn)
      /\ \A i \in 1 .. N : u[i] = Rest(Chain[i], DoneNum[Chain[i]])
  BY RestsAre
<1>2. \A c \in Conn : Undone(c) = Rest(c, DoneNum[c])
  BY DEF Undone, Rest, DoneNum
<1>3. Queued = h[1]
  BY DEF Queued, Chain
<1> HIDE DEF u, N
<1>4. ASSUME NEW g PROVE P(g) <=> Joins(u, g)
  <2>1. \A i \in 1 .. N + 1 : ~ (i > N) => Undone(Chain[i]) = u[i]
    BY <1>1, <1>2
  <2>2. [i \in 1 .. N + 1 |-> IF i > N THEN <<>> ELSE Undone(Chain[i]) \o g[i + 1]]
        = [i \in 1 .. N + 1 |-> IF i > N THEN <<>> ELSE u[i] \o g[i + 1]]
    BY <2>1
  <2> QED BY <1>1, <2>2 DEF Joins
<1> HIDE DEF P
<1>5. PICK f : Joins(u, f) /\ Joined(u) = f[1]
  BY <1>1, JoinedIs
<1>6. Joins(u, h)
  BY <1>4, <1>5
<1> HIDE DEF h
<1>7. h[1] = f[1]
  BY <1>1, <1>5, <1>6, AgreeOne
<1> QED BY <1>3, <1>5, <1>7 DEF Queue, u

LEMMA QueuedNext ==
    ASSUME Chain' \in Seq(Conn), Within(DoneNum')
    PROVE  Queued' = Queue(Chain', DoneNum')
<1> DEFINE F(c) == LET n == Cardinality({m \in Finished' : m[1][1] = c})
                   IN  [k \in 1 .. NMsg[c] - n |-> <<c, n + k>>]
           x == Chain'
           d == DoneNum'
           u == Rests(x, d)
           N == Len(x)
           P(g) == g = [i \in 1 .. N + 1 |-> IF i > N THEN <<>> ELSE F(x[i]) \o g[i + 1]]
           h == CHOOSE g : P(g)
<1>1. u \in Seq(Seq(Conn \X Nat)) /\ Len(u) = N /\ N \in Nat /\ (\A i \in 1 .. N : x[i] \in Conn)
      /\ \A i \in 1 .. N : u[i] = Rest(x[i], d[x[i]])
  BY RestsAre
<1>2. \A c \in Conn : F(c) = Rest(c, d[c])
  BY DEF Rest, DoneNum
<1>3. Queued' = h[1]
  BY DEF Queued, Chain, Undone
<1> HIDE DEF u, N, x, d, F
<1>4. ASSUME NEW g PROVE P(g) <=> Joins(u, g)
  <2>1. \A i \in 1 .. N + 1 : ~ (i > N) => F(x[i]) = u[i]
    BY <1>1, <1>2
  <2>2. [i \in 1 .. N + 1 |-> IF i > N THEN <<>> ELSE F(x[i]) \o g[i + 1]]
        = [i \in 1 .. N + 1 |-> IF i > N THEN <<>> ELSE u[i] \o g[i + 1]]
    BY <2>1
  <2> QED BY <1>1, <2>2 DEF Joins
<1> HIDE DEF P
<1>5. PICK f : Joins(u, f) /\ Joined(u) = f[1]
  BY <1>1, JoinedIs
<1>6. Joins(u, h)
  BY <1>4, <1>5
<1> HIDE DEF h
<1>7. h[1] = f[1]
  BY <1>1, <1>5, <1>6, AgreeOne
<1> QED BY <1>3, <1>5, <1>7 DEF Queue, u, x, d

-----------------------------------------------------------------------------
(* Every step of the server is a step of the inbox, or none. *)

LEMMA DoneWithin == IInv /\ InboxInv => Within(DoneNum) /\ Queued = Queue(Chain, DoneNum) /\ Chain \in Seq(Conn)
<1> SUFFICES ASSUME IInv, InboxInv
             PROVE  Within(DoneNum) /\ Queued = Queue(Chain, DoneNum) /\ Chain \in Seq(Conn)
  OBVIOUS
<1>1. Chain \in Seq(Conn)
  BY ChainIs
<1>2. Within(DoneNum)
  <2> SUFFICES ASSUME NEW c \in Conn PROVE DoneNum \in [Conn -> Nat] /\ DoneNum[c] <= NMsg[c]
    BY DoneIs DEF Within
  <2>1. DoneNum \in [Conn -> Nat] /\ DoneNum[c] <= CutNum[c] /\ CutNum[c] <= NMsg[c]
    BY DoneIs
  <2>2. CutNum[c] \in Nat /\ NMsg[c] \in Nat
    BY ClientAssumption DEF IInv, BufferInv
  <2> QED BY <2>1, <2>2
<1> QED BY <1>1, <1>2, QueuedIs

LEMMA SameDone == Finished' = Finished => DoneNum' = DoneNum
BY DEF DoneNum

LEMMA DeadSame == UNCHANGED client => Dead' = Dead
BY DEF Dead, client

LEMMA HandledSame == UNCHANGED delivered => Handled' = Handled
BY DEF Handled

LEMMA Stutter ==
    IInv /\ InboxInv /\ UNCHANGED <<client, Chain, delivered, lost>> => UNCHANGED <<Queued, Dead, Handled>>
<1> SUFFICES ASSUME IInv, InboxInv, UNCHANGED <<client, Chain, delivered, lost>>
             PROVE  UNCHANGED <<Queued, Dead, Handled>>
  OBVIOUS
<1>1. DoneNum' = DoneNum
  BY SameDone DEF Finished
<1>2. Chain' = Chain /\ Chain \in Seq(Conn)
  BY ChainIs
<1>3. Queued' = Queued
  BY <1>1, <1>2, DoneWithin, QueuedNext
<1> QED BY <1>3, DeadSame, HandledSame

LEMMA NumberIs == ASSUME NEW c \in Conn, NEW k \in Nat PROVE Number(Msg(c, k)) = <<c, k>>
<1>1. Msg(c, k)[1][1] = c /\ Msg(c, k)[1][2] = 2 * k - 1
  BY DEF Msg
<1>2. (2 * k - 1 + 1) \div 2 = k
  OBVIOUS
<1> QED BY <1>1, <1>2 DEF Number

(* The message in data is done: dispatched, or overwritten. *)
LEMMA OneDone ==
    ASSUME IInv, InboxInv, data # <<>>, Finished' = Finished \union {data}, UNCHANGED <<sockets, backlog>>
    PROVE  /\ sockets # <<>> /\ sockets[1] \in Conn /\ Chain # <<>> /\ Chain[1] = sockets[1]
           /\ Number(data) = <<sockets[1], DoneNum[sockets[1]] + 1>>
           /\ DoneNum[sockets[1]] \in Nat /\ DoneNum[sockets[1]] + 1 <= NMsg[sockets[1]]
           /\ 2 * (DoneNum[sockets[1]] + 1) <= sent[sockets[1]]
           /\ Queued # <<>> /\ Head(Queued) = Number(data) /\ Queued' = Tail(Queued)
<1> DEFINE c == sockets[1]
<1>1. sockets # <<>> /\ c \in Conn /\ data = Msg(c, CutNum[c]) /\ Cuts = UpTo(CutNum) /\ CutNum \in [Conn -> Nat]
  <2>1. sockets # <<>> /\ data = Msg(c, CutNum[c]) /\ Cuts = UpTo(CutNum) /\ CutNum \in [Conn -> Nat]
    BY DEF IInv, DeliveredInv, BufferInv
  <2> QED BY <2>1, DoneIs
<1>2. DoneNum \in [Conn -> Nat] /\ CutNum = [DoneNum EXCEPT ![c] = @ + 1]
      /\ CutNum[c] <= NMsg[c] /\ 2 * CutNum[c] <= sent[c]
  BY <1>1, DoneIs
<1>3. CutNum[c] = DoneNum[c] + 1 /\ DoneNum[c] \in Nat
  BY <1>1, <1>2
<1>4. DoneNum' = CutNum
  <2>1. Cuts = Finished \union {data}
    BY CutsFinished
  <2>2. Finished' = UpTo(CutNum)
    BY <1>1, <2>1
  <2> QED BY <1>1, <2>2, Counting DEF DoneNum
<1>5. Chain' = Chain /\ Chain \in Seq(Conn) /\ Chain # <<>> /\ Chain[1] = c /\ Distinct(Chain)
  <2>1. 1 \in 1 .. Len(sockets) /\ Len(Chain) # 0
    <3>1. sockets \in Seq(Conn) /\ Len(sockets) \in Nat /\ Len(backlog) \in Nat /\ Len(Chain) = Len(sockets) + Len(backlog)
      BY ChainIs DEF IInv, TypeOK
    <3>2. Len(sockets) # 0
      BY <1>1, <3>1
    <3> QED BY <3>1, <3>2
  <2>2. Chain # <<>>
    BY <2>1
  <2>3. Chain' = Chain
    BY DEF Chain
  <2> QED BY <2>1, <2>2, <2>3, ChainIs
<1>6. Within(DoneNum) /\ Within(CutNum)
  <2>1. \A d \in Conn : CutNum[d] <= NMsg[d]
    BY DoneIs
  <2> QED BY <1>1, <2>1, DoneWithin DEF Within
<1>7. DoneNum[c] < NMsg[c] /\ DoneNum[c] + 1 <= NMsg[c]
  <2>1. NMsg[c] \in Nat /\ DoneNum[c] + 1 <= NMsg[c]
    BY <1>1, <1>2, <1>3, ClientAssumption
  <2> HIDE DEF c
  <2> QED BY <1>3, <2>1
<1> HIDE DEF c
<1>8. Queued = Queue(Chain, DoneNum) /\ Queued' = Queue(Chain, CutNum)
  BY <1>4, <1>5, <1>6, DoneWithin, QueuedNext
<1>9. /\ Queue(Chain, DoneNum) # <<>> /\ Head(Queue(Chain, DoneNum)) = <<Chain[1], DoneNum[Chain[1]] + 1>>
      /\ Tail(Queue(Chain, DoneNum)) = Queue(Chain, CutNum)
  <2>1. CutNum = [DoneNum EXCEPT ![Chain[1]] = @ + 1] /\ DoneNum[Chain[1]] < NMsg[Chain[1]]
    BY <1>2, <1>5, <1>7
  <2> QED BY <1>5, <1>6, <2>1, QueueOne
<1>10. Number(data) = <<c, DoneNum[c] + 1>>
  BY <1>1, <1>3, NumberIs
<1>11. 2 * (DoneNum[c] + 1) <= sent[c]
  BY <1>2, <1>3
<1> QED BY <1>1, <1>3, <1>5, <1>7, <1>8, <1>9, <1>10, <1>11 DEF c

(* Behind the connection that is read, every connection has all of its     *)
(* messages in the queue.                                                  *)
LEMMA BehindQueued ==
    ASSUME IInv, InboxInv, NEW i \in 1 .. Len(sockets), i # 1
    PROVE  /\ \E j \in 1 .. Len(Queued) : Queued[j][1] = sockets[i]
           /\ sockets[i] \in Conn /\ sockets[i] # sockets[1]
<1> DEFINE c == sockets[i]
<1>1. sockets \in Seq(Conn) /\ Distinct(sockets) /\ sockets # <<>> /\ 1 \in 1 .. Len(sockets)
  BY DEF IInv, TypeOK, ConnInv
<1>2. c \in Conn /\ c # sockets[1]
  BY <1>1 DEF Distinct
<1>3. Fresh(c)
  BY <1>1, <1>2 DEF Fresh, Accepted, Open
<1>4. got[c] = 0
  BY <1>2, <1>3 DEF IInv, ConnInv
<1>5. DoneNum[c] = 0 /\ NMsg[c] \in Nat \ {0}
  <2>1. DoneNum \in [Conn -> Nat] /\ DoneNum[c] <= CutNum[c] /\ 2 * CutNum[c] <= got[c] /\ NMsg[c] \in Nat \ {0}
    BY <1>2, DoneIs, ClientAssumption
  <2>2. CutNum[c] \in Nat /\ DoneNum[c] \in Nat
    BY <1>2, <2>1 DEF IInv, BufferInv
  <2> QED BY <1>4, <2>1, <2>2
<1>6. Chain \in Seq(Conn) /\ i \in 1 .. Len(Chain) /\ Chain[i] = c
  BY ChainIs
<1>7. Within(DoneNum) /\ Queued = Queue(Chain, DoneNum)
  BY DoneWithin
<1>8. 1 \in 1 .. NMsg[c] - DoneNum[c]
  BY <1>5
<1> HIDE DEF c
<1>9. <<c, DoneNum[c] + 1>> \in Elems(Queue(Chain, DoneNum))
  <2> DEFINE h == Chain
             d == DoneNum
  <2>1. h \in Seq(Conn) /\ i \in 1 .. Len(h) /\ c = h[i] /\ Within(d) /\ 1 \in 1 .. NMsg[c] - d[c]
    BY <1>6, <1>7, <1>8
  <2> HIDE DEF h, d
  <2>2. <<c, d[c] + 1>> \in Elems(Queue(h, d))
    BY <2>1, QueueHas
  <2> QED BY <2>2 DEF h, d
<1>10. \E j \in 1 .. Len(Queued) : Queued[j][1] = c
  BY <1>7, <1>9 DEF Elems
<1> QED BY <1>2, <1>10 DEF c

LEMMA ConnectStep == ASSUME IInv, InboxInv, NEW c \in Conn, Connect(c) PROVE Inbox!Send(c)
<1>1. DoneNum' = DoneNum
  BY SameDone DEF Connect, server, Finished
<1>2. Chain \in Seq(Conn) /\ Chain' = Append(Chain, c)
  <2>1. sockets \in Seq(Conn) /\ backlog \in Seq(Conn) /\ sockets' = sockets /\ backlog' = Append(backlog, c)
    BY DEF IInv, TypeOK, Connect, server
  <2>2. Chain = sockets \o backlog /\ Chain' = sockets \o Append(backlog, c)
    BY <2>1 DEF Chain
  <2> QED BY <2>1, <2>2
<1>3. Chain' \in Seq(Conn)
  BY <1>2
<1>4. Within(DoneNum) /\ Queued = Queue(Chain, DoneNum)
  BY DoneWithin
<1>5. Queued' = Queue(Append(Chain, c), DoneNum)
  BY <1>1, <1>2, <1>3, <1>4, QueuedNext
<1>6. Queued' = Queued \o Rest(c, DoneNum[c])
  BY <1>2, <1>4, <1>5, QueueAppend
<1>7. DoneNum[c] = 0
  <2>1. DoneNum \in [Conn -> Nat] /\ DoneNum[c] <= CutNum[c] /\ 2 * CutNum[c] <= sent[c]
    BY DoneIs
  <2>2. CutNum[c] \in Nat /\ DoneNum[c] \in Nat /\ sent[c] = 0
    BY <2>1 DEF IInv, BufferInv, ConnInv, Connect
  <2> QED BY <2>1, <2>2
<1>8. Rest(c, 0) = [m \in 1 .. NMsg[c] |-> <<c, m>>]
  <2>1. NMsg[c] \in Nat
    BY ClientAssumption
  <2>2. NMsg[c] - 0 = NMsg[c] /\ \A m \in 1 .. NMsg[c] : 0 + m = m
    BY <2>1
  <2> QED BY <2>2 DEF Rest
<1>9. Queued' = Queued \o [m \in 1 .. NMsg[c] |-> <<c, m>>]
  BY <1>6, <1>7, <1>8
<1>10. Dead' = Dead
  <2>1. sent' = sent /\ stage \in [Conn -> {"new", "open", "closed"}]
        /\ stage[c] = "new" /\ stage' = [stage EXCEPT ![c] = "open"]
    BY DEF IInv, TypeOK, Connect
  <2>2. \A d \in Conn : stage'[d] = "closed" <=> stage[d] = "closed"
    BY <2>1
  <2> QED BY <2>1, <2>2 DEF Dead
<1>11. Handled' = Handled
  BY HandledSame DEF Connect, server
<1> QED BY <1>9, <1>10, <1>11 DEF Inbox!Send

LEMMA SendPartStep ==
    ASSUME IInv, InboxInv, NEW c \in Conn, SendPart(c) PROVE UNCHANGED <<Queued, Dead, Handled>>
<1>1. DoneNum' = DoneNum
  BY SameDone DEF SendPart, server, Finished
<1>2. Chain' = Chain /\ Chain \in Seq(Conn)
  BY ChainIs DEF SendPart, server, Chain
<1>3. Queued' = Queued
  BY <1>1, <1>2, DoneWithin, QueuedNext
<1>4. Dead' = Dead
  <2>1. sent \in [Conn -> Nat] /\ stage' = stage /\ stage[c] = "open" /\ sent' = [sent EXCEPT ![c] = @ + 1]
    BY DEF IInv, TypeOK, SendPart
  <2>2. \A d \in Conn : stage[d] = "closed" => sent'[d] = sent[d]
    BY <2>1
  <2>3. \A d \in Conn : {m \in Message(d) : stage'[d] = "closed" /\ sent'[d] < 2 * m[2]}
                        = {m \in Message(d) : stage[d] = "closed" /\ sent[d] < 2 * m[2]}
    BY <2>1, <2>2
  <2> QED BY <2>3 DEF Dead
<1> QED BY <1>3, <1>4, HandledSame DEF SendPart, server

LEMMA CloseStep ==
    ASSUME IInv, InboxInv, NEW c \in Conn, Close(c)
    PROVE  (\E m \in 1 .. NMsg[c] : Inbox!Die(<<c, m>>)) \/ UNCHANGED <<Queued, Dead, Handled>>
<1>1. DoneNum' = DoneNum
  BY SameDone DEF Close, server, Finished
<1>2. Chain' = Chain /\ Chain \in Seq(Conn)
  BY ChainIs DEF Close, server, Chain
<1>3. Queued' = Queued
  BY <1>1, <1>2, DoneWithin, QueuedNext
<1>4. Handled' = Handled
  BY HandledSame DEF Close, server
<1> DEFINE n == sent[c] \div 2 + 1
<1>5. n \in Nat \ {0} /\ \A k \in Nat : sent[c] < 2 * k <=> n <= k
  <2>1. sent[c] \in Nat
    BY DEF IInv, TypeOK
  <2> QED BY <2>1
<1> HIDE DEF n
<1>6. Dead' = Dead \union ({c} \X (n .. NMsg[c]))
  <2>1. sent' = sent /\ stage \in [Conn -> {"new", "open", "closed"}]
        /\ stage[c] = "open" /\ stage' = [stage EXCEPT ![c] = "closed"] /\ NMsg[c] \in Nat
    BY ClientAssumption DEF IInv, TypeOK, Close
  <2>2. stage'[c] = "closed" /\ \A d \in Conn : d # c => stage'[d] = stage[d]
    BY <2>1
  <2> DEFINE D(d) == {m \in Message(d) : stage[d] = "closed" /\ sent[d] < 2 * m[2]}
             E(d) == {m \in Message(d) : stage'[d] = "closed" /\ sent[d] < 2 * m[2]}
  <2>3. D(c) = {} /\ \A d \in Conn : d # c => E(d) = D(d)
    BY <2>1, <2>2
  <2>4. E(c) = {c} \X (n .. NMsg[c])
    <3>1. \A m \in Message(c) : m[1] = c /\ m[2] \in 1 .. NMsg[c] /\ m = <<m[1], m[2]>>
      BY DEF Message
    <3>2. \A m \in {c} \X (n .. NMsg[c]) : m \in Message(c) /\ m[2] \in n .. NMsg[c]
      BY <1>5, <2>1 DEF Message
    <3>3. \A m \in E(c) : m \in {c} \X (n .. NMsg[c])
      BY <1>5, <2>1, <3>1
    <3>4. \A m \in {c} \X (n .. NMsg[c]) : m \in E(c)
      BY <1>5, <2>1, <2>2, <3>2
    <3> QED BY <3>3, <3>4
  <2>5. Dead = UNION {D(d) : d \in Conn} /\ Dead' = UNION {E(d) : d \in Conn}
    BY <2>1 DEF Dead
  <2> HIDE DEF D, E
  <2>6. \A m : m \in Dead' <=> m \in Dead \/ m \in E(c)
    BY <2>3, <2>5
  <2> QED BY <2>4, <2>6
<1>7. CASE n <= NMsg[c]
  <2>1. n \in 1 .. NMsg[c]
    BY <1>5, <1>7, ClientAssumption
  <2>2. PICK k \in 1 .. NMsg[c] : k = n
    BY <2>1
  <2>3. Inbox!Die(<<c, k>>)
    BY <1>3, <1>4, <1>6, <2>2 DEF Inbox!Die
  <2> QED BY <2>3
<1>8. CASE ~ (n <= NMsg[c])
  <2>1. n .. NMsg[c] = {}
    BY <1>5, <1>8, ClientAssumption
  <2>2. Dead' = Dead
    BY <1>6, <2>1
  <2> QED BY <1>3, <1>4, <2>2
<1> QED BY <1>7, <1>8

LEMMA AcceptStutter ==
    ASSUME IInv, InboxInv, Accept, UNCHANGED <<client, delivered, lost>>
    PROVE  UNCHANGED <<Queued, Dead, Handled>>
<1>1. Chain' = Chain
  <2>1. sockets \in Seq(Conn) /\ backlog \in Seq(Conn) /\ backlog # <<>>
        /\ sockets' = Append(sockets, Head(backlog)) /\ backlog' = Tail(backlog)
    BY DEF IInv, TypeOK, Accept
  <2>2. Append(sockets, Head(backlog)) \o Tail(backlog) = sockets \o backlog
    BY <2>1
  <2> QED BY <2>1, <2>2 DEF Chain
<1> QED BY <1>1, Stutter

(* A message in data is overwritten only while another connection waits. *)
LEMMA DropStep ==
    ASSUME IInv, InboxInv, pc \in {"recv", "raw"}, Overwrite, UNCHANGED <<client, sockets, backlog, delivered>>
    PROVE  Inbox!Drop \/ UNCHANGED <<Queued, Dead, Handled>>
<1>1. CASE data = <<>>
  <2>1. UNCHANGED <<client, Chain, delivered, lost>>
    BY <1>1 DEF Overwrite, Chain
  <2> QED BY <2>1, Stutter
<1>2. CASE data # <<>>
  <2>1. pc = "raw" /\ Len(sockets) > 1 /\ Len(sockets) \in Nat
    BY <1>2 DEF IInv, DeliveredInv, InboxInv, TypeOK
  <2>2. Finished' = Finished \union {data}
    BY <1>2 DEF Overwrite, Finished
  <2>3. Queued # <<>> /\ Head(Queued) = <<sockets[1], DoneNum[sockets[1]] + 1>> /\ Queued' = Tail(Queued)
    BY <1>2, <2>2, OneDone
  <2>4. 2 \in 1 .. Len(sockets)
    BY <2>1
  <2>5. (\E j \in 1 .. Len(Queued) : Queued[j][1] = sockets[2]) /\ sockets[2] # sockets[1]
    BY <2>4, BehindQueued
  <2>6. \E j \in 1 .. Len(Queued) : Queued[j][1] # Head(Queued)[1]
    BY <2>3, <2>5
  <2> QED BY <2>3, <2>6, DeadSame, HandledSame DEF Inbox!Drop
<1> QED BY <1>1, <1>2

(* At the end of a stream no whole message of it is left. *)
LEMMA EndStep ==
    ASSUME IInv, InboxInv, EndOfStream
    PROVE  Inbox!Forget \/ UNCHANGED <<Queued, Dead, Handled>>
<1> DEFINE c == sockets[1]
<1>1. pc = "scan1" /\ stage[c] = "closed" /\ got[c] = sent[c] /\ Finished' = Finished
      /\ UNCHANGED <<client, backlog, delivered, lost>> /\ (sockets' = sockets \/ sockets' = Tail(sockets))
  BY DEF EndOfStream, delSocket, Finished
<1>2. sockets \in Seq(Conn) /\ sockets # <<>> /\ c \in Conn /\ 1 \in 1 .. Len(sockets) /\ backlog \in Seq(Conn)
  <2>1. sockets \in Seq(Conn) /\ sockets # <<>> /\ backlog \in Seq(Conn)
    BY <1>1 DEF IInv, TypeOK, ServerInv
  <2> QED BY <2>1
<1>3. CASE sockets' = sockets
  <2>1. UNCHANGED <<client, Chain, delivered, lost>>
    BY <1>1, <1>3 DEF Chain
  <2> QED BY <2>1, Stutter
<1>4. CASE sockets' = Tail(sockets)
  <2>1. Chain' = Tail(Chain) /\ Chain # <<>> /\ Chain[1] = c /\ Chain \in Seq(Conn)
    <3>1. Tail(sockets) \o backlog = Tail(sockets \o backlog) /\ sockets \o backlog # <<>>
      BY <1>2
    <3> QED BY <1>1, <1>2, <1>4, <3>1, ChainIs DEF Chain
  <2>2. Within(DoneNum) /\ Queued = Queue(Chain, DoneNum) /\ DoneNum' = DoneNum
    BY <1>1, DoneWithin, SameDone
  <2>3. Chain' \in Seq(Conn)
    BY <2>1
  <2> HIDE DEF c
  <2>4. Queued' = Queue(Tail(Chain), DoneNum)
    BY <2>1, <2>2, <2>3, QueuedNext
  <2> DEFINE r == Rest(c, DoneNum[c])
             k == Len(r)
  <2>5. Queued = r \o Queued' /\ Queued' \in Seq(Conn \X Nat)
    BY <2>1, <2>2, <2>4, QueueTail
  <2>6. DoneNum[c] \in Nat /\ DoneNum[c] <= NMsg[c]
    BY <1>2, <2>2 DEF Within
  <2>7. r \in Seq(Conn \X Nat) /\ k = NMsg[c] - DoneNum[c] /\ k \in Nat
        /\ \A i \in 1 .. k : r[i] = <<c, DoneNum[c] + i>>
    BY <1>2, <2>6, RestIs
  <2>8. sent[c] < 2 * (DoneNum[c] + 1)
    <3>1. DoneNum = CutNum
      <4>1. data = <<>>
        BY <1>1 DEF IInv, DeliveredInv
      <4> QED BY <4>1, DoneIs
    <3>2. buffer[1] = Parts(c, 2 * CutNum[c], got[c]) /\ Len(buffer[1]) < 2 /\ 2 * CutNum[c] <= got[c]
          /\ got[c] \in Nat /\ CutNum[c] \in Nat
      BY <1>1, <1>2 DEF IInv, TypeOK, BufferInv, InboxInv, c
    <3>3. Len(buffer[1]) = got[c] - 2 * CutNum[c]
      <4> DEFINE a == 2 * CutNum[c]
      <4>1. a \in Nat /\ a <= got[c] /\ buffer[1] = Parts(c, a, got[c])
        BY <3>2
      <4> DEFINE b == got[c]
      <4>2. a \in Nat /\ b \in Nat /\ a <= b
        BY <3>2, <4>1
      <4> HIDE DEF a, b
      <4>3. Len(Parts(c, a, b)) = b - a
        BY <4>2, PartsLen
      <4> QED BY <4>1, <4>3 DEF a, b
    <3> QED BY <1>1, <3>1, <3>2, <3>3
  <2>9. \A i \in 1 .. k : r[i] \in Dead
    <3> SUFFICES ASSUME NEW i \in 1 .. k PROVE r[i] \in Dead
      OBVIOUS
    <3>1. r[i] = <<c, DoneNum[c] + i>> /\ DoneNum[c] + i \in 1 .. NMsg[c]
      <4>1. NMsg[c] \in Nat /\ r[i] = <<c, DoneNum[c] + i>>
        BY <1>2, <2>7, ClientAssumption
      <4> HIDE DEF r
      <4>2. i \in 1 .. NMsg[c] - DoneNum[c]
        BY <2>7
      <4>3. DoneNum[c] + i \in 1 .. NMsg[c]
        BY <2>6, <4>1, <4>2
      <4> QED BY <4>1, <4>3
    <3>2. r[i] \in Message(c) /\ r[i][2] = DoneNum[c] + i
      BY <3>1 DEF Message
    <3>3. sent[c] < 2 * r[i][2]
      <4>1. sent[c] \in Nat
        BY <1>2 DEF IInv, TypeOK
      <4> QED BY <2>6, <2>7, <2>8, <3>2, <4>1
    <3> HIDE DEF r
    <3> QED BY <1>1, <1>2, <3>2, <3>3 DEF Dead
  <2> HIDE DEF r, k
  <2>10. CASE k = 0
    <3>1. Queued' = Queued
      <4>1. r = <<>>
        BY <2>7, <2>10 DEF k
      <4> QED BY <2>5, <4>1
    <3> QED BY <1>1, <3>1, DeadSame, HandledSame
  <2>11. CASE k # 0
    <3>1. k \in 1 .. Len(Queued) /\ (\A i \in 1 .. k : Queued[i] = r[i])
          /\ Queued' = SubSeq(Queued, k + 1, Len(Queued))
      <4> DEFINE a == Queued
                 b == Queued'
      <4>1. a = r \o b /\ b \in Seq(Conn \X Nat) /\ r \in Seq(Conn \X Nat) /\ k = Len(r) /\ k \in Nat \ {0}
        BY <2>5, <2>7, <2>11 DEF k
      <4> HIDE DEF a, b
      <4>2. k \in 1 .. Len(a) /\ (\A i \in 1 .. k : a[i] = r[i]) /\ Len(a) = k + Len(b)
            /\ \A i \in 1 .. Len(b) : a[k + i] = b[i]
        BY <4>1
      <4>3. b = SubSeq(a, k + 1, Len(a))
        BY <4>1, <4>2
      <4> QED BY <4>2, <4>3 DEF a, b
    <3>2. PICK n \in 1 .. Len(Queued) : n = k
      BY <3>1
    <3>3. \A i \in 1 .. n : Queued[i] \in Dead
      BY <2>9, <3>1, <3>2
    <3> QED BY <1>1, <3>1, <3>2, <3>3, DeadSame, HandledSame DEF Inbox!Forget
  <2> QED BY <2>10, <2>11
<1> QED BY <1>1, <1>3, <1>4

LEMMA DispatchStep == ASSUME IInv, InboxInv, Dispatch PROVE Inbox!Handle
<1>1. pc = "dispatch" /\ data # <<>> /\ delivered' = Append(delivered, [msg |-> data, addr |-> addr])
      /\ UNCHANGED <<client, sockets, backlog, lost>>
  BY DEF Dispatch, IInv, DeliveredInv
<1>2. Finished' = Finished \union {data}
  <2> DEFINE e == [msg |-> data, addr |-> addr]
             s == delivered
             N == Len(s)
  <2>1. s \in Seq([msg : Seq(Part), addr : Host]) /\ e.msg = data
    BY DEF IInv, DeliveredInv
  <2> HIDE DEF e
  <2>2. delivered' = Append(s, e)
    BY <1>1 DEF e
  <2> HIDE DEF s
  <2>3. N \in Nat /\ Len(Append(s, e)) = N + 1 /\ Append(s, e)[N + 1] = e
        /\ \A i \in 1 .. N : Append(s, e)[i] = s[i]
    BY <2>1
  <2> HIDE DEF N
  <2>4. {delivered'[i].msg : i \in 1 .. N + 1} = {s[i].msg : i \in 1 .. N} \union {data}
    <3>1. \A i \in 1 .. N : delivered'[i] = s[i]
      BY <2>2, <2>3
    <3>2. delivered'[N + 1].msg = data
      BY <2>1, <2>2, <2>3
    <3>3. \A i : i \in 1 .. N + 1 <=> i \in 1 .. N \/ i = N + 1
      BY <2>3
    <3> QED BY <3>1, <3>2, <3>3
  <2>5. Len(delivered') = N + 1
    BY <2>2, <2>3
  <2>6. Finished' = lost \union {delivered'[i].msg : i \in 1 .. N + 1}
    BY <1>1, <2>5 DEF Finished
  <2>7. Finished = lost \union {s[i].msg : i \in 1 .. N}
    BY DEF Finished, s, N
  <2> QED BY <2>4, <2>6, <2>7
<1>3. /\ sockets # <<>> /\ sockets[1] \in Conn /\ Number(data) = <<sockets[1], DoneNum[sockets[1]] + 1>>
      /\ 2 * (DoneNum[sockets[1]] + 1) <= sent[sockets[1]] /\ DoneNum[sockets[1]] \in Nat
      /\ Queued # <<>> /\ Head(Queued) = Number(data) /\ Queued' = Tail(Queued)
  BY <1>1, <1>2, OneDone
<1>4. Head(Queued) \notin Dead
  <2> DEFINE c == sockets[1]
             n == DoneNum[c] + 1
  <2>1. Head(Queued) = <<c, n>> /\ c \in Conn /\ n \in Nat /\ sent[c] \in Nat /\ 2 * n <= sent[c]
    BY <1>3 DEF IInv, TypeOK
  <2> HIDE DEF c, n
  <2>2. ~ (sent[c] < 2 * n)
    BY <2>1
  <2>3. \A d \in Conn : <<c, n>> \in Message(d) => d = c
    BY DEF Message
  <2> QED BY <2>1, <2>2, <2>3 DEF Dead
<1>5. addr \in {From[Queued[i][1]] : i \in 1 .. Len(Queued)}
  <2>1. addr = From[sockets[Len(sockets)]] /\ sockets \in Seq(Conn)
    BY <1>3 DEF IInv, TypeOK, ServerInv, Last
  <2>2. Len(sockets) \in 1 .. Len(sockets)
    BY <1>3, <2>1
  <2>3. \E j \in 1 .. Len(Queued) : Queued[j][1] = sockets[Len(sockets)]
    <3>1. CASE Len(sockets) = 1
      <4>1. 1 \in 1 .. Len(Queued) /\ Queued[1] = Head(Queued)
        <5>1. Queued \in Seq(Conn \X Nat)
          BY DoneWithin, QueueIs
        <5> HIDE DEF Queued
        <5> QED BY <1>3, <5>1
      <4> QED BY <1>3, <3>1, <4>1
    <3>2. CASE Len(sockets) # 1
      BY <2>2, <3>2, BehindQueued
    <3> QED BY <3>1, <3>2
  <2> QED BY <2>1, <2>3
<1>6. Handled' = Append(Handled, <<Head(Queued), addr>>)
  <2> DEFINE e == [msg |-> data, addr |-> addr]
             s == delivered
             N == Len(s)
             H(d) == <<Number(d.msg), d.addr>>
  <2>1. s \in Seq([msg : Seq(Part), addr : Host]) /\ H(e) = <<Head(Queued), addr>>
    BY <1>3 DEF IInv, DeliveredInv
  <2>2. delivered' = Append(s, e)
    BY <1>1
  <2>3. Handled = [i \in 1 .. N |-> H(s[i])] /\ Handled' = [i \in 1 .. Len(delivered') |-> H(delivered'[i])]
    BY DEF Handled, Number
  <2> HIDE DEF e, s, H
  <2>4. N \in Nat /\ Len(delivered') = N + 1 /\ delivered'[N + 1] = e
        /\ \A i \in 1 .. N : delivered'[i] = s[i]
    BY <2>1, <2>2
  <2> HIDE DEF N
  <2>5. Append([i \in 1 .. N |-> H(s[i])], H(e)) = [i \in 1 .. N + 1 |-> IF i = N + 1 THEN H(e) ELSE H(s[i])]
    BY <2>4
  <2>6. [i \in 1 .. N + 1 |-> IF i = N + 1 THEN H(e) ELSE H(s[i])] = [i \in 1 .. N + 1 |-> H(delivered'[i])]
    <3> SUFFICES ASSUME NEW i \in 1 .. N + 1
                 PROVE  (IF i = N + 1 THEN H(e) ELSE H(s[i])) = H(delivered'[i])
      OBVIOUS
    <3>1. i = N + 1 \/ i \in 1 .. N
      BY <2>4
    <3> QED BY <2>4, <3>1
  <2>7. Handled' = Append([i \in 1 .. N |-> H(s[i])], H(e))
    BY <2>3, <2>4, <2>5, <2>6
  <2> QED BY <2>1, <2>3, <2>7
<1>7. \E a \in {From[Queued[i][1]] : i \in 1 .. Len(Queued)} : Handled' = Append(Handled, <<Head(Queued), a>>)
  BY <1>5, <1>6
<1> QED BY <1>1, <1>3, <1>4, <1>7, DeadSame DEF Inbox!Handle, Inbox!Senders

LEMMA InboxMaps == IInv /\ InboxInv /\ [Next]_vars => Inbox!Next \/ UNCHANGED <<Queued, Dead, Handled>>
<1> SUFFICES ASSUME IInv, InboxInv, [Next]_vars
             PROVE  Inbox!Next \/ UNCHANGED <<Queued, Dead, Handled>>
  OBVIOUS
<1>1. ASSUME NEW c \in Conn, Connect(c) PROVE Inbox!Next
  BY <1>1, ConnectStep DEF Inbox!Next
<1>2. ASSUME NEW c \in Conn, SendPart(c) PROVE UNCHANGED <<Queued, Dead, Handled>>
  BY <1>2, SendPartStep
<1>3. ASSUME NEW c \in Conn, Close(c) PROVE Inbox!Next \/ UNCHANGED <<Queued, Dead, Handled>>
  <2>1. (\E m \in 1 .. NMsg[c] : Inbox!Die(<<c, m>>)) \/ UNCHANGED <<Queued, Dead, Handled>>
    BY <1>3, CloseStep
  <2> QED BY <2>1 DEF Inbox!Next
<1>4. CASE Client
  BY <1>1, <1>2, <1>3, <1>4 DEF Client
<1>5. CASE WaitAccept \/ RawAccept
  <2>1. Accept /\ UNCHANGED <<client, delivered, lost>>
    BY <1>5 DEF WaitAccept, RawAccept
  <2> QED BY <2>1, AcceptStutter
<1>6. CASE WaitReady \/ RecvPoll \/ SkipSocket \/ ReadSocket \/ RawReturn \/ UNCHANGED vars
  <2>1. UNCHANGED <<client, sockets, backlog, delivered, lost>>
    BY <1>6 DEF WaitReady, RecvPoll, SkipSocket, ReadSocket, RawReturn, vars
  <2>2. UNCHANGED <<client, Chain, delivered, lost>>
    BY <2>1 DEF Chain
  <2> QED BY <2>2, Stutter
<1>7. CASE Buffered \/ RawPoll
  <2>1. pc \in {"recv", "raw"} /\ Overwrite /\ UNCHANGED <<client, sockets, backlog, delivered>>
    BY <1>7 DEF Buffered, RawPoll
  <2>2. Inbox!Drop \/ UNCHANGED <<Queued, Dead, Handled>>
    BY <2>1, DropStep
  <2> QED BY <2>2 DEF Inbox!Next
<1>8. CASE EndOfStream
  <2>1. Inbox!Forget \/ UNCHANGED <<Queued, Dead, Handled>>
    BY <1>8, EndStep
  <2> QED BY <2>1 DEF Inbox!Next
<1>9. CASE Dispatch
  <2>1. Inbox!Handle
    BY <1>9, DispatchStep
  <2> QED BY <2>1 DEF Inbox!Next
<1> QED BY <1>4, <1>5, <1>6, <1>7, <1>8, <1>9 DEF Next, Server

LEMMA InboxFirst == Init => Inbox!Init
<1> SUFFICES ASSUME Init PROVE Inbox!Init
  OBVIOUS
<1>1. Chain = <<>>
  BY DEF Init, Chain
<1>2. Within(DoneNum)
  <2>1. Finished = {}
    BY DEF Init, Finished
  <2>2. \A c \in Conn : {m \in Finished : m[1][1] = c} = {}
    BY <2>1
  <2>3. \A c \in Conn : Cardinality({m \in Finished : m[1][1] = c}) = 0
    BY <2>2, FS_EmptySet
  <2>4. DoneNum = [c \in Conn |-> 0] /\ \A c \in Conn : NMsg[c] \in Nat
    BY <2>3, ClientAssumption DEF DoneNum
  <2> QED BY <2>4 DEF Within
<1>3. Queued = <<>>
  <2>1. Rests(Chain, DoneNum) = <<>>
    BY <1>1 DEF Rests
  <2>2. Queue(Chain, DoneNum) = <<>>
    BY <2>1, JoinedNone DEF Queue
  <2> QED BY <1>1, <1>2, <2>2, QueuedIs
<1>4. Dead = {}
  BY DEF Dead, Init
<1>5. Handled = <<>>
  BY DEF Handled, Init
<1> QED BY <1>3, <1>4, <1>5 DEF Inbox!Init

(* The server is the inbox its senders rely on: however the stream is cut  *)
(* and connections come, break off and go, what it does is what TcpInbox   *)
(* allows.                                                                 *)
THEOREM Refinement == Spec => ImplementsInbox
<1>1. Init => Inbox!Init
  BY InboxFirst
<1>2. IInv /\ InboxInv /\ [Next]_vars => [Inbox!Next]_<<Queued, Dead, Handled>>
  BY InboxMaps
<1>3. Init => IInv /\ InboxInv
  BY InitInv, InboxInit
<1>4. IInv /\ InboxInv /\ [Next]_vars => IInv' /\ InboxInv'
  BY StepKeeps, InboxStep
<1> QED BY <1>1, <1>2, <1>3, <1>4, PTL DEF Spec, ImplementsInbox, Inbox!Spec

=============================================================================
