--------------------------- MODULE LoSockets_proofs ---------------------------
(***************************************************************************)
(* Proofs about LoSockets (liblo_new: address.c, send.c, server.c and      *)
(* server_thread.c): the lemmas of the theorem Sockets of                  *)
(* SerialSound_proofs, that SocketsInv holds always.                       *)
(*                                                                         *)
(* The inductive invariant is SocketsGood.  Of the net (descriptors,       *)
(* addresses, servers and their sockets) it says NetPart: whatever         *)
(* happened, what is kept as the keeper's own is open, a server's first    *)
(* socket is kept nowhere else, and datagrams go out through a live UDP    *)
(* server's first socket (NetGood), as long as no stranger's descriptor    *)
(* was used; as long as no socket was lent and no answer failed, every     *)
(* socket is kept in exactly one place (CleanNet), and, as long as no port *)
(* or interface was missed either, none is lost (NoneLost).  CleanNet is   *)
(* what makes SocketsKept inductive: which descriptor a stale number is by *)
(* now depends on every place that keeps one.  Of the threads it says      *)
(* ThreadsShape and ThreadsGood: a thread that is not off is the one that  *)
(* its live server's record waits for.                                     *)
(*                                                                         *)
(* The lemmas go from the operators of the model, which the source's       *)
(* functions are (closesocket, AddSocket, DelSocket, lo_address_free_mem,  *)
(* lo_server_free, create_socket, send_data, new server), each of which    *)
(* keeps NetGood, and CleanNet and NoneLost under the cause that it adds,  *)
(* to one lemma for each action (Step...).                                 *)
(***************************************************************************)
EXTENDS LoSockets, WellFoundedInduction, TLAPS

(* The least number of a set, and induction on the numbers with a set      *)
LEMMA LeastOf ==
    ASSUME NEW S \in SUBSET Nat, S # {}
    PROVE  \E x \in S : \A y \in S : x <= y
<1>1. PICK x \in S : \A y \in S : ~ (<<y, x>> \in OpToRel(<, Nat))
  BY NatLessThanWellFounded, WFMin
<1>2. \A y \in S : x <= y
  <2> SUFFICES ASSUME NEW y \in S, y < x PROVE FALSE
    OBVIOUS
  <2>1. <<y, x>> \in OpToRel(<, Nat)
    BY DEF OpToRel
  <2> QED BY <1>1, <2>1
<1> QED BY <1>2

LEMMA Induction ==
    ASSUME NEW S \in SUBSET Nat, 0 \in S, \A n \in S : n + 1 \in S
    PROVE  \A n \in Nat : n \in S
<1> DEFINE T == Nat \ S
<1> SUFFICES ASSUME T # {} PROVE FALSE
  OBVIOUS
<1>1. T \in SUBSET Nat
  OBVIOUS
<1> HIDE DEF T
<1>2. PICK x \in T : \A y \in T : x <= y
  BY <1>1, LeastOf
<1>3. x \in Nat \ S /\ x # 0
  BY DEF T
<1>4. x - 1 \in T
  <2>1. x - 1 \in Nat /\ x = (x - 1) + 1
    BY <1>3
  <2> QED BY <1>3, <2>1 DEF T
<1> QED BY <1>2, <1>3, <1>4

(* The functions of folds *)
ByStep(f, T, N, base, step) ==
    f = [k \in 0 .. N |-> IF k = 0 THEN base ELSE step[<<f[k - 1], k>>]] /\ \A k \in 0 .. N : f[k] \in T

LEMMA FoldExists ==
    ASSUME NEW T, NEW N \in Nat, NEW base \in T, NEW step \in [T \X (1 .. N) -> T]
    PROVE  \E f : ByStep(f, T, N, base, step)
<1> DEFINE B(g, k) == IF k = 0 THEN base ELSE step[<<g[k - 1], k>>]
           F(g) == g = [k \in 0 .. N |-> g[k]]
           Fine(n, g) == \A k \in 0 .. n : g[k] = B(g, k) /\ g[k] \in T
           Some(n) == \E g : F(g) /\ Fine(n, g)
           S == {n \in Nat : n <= N => Some(n)}
<1>1. 0 \in S
  <2> DEFINE g == [k \in 0 .. N |-> base]
  <2>1. F(g)
    OBVIOUS
  <2>2. Fine(0, g)
    <3>1. 0 .. 0 = {0} /\ 0 \in 0 .. N
      OBVIOUS
    <3> QED BY <3>1
  <2> QED BY <2>1, <2>2
<1>2. ASSUME NEW n \in S PROVE n + 1 \in S
  <2> HIDE DEF Some
  <2> SUFFICES ASSUME n + 1 <= N PROVE Some(n + 1)
    OBVIOUS
  <2>1. n \in Nat /\ n <= N /\ Some(n)
    OBVIOUS
  <2> USE DEF Some
  <2>2. PICK g : F(g) /\ Fine(n, g)
    BY <2>1
  <2> DEFINE e == [k \in 0 .. N |-> IF k = n + 1 THEN B(g, k) ELSE g[k]]
  <2>3. \A k \in 0 .. N : e[k] = IF k = n + 1 THEN B(g, k) ELSE g[k]
    OBVIOUS
  <2>4. F(e)
    BY <2>3
  <2>5. B(g, n + 1) \in T
    <3>0. n \in 0 .. n
      BY <2>1
    <3>a. n + 1 \in 1 .. N /\ n + 1 # 0 /\ (n + 1) - 1 = n
      BY <2>1
    <3>b. g[n] \in T
      BY <2>2, <3>0
    <3>1. g[n] \in T /\ n + 1 \in 1 .. N /\ n + 1 # 0 /\ (n + 1) - 1 = n
      BY <3>a, <3>b
    <3>2. <<g[n], n + 1>> \in T \X (1 .. N)
      BY <3>1
    <3> QED BY <3>1, <3>2
  <2> HIDE DEF e
  <2>6. ASSUME NEW k \in 0 .. n + 1 PROVE e[k] = B(e, k) /\ e[k] \in T
    <3>1. k \in 0 .. N /\ k \in Nat
      BY <2>1
    <3>2. B(e, k) = B(g, k)
      <4>1. CASE k = 0
        BY <4>1
      <4>2. CASE k # 0
        <5>1. k - 1 \in 0 .. N /\ k - 1 # n + 1
          BY <2>1, <3>1, <4>2
        <5>2. e[k - 1] = g[k - 1]
          BY <2>3, <5>1
        <5> QED BY <4>2, <5>2
      <4> QED BY <4>1, <4>2
    <3>3. CASE k = n + 1
      BY <2>3, <2>5, <3>1, <3>2, <3>3
    <3>4. CASE k # n + 1
      <4>1. k \in 0 .. n
        BY <2>1, <3>1, <3>4
      <4> QED BY <2>2, <2>3, <3>1, <3>2, <3>4, <4>1
    <3> QED BY <3>3, <3>4
  <2> QED BY <2>4, <2>6
<1>3. N \in S
  BY <1>1, <1>2, Induction
<1>4. PICK f : F(f) /\ Fine(N, f)
  BY <1>3
<1>5. f = [k \in 0 .. N |-> B(f, k)]
  BY <1>4
<1> QED BY <1>4, <1>5 DEF ByStep

-----------------------------------------------------------------------------
(* What is so of the net                                                   *)
Ref == [fd : Fd \union {-1}, mine : BOOLEAN]
NetState == [file : [Fd -> Kind \union {NIL}], client : [{"udp", "tcp"} -> Ref],
             srv : [Servers -> ServerState \union {NIL}], adr : [Addresses -> AddressState \union {NIL}],
             stranger : BOOLEAN]

(* What is the number of an open socket *)
OpenRef(n, r) == r.mine /\ r.fd # -1 => n.file[r.fd] # NIL
NetOpen(n) ==
    /\ \A a \in Addresses : n.adr[a] # NIL => OpenRef(n, n.adr[a].sock)
    /\ \A s \in Servers : n.srv[s] # NIL =>
          /\ \A i \in 1 .. Len(n.srv[s].sockets) : OpenRef(n, n.srv[s].sockets[i])
          /\ \A fd \in Fd : n.srv[s].sources[fd] # NIL => OpenRef(n, n.srv[s].sources[fd].sock)

(* A server's own socket is nobody else's. *)
First(n, s) == n.srv[s].sockets[1]
Beside(r, fd) == r.mine => r.fd # fd
FirstKept(n, s) ==
    LET f == First(n, s) IN
    /\ Len(n.srv[s].sockets) >= 1 /\ f.mine /\ f.fd # -1
    /\ \A a \in Addresses : n.adr[a] # NIL => Beside(n.adr[a].sock, f.fd)
    /\ \A t \in Servers : n.srv[t] # NIL =>
          /\ \A i \in 1 .. Len(n.srv[t].sockets) : t # s \/ i # 1 => Beside(n.srv[t].sockets[i], f.fd)
          /\ \A fd \in Fd : n.srv[t].sources[fd] # NIL => Beside(n.srv[t].sources[fd].sock, f.fd)
FirstsKept(n) == ~ n.stranger => \A s \in Servers : n.srv[s] # NIL => FirstKept(n, s)
ClientKept(n) ==
    ~ n.stranger /\ n.client["udp"] # None
    => \E s \in Servers : n.srv[s] # NIL /\ n.srv[s].proto = "udp" /\ First(n, s) = n.client["udp"]
NetGood(n) == n \in NetState /\ NetOpen(n) /\ FirstsKept(n) /\ ClientKept(n)

(* As long as no socket was lent and no answer failed: every number that   *)
(* is kept is that of an open socket, and kept in one place.               *)
Held(n, r) == r = None \/ (r.mine /\ r.fd # -1 /\ n.file[r.fd] \notin {NIL, "other"})
Differ(r, q) == r.fd # -1 => r.fd # q.fd
CleanNet(n) ==
    /\ ~ n.stranger
    /\ \A a \in Addresses : n.adr[a] # NIL =>
          /\ n.adr[a].own /\ Held(n, n.adr[a].sock)
          /\ \A b \in Addresses : b # a /\ n.adr[b] # NIL => Differ(n.adr[a].sock, n.adr[b].sock)
    /\ \A s \in Servers : n.srv[s] # NIL =>
          /\ \A i \in 1 .. Len(n.srv[s].sockets) : LET r == n.srv[s].sockets[i] IN
                /\ Held(n, r)
                /\ \A a \in Addresses : n.adr[a] # NIL => Differ(r, n.adr[a].sock)
                /\ \A t \in Servers : n.srv[t] # NIL =>
                      \A j \in 1 .. Len(n.srv[t].sockets) : s # t \/ i # j => Differ(r, n.srv[t].sockets[j])
          /\ \A fd \in Fd : n.srv[s].sources[fd] # NIL =>
                /\ n.srv[s].sources[fd].sock = [fd |-> fd, mine |-> TRUE] /\ n.srv[s].sources[fd].proto = "tcp"
                /\ \E i \in 1 .. Len(n.srv[s].sockets) : n.srv[s].sockets[i].fd = fd
(* Every open socket but those of S is kept somewhere.                     *)
KeptIn(n, fd) ==
    \/ \E a \in Addresses : n.adr[a] # NIL /\ n.adr[a].sock.fd = fd
    \/ \E s \in Servers : n.srv[s] # NIL /\ \E i \in 1 .. Len(n.srv[s].sockets) : n.srv[s].sockets[i].fd = fd
NoneLost(n, S) == \A fd \in Fd \ S : n.file[fd] \notin {NIL, "other"} => KeptIn(n, fd)

(* A new socket, before anything keeps it                                  *)
Untaken(n, r) ==
    /\ r \in Ref /\ r.mine /\ r.fd # -1 /\ n.file[r.fd] # NIL
    /\ \A a \in Addresses : n.adr[a] # NIL => Beside(n.adr[a].sock, r.fd)
    /\ \A s \in Servers : n.srv[s] # NIL =>
          /\ \A i \in 1 .. Len(n.srv[s].sockets) : Beside(n.srv[s].sockets[i], r.fd)
          /\ \A fd \in Fd : n.srv[s].sources[fd] # NIL => Beside(n.srv[s].sources[fd].sock, r.fd)

(* What can be kept or closed without harm to servers                      *)
Harmless(n, r) ==
    ~ n.stranger => \A s \in Servers : n.srv[s] # NIL => Beside(r, First(n, s).fd)

(* The constants, and the fields of the net                                *)
LEMMA Nils ==
    /\ -1 \notin Fd /\ NIL \notin Servers /\ NIL \notin Kind /\ NIL \notin AddressState /\ NIL \notin ServerState
    /\ None \in Ref /\ Fd \subseteq Nat
  BY SocketAssumption DEF SocketAssumption, None, Ref

LEMMA NetFields ==
    ASSUME NEW n \in NetState
    PROVE  /\ n = [file |-> n.file, client |-> n.client, srv |-> n.srv, adr |-> n.adr, stranger |-> n.stranger]
           /\ \A fd \in Fd : n.file[fd] \in Kind \union {NIL}
           /\ \A p \in {"udp", "tcp"} : n.client[p] \in Ref
           /\ n.stranger \in BOOLEAN
           /\ \A a \in Addresses : n.adr[a] # NIL =>
                 /\ n.adr[a] \in AddressState /\ n.adr[a].sock \in Ref
           /\ \A s \in Servers : n.srv[s] # NIL =>
                 /\ n.srv[s] \in ServerState /\ n.srv[s].sockets \in Seq(Ref) /\ Len(n.srv[s].sockets) \in Nat
                 /\ \A i \in 1 .. Len(n.srv[s].sockets) : n.srv[s].sockets[i] \in Ref
                 /\ \A fd \in Fd : /\ n.srv[s].sources[fd] \in AddressState \union {NIL}
                                   /\ n.srv[s].sources[fd] # NIL => n.srv[s].sources[fd].sock \in Ref
<1>1. \A x \in AddressState : x.sock \in Ref
  BY DEF AddressState, Ref
<1>2. \A x \in ServerState : x.sockets \in Seq(Ref) /\ x.sources \in [Fd -> AddressState \union {NIL}]
  BY DEF ServerState, Ref
<1>3. /\ n.srv \in [Servers -> ServerState \union {NIL}] /\ n.adr \in [Addresses -> AddressState \union {NIL}]
      /\ n.file \in [Fd -> Kind \union {NIL}] /\ n.client \in [{"udp", "tcp"} -> Ref] /\ n.stranger \in BOOLEAN
      /\ n = [file |-> n.file, client |-> n.client, srv |-> n.srv, adr |-> n.adr, stranger |-> n.stranger]
  BY DEF NetState
<1>4. ASSUME NEW s \in Servers, n.srv[s] # NIL
      PROVE  /\ n.srv[s] \in ServerState /\ n.srv[s].sockets \in Seq(Ref) /\ Len(n.srv[s].sockets) \in Nat
             /\ \A i \in 1 .. Len(n.srv[s].sockets) : n.srv[s].sockets[i] \in Ref
             /\ n.srv[s].sources \in [Fd -> AddressState \union {NIL}]
  <2>1. n.srv[s] \in ServerState
    BY <1>3, <1>4
  <2>2. n.srv[s].sockets \in Seq(Ref) /\ n.srv[s].sources \in [Fd -> AddressState \union {NIL}]
    BY <2>1, <1>2
  <2> QED BY <2>1, <2>2
<1> QED BY <1>1, <1>3, <1>4

(* A new descriptor is one that nobody kept as an open one.                *)
LEMMA LowestFree ==
    ASSUME NEW n \in NetState, FreeFd(n) # {}
    PROVE  /\ Lowest(n) \in Fd /\ n.file[Lowest(n)] = NIL
           /\ NewSock(n) = [fd |-> Lowest(n), mine |-> TRUE]
<1>1. FreeFd(n) \in SUBSET Nat
  BY Nils DEF FreeFd
<1>2. PICK x \in FreeFd(n) : \A y \in FreeFd(n) : x <= y
  BY <1>1, LeastOf
<1>3. Lowest(n) \in FreeFd(n)
  BY <1>2 DEF Lowest
<1> QED BY <1>3 DEF FreeFd, NewSock

LEMMA Opens ==
    ASSUME NEW n, NetGood(n), NEW kind \in Kind, FreeFd(n) # {}
    PROVE  /\ NetGood(Opened(n, kind)) /\ Untaken(Opened(n, kind), NewSock(n))
           /\ Opened(n, kind).srv = n.srv /\ Opened(n, kind).adr = n.adr
           /\ Opened(n, kind).client = n.client /\ Opened(n, kind).stranger = n.stranger
           /\ Opened(n, kind).file = [n.file EXCEPT ![NewSock(n).fd] = kind]
           /\ CleanNet(n) => CleanNet(Opened(n, kind))
           /\ NoneLost(n, {}) => NoneLost(Opened(n, kind), {NewSock(n).fd})
<1> DEFINE v == Opened(n, kind)
           x == Lowest(n)
           r == NewSock(n)
<1>1. x \in Fd /\ n.file[x] = NIL /\ r = [fd |-> x, mine |-> TRUE]
  BY LowestFree DEF NetGood
<1>2. n \in NetState
  BY DEF NetGood
<1>3. v = [n EXCEPT !.file[x] = kind]
  BY DEF Opened
<1>4. /\ v.srv = n.srv /\ v.adr = n.adr /\ v.client = n.client /\ v.stranger = n.stranger
      /\ v.file = [n.file EXCEPT ![x] = kind] /\ v \in NetState
  BY <1>1, <1>2, <1>3 DEF NetState
<1>5. kind # NIL /\ x # -1 /\ v.file[x] = kind /\ \A fd \in Fd : fd # x => v.file[fd] = n.file[fd]
  BY <1>1, <1>2, <1>4, Nils DEF NetState
<1> HIDE DEF v, x, r
<1>6. \A q \in Ref : OpenRef(n, q) => OpenRef(v, q) /\ Beside(q, x)
  BY <1>1, <1>5 DEF OpenRef, Beside, Ref
<1>7. NetOpen(v) /\ Untaken(v, r)
  BY <1>1, <1>2, <1>4, <1>5, <1>6, NetFields DEF NetOpen, NetGood, Untaken, Ref
<1>8. FirstsKept(v) /\ ClientKept(v)
  BY <1>4 DEF FirstsKept, FirstKept, ClientKept, First, NetGood
<1>9. CleanNet(n) => CleanNet(v)
  <2>1. \A q \in Ref : Held(n, q) => Held(v, q)
    BY <1>1, <1>5, Nils DEF Held, Ref
  <2> QED BY <2>1, <1>2, <1>4, NetFields DEF CleanNet
<1>10. NoneLost(n, {}) => NoneLost(v, {x})
  BY <1>4, <1>5 DEF NoneLost, KeptIn
<1>11. r.fd = x
  BY <1>1
<1> QED BY <1>4, <1>7, <1>8, <1>9, <1>10, <1>11 DEF NetGood, v, x, r

-----------------------------------------------------------------------------
(* What is written                                                         *)

(* A new server, with its first socket                                     *)
ServerPut(n, s, proto, r) ==
    [n EXCEPT !.srv[s] = [proto |-> proto, sockets |-> <<r>>, sources |-> [fd \in Fd |-> NIL]]]

LEMMA Serves ==
    ASSUME NEW n, NetGood(n), NEW r, Untaken(n, r), NEW s \in Servers, n.srv[s] = NIL,
           NEW proto \in {"udp", "tcp", "unix"}, NEW w,
           w = ServerPut(n, s, proto, r)
    PROVE  /\ NetGood(w)
           /\ CleanNet(n) /\ n.file[r.fd] # "other" => CleanNet(w)
           /\ NoneLost(n, {r.fd}) => NoneLost(w, {})
<1> DEFINE x == [proto |-> proto, sockets |-> <<r>>, sources |-> [fd \in Fd |-> NIL]]
<1>1. n \in NetState /\ r \in Ref
  BY DEF NetGood, Untaken
<1>2. x \in ServerState
  BY <1>1 DEF ServerState, Ref
<1>3. x # NIL
  BY <1>2, Nils
<1>4. /\ w.file = n.file /\ w.adr = n.adr /\ w.client = n.client /\ w.stranger = n.stranger
      /\ w.srv[s] = x /\ \A t \in Servers : t # s => w.srv[t] = n.srv[t]
      /\ w \in NetState
  BY <1>1, <1>2 DEF NetState, ServerPut
<1>5. /\ x.proto = proto /\ x.sockets = <<r>> /\ Len(x.sockets) = 1 /\ x.sockets[1] = r
      /\ \A fd \in Fd : x.sources[fd] = NIL
  OBVIOUS
<1> HIDE DEF x
<1>6. NetOpen(w)
  <2>1. OpenRef(w, r) /\ \A q : OpenRef(n, q) => OpenRef(w, q)
    BY <1>4 DEF OpenRef, Untaken
  <2> QED BY <1>4, <1>5, <2>1 DEF NetOpen, NetGood
<1>7. FirstsKept(w)
  <2> SUFFICES ASSUME ~ w.stranger, NEW t \in Servers, w.srv[t] # NIL PROVE FirstKept(w, t)
    BY DEF FirstsKept
  <2>1. CASE t = s
    BY <2>1, <1>4, <1>5 DEF FirstKept, First, Untaken
  <2>2. CASE t # s
    <3>1. FirstKept(n, t) /\ n.srv[t] # NIL
      BY <2>2, <1>4 DEF FirstsKept, NetGood
    <3>2. First(n, t) = First(w, t) /\ Beside(r, First(n, t).fd)
      BY <2>2, <3>1, <1>4 DEF First, Untaken, FirstKept, Beside
    <3> QED BY <3>1, <3>2, <2>2, <1>4, <1>5 DEF FirstKept
  <2> QED BY <2>1, <2>2
<1>8. ClientKept(w)
  BY <1>4 DEF ClientKept, NetGood, First
<1>9. CleanNet(n) /\ n.file[r.fd] # "other" => CleanNet(w)
  <2> SUFFICES ASSUME CleanNet(n), n.file[r.fd] # "other" PROVE CleanNet(w)
    OBVIOUS
  <2>1. Held(w, r) /\ \A q : Held(n, q) => Held(w, q)
    BY <1>4 DEF Held, Untaken
  <2>2. \A q \in Ref : Held(n, q) /\ Beside(q, r.fd) => Differ(q, r) /\ Differ(r, q)
    BY <1>1 DEF Held, Beside, Differ, Ref, None
  <2>3. \A a \in Addresses : w.adr[a] # NIL =>
           /\ w.adr[a].own /\ Held(w, w.adr[a].sock)
           /\ Differ(r, w.adr[a].sock) /\ Differ(w.adr[a].sock, r)
           /\ \A b \in Addresses : b # a /\ w.adr[b] # NIL => Differ(w.adr[a].sock, w.adr[b].sock)
    BY <2>1, <2>2, <1>1, <1>4, NetFields DEF CleanNet, Untaken
  <2>4. \A t \in Servers : t # s /\ w.srv[t] # NIL =>
           \A i \in 1 .. Len(w.srv[t].sockets) : LET q == w.srv[t].sockets[i] IN
              Held(w, q) /\ Differ(r, q) /\ Differ(q, r)
    BY <2>1, <2>2, <1>1, <1>4, NetFields DEF CleanNet, Untaken
  <2>5. ASSUME NEW t \in Servers, w.srv[t] # NIL
        PROVE  /\ \A i \in 1 .. Len(w.srv[t].sockets) : LET q == w.srv[t].sockets[i] IN
                  /\ Held(w, q)
                  /\ \A a \in Addresses : w.adr[a] # NIL => Differ(q, w.adr[a].sock)
                  /\ \A u \in Servers : w.srv[u] # NIL =>
                        \A j \in 1 .. Len(w.srv[u].sockets) : t # u \/ i # j => Differ(q, w.srv[u].sockets[j])
               /\ \A fd \in Fd : w.srv[t].sources[fd] # NIL =>
                  /\ w.srv[t].sources[fd].sock = [fd |-> fd, mine |-> TRUE] /\ w.srv[t].sources[fd].proto = "tcp"
                  /\ \E i \in 1 .. Len(w.srv[t].sockets) : w.srv[t].sockets[i].fd = fd
    <3>1. CASE t = s
      BY <3>1, <2>1, <2>3, <2>4, <1>4, <1>5
    <3>2. CASE t # s
      <4>1. w.srv[t] = n.srv[t] /\ n.srv[t] # NIL
        BY <3>2, <2>5, <1>4
      <4>2. ASSUME NEW i \in 1 .. Len(n.srv[t].sockets), NEW u \in Servers, w.srv[u] # NIL,
                   NEW j \in 1 .. Len(w.srv[u].sockets), t # u \/ i # j
            PROVE  Differ(n.srv[t].sockets[i], w.srv[u].sockets[j])
        <5>1. CASE u = s
          BY <5>1, <3>2, <4>1, <4>2, <2>4, <1>4, <1>5
        <5>2. CASE u # s
          <6>1. w.srv[u] = n.srv[u] /\ n.srv[u] # NIL /\ j \in 1 .. Len(n.srv[u].sockets)
            BY <5>2, <4>2, <1>4
          <6>2. Differ(n.srv[t].sockets[i], n.srv[u].sockets[j])
            BY <6>1, <4>1, <4>2 DEF CleanNet
          <6> QED BY <6>1, <6>2
        <5> QED BY <5>1, <5>2
      <4>3. \A i \in 1 .. Len(n.srv[t].sockets) :
               \A a \in Addresses : w.adr[a] # NIL => Differ(n.srv[t].sockets[i], w.adr[a].sock)
        BY <4>1, <1>4 DEF CleanNet
      <4>4. \A fd \in Fd : n.srv[t].sources[fd] # NIL =>
                  /\ n.srv[t].sources[fd].sock = [fd |-> fd, mine |-> TRUE] /\ n.srv[t].sources[fd].proto = "tcp"
                  /\ \E i \in 1 .. Len(n.srv[t].sockets) : n.srv[t].sockets[i].fd = fd
        BY <4>1 DEF CleanNet
      <4> QED BY <3>2, <4>1, <4>2, <4>3, <4>4, <2>4
    <3> QED BY <3>1, <3>2
  <2>6. ~ w.stranger
    BY <1>4 DEF CleanNet
  <2> QED BY <2>3, <2>5, <2>6 DEF CleanNet
<1>10. NoneLost(n, {r.fd}) => NoneLost(w, {})
  <2>1. \A fd : KeptIn(n, fd) => KeptIn(w, fd)
    BY <1>4 DEF KeptIn
  <2>2. KeptIn(w, r.fd)
    BY <1>3, <1>4, <1>5 DEF KeptIn
  <2> QED BY <2>1, <2>2, <1>4 DEF NoneLost
<1> QED BY <1>4, <1>6, <1>7, <1>8, <1>9, <1>10 DEF NetGood

(* lo_server_new makes the new server's socket the one to send from.       *)
LEMMA SendsFrom ==
    ASSUME NEW n, NetGood(n), NEW s \in Servers, n.srv[s] # NIL, NEW proto \in {"udp", "tcp"}, NEW r \in Ref,
           n.srv[s].proto = proto, First(n, s) = r, NEW w, w = [n EXCEPT !.client[proto] = r]
    PROVE  /\ NetGood(w) /\ w.srv = n.srv /\ w.adr = n.adr /\ w.file = n.file
           /\ CleanNet(n) => CleanNet(w)
           /\ NoneLost(n, {}) => NoneLost(w, {})
<1>1. /\ w \in NetState /\ w.srv = n.srv /\ w.adr = n.adr /\ w.file = n.file /\ w.stranger = n.stranger
      /\ w.client[proto] = r /\ \A p \in {"udp", "tcp"} : p # proto => w.client[p] = n.client[p]
  BY DEF NetGood, NetState
<1>2. NetOpen(w) /\ FirstsKept(w)
  BY <1>1 DEF NetGood, NetOpen, OpenRef, FirstsKept, FirstKept, First
<1>3. ClientKept(w)
  BY <1>1 DEF NetGood, ClientKept, First
<1>4. CleanNet(n) => CleanNet(w)
  BY <1>1 DEF CleanNet, Held
<1>5. NoneLost(n, {}) => NoneLost(w, {})
  BY <1>1 DEF NoneLost, KeptIn
<1> QED BY <1>1, <1>2, <1>3, <1>4, <1>5 DEF NetGood

(* lo_server_add_socket                                                    *)
Added(n, s, r, w) ==
    /\ NetGood(w)
    /\ w.file = n.file /\ w.adr = n.adr
    /\ w.stranger = n.stranger
    /\ \A t \in Servers : (w.srv[t] = NIL) <=> (n.srv[t] = NIL)
    /\ \A fd \in Fd : n.srv[s].sources[fd] # NIL => w.srv[s].sources[fd] # NIL
    /\ \A t \in Servers : t # s => w.srv[t] = n.srv[t]
    /\ CleanNet(n) /\ (r = None \/ (Untaken(n, r) /\ n.file[r.fd] # "other")) => CleanNet(w)
    /\ NoneLost(n, {r.fd}) => NoneLost(w, {})

LEMMA Adds ==
    ASSUME NEW n, NetGood(n), NEW r \in Ref, OpenRef(n, r), Harmless(n, r), NEW s \in Servers, n.srv[s] # NIL
    PROVE  Added(n, s, r, AddSocket(n, s, r))
<1> DEFINE w == AddSocket(n, s, r)
           L == n.srv[s].sockets
           X == n.srv[s].sources
           x == w.srv[s]
<1>1. n \in NetState /\ L \in Seq(Ref) /\ Len(L) \in Nat /\ n.srv[s] \in ServerState
      /\ X \in [Fd -> AddressState \union {NIL}]
  <2>1. n \in NetState
    BY DEF NetGood
  <2>2. n.srv[s] \in ServerState
    BY <2>1, NetFields
  <2> QED BY <2>1, <2>2, NetFields DEF ServerState
<1>2. Source(r) \in AddressState /\ Source(r) # NIL /\ Source(r).sock = r /\ Source(r).proto = "tcp"
  <2>1. Source(r) \in AddressState
    BY DEF Source, AddressState, Ref
  <2> QED BY <2>1, Nils DEF Source
<1> DEFINE y == [n.srv[s] EXCEPT !.sockets = Append(L, r), !.sources = [fd \in Fd |-> IF fd = r.fd THEN Source(r) ELSE X[fd]]]
<1>3. /\ y \in ServerState /\ y.sockets = Append(L, r) /\ y.proto = n.srv[s].proto
      /\ \A fd \in Fd : y.sources[fd] = IF fd = r.fd THEN Source(r) ELSE X[fd]
  <2>1. Append(L, r) \in Seq([fd : Fd \union {-1}, mine : BOOLEAN])
    BY <1>1 DEF Ref
  <2>2. [fd \in Fd |-> IF fd = r.fd THEN Source(r) ELSE X[fd]] \in [Fd -> AddressState \union {NIL}]
    BY <1>1, <1>2
  <2> HIDE DEF L, X
  <2> QED BY <1>1, <2>1, <2>2 DEF ServerState
<1>4. w = [n EXCEPT !.srv = [n.srv EXCEPT ![s] = y]]
  <2>1. n.srv \in [Servers -> ServerState \union {NIL}] /\ n = [file |-> n.file, client |-> n.client, srv |-> n.srv, adr |-> n.adr, stranger |-> n.stranger]
    BY <1>1 DEF NetState
  <2> QED BY <2>1 DEF AddSocket
<1>5. y # NIL
  BY <1>3, Nils
<1> HIDE DEF y, w, L, X
<1>6. /\ w.file = n.file /\ w.adr = n.adr /\ w.client = n.client /\ w.stranger = n.stranger
      /\ w.srv[s] = y /\ \A t \in Servers : t # s => w.srv[t] = n.srv[t]
      /\ w \in NetState
  BY <1>1, <1>3, <1>4 DEF NetState
<1>7. /\ Len(y.sockets) = Len(L) + 1 /\ y.sockets[Len(L) + 1] = r
      /\ \A i \in 1 .. Len(L) : y.sockets[i] = L[i]
      /\ \A i \in 1 .. Len(y.sockets) : i \in 1 .. Len(L) \/ i = Len(L) + 1
  BY <1>1, <1>3
<1>15. \A j \in 1 .. Len(y.sockets) : (j = Len(L) + 1 /\ y.sockets[j] = r) \/ (j \in 1 .. Len(L) /\ y.sockets[j] = L[j])
  <2> SUFFICES ASSUME NEW j \in 1 .. Len(y.sockets)
      PROVE  (j = Len(L) + 1 /\ y.sockets[j] = r) \/ (j \in 1 .. Len(L) /\ y.sockets[j] = L[j])
    OBVIOUS
  <2>1. j \in 1 .. Len(L) \/ j = Len(L) + 1
    BY <1>7
  <2> QED BY <2>1, <1>7
<1>16. \A t \in Servers : w.srv[t] # NIL => n.srv[t] # NIL /\ \A j \in 1 .. Len(w.srv[t].sockets) :
           \/ t = s /\ j = Len(L) + 1 /\ w.srv[t].sockets[j] = r
           \/ j \in 1 .. Len(n.srv[t].sockets) /\ w.srv[t].sockets[j] = n.srv[t].sockets[j]
  <2> SUFFICES ASSUME NEW t \in Servers, w.srv[t] # NIL, NEW j \in 1 .. Len(w.srv[t].sockets)
      PROVE  \/ t = s /\ j = Len(L) + 1 /\ w.srv[t].sockets[j] = r
             \/ j \in 1 .. Len(n.srv[t].sockets) /\ w.srv[t].sockets[j] = n.srv[t].sockets[j]
    BY <1>6
  <2>1. CASE t = s
    <3>1. w.srv[t] = y /\ n.srv[t].sockets = L
      BY <2>1, <1>6 DEF L
    <3> QED BY <2>1, <3>1, <1>15
  <2>2. CASE t # s
    BY <2>2, <1>6
  <2> QED BY <2>1, <2>2
<1>8. NetOpen(w)
  <2>1. OpenRef(w, r) /\ \A q : OpenRef(n, q) => OpenRef(w, q)
    BY <1>6 DEF OpenRef
  <2>2. \A a \in Addresses : w.adr[a] # NIL => OpenRef(w, w.adr[a].sock)
    BY <2>1, <1>6 DEF NetOpen, NetGood
  <2>3. \A i \in 1 .. Len(y.sockets) : OpenRef(w, y.sockets[i])
    <3>1. \A i \in 1 .. Len(L) : OpenRef(w, L[i])
      BY <2>1 DEF NetOpen, NetGood, L
    <3> QED BY <3>1, <2>1, <1>7
  <2>4. \A fd \in Fd : y.sources[fd] # NIL => OpenRef(w, y.sources[fd].sock)
    <3>1. \A fd \in Fd : X[fd] # NIL => OpenRef(w, X[fd].sock)
      BY <2>1 DEF NetOpen, NetGood, X
    <3> QED BY <3>1, <2>1, <1>2, <1>3
  <2> QED BY <1>6, <2>1, <2>2, <2>3, <2>4 DEF NetOpen, NetGood
<1>9. FirstsKept(w)
  <2> SUFFICES ASSUME ~ w.stranger, NEW t \in Servers, w.srv[t] # NIL PROVE FirstKept(w, t)
    BY DEF FirstsKept
  <2>1. FirstKept(n, t) /\ n.srv[t] # NIL
    BY <1>6 DEF FirstsKept, NetGood
  <2>2. First(n, t) = First(w, t) /\ Beside(r, First(n, t).fd) /\ Len(w.srv[t].sockets) >= 1
    <3>1. Len(n.srv[t].sockets) >= 1 /\ Beside(r, First(n, t).fd)
      BY <2>1, <1>6 DEF FirstKept, Harmless
    <3>2. CASE t = s
      <4>1. 1 \in 1 .. Len(L) /\ Len(y.sockets) >= 1
        BY <3>1, <3>2, <1>1, <1>7 DEF L
      <4>2. y.sockets[1] = n.srv[t].sockets[1]
        BY <4>1, <3>2, <1>7 DEF L
      <4> QED BY <4>1, <4>2, <3>1, <3>2, <1>6 DEF First
    <3> QED BY <3>1, <3>2, <1>6 DEF First
  <2>3. \A a \in Addresses : w.adr[a] # NIL => Beside(w.adr[a].sock, First(w, t).fd)
    BY <2>1, <2>2, <1>6 DEF FirstKept
  <2>4. ASSUME NEW u \in Servers, w.srv[u] # NIL
        PROVE  /\ \A i \in 1 .. Len(w.srv[u].sockets) : u # t \/ i # 1 => Beside(w.srv[u].sockets[i], First(w, t).fd)
               /\ \A fd \in Fd : w.srv[u].sources[fd] # NIL => Beside(w.srv[u].sources[fd].sock, First(w, t).fd)
    <3>1. CASE u = s
      <4>1. /\ \A i \in 1 .. Len(L) : u # t \/ i # 1 => Beside(L[i], First(w, t).fd)
            /\ \A fd \in Fd : X[fd] # NIL => Beside(X[fd].sock, First(w, t).fd)
        BY <3>1, <2>1, <2>2 DEF FirstKept, L, X
      <4> QED BY <3>1, <4>1, <2>2, <1>2, <1>3, <1>6, <1>7
    <3>2. CASE u # s
      BY <3>2, <2>4, <2>1, <2>2, <1>6 DEF FirstKept
    <3> QED BY <3>1, <3>2
  <2> QED BY <2>1, <2>2, <2>3, <2>4 DEF FirstKept
<1>10. ClientKept(w)
  <2> SUFFICES ASSUME ~ w.stranger, w.client["udp"] # None
      PROVE \E t \in Servers : w.srv[t] # NIL /\ w.srv[t].proto = "udp" /\ First(w, t) = w.client["udp"]
    BY DEF ClientKept
  <2>1. PICK t \in Servers : n.srv[t] # NIL /\ n.srv[t].proto = "udp" /\ First(n, t) = n.client["udp"]
    BY <1>6 DEF NetGood, ClientKept
  <2>2. Len(n.srv[t].sockets) >= 1
    BY <2>1, <1>6 DEF NetGood, FirstsKept, FirstKept
  <2>3. First(n, t) = First(w, t)
    BY <2>1, <2>2, <1>1, <1>6, <1>7 DEF First, L
  <2> QED BY <2>1, <2>3, <1>3, <1>5, <1>6
<1>11. CleanNet(n) /\ (r = None \/ (Untaken(n, r) /\ n.file[r.fd] # "other")) => CleanNet(w)
  <2> SUFFICES ASSUME CleanNet(n), r = None \/ (Untaken(n, r) /\ n.file[r.fd] # "other") PROVE CleanNet(w)
    OBVIOUS
  <2>1. Held(w, r) /\ \A q : Held(n, q) => Held(w, q)
    BY <1>6 DEF Held, Untaken
  <2>2. \A q \in Ref : (Held(n, q) /\ Beside(q, r.fd)) \/ r = None => Differ(q, r) /\ Differ(r, q)
    BY <1>1 DEF Held, Beside, Differ, Ref, None
  <2>3. \A a \in Addresses : w.adr[a] # NIL =>
           /\ w.adr[a].own /\ Held(w, w.adr[a].sock) /\ Differ(r, w.adr[a].sock)
           /\ \A b \in Addresses : b # a /\ w.adr[b] # NIL => Differ(w.adr[a].sock, w.adr[b].sock)
    BY <2>1, <2>2, <1>1, <1>6, NetFields DEF CleanNet, Untaken
  <2>4. \A t \in Servers : n.srv[t] # NIL =>
           \A i \in 1 .. Len(n.srv[t].sockets) : LET q == n.srv[t].sockets[i] IN
              Held(w, q) /\ Differ(r, q) /\ Differ(q, r)
    BY <2>1, <2>2, <1>1, <1>6, NetFields DEF CleanNet, Untaken
  <2>5. ASSUME NEW t \in Servers, w.srv[t] # NIL
        PROVE  \A i \in 1 .. Len(w.srv[t].sockets) : LET q == w.srv[t].sockets[i] IN
                  /\ Held(w, q)
                  /\ \A a \in Addresses : w.adr[a] # NIL => Differ(q, w.adr[a].sock)
                  /\ \A u \in Servers : w.srv[u] # NIL =>
                        \A j \in 1 .. Len(w.srv[u].sockets) : t # u \/ i # j => Differ(q, w.srv[u].sockets[j])
    <3> SUFFICES ASSUME NEW i \in 1 .. Len(w.srv[t].sockets)
        PROVE  /\ Held(w, w.srv[t].sockets[i])
               /\ \A a \in Addresses : w.adr[a] # NIL => Differ(w.srv[t].sockets[i], w.adr[a].sock)
               /\ \A u \in Servers : w.srv[u] # NIL =>
                     \A j \in 1 .. Len(w.srv[u].sockets) : t # u \/ i # j => Differ(w.srv[t].sockets[i], w.srv[u].sockets[j])
      OBVIOUS
    <3>1. n.srv[t] # NIL /\ ((t = s /\ i = Len(L) + 1) \/ (i \in 1 .. Len(n.srv[t].sockets) /\ w.srv[t].sockets[i] = n.srv[t].sockets[i]))
      <4>1. n.srv[t] # NIL
        BY <2>5, <1>16
      <4>2. \/ t = s /\ i = Len(L) + 1 /\ w.srv[t].sockets[i] = r
            \/ i \in 1 .. Len(n.srv[t].sockets) /\ w.srv[t].sockets[i] = n.srv[t].sockets[i]
        BY <2>5, <1>16
      <4> QED BY <4>1, <4>2
    <3>2. \A u \in Servers : w.srv[u] # NIL => \A j \in 1 .. Len(w.srv[u].sockets) :
             (u = s /\ j = Len(L) + 1 /\ w.srv[u].sockets[j] = r) \/ (n.srv[u] # NIL /\ j \in 1 .. Len(n.srv[u].sockets) /\ w.srv[u].sockets[j] = n.srv[u].sockets[j])
      <4> SUFFICES ASSUME NEW u \in Servers, w.srv[u] # NIL, NEW j \in 1 .. Len(w.srv[u].sockets)
          PROVE  (u = s /\ j = Len(L) + 1 /\ w.srv[u].sockets[j] = r) \/ (n.srv[u] # NIL /\ j \in 1 .. Len(n.srv[u].sockets) /\ w.srv[u].sockets[j] = n.srv[u].sockets[j])
        OBVIOUS
      <4> QED BY <1>16
    <3>3. CASE t = s /\ i = Len(L) + 1
      BY <3>2, <3>3, <2>1, <2>3, <2>4, <1>6, <1>7
    <3>4. CASE i \in 1 .. Len(n.srv[t].sockets) /\ w.srv[t].sockets[i] = n.srv[t].sockets[i]
      <4>1. \A a \in Addresses : w.adr[a] # NIL => Differ(w.srv[t].sockets[i], w.adr[a].sock)
        BY <3>1, <3>4, <1>6 DEF CleanNet
      <4>2. \A u \in Servers : n.srv[u] # NIL => \A j \in 1 .. Len(n.srv[u].sockets) : t # u \/ i # j =>
                Differ(n.srv[t].sockets[i], n.srv[u].sockets[j])
        BY <3>1, <3>4 DEF CleanNet
      <4> QED BY <4>1, <4>2, <3>1, <3>2, <3>4, <2>4, <1>7
    <3> QED BY <3>1, <3>3, <3>4
  <2>6. ASSUME NEW t \in Servers, w.srv[t] # NIL, NEW fd \in Fd, w.srv[t].sources[fd] # NIL
        PROVE  /\ w.srv[t].sources[fd].sock = [fd |-> fd, mine |-> TRUE] /\ w.srv[t].sources[fd].proto = "tcp"
               /\ \E i \in 1 .. Len(w.srv[t].sockets) : w.srv[t].sockets[i].fd = fd
    <3>1. CASE t = s /\ fd = r.fd
      <4>1. r = [fd |-> fd, mine |-> TRUE]
        BY <3>1, Nils DEF Untaken, Ref, None
      <4>2. Len(L) + 1 \in 1 .. Len(y.sockets)
        BY <1>1, <1>7
      <4> QED BY <4>1, <4>2, <3>1, <1>2, <1>3, <1>6, <1>7
    <3>2. CASE ~ (t = s /\ fd = r.fd)
      <4>1. n.srv[t] # NIL /\ n.srv[t].sources[fd] = w.srv[t].sources[fd]
        BY <3>2, <2>6, <1>3, <1>6 DEF X
      <4>2. PICK i \in 1 .. Len(n.srv[t].sockets) : n.srv[t].sockets[i].fd = fd
        BY <4>1, <2>6 DEF CleanNet
      <4>3. i \in 1 .. Len(w.srv[t].sockets) /\ w.srv[t].sockets[i].fd = fd
        <5>1. CASE t = s
          BY <5>1, <4>2, <1>1, <1>6, <1>7 DEF L
        <5>2. CASE t # s
          BY <5>2, <4>2, <1>6
        <5> QED BY <5>1, <5>2
      <4> QED BY <4>1, <4>3, <2>6 DEF CleanNet
    <3> QED BY <3>1, <3>2
  <2> QED BY <2>3, <2>5, <2>6, <1>6 DEF CleanNet
<1>12. NoneLost(n, {r.fd}) => NoneLost(w, {})
  <2>1. \A fd : KeptIn(n, fd) => KeptIn(w, fd)
    <3>1. \A t \in Servers : n.srv[t] # NIL => w.srv[t] # NIL /\ \A i \in 1 .. Len(n.srv[t].sockets) :
              i \in 1 .. Len(w.srv[t].sockets) /\ w.srv[t].sockets[i] = n.srv[t].sockets[i]
      BY <1>1, <1>5, <1>6, <1>7 DEF L
    <3> QED BY <3>1, <1>6 DEF KeptIn
  <2>2. KeptIn(w, r.fd)
    <3>1. Len(L) + 1 \in 1 .. Len(y.sockets)
      BY <1>1, <1>7
    <3> QED BY <3>1, <1>5, <1>6, <1>7 DEF KeptIn
  <2> QED BY <2>1, <2>2, <1>6 DEF NoneLost
<1>13. \A t \in Servers : (w.srv[t] = NIL) <=> (n.srv[t] = NIL)
  BY <1>5, <1>6
<1>14. \A fd \in Fd : n.srv[s].sources[fd] # NIL => w.srv[s].sources[fd] # NIL
  BY <1>2, <1>3, <1>6 DEF X
<1> QED BY <1>6, <1>8, <1>9, <1>10, <1>11, <1>12, <1>13, <1>14 DEF NetGood, w, Added

(* What an address, or the source of a message, is set to                  *)
AddressPut(n, a, x) == [n EXCEPT !.adr[a] = x]
SourcePut(n, s, fd, r) == [n EXCEPT !.srv[s].sources[fd].sock = r]

LEMMA AddressSet ==
    ASSUME NEW n, NetGood(n), NEW a \in Addresses, NEW x \in AddressState \union {NIL},
           x # NIL => OpenRef(n, x.sock) /\ Harmless(n, x.sock), NEW w, w = AddressPut(n, a, x)
    PROVE  NetGood(w)
<1>1. n \in NetState
  BY DEF NetGood
<1>2. /\ w.srv = n.srv /\ w.file = n.file /\ w.client = n.client /\ w.stranger = n.stranger
      /\ w.adr = [n.adr EXCEPT ![a] = x] /\ w.adr[a] = x /\ \A b \in Addresses : b # a => w.adr[b] = n.adr[b]
      /\ w \in NetState
  BY <1>1 DEF NetState, AddressPut
<1>3. NetOpen(w)
  BY <1>2 DEF NetOpen, NetGood, OpenRef
<1>4. FirstsKept(w)
  <2> SUFFICES ASSUME ~ w.stranger, NEW t \in Servers, w.srv[t] # NIL PROVE FirstKept(w, t)
    BY DEF FirstsKept
  <2>1. FirstKept(n, t) /\ First(w, t) = First(n, t)
    BY <1>2 DEF FirstsKept, NetGood, First
  <2>2. x # NIL => Beside(x.sock, First(w, t).fd)
    BY <2>1, <1>2 DEF Harmless
  <2> QED BY <2>1, <2>2, <1>2 DEF FirstKept
<1>5. ClientKept(w)
  BY <1>2 DEF ClientKept, NetGood, First
<1> QED BY <1>2, <1>3, <1>4, <1>5 DEF NetGood

(* The net without what an address holds                                   *)
Less(n, a) == AddressPut(n, a, NIL)

LEMMA AddressClean ==
    ASSUME NEW n \in NetState, NEW a \in Addresses, NEW x \in AddressState, NEW w, w = AddressPut(n, a, x)
    PROVE  /\ CleanNet(Less(n, a)) /\ x.own /\ (x.sock = None \/ (Untaken(Less(n, a), x.sock) /\ n.file[x.sock.fd] # "other"))
              => CleanNet(w)
           /\ NoneLost(Less(n, a), {x.sock.fd}) => NoneLost(w, {})
           /\ CleanNet(n) => CleanNet(Less(n, a))
           /\ \A S : NoneLost(n, S) /\ (n.adr[a] = NIL \/ n.adr[a].sock.fd = -1) => NoneLost(Less(n, a), S)
           /\ NoneLost(n, {}) /\ n.adr[a] # NIL => NoneLost(Less(n, a), {n.adr[a].sock.fd})
<1> DEFINE u == Less(n, a)
<1>1. /\ u.srv = n.srv /\ u.file = n.file /\ u.client = n.client /\ u.stranger = n.stranger
      /\ u.adr[a] = NIL /\ \A b \in Addresses : b # a => u.adr[b] = n.adr[b]
      /\ u \in NetState
  BY DEF NetState, Less, AddressPut
<1>2. /\ w.srv = n.srv /\ w.file = n.file /\ w.client = n.client /\ w.stranger = n.stranger
      /\ w.adr[a] = x /\ \A b \in Addresses : b # a => w.adr[b] = n.adr[b]
      /\ w \in NetState
  BY DEF NetState, AddressPut
<1>3. x # NIL /\ x.sock \in Ref
  BY Nils DEF AddressState, Ref
<1> HIDE DEF u
<1>4. ASSUME CleanNet(u), x.own, x.sock = None \/ (Untaken(u, x.sock) /\ n.file[x.sock.fd] # "other")
      PROVE  CleanNet(w)
  <2> DEFINE r == x.sock
  <2>1. Held(w, r) /\ \A q : Held(u, q) => Held(w, q)
    BY <1>1, <1>2, <1>4 DEF Held, Untaken
  <2>2. \A q \in Ref : (Held(u, q) /\ Beside(q, r.fd)) \/ r = None => Differ(q, r) /\ Differ(r, q)
    BY <1>3 DEF Held, Beside, Differ, Ref, None
  <2>3. \A b \in Addresses : b # a /\ w.adr[b] # NIL =>
           /\ w.adr[b].own /\ Held(w, w.adr[b].sock) /\ Differ(r, w.adr[b].sock) /\ Differ(w.adr[b].sock, r)
           /\ \A c \in Addresses : c # b /\ w.adr[c] # NIL => Differ(w.adr[b].sock, w.adr[c].sock)
    BY <2>1, <2>2, <1>1, <1>2, <1>4, NetFields DEF CleanNet, Untaken
  <2>4. \A t \in Servers : w.srv[t] # NIL =>
           \A i \in 1 .. Len(w.srv[t].sockets) : LET q == w.srv[t].sockets[i] IN
              Held(w, q) /\ Differ(r, q) /\ Differ(q, r)
    BY <2>1, <2>2, <1>1, <1>2, <1>4, NetFields DEF CleanNet, Untaken
  <2> QED BY <2>1, <2>3, <2>4, <1>1, <1>2, <1>4 DEF CleanNet
<1>5. NoneLost(u, {x.sock.fd}) => NoneLost(w, {})
  <2>1. \A fd : KeptIn(u, fd) => KeptIn(w, fd)
    BY <1>1, <1>2 DEF KeptIn
  <2>2. KeptIn(w, x.sock.fd)
    BY <1>2, <1>3 DEF KeptIn
  <2> QED BY <2>1, <2>2, <1>1, <1>2 DEF NoneLost
<1>6. CleanNet(n) => CleanNet(u)
  <2>1. \A q : Held(n, q) => Held(u, q)
    BY <1>1 DEF Held
  <2> QED BY <2>1, <1>1 DEF CleanNet
<1>7. ASSUME NEW S, NoneLost(n, S), n.adr[a] = NIL \/ n.adr[a].sock.fd = -1 PROVE NoneLost(u, S)
  <2>1. ASSUME NEW fd \in Fd, KeptIn(n, fd) PROVE KeptIn(u, fd)
    BY <2>1, <1>1, <1>7, Nils DEF KeptIn
  <2> QED BY <2>1, <1>1, <1>7 DEF NoneLost
<1>8. NoneLost(n, {}) /\ n.adr[a] # NIL => NoneLost(u, {n.adr[a].sock.fd})
  <2>1. ASSUME NEW fd \in Fd, n.adr[a] # NIL, fd # n.adr[a].sock.fd, KeptIn(n, fd) PROVE KeptIn(u, fd)
    BY <2>1, <1>1 DEF KeptIn
  <2> QED BY <2>1, <1>1 DEF NoneLost
<1> QED BY <1>4, <1>5, <1>6, <1>7, <1>8 DEF u

LEMMA SourceSet ==
    ASSUME NEW n, NetGood(n), NEW s \in Servers, n.srv[s] # NIL, NEW fd \in Fd, n.srv[s].sources[fd] # NIL,
           NEW r \in Ref, OpenRef(n, r), Harmless(n, r), NEW w, w = SourcePut(n, s, fd, r)
    PROVE  /\ NetGood(w) /\ w.adr = n.adr /\ w.file = n.file /\ w.stranger = n.stranger
           /\ \A t \in Servers : (w.srv[t] = NIL) <=> (n.srv[t] = NIL)
           /\ w.srv[s].sources[fd] # NIL /\ w.srv[s].sources[fd].sock = r
           /\ w.srv[s].sources[fd].proto = n.srv[s].sources[fd].proto
           /\ \A t \in Servers : \A f \in Fd : (w.srv[t].sources[f] = NIL) <=> (n.srv[t].sources[f] = NIL)
<1> DEFINE X == n.srv[s].sources
           z == [X[fd] EXCEPT !.sock = r]
           Z == [X EXCEPT ![fd] = z]
           y == [n.srv[s] EXCEPT !.sources = Z]
<1>1. n \in NetState /\ n.srv[s] \in ServerState /\ X \in [Fd -> AddressState \union {NIL}] /\ X[fd] \in AddressState
  <2>1. n \in NetState
    BY DEF NetGood
  <2>2. n.srv[s] \in ServerState
    BY <2>1, NetFields
  <2> QED BY <2>1, <2>2, NetFields DEF ServerState
<1>2. z \in AddressState /\ z.sock = r /\ z.proto = X[fd].proto
  BY <1>1 DEF AddressState, Ref
<1> HIDE DEF z
<1>3. z # NIL /\ Z \in [Fd -> AddressState \union {NIL}] /\ Z[fd] = z /\ \A f \in Fd : f # fd => Z[f] = X[f]
  BY <1>1, <1>2, Nils
<1> HIDE DEF Z, X
<1>4. y \in ServerState /\ y.sources = Z /\ y.sockets = n.srv[s].sockets /\ y.proto = n.srv[s].proto
  BY <1>1, <1>3 DEF ServerState
<1>5. y # NIL
  BY <1>4, Nils
<1>6. w = [n EXCEPT !.srv = [n.srv EXCEPT ![s] = y]]
  <2>1. n.srv \in [Servers -> ServerState \union {NIL}] /\ n = [file |-> n.file, client |-> n.client, srv |-> n.srv, adr |-> n.adr, stranger |-> n.stranger]
    BY <1>1 DEF NetState
  <2> QED BY <2>1 DEF y, Z, z, X, SourcePut
<1> HIDE DEF y
<1>7. /\ w.file = n.file /\ w.adr = n.adr /\ w.client = n.client /\ w.stranger = n.stranger
      /\ w.srv[s] = y /\ \A t \in Servers : t # s => w.srv[t] = n.srv[t]
      /\ w \in NetState
  BY <1>1, <1>4, <1>6 DEF NetState
<1>8. \A t \in Servers : /\ (w.srv[t] = NIL) <=> (n.srv[t] = NIL)
                         /\ n.srv[t] # NIL => w.srv[t].sockets = n.srv[t].sockets /\ w.srv[t].proto = n.srv[t].proto
                         /\ \A f \in Fd : /\ w.srv[t].sources[f] # NIL => n.srv[t].sources[f] # NIL
                                          /\ t # s \/ f # fd => w.srv[t].sources[f] = n.srv[t].sources[f]
  BY <1>3, <1>4, <1>5, <1>7 DEF X
<1>9. w.srv[s].sources[fd] = z
  BY <1>3, <1>4, <1>7
<1>10. NetOpen(w)
  <2>1. OpenRef(w, r) /\ \A q : OpenRef(n, q) => OpenRef(w, q)
    BY <1>7 DEF OpenRef
  <2> QED BY <2>1, <1>2, <1>7, <1>8, <1>9 DEF NetOpen, NetGood
<1>11. FirstsKept(w)
  <2> SUFFICES ASSUME ~ w.stranger, NEW t \in Servers, w.srv[t] # NIL PROVE FirstKept(w, t)
    BY DEF FirstsKept
  <2>1. FirstKept(n, t) /\ First(w, t) = First(n, t) /\ Beside(r, First(n, t).fd)
    BY <1>7, <1>8 DEF FirstsKept, NetGood, First, Harmless
  <2> QED BY <2>1, <1>2, <1>7, <1>8, <1>9 DEF FirstKept
<1>12. ClientKept(w)
  <2>1. \A t \in Servers : First(w, t) = First(n, t) \/ n.srv[t] = NIL
    BY <1>8 DEF First
  <2> QED BY <2>1, <1>7, <1>8 DEF ClientKept, NetGood
<1>13. \A t \in Servers : \A f \in Fd : (w.srv[t].sources[f] = NIL) <=> (n.srv[t].sources[f] = NIL)
  BY <1>3, <1>8, <1>9
<1> QED BY <1>2, <1>3, <1>7, <1>8, <1>9, <1>10, <1>11, <1>12, <1>13 DEF NetGood, X

-----------------------------------------------------------------------------
(* What is closed                                                          *)
(* Whoever keeps a number that is closed keeps it no more as its own.      *)
LEMMA Forgets ==
    ASSUME NEW q \in Ref, NEW fd
    PROVE  /\ Forgotten(q, fd) \in Ref /\ Forgotten(q, fd).fd = q.fd
           /\ Forgotten(q, fd).mine => q.mine /\ q.fd # fd
           /\ q.fd # fd => Forgotten(q, fd) = q
  BY DEF Forgotten, Ref

LEMMA AddressForgets ==
    ASSUME NEW x \in AddressState \union {NIL}, NEW fd
    PROVE  /\ AddressForgot(x, fd) \in AddressState \union {NIL}
           /\ (AddressForgot(x, fd) = NIL) <=> (x = NIL)
           /\ x # NIL => /\ AddressForgot(x, fd).sock = Forgotten(x.sock, fd)
                         /\ AddressForgot(x, fd).own = x.own /\ AddressForgot(x, fd).proto = x.proto
                         /\ x.sock.fd # fd => AddressForgot(x, fd) = x
<1>1. CASE x = NIL
  BY <1>1 DEF AddressForgot
<1>2. CASE x # NIL
  <2>1. x \in AddressState /\ x.sock \in Ref
    BY <1>2 DEF AddressState, Ref
  <2>2. AddressForgot(x, fd) = [x EXCEPT !.sock = Forgotten(x.sock, fd)]
    BY <1>2 DEF AddressForgot
  <2>3. Forgotten(x.sock, fd) \in Ref /\ (x.sock.fd # fd => Forgotten(x.sock, fd) = x.sock)
    BY <2>1, Forgets
  <2>4. AddressForgot(x, fd) \in AddressState
    BY <2>1, <2>2, <2>3 DEF AddressState, Ref
  <2>5. /\ AddressForgot(x, fd).sock = Forgotten(x.sock, fd)
        /\ AddressForgot(x, fd).own = x.own /\ AddressForgot(x, fd).proto = x.proto
    BY <2>1, <2>2 DEF AddressState
  <2>6. x.sock.fd # fd => AddressForgot(x, fd) = x
    BY <2>1, <2>2, <2>3 DEF AddressState
  <2> QED BY <1>2, <2>4, <2>5, <2>6, Nils
<1> QED BY <1>1, <1>2

LEMMA ServerForgets ==
    ASSUME NEW x \in ServerState \union {NIL}, NEW fd
    PROVE  /\ ServerForgot(x, fd) \in ServerState \union {NIL}
           /\ (ServerForgot(x, fd) = NIL) <=> (x = NIL)
           /\ x # NIL =>
                 /\ ServerForgot(x, fd).proto = x.proto /\ Len(ServerForgot(x, fd).sockets) = Len(x.sockets)
                 /\ \A i \in 1 .. Len(x.sockets) : ServerForgot(x, fd).sockets[i] = Forgotten(x.sockets[i], fd)
                 /\ \A f \in Fd : ServerForgot(x, fd).sources[f] = AddressForgot(x.sources[f], fd)
                 /\ (\A i \in 1 .. Len(x.sockets) : x.sockets[i].fd # fd)
                    /\ (\A f \in Fd : x.sources[f] # NIL => x.sources[f].sock.fd # fd)
                    => ServerForgot(x, fd) = x
<1>1. CASE x = NIL
  BY <1>1 DEF ServerForgot
<1>2. CASE x # NIL
  <2> DEFINE L == x.sockets
             X == x.sources
             M == [i \in DOMAIN L |-> Forgotten(L[i], fd)]
             Y == [f \in Fd |-> AddressForgot(X[f], fd)]
  <2>1. x \in ServerState /\ L \in Seq(Ref) /\ X \in [Fd -> AddressState \union {NIL}]
    BY <1>2 DEF ServerState, Ref
  <2>2. ServerForgot(x, fd) = [x EXCEPT !.sockets = M, !.sources = Y]
    <3>1. ServerForgot(x, fd) = [x EXCEPT !.sockets = [i \in DOMAIN @ |-> Forgotten(@[i], fd)],
                                          !.sources = [f \in Fd |-> AddressForgot(@[f], fd)]]
      BY <1>2 DEF ServerForgot
    <3> QED BY <3>1, <2>1 DEF ServerState
  <2>3. /\ M \in Seq(Ref) /\ Len(M) = Len(L) /\ \A i \in 1 .. Len(L) : M[i] = Forgotten(L[i], fd)
        /\ DOMAIN L = 1 .. Len(L)
    <3>1. \A i \in 1 .. Len(L) : L[i] \in Ref
      BY <2>1
    <3>2. \A i \in 1 .. Len(L) : Forgotten(L[i], fd) \in Ref
      BY <3>1, Forgets
    <3>3. Len(L) \in Nat /\ DOMAIN L = 1 .. Len(L)
      BY <2>1
    <3> QED BY <3>2, <3>3
  <2>4. Y \in [Fd -> AddressState \union {NIL}] /\ \A f \in Fd : Y[f] = AddressForgot(X[f], fd)
    BY <2>1, AddressForgets
  <2>5. (\A i \in 1 .. Len(L) : L[i].fd # fd) => M = L
    <3> SUFFICES ASSUME \A i \in 1 .. Len(L) : L[i].fd # fd PROVE M = L
      OBVIOUS
    <3>1. \A i \in 1 .. Len(L) : M[i] = L[i]
      BY <2>1, <2>3, Forgets
    <3> HIDE DEF M
    <3> QED BY <2>1, <2>3, <3>1
  <2>6. (\A f \in Fd : X[f] # NIL => X[f].sock.fd # fd) => Y = X
    <3> SUFFICES ASSUME \A f \in Fd : X[f] # NIL => X[f].sock.fd # fd PROVE Y = X
      OBVIOUS
    <3>1. \A f \in Fd : Y[f] = X[f]
      BY <2>1, <2>4, AddressForgets
    <3> QED BY <2>1, <2>4, <3>1
  <2> HIDE DEF M, Y, L, X
  <2>7. [x EXCEPT !.sockets = M, !.sources = Y] \in ServerState
    BY <2>1, <2>3, <2>4 DEF ServerState, Ref
  <2>8. ServerForgot(x, fd).sockets = M /\ ServerForgot(x, fd).sources = Y /\ ServerForgot(x, fd).proto = x.proto
    BY <2>1, <2>2 DEF ServerState
  <2>9. M = x.sockets /\ Y = x.sources => ServerForgot(x, fd) = x
    BY <2>1, <2>2 DEF ServerState
  <2> QED BY <1>2, <2>2, <2>3, <2>4, <2>5, <2>6, <2>7, <2>8, <2>9, Nils DEF L, X
<1> QED BY <1>1, <1>2

(* What closing a number does                                              *)
LEMMA ClosesFd ==
    ASSUME NEW n \in NetState, NEW r \in Ref, NEW v, v = closesocket(n, r)
    PROVE  /\ v \in NetState
           /\ ~ Usable(n, r) => v = n
           /\ Usable(n, r) =>
                 /\ r.fd \in Fd /\ v.file = [n.file EXCEPT ![r.fd] = NIL] /\ v.stranger = (n.stranger \/ ~ r.mine)
                 /\ \A p \in {"udp", "tcp"} : v.client[p] = Forgotten(n.client[p], r.fd)
                 /\ \A a \in Addresses : v.adr[a] = AddressForgot(n.adr[a], r.fd)
                 /\ \A s \in Servers : v.srv[s] = ServerForgot(n.srv[s], r.fd)
<1>1. CASE ~ Usable(n, r)
  BY <1>1 DEF closesocket
<1>2. CASE Usable(n, r)
  <2> DEFINE file == [n.file EXCEPT ![r.fd] = NIL]
             client == [p \in {"udp", "tcp"} |-> Forgotten(n.client[p], r.fd)]
             adr == [a \in Addresses |-> AddressForgot(n.adr[a], r.fd)]
             srv == [s \in Servers |-> ServerForgot(n.srv[s], r.fd)]
             str == n.stranger \/ ~ r.mine
  <2>1. r.fd \in Fd
    BY <1>2 DEF Usable, Ref
  <2>2. /\ n.srv \in [Servers -> ServerState \union {NIL}] /\ n.adr \in [Addresses -> AddressState \union {NIL}]
        /\ n.client \in [{"udp", "tcp"} -> Ref] /\ n.file \in [Fd -> Kind \union {NIL}] /\ n.stranger \in BOOLEAN
        /\ n = [file |-> n.file, client |-> n.client, srv |-> n.srv, adr |-> n.adr, stranger |-> n.stranger]
        /\ r.mine \in BOOLEAN
    BY DEF NetState, Ref
  <2>3. Touched(n, r) = [n EXCEPT !.stranger = str]
    BY <1>2, <2>2 DEF Touched
  <2>4. v = [file |-> file, client |-> client, srv |-> srv, adr |-> adr, stranger |-> str]
    <3>1. v = [Touched(n, r) EXCEPT !.file[r.fd] = NIL,
                   !.client = [p \in DOMAIN @ |-> Forgotten(@[p], r.fd)],
                   !.adr = [a \in Addresses |-> AddressForgot(@[a], r.fd)],
                   !.srv = [s \in Servers |-> ServerForgot(@[s], r.fd)]]
      BY <1>2 DEF closesocket
    <3> DEFINE T == Touched(n, r)
    <3> HIDE DEF str
    <3>2. /\ T.file = n.file /\ T.client = n.client /\ T.srv = n.srv /\ T.adr = n.adr /\ T.stranger = str
          /\ T = [file |-> T.file, client |-> T.client, srv |-> T.srv, adr |-> T.adr, stranger |-> T.stranger]
      BY <2>2, <2>3
    <3> HIDE DEF T
    <3>3. v = [T EXCEPT !.file = [T.file EXCEPT ![r.fd] = NIL],
                   !.client = [p \in DOMAIN T.client |-> Forgotten(T.client[p], r.fd)],
                   !.adr = [a \in Addresses |-> AddressForgot(T.adr[a], r.fd)],
                   !.srv = [s \in Servers |-> ServerForgot(T.srv[s], r.fd)]]
      BY <3>1, <3>2 DEF T
    <3>4. DOMAIN T.client = {"udp", "tcp"}
      BY <2>2, <3>2
    <3>5. /\ [T.file EXCEPT ![r.fd] = NIL] = file
          /\ [p \in DOMAIN T.client |-> Forgotten(T.client[p], r.fd)] = client
          /\ [a \in Addresses |-> AddressForgot(T.adr[a], r.fd)] = adr
          /\ [s \in Servers |-> ServerForgot(T.srv[s], r.fd)] = srv
      BY <3>2, <3>4
    <3> HIDE DEF file, client, adr, srv
    <3>6. v = [T EXCEPT !.file = file, !.client = client, !.adr = adr, !.srv = srv]
      BY <3>3, <3>5
    <3> QED BY <3>2, <3>6
  <2>5. srv \in [Servers -> ServerState \union {NIL}]
    BY <2>2, ServerForgets
  <2>6. adr \in [Addresses -> AddressState \union {NIL}]
    BY <2>2, AddressForgets
  <2>7. client \in [{"udp", "tcp"} -> Ref]
    BY <2>2, Forgets
  <2>8. file \in [Fd -> Kind \union {NIL}] /\ str \in BOOLEAN
    BY <2>1, <2>2
  <2>9. v \in NetState
    BY <2>4, <2>5, <2>6, <2>7, <2>8 DEF NetState
  <2> QED BY <1>2, <2>1, <2>4, <2>9
<1> QED BY <1>1, <1>2

NetFirm(n) == n \in NetState /\ NetOpen(n) /\ FirstsKept(n)

(* Closing what harms no server                                            *)
LEMMA Closes ==
    ASSUME NEW n, NetFirm(n), NEW r \in Ref, Harmless(n, r), NEW v, v = closesocket(n, r)
    PROVE  /\ NetFirm(v)
           /\ n.stranger => v.stranger
           /\ ~ v.stranger => \A s \in Servers : n.srv[s] # NIL => First(v, s) = First(n, s) /\ v.srv[s].proto = n.srv[s].proto
           /\ \A p \in {"udp", "tcp"} : v.client[p] = n.client[p] \/ (v.client[p] = Forgotten(n.client[p], r.fd) /\ Usable(n, r))
           /\ \A s \in Servers : /\ (v.srv[s] = NIL) <=> (n.srv[s] = NIL)
                                 /\ \A fd \in Fd : n.srv[s] # NIL => ((v.srv[s].sources[fd] = NIL) <=> (n.srv[s].sources[fd] = NIL))
                                 /\ \A fd \in Fd : n.srv[s] # NIL /\ n.srv[s].sources[fd] # NIL => v.srv[s].sources[fd].proto = n.srv[s].sources[fd].proto
           /\ \A a \in Addresses : /\ (v.adr[a] = NIL) <=> (n.adr[a] = NIL)
                                   /\ n.adr[a] # NIL => v.adr[a].proto = n.adr[a].proto /\ v.adr[a].own = n.adr[a].own
<1>1. n \in NetState
  BY DEF NetFirm
<1>2. CASE ~ Usable(n, r)
  <2>1. v = n
    BY <1>1, <1>2, ClosesFd
  <2> QED BY <2>1 DEF First
<1>3. CASE Usable(n, r)
  <2>1. /\ v \in NetState /\ r.fd \in Fd /\ v.file = [n.file EXCEPT ![r.fd] = NIL] /\ v.stranger = (n.stranger \/ ~ r.mine)
        /\ \A p \in {"udp", "tcp"} : v.client[p] = Forgotten(n.client[p], r.fd)
        /\ \A a \in Addresses : v.adr[a] = AddressForgot(n.adr[a], r.fd)
        /\ \A s \in Servers : v.srv[s] = ServerForgot(n.srv[s], r.fd)
    BY <1>1, <1>3, ClosesFd
  <2>2. \A a \in Addresses : /\ (v.adr[a] = NIL) <=> (n.adr[a] = NIL)
                             /\ n.adr[a] # NIL => /\ v.adr[a].sock = Forgotten(n.adr[a].sock, r.fd)
                                                  /\ v.adr[a].proto = n.adr[a].proto /\ v.adr[a].own = n.adr[a].own
    <3>1. \A a \in Addresses : n.adr[a] \in AddressState \union {NIL}
      BY <1>1 DEF NetState
    <3> QED BY <2>1, <3>1, AddressForgets
  <2>3. ASSUME NEW s \in Servers
        PROVE  /\ (v.srv[s] = NIL) <=> (n.srv[s] = NIL)
               /\ n.srv[s] # NIL =>
                     /\ v.srv[s].proto = n.srv[s].proto /\ Len(v.srv[s].sockets) = Len(n.srv[s].sockets)
                     /\ \A i \in 1 .. Len(n.srv[s].sockets) : v.srv[s].sockets[i] = Forgotten(n.srv[s].sockets[i], r.fd)
    <3>1. n.srv[s] \in ServerState \union {NIL} /\ v.srv[s] = ServerForgot(n.srv[s], r.fd)
      BY <1>1, <2>1 DEF NetState
    <3> QED BY <3>1, ServerForgets
  <2>8. ASSUME NEW s \in Servers, n.srv[s] # NIL, NEW fd \in Fd
        PROVE  /\ (v.srv[s].sources[fd] = NIL) <=> (n.srv[s].sources[fd] = NIL)
               /\ n.srv[s].sources[fd] # NIL => /\ v.srv[s].sources[fd].sock = Forgotten(n.srv[s].sources[fd].sock, r.fd)
                                                /\ v.srv[s].sources[fd].proto = n.srv[s].sources[fd].proto
    <3>1. n.srv[s] \in ServerState \union {NIL}
      BY <1>1 DEF NetState
    <3>2. v.srv[s] = ServerForgot(n.srv[s], r.fd)
      BY <2>1
    <3>3. v.srv[s].sources[fd] = AddressForgot(n.srv[s].sources[fd], r.fd)
      BY <2>8, <3>1, <3>2, ServerForgets
    <3>4. n.srv[s].sources[fd] \in AddressState \union {NIL}
      BY <2>8, <1>1, NetFields
    <3> QED BY <3>3, <3>4, AddressForgets
  <2>4. \A q \in Ref : /\ OpenRef(n, q) => OpenRef(v, Forgotten(q, r.fd))
                       /\ \A fd : Beside(q, fd) => Beside(Forgotten(q, r.fd), fd)
    <3>1. \A fd \in Fd : fd # r.fd => v.file[fd] = n.file[fd]
      BY <1>1, <2>1 DEF NetState
    <3> QED BY <3>1, Forgets DEF OpenRef, Beside, Ref
  <2>5. NetOpen(v)
    <3>1. \A a \in Addresses : v.adr[a] # NIL => OpenRef(v, v.adr[a].sock)
      BY <2>2, <2>4, <1>1, NetFields DEF NetFirm, NetOpen
    <3>2. ASSUME NEW s \in Servers, v.srv[s] # NIL
          PROVE  /\ \A i \in 1 .. Len(v.srv[s].sockets) : OpenRef(v, v.srv[s].sockets[i])
                 /\ \A fd \in Fd : v.srv[s].sources[fd] # NIL => OpenRef(v, v.srv[s].sources[fd].sock)
      BY <3>2, <2>3, <2>4, <2>8, <1>1, NetFields DEF NetFirm, NetOpen
    <3> QED BY <3>1, <3>2 DEF NetOpen
  <2>6. ASSUME ~ v.stranger, NEW s \in Servers, v.srv[s] # NIL
        PROVE  First(v, s) = First(n, s) /\ FirstKept(v, s)
    <3>1. ~ n.stranger /\ r.mine /\ n.srv[s] # NIL
      BY <2>6, <2>1, <2>3, <1>1 DEF NetState, Ref
    <3>2. FirstKept(n, s)
      BY <3>1 DEF NetFirm, FirstsKept
    <3>3. r.fd # First(n, s).fd
      BY <3>1 DEF Harmless, Beside
    <3>4. 1 \in 1 .. Len(n.srv[s].sockets) /\ First(n, s) \in Ref
      BY <3>1, <3>2, <1>1, NetFields DEF FirstKept, First
    <3>5. First(v, s) = First(n, s)
      BY <3>1, <3>3, <3>4, <2>3, Forgets DEF First
    <3>6. \A a \in Addresses : v.adr[a] # NIL => Beside(v.adr[a].sock, First(v, s).fd)
      BY <3>2, <3>5, <2>2, <2>4, <1>1, NetFields DEF FirstKept
    <3>7. ASSUME NEW t \in Servers, v.srv[t] # NIL
          PROVE  /\ \A i \in 1 .. Len(v.srv[t].sockets) : t # s \/ i # 1 => Beside(v.srv[t].sockets[i], First(v, s).fd)
                 /\ \A fd \in Fd : v.srv[t].sources[fd] # NIL => Beside(v.srv[t].sources[fd].sock, First(v, s).fd)
      BY <3>2, <3>5, <3>7, <2>3, <2>4, <2>8, <1>1, NetFields DEF FirstKept
    <3> QED BY <3>1, <3>2, <3>5, <3>6, <3>7, <2>3 DEF FirstKept
  <2>7. n.stranger => v.stranger
    BY <2>1
  <2> QED BY <1>3, <2>1, <2>2, <2>3, <2>5, <2>6, <2>7, <2>8 DEF NetFirm, FirstsKept
<1> QED BY <1>2, <1>3

(* ... leaves the net good; and what a server or an address keeps beside   *)
(* the first sockets harms none.                                           *)
LEMMA ClosesGood ==
    ASSUME NEW n, NetGood(n), NEW r \in Ref, Harmless(n, r), NEW v, v = closesocket(n, r)
    PROVE  NetGood(v)
<1>1. NetFirm(n)
  BY DEF NetGood, NetFirm
<1>2. NetFirm(v)
  BY <1>1, Closes
<1>3. ClientKept(v)
  <2> SUFFICES ASSUME ~ v.stranger, v.client["udp"] # None
      PROVE \E t \in Servers : v.srv[t] # NIL /\ v.srv[t].proto = "udp" /\ First(v, t) = v.client["udp"]
    BY DEF ClientKept
  <2>0. ~ v.stranger
    OBVIOUS
  <2>1. /\ ~ n.stranger
        /\ \A s \in Servers : /\ n.srv[s] # NIL => First(v, s) = First(n, s) /\ v.srv[s].proto = n.srv[s].proto
                              /\ (v.srv[s] = NIL) <=> (n.srv[s] = NIL)
        /\ v.client["udp"] = n.client["udp"] \/ (v.client["udp"] = Forgotten(n.client["udp"], r.fd) /\ Usable(n, r))
        /\ n.client["udp"] \in Ref
    BY <1>1, Closes, NetFields DEF NetFirm
  <2>2. n.client["udp"] # None
    <3>1. Usable(n, r) => Forgotten(None, r.fd) = None
      BY DEF Forgotten, None, Usable
    <3> QED BY <2>1, <3>1
  <2>3. PICK t \in Servers : n.srv[t] # NIL /\ n.srv[t].proto = "udp" /\ First(n, t) = n.client["udp"]
    BY <2>1, <2>2 DEF NetGood, ClientKept
  <2>4. CASE v.client["udp"] = n.client["udp"]
    BY <2>1, <2>3, <2>4
  <2>5. CASE v.client["udp"] = Forgotten(n.client["udp"], r.fd) /\ Usable(n, r)
    <3>1. r.mine
      <4>1. n \in NetState
        BY <1>1 DEF NetFirm
      <4>2. Usable(n, r)
        BY <2>5
      <4>3. v.stranger = (n.stranger \/ ~ r.mine) /\ v.stranger \in BOOLEAN
        BY <4>1, <4>2, ClosesFd, NetFields
      <4> QED BY <4>3, <2>0 DEF Ref
    <3>2. r.fd # First(n, t).fd
      BY <2>1, <2>3, <3>1 DEF Harmless, Beside
    <3>3. v.client["udp"] = n.client["udp"]
      BY <2>1, <2>3, <2>5, <3>2, Forgets
    <3> QED BY <3>3, <2>4
  <2> QED BY <2>1, <2>4, <2>5
<1> QED BY <1>2, <1>3 DEF NetGood, NetFirm

LEMMA KeptHarmless ==
    ASSUME NEW n, NetFirm(n), NEW s \in Servers, n.srv[s] # NIL
    PROVE  /\ \A i \in 2 .. Len(n.srv[s].sockets) : Harmless(n, n.srv[s].sockets[i])
           /\ \A fd \in Fd : n.srv[s].sources[fd] # NIL => Harmless(n, n.srv[s].sources[fd].sock)
  BY DEF NetFirm, FirstsKept, FirstKept, Harmless

LEMMA AddressHarmless ==
    ASSUME NEW n, NetFirm(n), NEW a \in Addresses, n.adr[a] # NIL
    PROVE  Harmless(n, n.adr[a].sock)
  BY DEF NetFirm, FirstsKept, FirstKept, Harmless

LEMMA Touching ==
    ASSUME NEW n, NetGood(n), NEW r \in Ref, NEW v, v = Touched(n, r)
    PROVE  /\ NetGood(v) /\ v.srv = n.srv /\ v.adr = n.adr /\ v.file = n.file /\ v.client = n.client
           /\ v.stranger = (n.stranger \/ (Usable(n, r) /\ ~ r.mine))
           /\ r.mine \/ ~ Usable(n, r) => v = n
           /\ Harmless(n, r) => Harmless(v, r)
<1>1. n \in NetState /\ NetFirm(n)
  BY DEF NetGood, NetFirm
<1> DEFINE str == n.stranger \/ (Usable(n, r) /\ ~ r.mine)
<1>2. v = [n EXCEPT !.stranger = str] /\ str \in BOOLEAN /\ r.mine \in BOOLEAN
      /\ (r.mine \/ ~ Usable(n, r) => str = n.stranger)
  BY <1>1 DEF Touched, NetState, Usable, Ref
<1> HIDE DEF str
<1>3. v.srv = n.srv /\ v.adr = n.adr /\ v.file = n.file /\ v.client = n.client /\ v.stranger = str /\ v \in NetState
  BY <1>1, <1>2 DEF NetState
<1>4. r.mine \/ ~ Usable(n, r) => v = n
  BY <1>1, <1>2 DEF NetState
<1>5. n.stranger => v.stranger
  BY <1>3 DEF str
<1>6. NetOpen(v)
  BY <1>1, <1>3 DEF NetFirm, NetOpen, OpenRef
<1>7. FirstsKept(v)
  BY <1>1, <1>3, <1>5 DEF NetFirm, FirstsKept, FirstKept, First
<1>8. ClientKept(v)
  BY <1>3, <1>5 DEF NetGood, ClientKept, First
<1>9. Harmless(n, r) => Harmless(v, r)
  BY <1>3, <1>5 DEF Harmless, First
<1> QED BY <1>3, <1>4, <1>6, <1>7, <1>8, <1>9 DEF NetGood, str

(* What is open or not touched is no server's own.                         *)
LEMMA NotFirst ==
    ASSUME NEW n, NetFirm(n), NEW r \in Ref, Harmless(n, r), ~ (n.stranger \/ (Usable(n, r) /\ ~ r.mine)),
           NEW s \in Servers, n.srv[s] # NIL
    PROVE  r.fd # First(n, s).fd
<1>1. FirstKept(n, s)
  BY DEF NetFirm, FirstsKept
<1>2. Beside(r, First(n, s).fd)
  BY DEF Harmless
<1>3. n.file[First(n, s).fd] # NIL
  <2>1. 1 \in 1 .. Len(n.srv[s].sockets)
    BY <1>1, NetFields DEF FirstKept, NetFirm
  <2> QED BY <2>1, <1>1 DEF NetFirm, NetOpen, OpenRef, First, FirstKept
<1> QED BY <1>1, <1>2, <1>3 DEF Usable, Beside, FirstKept

(* A sequence without one of its elements, which is what                   *)
(* lo_server_del_socket makes of the sockets of a server                   *)
LEMMA Removal ==
    ASSUME NEW T, NEW L \in Seq(T), NEW k \in 1 .. Len(L), NEW M, M = RemoveAt(L, k)
    PROVE  /\ M \in Seq(T) /\ Len(M) = Len(L) - 1 /\ Len(L) \in Nat
           /\ \A j \in 1 .. Len(M) : M[j] = IF j < k THEN L[j] ELSE L[j + 1]
<1>1. Len(L) \in Nat /\ k \in Nat
  OBVIOUS
<1> DEFINE A == SubSeq(L, 1, k - 1)
           B == SubSeq(L, k + 1, Len(L))
<1>2. A \in Seq(T) /\ Len(A) = k - 1 /\ \A j \in 1 .. k - 1 : A[j] = L[j]
  BY <1>1
<1>3. B \in Seq(T) /\ Len(B) = Len(L) - k /\ \A j \in 1 .. Len(L) - k : B[j] = L[k + j]
  BY <1>1
<1>4. M = A \o B
  BY DEF RemoveAt
<1> HIDE DEF A, B
<1>5. M \in Seq(T) /\ Len(M) = Len(L) - 1
  BY <1>1, <1>2, <1>3, <1>4
<1>6. ASSUME NEW j \in 1 .. Len(M) PROVE M[j] = IF j < k THEN L[j] ELSE L[j + 1]
  <2>1. CASE j < k
    <3>1. j \in 1 .. Len(A) /\ M[j] = A[j]
      BY <2>1, <1>1, <1>2, <1>3, <1>4, <1>5
    <3> QED BY <2>1, <3>1, <1>2
  <2>2. CASE ~ (j < k)
    <3>1. j - (k - 1) \in 1 .. Len(L) - k /\ k + (j - (k - 1)) = j + 1
      BY <2>2, <1>1, <1>5
    <3>2. M[j] = B[j - (k - 1)]
      BY <2>2, <3>1, <1>1, <1>2, <1>3, <1>4, <1>5
    <3> QED BY <2>2, <3>1, <3>2, <1>3
  <2> QED BY <2>1, <2>2
<1> QED BY <1>1, <1>5, <1>6

Removed(n, s, fd, v) ==
    /\ NetGood(v) /\ v.adr = n.adr /\ v.file = n.file /\ v.stranger = n.stranger
    /\ \A t \in Servers : (v.srv[t] = NIL) <=> (n.srv[t] = NIL)
    /\ \A t \in Servers : t # s => v.srv[t] = n.srv[t]
    /\ \A f \in Fd : v.srv[s].sources[f] # NIL => v.srv[s].sources[f] = n.srv[s].sources[f]
    /\ fd # -1 /\ (\E i \in 1 .. Len(n.srv[s].sockets) : n.srv[s].sockets[i].fd = fd)
       => \E k \in 1 .. Len(n.srv[s].sockets) :
          /\ n.srv[s].sockets[k].fd = fd /\ fd \in Fd /\ v.srv[s].proto = n.srv[s].proto
          /\ v.srv[s].sockets \in Seq(Ref)
          /\ Len(v.srv[s].sockets) = Len(n.srv[s].sockets) - 1
          /\ \A j \in 1 .. Len(v.srv[s].sockets) :
                v.srv[s].sockets[j] = IF j < k THEN n.srv[s].sockets[j] ELSE n.srv[s].sockets[j + 1]
          /\ v.srv[s].sources = [n.srv[s].sources EXCEPT ![fd] = NIL]

LEMMA Dels ==
    ASSUME NEW n, NetGood(n), NEW s \in Servers, n.srv[s] # NIL, NEW fd \in Fd \union {-1},
           ~ n.stranger => First(n, s).fd # fd, NEW v, v = DelSocket(n, s, fd)
    PROVE  Removed(n, s, fd, v)
<1> DEFINE L == n.srv[s].sockets
           X == n.srv[s].sources
           at == {i \in DOMAIN L : L[i].fd = fd}
<1>1. n \in NetState /\ L \in Seq(Ref) /\ Len(L) \in Nat /\ DOMAIN L = 1 .. Len(L) /\ n.srv[s] \in ServerState
      /\ X \in [Fd -> AddressState \union {NIL}]
  <2>1. n \in NetState
    BY DEF NetGood
  <2>2. n.srv[s] \in ServerState /\ L \in Seq(Ref)
    BY <2>1, NetFields
  <2> QED BY <2>1, <2>2 DEF ServerState
<1>2. CASE fd = -1 \/ at = {}
  <2>1. v = n
    BY <1>2 DEF DelSocket
  <2>2. ~ (fd # -1 /\ \E i \in 1 .. Len(L) : L[i].fd = fd)
    BY <1>1, <1>2
  <2> QED BY <2>1, <2>2 DEF Removed
<1>3. CASE ~ (fd = -1 \/ at = {})
  <2> DEFINE k == CHOOSE i \in at : \A j \in at : i <= j
             M == RemoveAt(L, k)
             Y == [X EXCEPT ![fd] = NIL]
             y == [n.srv[s] EXCEPT !.sockets = M, !.sources = Y]
  <2>1. k \in 1 .. Len(L) /\ L[k].fd = fd
    <3>1. PICK i \in at : \A j \in at : i <= j
      <4>1. at \in SUBSET Nat /\ at # {}
        BY <1>1, <1>3
      <4> HIDE DEF at
      <4> QED BY <4>1, LeastOf
    <3>2. k \in at
      BY <3>1
    <3> QED BY <3>2, <1>1
  <2>2. v = [n EXCEPT !.srv = [n.srv EXCEPT ![s] = y]]
    <3>1. n.srv \in [Servers -> ServerState \union {NIL}] /\ n = [file |-> n.file, client |-> n.client, srv |-> n.srv, adr |-> n.adr, stranger |-> n.stranger]
      BY <1>1 DEF NetState
    <3>2. v = [n EXCEPT !.srv[s].sockets = RemoveAt(@, CHOOSE i \in at : \A j \in at : i <= j), !.srv[s].sources[fd] = NIL]
      BY <1>3 DEF DelSocket
    <3> HIDE DEF at, k
    <3>3. v = [n EXCEPT !.srv[s].sockets = RemoveAt(@, k), !.srv[s].sources[fd] = NIL]
      BY <3>2 DEF k
    <3> QED BY <3>1, <3>3, <1>1 DEF ServerState
  <2> HIDE DEF k, at
  <2>3. M \in Seq(Ref) /\ Len(M) = Len(L) - 1 /\ \A j \in 1 .. Len(M) : M[j] = IF j < k THEN L[j] ELSE L[j + 1]
    <3> DEFINE D == RemoveAt(L, k)
    <3>1. D = RemoveAt(L, k) /\ L \in Seq(Ref) /\ k \in 1 .. Len(L)
      BY <1>1, <2>1
    <3> HIDE DEF D, L
    <3>2. D \in Seq(Ref) /\ Len(D) = Len(L) - 1 /\ \A j \in 1 .. Len(D) : D[j] = IF j < k THEN L[j] ELSE L[j + 1]
      BY <3>1, Removal, Zenon
    <3> QED BY <3>2 DEF D
  <2>4. fd \in Fd /\ Y \in [Fd -> AddressState \union {NIL}] /\ Y[fd] = NIL /\ \A f \in Fd : f # fd => Y[f] = X[f]
    BY <1>1, <1>3
  <2> HIDE DEF M, L, X
  <2>5. y \in ServerState /\ y.sockets = M /\ y.sources = Y /\ y.proto = n.srv[s].proto
    BY <1>1, <2>3, <2>4 DEF ServerState, Ref
  <2>6. y # NIL
    BY <2>5, Nils
  <2> HIDE DEF y, Y
  <2>7. /\ v.file = n.file /\ v.adr = n.adr /\ v.client = n.client /\ v.stranger = n.stranger
        /\ v.srv[s] = y /\ \A t \in Servers : t # s => v.srv[t] = n.srv[t]
        /\ v \in NetState
    BY <1>1, <2>2, <2>5 DEF NetState
  <2>8. \A j \in 1 .. Len(M) : \E i \in 1 .. Len(L) : M[j] = L[i] /\ (j = 1 /\ L[1].fd # fd => i = 1) /\ (j # 1 => i # 1)
    <3> SUFFICES ASSUME NEW j \in 1 .. Len(M)
        PROVE  \E i \in 1 .. Len(L) : M[j] = L[i] /\ (j = 1 /\ L[1].fd # fd => i = 1) /\ (j # 1 => i # 1)
      OBVIOUS
    <3>1. CASE j < k
      <4>1. j \in 1 .. Len(L) /\ M[j] = L[j]
        BY <3>1, <1>1, <2>1, <2>3
      <4> QED BY <4>1
    <3>2. CASE ~ (j < k)
      <4>1. j + 1 \in 1 .. Len(L) /\ M[j] = L[j + 1] /\ j + 1 # 1
        BY <3>2, <1>1, <2>1, <2>3
      <4>2. j = 1 => L[1].fd = fd
        BY <3>2, <2>1, <1>1
      <4> QED BY <4>1, <4>2
    <3> QED BY <3>1, <3>2
  <2>9. \A f \in Fd : Y[f] # NIL => f # fd /\ Y[f] = X[f]
    BY <2>4
  <2>10. NetOpen(v)
    <3>1. \A q : OpenRef(n, q) => OpenRef(v, q)
      BY <2>7 DEF OpenRef
    <3>2. \A j \in 1 .. Len(M) : OpenRef(v, M[j])
      BY <3>1, <2>8 DEF NetGood, NetOpen, L
    <3>3. \A f \in Fd : Y[f] # NIL => OpenRef(v, Y[f].sock)
      BY <3>1, <2>9 DEF NetGood, NetOpen, X
    <3> QED BY <3>1, <3>2, <3>3, <2>5, <2>7 DEF NetGood, NetOpen
  <2>11. ASSUME ~ v.stranger PROVE First(v, s) = First(n, s) /\ Len(M) >= 1
    <3>1. L[1].fd # fd /\ Len(L) >= 1
      BY <2>11, <2>7 DEF First, L, NetGood, FirstsKept, FirstKept
    <3>2. k # 1 /\ Len(M) >= 1
      BY <3>1, <2>1, <2>3, <1>1
    <3>3. M[1] = L[1]
      BY <3>2, <2>1, <2>3, <1>1
    <3> QED BY <3>2, <3>3, <2>5, <2>7 DEF First, L
  <2>12. FirstsKept(v)
    <3> SUFFICES ASSUME ~ v.stranger, NEW t \in Servers, v.srv[t] # NIL PROVE FirstKept(v, t)
      BY DEF FirstsKept
    <3>1. n.srv[t] # NIL /\ FirstKept(n, t)
      BY <2>7 DEF NetGood, FirstsKept
    <3>2. First(v, t) = First(n, t) /\ Len(v.srv[t].sockets) >= 1
      BY <3>1, <2>5, <2>7, <2>11 DEF First, FirstKept
    <3>3. ASSUME NEW u \in Servers, v.srv[u] # NIL
          PROVE  /\ \A i \in 1 .. Len(v.srv[u].sockets) : u # t \/ i # 1 => Beside(v.srv[u].sockets[i], First(v, t).fd)
                 /\ \A f \in Fd : v.srv[u].sources[f] # NIL => Beside(v.srv[u].sources[f].sock, First(v, t).fd)
      <4>1. CASE u = s
        <5>1. /\ \A i \in 1 .. Len(L) : u # t \/ i # 1 => Beside(L[i], First(v, t).fd)
              /\ \A f \in Fd : X[f] # NIL => Beside(X[f].sock, First(v, t).fd)
          BY <4>1, <3>1, <3>2 DEF FirstKept, L, X
        <5> QED BY <4>1, <5>1, <2>5, <2>7, <2>8, <2>9
      <4>2. CASE u # s
        BY <4>2, <3>3, <3>1, <3>2, <2>7 DEF FirstKept
      <4> QED BY <4>1, <4>2
    <3> QED BY <3>1, <3>2, <3>3, <2>7 DEF FirstKept
  <2>13. ClientKept(v)
    <3> SUFFICES ASSUME ~ v.stranger, v.client["udp"] # None
        PROVE \E t \in Servers : v.srv[t] # NIL /\ v.srv[t].proto = "udp" /\ First(v, t) = v.client["udp"]
      BY DEF ClientKept
    <3>1. PICK t \in Servers : n.srv[t] # NIL /\ n.srv[t].proto = "udp" /\ First(n, t) = n.client["udp"]
      BY <2>7 DEF NetGood, ClientKept
    <3>2. First(v, t) = First(n, t)
      BY <2>7, <2>11 DEF First
    <3> QED BY <3>1, <3>2, <2>5, <2>6, <2>7
  <2>14. \E i \in 1 .. Len(L) :
                 /\ L[i].fd = fd /\ fd \in Fd
                 /\ Len(M) = Len(L) - 1
                 /\ \A j \in 1 .. Len(M) : M[j] = IF j < i THEN L[j] ELSE L[j + 1]
    BY <2>1, <2>3, <2>4
  <2> QED BY <2>3, <2>5, <2>6, <2>7, <2>9, <2>10, <2>12, <2>13, <2>14 DEF NetGood, L, X, Y, Removed
<1> QED BY <1>2, <1>3

-----------------------------------------------------------------------------
(* What is closed, as long as each socket is kept in one place             *)
(* r is kept by no server and no address: closing it leaves CleanNet.      *)
Apart(n, r) ==
    /\ \A a \in Addresses : n.adr[a] # NIL => Differ(r, n.adr[a].sock)
    /\ \A s \in Servers : n.srv[s] # NIL => \A i \in 1 .. Len(n.srv[s].sockets) : Differ(r, n.srv[s].sockets[i])

LEMMA CleanShrinks ==
    ASSUME NEW n \in NetState, CleanNet(n), NEW r \in Ref, Held(n, r), Apart(n, r), NEW v, v = closesocket(n, r)
    PROVE  /\ CleanNet(v) /\ v \in NetState /\ v.adr = n.adr /\ v.srv = n.srv
           /\ \A fd \in Fd : fd # r.fd => v.file[fd] = n.file[fd]
           /\ \A S : NoneLost(n, S) => NoneLost(v, S \ {r.fd})
<1>1. CASE ~ Usable(n, r)
  <2>1. v = n
    BY <1>1, ClosesFd
  <2>2. r.fd \notin Fd
    BY <1>1, Nils DEF Held, Usable, None, Ref
  <2> QED BY <2>1, <2>2 DEF NoneLost
<1>2. CASE Usable(n, r)
  <2>1. /\ v \in NetState /\ r.fd \in Fd /\ v.file = [n.file EXCEPT ![r.fd] = NIL] /\ v.stranger = (n.stranger \/ ~ r.mine)
        /\ \A a \in Addresses : v.adr[a] = AddressForgot(n.adr[a], r.fd)
        /\ \A s \in Servers : v.srv[s] = ServerForgot(n.srv[s], r.fd)
    BY <1>2, ClosesFd
  <2>2. r.fd # -1 /\ r.mine /\ ~ v.stranger
    <3>1. r.fd # -1 /\ r.mine
      BY <1>2 DEF Usable, Held, None
    <3>2. ~ n.stranger
      BY DEF CleanNet
    <3> QED BY <2>1, <3>1, <3>2
  <2>3. v.adr = n.adr
    <3>1. \A a \in Addresses : n.adr[a] \in AddressState \union {NIL} /\ (n.adr[a] # NIL => n.adr[a].sock.fd # r.fd)
      BY <2>2 DEF NetState, Apart, Differ
    <3>2. \A a \in Addresses : v.adr[a] = n.adr[a]
      BY <2>1, <3>1, AddressForgets
    <3> QED BY <2>1, <3>2 DEF NetState
  <2>4. v.srv = n.srv
    <3>1. ASSUME NEW s \in Servers PROVE v.srv[s] = n.srv[s]
      <4>1. n.srv[s] \in ServerState \union {NIL}
        BY DEF NetState
      <4>2. ASSUME n.srv[s] # NIL
            PROVE  /\ \A i \in 1 .. Len(n.srv[s].sockets) : n.srv[s].sockets[i].fd # r.fd
                   /\ \A f \in Fd : n.srv[s].sources[f] # NIL => n.srv[s].sources[f].sock.fd # r.fd
        <5>1. \A i \in 1 .. Len(n.srv[s].sockets) : n.srv[s].sockets[i].fd # r.fd
          BY <4>2, <2>2 DEF Apart, Differ
        <5>2. ASSUME NEW f \in Fd, n.srv[s].sources[f] # NIL PROVE n.srv[s].sources[f].sock.fd # r.fd
          <6>1. n.srv[s].sources[f].sock = [fd |-> f, mine |-> TRUE]
            BY <5>2, <4>2 DEF CleanNet
          <6>2. PICK i \in 1 .. Len(n.srv[s].sockets) : n.srv[s].sockets[i].fd = f
            BY <5>2, <4>2 DEF CleanNet
          <6> QED BY <5>1, <6>1, <6>2
        <5> QED BY <5>1, <5>2
      <4>3. v.srv[s] = ServerForgot(n.srv[s], r.fd)
        BY <2>1
      <4>4. CASE n.srv[s] = NIL
        BY <4>3, <4>4 DEF ServerForgot
      <4>5. CASE n.srv[s] # NIL
        BY <4>1, <4>2, <4>3, <4>5, ServerForgets
      <4> QED BY <4>4, <4>5
    <3> QED BY <2>1, <3>1 DEF NetState
  <2>5. \A fd \in Fd : fd # r.fd => v.file[fd] = n.file[fd]
    BY <2>1 DEF NetState
  <2>6. CleanNet(v)
    <3>1. \A q \in Ref : Held(n, q) /\ Differ(r, q) => Held(v, q)
      BY <2>2, <2>5 DEF Held, Differ, Ref
    <3>2. \A a \in Addresses : n.adr[a] # NIL => Held(v, n.adr[a].sock)
      BY <3>1, NetFields DEF CleanNet, Apart
    <3>3. \A s \in Servers : n.srv[s] # NIL => \A i \in 1 .. Len(n.srv[s].sockets) : Held(v, n.srv[s].sockets[i])
      BY <3>1, NetFields DEF CleanNet, Apart
    <3> QED BY <2>2, <2>3, <2>4, <3>2, <3>3 DEF CleanNet
  <2>7. ASSUME NEW S, NoneLost(n, S) PROVE NoneLost(v, S \ {r.fd})
    <3>1. \A fd : KeptIn(n, fd) => KeptIn(v, fd)
      BY <2>3, <2>4 DEF KeptIn
    <3>2. v.file[r.fd] = NIL
      BY <2>1 DEF NetState
    <3> QED BY <2>5, <2>7, <3>1, <3>2 DEF NoneLost
  <2> QED BY <2>1, <2>3, <2>4, <2>5, <2>6, <2>7
<1> QED BY <1>1, <1>2

(* An address's socket may as well be closed after the address is freed.   *)
LEMMA LessAfter ==
    ASSUME NEW n \in NetState, NEW r \in Ref, NEW a \in Addresses
    PROVE  Less(closesocket(n, r), a) = closesocket(Less(n, a), r)
<1> DEFINE u == Less(n, a)
           v == closesocket(n, r)
           w == closesocket(u, r)
           x == Less(v, a)
<1>1. /\ u.srv = n.srv /\ u.file = n.file /\ u.client = n.client /\ u.stranger = n.stranger
      /\ u.adr[a] = NIL /\ \A b \in Addresses : b # a => u.adr[b] = n.adr[b]
      /\ u \in NetState
  BY DEF NetState, Less, AddressPut
<1>2. v \in NetState /\ w \in NetState
  BY <1>1, ClosesFd
<1> HIDE DEF u, v, w
<1>3. /\ x.srv = v.srv /\ x.file = v.file /\ x.client = v.client /\ x.stranger = v.stranger
      /\ x.adr[a] = NIL /\ \A b \in Addresses : b # a => x.adr[b] = v.adr[b]
      /\ x \in NetState
  BY <1>2 DEF NetState, Less, AddressPut
<1> HIDE DEF x
<1>4. Usable(u, r) <=> Usable(n, r)
  BY <1>1 DEF Usable
<1>5. CASE ~ Usable(n, r)
  <2>1. v = n /\ w = u
    BY <1>1, <1>4, <1>5, ClosesFd DEF v, w
  <2> QED BY <2>1 DEF x, u, v, w
<1>6. CASE Usable(n, r)
  <2>1. /\ v.file = [n.file EXCEPT ![r.fd] = NIL] /\ v.stranger = (n.stranger \/ ~ r.mine)
        /\ \A p \in {"udp", "tcp"} : v.client[p] = Forgotten(n.client[p], r.fd)
        /\ \A b \in Addresses : v.adr[b] = AddressForgot(n.adr[b], r.fd)
        /\ \A s \in Servers : v.srv[s] = ServerForgot(n.srv[s], r.fd)
    BY <1>6, ClosesFd DEF v
  <2>2. /\ w.file = [u.file EXCEPT ![r.fd] = NIL] /\ w.stranger = (u.stranger \/ ~ r.mine)
        /\ \A p \in {"udp", "tcp"} : w.client[p] = Forgotten(u.client[p], r.fd)
        /\ \A b \in Addresses : w.adr[b] = AddressForgot(u.adr[b], r.fd)
        /\ \A s \in Servers : w.srv[s] = ServerForgot(u.srv[s], r.fd)
    BY <1>1, <1>4, <1>6, ClosesFd DEF w
  <2>3. x.file = w.file /\ x.stranger = w.stranger
    BY <2>1, <2>2, <1>1, <1>3
  <2>4. x.client = w.client
    <3>1. \A p \in {"udp", "tcp"} : x.client[p] = w.client[p]
      BY <2>1, <2>2, <1>1, <1>3
    <3> QED BY <3>1, <1>2, <1>3 DEF NetState
  <2>5. x.srv = w.srv
    <3>1. \A s \in Servers : x.srv[s] = w.srv[s]
      BY <2>1, <2>2, <1>1, <1>3
    <3> QED BY <3>1, <1>2, <1>3 DEF NetState
  <2>6. x.adr = w.adr
    <3>1. w.adr[a] = NIL
      BY <2>2, <1>1 DEF AddressForgot
    <3>2. \A b \in Addresses : x.adr[b] = w.adr[b]
      BY <2>1, <2>2, <3>1, <1>1, <1>3
    <3> QED BY <3>2, <1>2, <1>3 DEF NetState
  <2>7. x = w
    BY <2>3, <2>4, <2>5, <2>6, <1>2, <1>3, NetFields
  <2> QED BY <2>7 DEF x, w, u, v
<1> QED BY <1>5, <1>6

(* ... and what is closed without its address loses nothing.               *)
LEMMA AddressShrinks ==
    ASSUME NEW n \in NetState, CleanNet(n), NEW a \in Addresses, n.adr[a] # NIL,
           NEW v, v = closesocket(n, n.adr[a].sock)
    PROVE  CleanNet(Less(v, a)) /\ (NoneLost(n, {}) => NoneLost(Less(v, a), {}))
<1> DEFINE r == n.adr[a].sock
           u == Less(n, a)
           w == closesocket(u, r)
<1>1. r \in Ref /\ n.adr[a] \in AddressState
  BY NetFields
<1>2. /\ u.srv = n.srv /\ u.file = n.file /\ u.adr[a] = NIL /\ \A b \in Addresses : b # a => u.adr[b] = n.adr[b]
      /\ u \in NetState
  BY DEF NetState, Less, AddressPut
<1>3. CleanNet(u) /\ (NoneLost(n, {}) => NoneLost(u, {r.fd}))
  <2>1. [n EXCEPT !.adr[a] = n.adr[a]] = [n EXCEPT !.adr[a] = n.adr[a]]
    OBVIOUS
  <2> QED BY <1>1, AddressClean
<1>4. Held(u, r)
  BY <1>2 DEF CleanNet, Held
<1>5. Apart(u, r)
  BY <1>1, <1>2, NetFields DEF CleanNet, Apart, Differ, Ref
<1> HIDE DEF u, r
<1>6. CleanNet(w) /\ (NoneLost(u, {r.fd}) => NoneLost(w, {r.fd} \ {r.fd}))
  BY <1>1, <1>2, <1>3, <1>4, <1>5, CleanShrinks
<1>7. Less(v, a) = w
  BY <1>1, LessAfter DEF u, r
<1>8. {r.fd} \ {r.fd} = {}
  OBVIOUS
<1> QED BY <1>3, <1>6, <1>7, <1>8

(* lo_address_free_mem                                                     *)
LEMMA AddressGone ==
    ASSUME NEW n, NetGood(n), NEW a \in Addresses, NEW w, w = Less(n, a)
    PROVE  NetGood(w) /\ w.srv = n.srv
<1> DEFINE x == NIL
<1>1. x \in AddressState \union {NIL} /\ w = AddressPut(n, a, x) /\ (x # NIL => FALSE)
  BY DEF Less
<1> HIDE DEF x
<1>2. x # NIL => OpenRef(n, x.sock) /\ Harmless(n, x.sock)
  BY <1>1
<1>3. NetGood(w)
  BY <1>1, <1>2, AddressSet, Zenon
<1>4. w.srv = n.srv
  BY DEF NetGood, NetState, Less, AddressPut
<1> QED BY <1>3, <1>4

LEMMA Frees ==
    ASSUME NEW n, NetGood(n), NEW a \in Addresses, n.adr[a] # NIL, NEW w, w = AddressFree(n, a)
    PROVE  /\ NetGood(w)
           /\ \A s \in Servers : (w.srv[s] = NIL) <=> (n.srv[s] = NIL)
           /\ CleanNet(n) => CleanNet(w)
           /\ CleanNet(n) /\ NoneLost(n, {}) => NoneLost(w, {})
<1> DEFINE r == n.adr[a].sock
           v == IF n.adr[a].own THEN closesocket(n, r) ELSE n
<1>1. n \in NetState /\ NetFirm(n) /\ r \in Ref
  <2>1. n \in NetState
    BY DEF NetGood
  <2> QED BY <2>1, NetFields DEF NetGood, NetFirm
<1>2. w = Less(v, a)
  BY DEF AddressFree, Less, AddressPut
<1>3. NetGood(v) /\ \A s \in Servers : (v.srv[s] = NIL) <=> (n.srv[s] = NIL)
  <2>1. Harmless(n, r)
    BY <1>1, AddressHarmless
  <2>2. NetGood(closesocket(n, r))
    BY <2>1, <1>1, ClosesGood
  <2>3. \A s \in Servers : (closesocket(n, r).srv[s] = NIL) <=> (n.srv[s] = NIL)
    BY <2>1, <1>1, Closes
  <2> QED BY <2>2, <2>3
<1>4. CleanNet(n) => v = closesocket(n, r)
  BY DEF CleanNet
<1> HIDE DEF v, r
<1>5. NetGood(w) /\ w.srv = v.srv
  BY <1>2, <1>3, AddressGone
<1>6. CleanNet(n) => CleanNet(w) /\ (NoneLost(n, {}) => NoneLost(w, {}))
  BY <1>1, <1>2, <1>4, AddressShrinks DEF r
<1> QED BY <1>3, <1>5, <1>6
-----------------------------------------------------------------------------
(* lo_server_free: what is so when i of a server's sockets are closed, the *)
(* last one first                                                          *)
Cleared(v, p, r) ==
    [v EXCEPT !.client = [q \in DOMAIN @ |-> IF q = p /\ r.fd = @[q].fd THEN None ELSE @[q]]]
ShutOne(v, p, r) == closesocket(Cleared(v, p, r), r)
Unserved(n, s) == [n EXCEPT !.srv[s] = NIL]

Freed(n, s, i, v) ==
    LET list == n.srv[s].sockets IN
    /\ NetFirm(v) /\ v.srv[s] = NIL
    /\ \A t \in Servers \ {s} : (v.srv[t] = NIL) <=> (n.srv[t] = NIL)
    /\ ~ v.stranger =>
          /\ ~ n.stranger
          /\ \A t \in Servers \ {s} : n.srv[t] # NIL => First(v, t) = First(n, t) /\ v.srv[t].proto = n.srv[t].proto
          /\ v.client["udp"] # None =>
                \/ \E t \in Servers \ {s} : n.srv[t] # NIL /\ n.srv[t].proto = "udp" /\ First(n, t) = v.client["udp"]
                \/ i < Len(list) /\ n.srv[s].proto = "udp" /\ v.client["udp"] = First(n, s)
    /\ CleanNet(n) =>
          /\ CleanNet(v) /\ v.adr = n.adr /\ v.srv = [n.srv EXCEPT ![s] = NIL]
          /\ \A j \in 1 .. Len(list) - i : Held(v, list[j])
          /\ NoneLost(n, {}) => NoneLost(v, {list[j].fd : j \in 1 .. Len(list) - i})

LEMMA Clears ==
    ASSUME NEW v \in NetState, NEW p, NEW r, NEW u, u = Cleared(v, p, r)
    PROVE  /\ u \in NetState /\ u.file = v.file /\ u.srv = v.srv /\ u.adr = v.adr /\ u.stranger = v.stranger
           /\ \A q \in {"udp", "tcp"} : u.client[q] = IF q = p /\ r.fd = v.client[q].fd THEN None ELSE v.client[q]
<1> DEFINE c == [q \in DOMAIN v.client |-> IF q = p /\ r.fd = v.client[q].fd THEN None ELSE v.client[q]]
<1>1. DOMAIN v.client = {"udp", "tcp"} /\ v.client \in [{"udp", "tcp"} -> Ref]
  BY DEF NetState
<1>2. c \in [{"udp", "tcp"} -> Ref]
  BY <1>1, Nils
<1>3. \A q \in {"udp", "tcp"} : c[q] = IF q = p /\ r.fd = v.client[q].fd THEN None ELSE v.client[q]
  BY <1>1
<1>4. u = [v EXCEPT !.client = c]
  BY DEF Cleared
<1> HIDE DEF c
<1>5. /\ u \in NetState /\ u.file = v.file /\ u.srv = v.srv /\ u.adr = v.adr /\ u.stranger = v.stranger /\ u.client = c
  BY <1>2, <1>4 DEF NetState
<1> QED BY <1>3, <1>5

LEMMA FreedFirst ==
    ASSUME NEW n, NetGood(n), NEW s \in Servers, n.srv[s] # NIL, NEW v, v = Unserved(n, s)
    PROVE  Freed(n, s, 0, v)
<1> DEFINE list == n.srv[s].sockets
<1>1. n \in NetState
  BY DEF NetGood
<1>2. /\ v.file = n.file /\ v.adr = n.adr /\ v.client = n.client /\ v.stranger = n.stranger
      /\ v.srv = [n.srv EXCEPT ![s] = NIL]
      /\ v.srv[s] = NIL /\ \A t \in Servers : t # s => v.srv[t] = n.srv[t]
      /\ v \in NetState
  BY <1>1 DEF NetState, Unserved
<1>3. Len(list) \in Nat /\ \A i \in 1 .. Len(list) : list[i] \in Ref
  BY <1>1, NetFields
<1>4. NetOpen(v)
  BY <1>2 DEF NetOpen, NetGood, OpenRef
<1>5. FirstsKept(v)
  <2> SUFFICES ASSUME ~ v.stranger, NEW t \in Servers, v.srv[t] # NIL PROVE FirstKept(v, t)
    BY DEF FirstsKept
  <2>1. FirstKept(n, t) /\ First(v, t) = First(n, t) /\ t # s /\ v.srv[t] = n.srv[t]
    BY <1>2 DEF NetGood, FirstsKept, First
  <2> QED BY <2>1, <1>2 DEF FirstKept
<1>6. ASSUME ~ v.stranger, v.client["udp"] # None
      PROVE  \/ \E t \in Servers \ {s} : n.srv[t] # NIL /\ n.srv[t].proto = "udp" /\ First(n, t) = v.client["udp"]
             \/ 0 < Len(list) /\ n.srv[s].proto = "udp" /\ v.client["udp"] = First(n, s)
  <2>1. PICK t \in Servers : n.srv[t] # NIL /\ n.srv[t].proto = "udp" /\ First(n, t) = n.client["udp"]
    BY <1>2, <1>6 DEF NetGood, ClientKept
  <2>2. Len(list) >= 1
    BY <1>2, <1>6 DEF NetGood, FirstsKept, FirstKept
  <2> QED BY <2>1, <2>2, <1>2, <1>3
<1>7. ASSUME CleanNet(n)
      PROVE  /\ CleanNet(v) /\ \A j \in 1 .. Len(list) : Held(v, list[j])
             /\ NoneLost(n, {}) => NoneLost(v, {list[j].fd : j \in 1 .. Len(list)})
  <2>1. \A q : Held(n, q) => Held(v, q)
    BY <1>2 DEF Held
  <2>2. CleanNet(v) /\ \A j \in 1 .. Len(list) : Held(v, list[j])
    BY <2>1, <1>2, <1>7 DEF CleanNet
  <2>3. \A fd : KeptIn(n, fd) => KeptIn(v, fd) \/ fd \in {list[j].fd : j \in 1 .. Len(list)}
    BY <1>2 DEF KeptIn
  <2> QED BY <2>2, <2>3, <1>2 DEF NoneLost
<1>8. Len(list) - 0 = Len(list)
  BY <1>3
<1>9. \A t \in Servers \ {s} : n.srv[t] # NIL => First(v, t) = First(n, t) /\ v.srv[t].proto = n.srv[t].proto
  BY <1>2 DEF First
<1>10. ~ v.stranger => ~ n.stranger
  BY <1>2
<1>11. \A t \in Servers \ {s} : (v.srv[t] = NIL) <=> (n.srv[t] = NIL)
  BY <1>2
<1> QED BY <1>2, <1>4, <1>5, <1>6, <1>7, <1>8, <1>9, <1>10, <1>11 DEF Freed, NetFirm

LEMMA FreedNext ==
    ASSUME NEW n, NetGood(n), NEW s \in Servers, n.srv[s] # NIL, NEW i \in Nat, i < Len(n.srv[s].sockets),
           NEW v, Freed(n, s, i, v), NEW r, r = n.srv[s].sockets[Len(n.srv[s].sockets) - i],
           NEW w, w = ShutOne(v, n.srv[s].proto, r)
    PROVE  Freed(n, s, i + 1, w)
<1> DEFINE list == n.srv[s].sockets
           N == Len(list)
           k == N - i
           p == n.srv[s].proto
           u == Cleared(v, p, r)
<1>1. n \in NetState /\ N \in Nat /\ k \in 1 .. N /\ r = list[k] /\ r \in Ref
  <2>1. n \in NetState
    BY DEF NetGood
  <2>2. N \in Nat /\ \A j \in 1 .. N : list[j] \in Ref
    BY <2>1, NetFields
  <2>3. k \in 1 .. N
    <3>1. N \in Nat /\ i \in Nat /\ i < N
      BY <2>2
    <3> HIDE DEF list, N
    <3> QED BY <3>1
  <2>4. r = list[k]
    OBVIOUS
  <2> QED BY <2>1, <2>2, <2>3, <2>4
<1>2. /\ NetFirm(v) /\ v \in NetState /\ v.srv[s] = NIL
      /\ \A t \in Servers \ {s} : (v.srv[t] = NIL) <=> (n.srv[t] = NIL)
  BY DEF Freed, NetFirm
<1>3. ~ v.stranger =>
          /\ ~ n.stranger
          /\ \A t \in Servers \ {s} : n.srv[t] # NIL => First(v, t) = First(n, t) /\ v.srv[t].proto = n.srv[t].proto
          /\ v.client["udp"] # None =>
                \/ \E t \in Servers \ {s} : n.srv[t] # NIL /\ n.srv[t].proto = "udp" /\ First(n, t) = v.client["udp"]
                \/ i < N /\ p = "udp" /\ v.client["udp"] = First(n, s)
  BY DEF Freed
<1>4. CleanNet(n) =>
          /\ CleanNet(v) /\ v.adr = n.adr /\ v.srv = [n.srv EXCEPT ![s] = NIL]
          /\ \A j \in 1 .. k : Held(v, list[j])
          /\ NoneLost(n, {}) => NoneLost(v, {list[j].fd : j \in 1 .. k})
  BY DEF Freed
<1> HIDE DEF k
<1>5. /\ u \in NetState /\ u.file = v.file /\ u.srv = v.srv /\ u.adr = v.adr /\ u.stranger = v.stranger
      /\ \A q \in {"udp", "tcp"} : u.client[q] = IF q = p /\ r.fd = v.client[q].fd THEN None ELSE v.client[q]
  BY <1>2, Clears
<1>6. w = closesocket(u, r)
  BY DEF ShutOne
<1> HIDE DEF u
<1>7. NetFirm(u)
  <2>1. NetOpen(u)
    <3>1. NetOpen(v) /\ u.file = v.file /\ u.srv = v.srv /\ u.adr = v.adr
      BY <1>2, <1>5 DEF NetFirm
    <3>2. \A q : OpenRef(v, q) => OpenRef(u, q)
      BY <3>1 DEF OpenRef
    <3> QED BY <3>1, <3>2 DEF NetOpen
  <2>2. FirstsKept(u)
    <3> SUFFICES ASSUME ~ u.stranger, NEW t \in Servers, u.srv[t] # NIL PROVE FirstKept(u, t)
      BY DEF FirstsKept
    <3>1. FirstKept(v, t) /\ First(u, t) = First(v, t)
      BY <1>2, <1>5 DEF NetFirm, FirstsKept, First
    <3> QED BY <3>1, <1>5 DEF FirstKept
  <2> QED BY <2>1, <2>2, <1>5 DEF NetFirm
<1>8. ~ u.stranger => \A t \in Servers \ {s} : n.srv[t] # NIL => First(u, t) = First(n, t) /\ Beside(r, First(n, t).fd)
  <2> SUFFICES ASSUME ~ u.stranger, NEW t \in Servers \ {s}, n.srv[t] # NIL
      PROVE First(u, t) = First(n, t) /\ Beside(r, First(n, t).fd)
    OBVIOUS
  <2>1. First(u, t) = First(n, t)
    BY <1>3, <1>5 DEF First
  <2>2. FirstKept(n, t)
    BY <1>3, <1>5 DEF NetGood, FirstsKept
  <2> QED BY <2>1, <2>2, <1>1 DEF FirstKept
<1>9. Harmless(u, r)
  <2>1. \A t \in Servers : u.srv[t] # NIL => t \in Servers \ {s} /\ n.srv[t] # NIL
    BY <1>2, <1>5
  <2> QED BY <2>1, <1>8 DEF Harmless
<1>10. /\ NetFirm(w) /\ w.srv[s] = NIL
       /\ u.stranger => w.stranger
       /\ ~ w.stranger => \A t \in Servers : u.srv[t] # NIL => First(w, t) = First(u, t) /\ w.srv[t].proto = u.srv[t].proto
       /\ \A t \in Servers : (w.srv[t] = NIL) <=> (u.srv[t] = NIL)
       /\ w.client["udp"] = u.client["udp"] \/ (w.client["udp"] = Forgotten(u.client["udp"], r.fd) /\ Usable(u, r))
  <2>1. u.srv[s] = NIL
    BY <1>2, <1>5
  <2> QED BY <2>1, <1>1, <1>6, <1>7, <1>9, Closes
<1>11. ~ w.stranger => ~ u.stranger /\ (Usable(u, r) => r.mine)
  <2>1. w.stranger \in BOOLEAN /\ u.stranger \in BOOLEAN /\ r.mine \in BOOLEAN
    BY <1>1, <1>5, <1>10, NetFields DEF NetFirm, Ref
  <2>2. ASSUME Usable(u, r) PROVE w.stranger = (u.stranger \/ ~ r.mine)
    BY <2>2, <1>1, <1>5, <1>6, ClosesFd
  <2> QED BY <2>1, <2>2, <1>10
<1>12. \A t \in Servers \ {s} : (w.srv[t] = NIL) <=> (n.srv[t] = NIL)
  BY <1>2, <1>5, <1>10
<1>13. ~ w.stranger => /\ ~ n.stranger
                       /\ \A t \in Servers \ {s} : n.srv[t] # NIL => First(w, t) = First(n, t) /\ w.srv[t].proto = n.srv[t].proto
  <2> SUFFICES ASSUME ~ w.stranger, NEW t \in Servers \ {s}
      PROVE ~ n.stranger /\ (n.srv[t] # NIL => First(w, t) = First(n, t) /\ w.srv[t].proto = n.srv[t].proto)
    BY <1>3, <1>5, <1>11
  <2>1. ~ u.stranger /\ ~ v.stranger /\ ~ n.stranger
    BY <1>3, <1>5, <1>11
  <2>2. ASSUME n.srv[t] # NIL PROVE First(w, t) = First(n, t) /\ w.srv[t].proto = n.srv[t].proto
    <3>1. u.srv[t] # NIL /\ u.srv[t] = v.srv[t]
      BY <2>2, <1>2, <1>5
    <3>2. First(w, t) = First(u, t) /\ w.srv[t].proto = u.srv[t].proto
      BY <3>1, <1>10
    <3>3. First(u, t) = First(n, t) /\ v.srv[t].proto = n.srv[t].proto
      BY <2>1, <2>2, <1>3, <1>8
    <3> QED BY <3>1, <3>2, <3>3
  <2>3. ~ n.stranger
    BY <2>1
  <2> QED BY ONLY <2>2, <2>3
<1>14. ASSUME ~ w.stranger, w.client["udp"] # None
       PROVE  \/ \E t \in Servers \ {s} : n.srv[t] # NIL /\ n.srv[t].proto = "udp" /\ First(n, t) = w.client["udp"]
              \/ i + 1 < N /\ p = "udp" /\ w.client["udp"] = First(n, s)
  <2>1. u.client["udp"] # None
    <3>1. Usable(u, r) => Forgotten(None, r.fd) = None
      BY DEF Forgotten, None, Usable
    <3> QED BY <3>1, <1>10, <1>14
  <2>2. u.client["udp"] = v.client["udp"] /\ ~ (p = "udp" /\ r.fd = v.client["udp"].fd) /\ v.client["udp"] # None
    BY <2>1, <1>5
  <2>3. u.client["udp"] \in Ref /\ ~ u.stranger /\ ~ v.stranger /\ ~ n.stranger
    BY <1>3, <1>5, <1>11, <1>14, NetFields
  <2>4. ASSUME r.fd # u.client["udp"].fd PROVE w.client["udp"] = v.client["udp"]
    <3>1. Forgotten(u.client["udp"], r.fd) = u.client["udp"]
      BY <2>3, <2>4, Forgets
    <3> QED BY <3>1, <2>2, <1>10
  <2>5. CASE \E t \in Servers \ {s} : n.srv[t] # NIL /\ n.srv[t].proto = "udp" /\ First(n, t) = v.client["udp"]
    <3>1. PICK t \in Servers \ {s} : n.srv[t] # NIL /\ n.srv[t].proto = "udp" /\ First(n, t) = v.client["udp"]
      BY <2>5
    <3>2. w.client["udp"] = v.client["udp"]
      <4>1. CASE ~ Usable(u, r)
        BY <4>1, <2>2, <1>10
      <4>2. CASE Usable(u, r)
        <5>1. r.fd # First(n, t).fd
          BY <4>2, <3>1, <2>3, <1>8, <1>11, <1>14 DEF Beside
        <5> QED BY <5>1, <3>1, <2>2, <2>4
      <4> QED BY <4>1, <4>2
    <3> QED BY <3>1, <3>2
  <2>6. CASE p = "udp" /\ v.client["udp"] = First(n, s)
    <3>1. k # 1
      BY <2>2, <2>6, <1>1 DEF First
    <3>2. FirstKept(n, s)
      BY <2>3 DEF NetGood, FirstsKept
    <3>3. Beside(r, First(n, s).fd)
      BY <3>1, <3>2, <1>1 DEF FirstKept
    <3>4. w.client["udp"] = v.client["udp"]
      <4>1. CASE ~ Usable(u, r)
        BY <4>1, <2>2, <1>10
      <4>2. CASE Usable(u, r)
        BY <4>2, <3>3, <2>2, <2>4, <2>6, <1>11, <1>14 DEF Beside
      <4> QED BY <4>1, <4>2
    <3>5. i + 1 < N
      BY <3>1, <1>1 DEF k
    <3> QED BY <3>4, <3>5, <2>6
  <2> QED BY <2>2, <2>3, <2>5, <2>6, <1>3
<1>15. ASSUME CleanNet(n)
       PROVE  /\ CleanNet(w) /\ w.adr = n.adr /\ w.srv = [n.srv EXCEPT ![s] = NIL]
              /\ \A j \in 1 .. N - (i + 1) : Held(w, list[j])
              /\ NoneLost(n, {}) => NoneLost(w, {list[j].fd : j \in 1 .. N - (i + 1)})
  <2>1. CleanNet(u) /\ u.adr = n.adr /\ u.srv = [n.srv EXCEPT ![s] = NIL] /\ \A j \in 1 .. k : Held(u, list[j])
    <3>1. \A q : Held(v, q) => Held(u, q)
      BY <1>5 DEF Held
    <3>2. CleanNet(u)
      <4>1. CleanNet(v) /\ u.srv = v.srv /\ u.adr = v.adr /\ u.stranger = v.stranger
        BY <1>4, <1>5, <1>15
      <4> QED BY <3>1, <4>1 DEF CleanNet
    <3> QED BY <3>1, <3>2, <1>4, <1>5, <1>15
  <2>2. \A j \in 1 .. N : j # k => Differ(r, list[j]) /\ Differ(list[j], r)
    BY <1>1, <1>15 DEF CleanNet
  <2>3. Held(u, r)
    BY <2>1, <1>1
  <2>4. Apart(u, r)
    <3>1. \A a \in Addresses : n.adr[a] # NIL => Differ(r, n.adr[a].sock)
      BY <1>1, <1>15 DEF CleanNet
    <3>2. \A t \in Servers : t # s /\ n.srv[t] # NIL => \A j \in 1 .. Len(n.srv[t].sockets) : Differ(r, n.srv[t].sockets[j])
      BY <1>1, <1>15 DEF CleanNet
    <3>3. \A t \in Servers : u.srv[t] # NIL => t # s /\ u.srv[t] = n.srv[t]
      BY <1>1, <1>2, <1>5, <2>1 DEF NetState
    <3> QED BY <3>1, <3>2, <3>3, <2>1 DEF Apart
  <2>5. /\ CleanNet(w) /\ w.adr = u.adr /\ w.srv = u.srv
        /\ \A fd \in Fd : fd # r.fd => w.file[fd] = u.file[fd]
        /\ \A S : NoneLost(u, S) => NoneLost(w, S \ {r.fd})
    BY <2>1, <2>3, <2>4, <1>1, <1>5, <1>6, CleanShrinks
  <2>6. N - (i + 1) = k - 1 /\ k \in Nat
    BY <1>1 DEF k
  <2>7. ASSUME NEW j \in 1 .. k - 1 PROVE Held(w, list[j])
    <3>1. j \in 1 .. k /\ j \in 1 .. N /\ j # k
      BY <1>1, <2>6
    <3>2. Held(u, list[j]) /\ Differ(list[j], r) /\ list[j] \in Ref
      BY <3>1, <2>1, <2>2, <1>1, NetFields
    <3> QED BY <3>2, <2>5 DEF Held, Differ, Ref
  <2>8. ASSUME NoneLost(n, {}) PROVE NoneLost(w, {list[j].fd : j \in 1 .. k - 1})
    <3> DEFINE S == {list[j].fd : j \in 1 .. k}
    <3>1. NoneLost(u, S)
      <4>1. NoneLost(v, S)
        BY <2>8, <1>4, <1>15
      <4> QED BY <4>1, <1>5 DEF NoneLost, KeptIn
    <3>2. NoneLost(w, S \ {r.fd})
      BY <3>1, <2>5
    <3>3. \A fd \in S \ {r.fd} : fd \in {list[j].fd : j \in 1 .. k - 1}
      BY <1>1, <2>6
    <3> QED BY <3>2, <3>3 DEF NoneLost
  <2> QED BY <2>1, <2>5, <2>6, <2>7, <2>8
<1> QED BY <1>10, <1>12, <1>13, <1>14, <1>15 DEF Freed

LEMMA Shuts ==
    ASSUME NEW v \in NetState, NEW p, NEW r \in Ref
    PROVE  ShutOne(v, p, r) \in NetState
<1> DEFINE u == Cleared(v, p, r)
<1>1. u \in NetState
  BY Clears
<1> HIDE DEF u
<1>2. closesocket(u, r) \in NetState
  BY <1>1, ClosesFd
<1> QED BY <1>2 DEF ShutOne, u

LEMMA ServerFrees ==
    ASSUME NEW n, NetGood(n), NEW s \in Servers, n.srv[s] # NIL, NEW w, w = ServerFree(n, s)
    PROVE  /\ NetGood(w) /\ w.srv[s] = NIL
           /\ \A t \in Servers \ {s} : (w.srv[t] = NIL) <=> (n.srv[t] = NIL)
           /\ CleanNet(n) => CleanNet(w) /\ (NoneLost(n, {}) => NoneLost(w, {}))
<1> DEFINE p == n.srv[s].proto
           list == n.srv[s].sockets
           N == Len(list)
           G(f) == f = [i \in 0 .. N |-> IF i = 0 THEN Unserved(n, s) ELSE ShutOne(f[i - 1], p, list[N - i + 1])]
           f == CHOOSE g : G(g)
           step == [x \in NetState \X (1 .. N) |-> ShutOne(x[1], p, list[N - x[2] + 1])]
<1>1. N \in Nat /\ \A j \in 1 .. N : list[j] \in Ref
  <2>1. n \in NetState
    BY DEF NetGood
  <2> QED BY <2>1, NetFields
<1>2. w = f[N]
  BY DEF ServerFree, ShutOne, Cleared, Unserved
<1>3. Freed(n, s, 0, Unserved(n, s))
  BY FreedFirst
<1>4. Unserved(n, s) \in NetState
  BY <1>3 DEF Freed, NetFirm
<1>5. /\ step \in [NetState \X (1 .. N) -> NetState]
      /\ \A v \in NetState, i \in 1 .. N : step[<<v, i>>] = ShutOne(v, p, list[N - i + 1])
  <2>1. \A i \in 1 .. N : N - i + 1 \in 1 .. N
    BY <1>1
  <2>2. ASSUME NEW x \in NetState \X (1 .. N) PROVE ShutOne(x[1], p, list[N - x[2] + 1]) \in NetState
    <3>1. x[1] \in NetState /\ x[2] \in 1 .. N
      OBVIOUS
    <3>2. list[N - x[2] + 1] \in Ref
      BY <3>1, <2>1, <1>1
    <3> QED BY <3>1, <3>2, Shuts
  <2> HIDE DEF N, list, p
  <2> QED BY <2>2
<1> HIDE DEF N, step
<1>6. PICK g : ByStep(g, NetState, N, Unserved(n, s), step)
  BY <1>1, <1>4, <1>5, FoldExists, Zenon
<1>7. \A i \in 0 .. N : i # 0 => i - 1 \in 0 .. N /\ i \in 1 .. N
  BY <1>1
<1>8. G(g)
  <2>1. g = [i \in 0 .. N |-> IF i = 0 THEN Unserved(n, s) ELSE step[<<g[i - 1], i>>]] /\ \A i \in 0 .. N : g[i] \in NetState
    BY <1>6 DEF ByStep
  <2>2. \A i \in 0 .. N : i # 0 => step[<<g[i - 1], i>>] = ShutOne(g[i - 1], p, list[N - i + 1])
    BY <2>1, <1>5, <1>7
  <2> HIDE DEF p, list
  <2> QED BY <2>1, <2>2
<1>9. G(f)
  BY <1>8
<1> HIDE DEF f
<1> DEFINE S == {i \in Nat : i <= N => Freed(n, s, i, f[i])}
<1>10. f[0] = Unserved(n, s) /\ \A i \in 1 .. N : f[i] = ShutOne(f[i - 1], p, list[N - i + 1])
  <2>1. 0 \in 0 .. N /\ \A i \in 1 .. N : i \in 0 .. N /\ i # 0
    BY <1>1
  <2> HIDE DEF p, list
  <2> QED BY <2>1, <1>9
<1>11. 0 \in S
  BY <1>3, <1>10
<1>12. ASSUME NEW i \in S PROVE i + 1 \in S
  <2> SUFFICES ASSUME i + 1 <= N PROVE Freed(n, s, i + 1, f[i + 1])
    OBVIOUS
  <2>1. i \in Nat /\ i < N /\ Freed(n, s, i, f[i]) /\ i + 1 \in 1 .. N /\ (i + 1) - 1 = i /\ N - (i + 1) + 1 = N - i
    BY <1>1
  <2>2. f[i + 1] = ShutOne(f[i], p, list[N - i])
    BY <2>1, <1>10
  <2> QED BY <2>1, <2>2, FreedNext DEF N
<1>13. N \in S
  <2> HIDE DEF S
  <2>1. S \in SUBSET Nat
    BY DEF S
  <2> QED BY <2>1, <1>1, <1>11, <1>12, Induction
<1>14. Freed(n, s, N, w)
  BY <1>1, <1>2, <1>13
<1>15. NetFirm(w) /\ w.srv[s] = NIL /\ \A t \in Servers \ {s} : (w.srv[t] = NIL) <=> (n.srv[t] = NIL)
  BY <1>14 DEF Freed
<1>16. ClientKept(w)
  <2> SUFFICES ASSUME ~ w.stranger, w.client["udp"] # None
      PROVE \E t \in Servers : w.srv[t] # NIL /\ w.srv[t].proto = "udp" /\ First(w, t) = w.client["udp"]
    BY DEF ClientKept
  <2>1. PICK t \in Servers \ {s} : n.srv[t] # NIL /\ n.srv[t].proto = "udp" /\ First(n, t) = w.client["udp"]
    BY <1>1, <1>14 DEF Freed, N
  <2>2. First(w, t) = First(n, t) /\ w.srv[t].proto = n.srv[t].proto /\ w.srv[t] # NIL
    BY <2>1, <1>14 DEF Freed
  <2> QED BY <2>1, <2>2
<1>17. ASSUME CleanNet(n) PROVE CleanNet(w) /\ (NoneLost(n, {}) => NoneLost(w, {}))
  <2>1. {list[j].fd : j \in 1 .. N - N} = {}
    BY <1>1
  <2>2. CleanNet(w) /\ (NoneLost(n, {}) => NoneLost(w, {list[j].fd : j \in 1 .. N - N}))
    BY <1>14, <1>17 DEF Freed, N
  <2> QED BY <2>1, <2>2
<1> QED BY <1>15, <1>16, <1>17 DEF NetGood, NetFirm

-----------------------------------------------------------------------------
(* A new server                                                            *)
LEMMA OpensAny ==
    ASSUME NEW n, NetGood(n), NEW kind \in Kind
    PROVE  /\ NetGood(Opened(n, kind)) /\ Opened(n, kind).srv = n.srv
           /\ CleanNet(n) => CleanNet(Opened(n, kind))
<1>1. CASE FreeFd(n) = {}
  <2>1. Opened(n, kind) = n
    BY <1>1 DEF Opened
  <2> QED BY <2>1
<1>2. CASE FreeFd(n) # {}
  BY <1>2, Opens
<1> QED BY <1>1, <1>2

LEMMA KindOfAny == ASSUME NEW proto PROVE KindOf(proto) \in Kind /\ KindOf(proto) # "other"
  BY DEF KindOf, Kind

(* The sockets that are opened, and left open, for the ports tried in vain *)
LEMMA Tries0 ==
    ASSUME NEW n, NetGood(n), NEW proto, NEW k \in Nat, NEW v, v = Tried(n, proto, k)
    PROVE  /\ NetGood(v) /\ v.srv = n.srv
           /\ CleanNet(n) => CleanNet(v)
           /\ k = 0 => v = n
<1> DEFINE kind == KindOf(proto)
           G(f) == f = [i \in 0 .. k |-> IF i = 0 THEN n ELSE Opened(f[i - 1], kind)]
           f == CHOOSE g : G(g)
           T == {m \in NetState : NetGood(m)}
           step == [x \in T \X (1 .. k) |-> Opened(x[1], kind)]
<1>1. v = f[k]
  BY DEF Tried
<1> DEFINE S == {i \in Nat : i <= k => NetGood(f[i]) /\ f[i].srv = n.srv /\ (CleanNet(n) => CleanNet(f[i]))}
<1>2. kind \in Kind
  BY KindOfAny
<1> HIDE DEF kind
<1>3. n \in T
  BY DEF NetGood
<1>4. \A m \in T : Opened(m, kind) \in T
  <2> SUFFICES ASSUME NEW m \in T PROVE Opened(m, kind) \in T
    OBVIOUS
  <2>1. NetGood(Opened(m, kind))
    BY <1>2, OpensAny
  <2> QED BY <2>1 DEF NetGood
<1> HIDE DEF T
<1>5. step \in [T \X (1 .. k) -> T] /\ \A m \in T, i \in 1 .. k : step[<<m, i>>] = Opened(m, kind)
  BY <1>4
<1> HIDE DEF step
<1>6. PICK g : ByStep(g, T, k, n, step)
  BY <1>3, <1>5, FoldExists, Zenon
<1>7. \A i \in 0 .. k : i # 0 => i - 1 \in 0 .. k /\ i \in 1 .. k
  OBVIOUS
<1>8. G(g)
  <2>1. g = [i \in 0 .. k |-> IF i = 0 THEN n ELSE step[<<g[i - 1], i>>]] /\ \A i \in 0 .. k : g[i] \in T
    BY <1>6 DEF ByStep
  <2>2. \A i \in 0 .. k : i # 0 => step[<<g[i - 1], i>>] = Opened(g[i - 1], kind)
    BY <2>1, <1>5, <1>7
  <2> QED BY <2>1, <2>2
<1>9. G(f)
  BY <1>8
<1> HIDE DEF f
<1>10. f[0] = n /\ \A i \in 1 .. k : f[i] = Opened(f[i - 1], kind)
  <2>1. 0 \in 0 .. k /\ \A i \in 1 .. k : i \in 0 .. k /\ i # 0
    OBVIOUS
  <2> QED BY <2>1, <1>9
<1>11. 0 \in S
  BY <1>10
<1>12. ASSUME NEW i \in S PROVE i + 1 \in S
  <2> SUFFICES ASSUME i + 1 <= k
      PROVE NetGood(f[i + 1]) /\ f[i + 1].srv = n.srv /\ (CleanNet(n) => CleanNet(f[i + 1]))
    OBVIOUS
  <2>1. i \in Nat /\ i + 1 \in 1 .. k /\ (i + 1) - 1 = i /\ NetGood(f[i]) /\ f[i].srv = n.srv /\ (CleanNet(n) => CleanNet(f[i]))
    OBVIOUS
  <2>2. f[i + 1] = Opened(f[i], kind)
    BY <2>1, <1>10
  <2> QED BY <2>1, <2>2, <1>2, OpensAny
<1>13. k \in S
  <2> HIDE DEF S
  <2>1. S \in SUBSET Nat
    BY DEF S
  <2> QED BY <2>1, <1>11, <1>12, Induction
<1> QED BY <1>1, <1>10, <1>13

(* The server of a socket that is newly opened                             *)
LEMMA Makes ==
    ASSUME NEW n, NetGood(n), NEW s \in Servers, n.srv[s] = NIL, FreeFd(n) # {},
           NEW proto \in {"udp", "tcp", "unix"}, NEW kind \in Kind, kind # "other", NEW w, w = Made(n, s, proto, kind)
    PROVE  /\ NetGood(w) /\ w.srv[s] # NIL /\ w.srv[s].proto = proto /\ First(w, s) = NewSock(n)
           /\ \A t \in Servers : t # s => w.srv[t] = n.srv[t]
           /\ CleanNet(n) => CleanNet(w)
           /\ NoneLost(n, {}) => NoneLost(w, {})
<1> DEFINE u == Opened(n, kind)
           r == NewSock(n)
<1>1. /\ NetGood(u) /\ Untaken(u, r) /\ u.srv = n.srv
      /\ CleanNet(n) => CleanNet(u)
      /\ NoneLost(n, {}) => NoneLost(u, {r.fd})
      /\ u.file = [n.file EXCEPT ![r.fd] = kind]
  BY Opens
<1>2. u.file[r.fd] # "other"
  <2>1. r.fd \in Fd /\ n \in NetState
    BY LowestFree DEF NetGood
  <2> QED BY <2>1, <1>1 DEF NetState
<1>3. w = ServerPut(u, s, proto, r)
  BY DEF Made, ServerPut
<1>4. u.srv[s] = NIL
  BY <1>1
<1> HIDE DEF u, r
<1>5. /\ NetGood(w)
      /\ CleanNet(u) /\ u.file[r.fd] # "other" => CleanNet(w)
      /\ NoneLost(u, {r.fd}) => NoneLost(w, {})
  BY <1>1, <1>3, <1>4, Serves
<1>6. w.srv[s] # NIL /\ w.srv[s].proto = proto /\ First(w, s) = r /\ \A t \in Servers : t # s => w.srv[t] = u.srv[t]
  <2> DEFINE x == [proto |-> proto, sockets |-> <<r>>, sources |-> [fd \in Fd |-> NIL]]
  <2>1. x \in ServerState
    BY <1>1 DEF Untaken, ServerState, Ref
  <2>2. x # NIL /\ x.proto = proto /\ x.sockets[1] = r
    BY <2>1, Nils
  <2> HIDE DEF x
  <2>3. w.srv = [u.srv EXCEPT ![s] = x] /\ u.srv \in [Servers -> ServerState \union {NIL}]
    BY <1>1, <1>3 DEF NetGood, NetState, ServerPut, x
  <2> QED BY <2>2, <2>3 DEF First
<1> QED BY <1>1, <1>2, <1>5, <1>6 DEF r

NewGood(n, s, o) ==
    /\ NetGood(o.net) /\ o.cause \subseteq {"ports", "interface"}
    /\ \A t \in Servers \ {s} : (o.net.srv[t] = NIL) <=> (n.srv[t] = NIL)
    /\ CleanNet(n) => CleanNet(o.net)
    /\ o.cause = {} /\ NoneLost(n, {}) => NoneLost(o.net, {})

LEMMA Binds ==
    ASSUME NEW n, NetGood(n), NEW s \in Servers, n.srv[s] = NIL, FreeFd(n) # {}, NEW proto \in {"udp", "tcp"}
    PROVE  NewGood(n, s, Outcome(Bound(n, s, proto), {}))
<1> DEFINE u == Made(n, s, proto, KindOf(proto))
           r == NewSock(n)
           w == Bound(n, s, proto)
<1>0. proto \in {"udp", "tcp", "unix"} /\ KindOf(proto) \in Kind /\ KindOf(proto) # "other"
  BY KindOfAny
<1>1. /\ NetGood(u) /\ u.srv[s] # NIL /\ u.srv[s].proto = proto /\ First(u, s) = r
      /\ \A t \in Servers : t # s => u.srv[t] = n.srv[t]
      /\ CleanNet(n) => CleanNet(u)
      /\ NoneLost(n, {}) => NoneLost(u, {})
  BY <1>0, Makes
<1>2. r \in Ref
  <2>1. n \in NetState
    BY DEF NetGood
  <2>2. r = [fd |-> Lowest(n), mine |-> TRUE] /\ Lowest(n) \in Fd
    BY <2>1, LowestFree
  <2> QED BY <2>2 DEF Ref
<1>3. w = [u EXCEPT !.client[proto] = r]
  BY DEF Bound
<1> HIDE DEF u, r, w
<1>4. NetGood(w) /\ w.srv = u.srv /\ (CleanNet(u) => CleanNet(w)) /\ (NoneLost(u, {}) => NoneLost(w, {}))
  BY <1>1, <1>2, <1>3, SendsFrom
<1> QED BY <1>1, <1>4 DEF NewGood, Outcome, w

LEMMA Joins ==
    ASSUME NEW n, NetGood(n), NEW s, NEW proto, NEW o \in JoinFails(n, proto)
    PROVE  NewGood(n, s, o)
<1>1. KindOf(proto) \in Kind
  BY KindOfAny
<1>2. NetGood(Opened(n, KindOf(proto))) /\ Opened(n, KindOf(proto)).srv = n.srv /\ (CleanNet(n) => CleanNet(Opened(n, KindOf(proto))))
  BY <1>1, OpensAny
<1>3. o = Outcome(n, {}) \/ o = Outcome(Opened(n, KindOf(proto)), {"interface"})
  BY DEF JoinFails
<1>4. CASE o = Outcome(n, {})
  BY <1>4 DEF NewGood, Outcome
<1>5. CASE o = Outcome(Opened(n, KindOf(proto)), {"interface"})
  <2>1. o.net = Opened(n, KindOf(proto)) /\ o.cause = {"interface"}
    BY <1>5 DEF Outcome
  <2> QED BY <2>1, <1>2 DEF NewGood
<1> QED BY <1>3, <1>4, <1>5

LEMMA Invents ==
    ASSUME NEW n, NetGood(n), NEW s \in Servers, n.srv[s] = NIL, NEW proto \in {"udp", "tcp", "unix"}, NEW group,
           NEW o \in ServerNew(n, s, proto, group)
    PROVE  NewGood(n, s, o)
<1>0. NewGood(n, s, Outcome(n, {}))
  BY DEF NewGood, Outcome
<1>1. CASE proto = "unix"
  <2>1. o = Outcome(n, {}) \/ (FreeFd(n) # {} /\ o = Outcome(Made(n, s, "unix", "unix"), {}))
    BY <1>1 DEF ServerNew, NewUnix
  <2>2. ASSUME FreeFd(n) # {}, o = Outcome(Made(n, s, "unix", "unix"), {}) PROVE NewGood(n, s, o)
    <3>1. "unix" \in Kind /\ "unix" # "other"
      BY DEF Kind
    <3> DEFINE w == Made(n, s, "unix", "unix")
    <3>2. /\ NetGood(w)
          /\ \A t \in Servers : t # s => w.srv[t] = n.srv[t]
          /\ CleanNet(n) => CleanNet(w)
          /\ NoneLost(n, {}) => NoneLost(w, {})
      BY <2>2, <3>1, Makes
    <3>3. o.net = w /\ o.cause = {}
      BY <2>2 DEF Outcome
    <3> HIDE DEF w
    <3> QED BY <3>2, <3>3 DEF NewGood
  <2> QED BY <1>0, <2>1, <2>2
<1>2. CASE proto \in {"udp", "tcp"}
  <2>1. PICK k \in 0 .. Tries - 1 :
           LET v == Tried(n, proto, k)
               c == IF k > 0 THEN {"ports"} ELSE {}
               ends == {Outcome(v, {})} \union
                       (IF FreeFd(v) = {} THEN {}
                        ELSE {Outcome(Bound(v, s, proto), {})} \union (IF group THEN JoinFails(v, proto) ELSE {}))
           IN o \in {[e EXCEPT !.cause = @ \union c] : e \in ends}
    BY <1>2 DEF ServerNew, NewInet
  <2> DEFINE v == Tried(n, proto, k)
             c == IF k > 0 THEN {"ports"} ELSE {}
  <2>2. PICK e : /\ o = [e EXCEPT !.cause = @ \union c]
                 /\ \/ e = Outcome(v, {})
                    \/ FreeFd(v) # {} /\ (e = Outcome(Bound(v, s, proto), {}) \/ e \in JoinFails(v, proto))
    BY <2>1
  <2>3. NetGood(v) /\ v.srv = n.srv /\ (CleanNet(n) => CleanNet(v)) /\ (k = 0 => v = n) /\ k \in Nat
    <3>1. k \in Nat
      BY SocketAssumption DEF SocketAssumption
    <3> QED BY <3>1, Tries0
  <2> HIDE DEF v
  <2>4. NewGood(v, s, e)
    <3>1. NewGood(v, s, Outcome(v, {}))
      BY <2>3 DEF NewGood, Outcome
    <3>2. v.srv[s] = NIL
      BY <2>3
    <3> QED BY <2>2, <2>3, <3>1, <3>2, <1>2, Binds, Joins
  <2>5. e = [net |-> e.net, cause |-> e.cause]
    BY <2>2 DEF Outcome, JoinFails
  <2>6. o.net = e.net /\ o.cause = e.cause \union c
    BY <2>2, <2>5
  <2>7. c \subseteq {"ports"} /\ (c = {} => k = 0)
    BY <2>3
  <2> HIDE DEF c
  <2>8. NetGood(o.net) /\ o.cause \subseteq {"ports", "interface"}
    BY <2>4, <2>6, <2>7 DEF NewGood
  <2>9. \A t \in Servers \ {s} : (o.net.srv[t] = NIL) <=> (n.srv[t] = NIL)
    BY <2>3, <2>4, <2>6 DEF NewGood
  <2>10. CleanNet(n) => CleanNet(o.net)
    BY <2>3, <2>4, <2>6 DEF NewGood
  <2>11. ASSUME o.cause = {}, NoneLost(n, {}) PROVE NoneLost(o.net, {})
    <3>1. e.cause = {} /\ c = {}
      BY <2>6, <2>11
    <3> QED BY <3>1, <2>3, <2>4, <2>6, <2>7, <2>11 DEF NewGood
  <2> QED BY <2>8, <2>9, <2>10, <2>11 DEF NewGood
<1> QED BY <1>1, <1>2

-----------------------------------------------------------------------------
(* Sending to an address, or to the source of a message                    *)
Place(n, at) ==
    \/ at.srv = NIL /\ at.key \in Addresses /\ n.adr[at.key] # NIL
    \/ at.srv \in Servers /\ n.srv[at.srv] # NIL /\ at.key \in Fd /\ n.srv[at.srv].sources[at.key] # NIL
Sender(n, from) == from = NIL \/ (from \in Servers /\ n.srv[from] # NIL)

LEMMA PlaceHas ==
    ASSUME NEW n, NetGood(n), NEW at, Place(n, at)
    PROVE  /\ AddressAt(n, at) \in AddressState /\ AddressAt(n, at) # NIL /\ AddressAt(n, at).sock \in Ref
           /\ OpenRef(n, AddressAt(n, at).sock) /\ Harmless(n, AddressAt(n, at).sock)
           /\ CleanNet(n) => AddressAt(n, at).sock.mine /\ (at.srv # NIL => AddressAt(n, at).sock # None)
<1>0. n \in NetState /\ NetFirm(n)
  BY DEF NetGood, NetFirm
<1>1. CASE at.srv = NIL /\ at.key \in Addresses /\ n.adr[at.key] # NIL
  <2>1. AddressAt(n, at) = n.adr[at.key]
    BY <1>1 DEF AddressAt
  <2>2. n.adr[at.key] \in AddressState /\ n.adr[at.key].sock \in Ref
    BY <1>0, <1>1, NetFields
  <2>3. OpenRef(n, n.adr[at.key].sock)
    BY <1>1 DEF NetGood, NetOpen
  <2>4. Harmless(n, n.adr[at.key].sock)
    BY <1>0, <1>1, AddressHarmless
  <2>5. CleanNet(n) => n.adr[at.key].sock.mine
    BY <1>1 DEF CleanNet, Held, None
  <2> QED BY <1>1, <2>1, <2>2, <2>3, <2>4, <2>5
<1>2. CASE at.srv \in Servers /\ n.srv[at.srv] # NIL /\ at.key \in Fd /\ n.srv[at.srv].sources[at.key] # NIL
  <2> DEFINE x == n.srv[at.srv].sources[at.key]
  <2>1. AddressAt(n, at) = x
    BY <1>2, Nils DEF AddressAt
  <2>2. x \in AddressState /\ x.sock \in Ref
    BY <1>0, <1>2, NetFields
  <2>3. OpenRef(n, x.sock)
    BY <1>2 DEF NetGood, NetOpen
  <2>4. Harmless(n, x.sock)
    BY <1>0, <1>2, KeptHarmless
  <2>5. CleanNet(n) => x.sock.mine /\ x.sock # None
    <3>1. CleanNet(n) => x.sock = [fd |-> at.key, mine |-> TRUE]
      BY <1>2 DEF CleanNet
    <3> QED BY <3>1, <1>2, Nils DEF None
  <2> HIDE DEF x
  <2> QED BY <1>2, <2>1, <2>2, <2>3, <2>4, <2>5 DEF x
<1> QED BY <1>1, <1>2 DEF Place

LEMMA Sets ==
    ASSUME NEW n, NetGood(n), NEW at, Place(n, at), NEW r \in Ref, OpenRef(n, r), Harmless(n, r),
           NEW w, w = SetSock(n, at, r)
    PROVE  /\ NetGood(w) /\ Place(w, at) /\ AddressAt(w, at).sock = r
           /\ w.file = n.file /\ w.stranger = n.stranger
           /\ \A s \in Servers : (w.srv[s] = NIL) <=> (n.srv[s] = NIL)
<1>0. n \in NetState
  BY DEF NetGood
<1>1. CASE at.srv = NIL /\ at.key \in Addresses /\ n.adr[at.key] # NIL
  <2> DEFINE a == at.key
             x == [n.adr[a] EXCEPT !.sock = r]
  <2>1. n.adr[a] \in AddressState
    BY <1>0, <1>1, NetFields
  <2>2. x \in AddressState /\ x.sock = r
    BY <2>1 DEF AddressState, Ref
  <2>3. w = AddressPut(n, a, x)
    BY <1>0, <1>1 DEF SetSock, AddressPut, NetState
  <2> HIDE DEF x
  <2>4. NetGood(w) /\ w.srv = n.srv /\ w.file = n.file /\ w.stranger = n.stranger
    <3>1. x \in AddressState \union {NIL} /\ OpenRef(n, x.sock) /\ Harmless(n, x.sock)
      BY <2>2
    <3>2. NetGood(w)
      BY <3>1, <1>1, <2>3, AddressSet
    <3> QED BY <3>2, <1>0, <2>3 DEF AddressPut, NetState
  <2>5. w.adr[a] = x
    BY <1>0, <1>1, <2>3 DEF AddressPut, NetState
  <2>6. x # NIL
    BY <2>2, Nils
  <2> QED BY <1>1, <2>2, <2>4, <2>5, <2>6 DEF Place, AddressAt
<1>2. CASE at.srv \in Servers /\ n.srv[at.srv] # NIL /\ at.key \in Fd /\ n.srv[at.srv].sources[at.key] # NIL
  <2>1. w = SourcePut(n, at.srv, at.key, r)
    BY <1>2, Nils DEF SetSock, SourcePut
  <2>2. /\ NetGood(w) /\ w.file = n.file /\ w.stranger = n.stranger
        /\ \A t \in Servers : (w.srv[t] = NIL) <=> (n.srv[t] = NIL)
        /\ w.srv[at.srv].sources[at.key] # NIL /\ w.srv[at.srv].sources[at.key].sock = r
    BY <1>2, <2>1, SourceSet
  <2> QED BY <1>2, <2>2, Nils DEF Place, AddressAt
<1> QED BY <1>1, <1>2 DEF Place

LEMMA NoneHarmless ==
    ASSUME NEW n, NetGood(n)
    PROVE  None \in Ref /\ OpenRef(n, None) /\ Harmless(n, None)
  BY Nils DEF None, OpenRef, Harmless, Beside, NetGood, FirstsKept, FirstKept

(* send_data fails. *)
LEMMA Fails ==
    ASSUME NEW n, NetGood(n), NEW at, Place(n, at), NEW from, Sender(n, from),
           n.stranger \/ ~ (Usable(n, AddressAt(n, at).sock) /\ ~ AddressAt(n, at).sock.mine),
           NEW w, w = SendFailed(n, at, from)
    PROVE  /\ NetGood(w)
           /\ \A s \in Servers : (w.srv[s] = NIL) <=> (n.srv[s] = NIL)
           /\ at.srv = NIL /\ CleanNet(n) => CleanNet(w) /\ (NoneLost(n, {}) => NoneLost(w, {}))
<1> DEFINE a == AddressAt(n, at)
           r == a.sock
           v == IF from = NIL THEN n ELSE DelSocket(n, from, r.fd)
           b == AddressAt(v, at)
           u == closesocket(v, b.sock)
<1>0. n \in NetState /\ NetFirm(n)
  BY DEF NetGood, NetFirm
<1>1. r \in Ref /\ Harmless(n, r)
  BY PlaceHas
<1>2. w = IF a.proto # "tcp" THEN n ELSE IF b = NIL THEN v ELSE SetSock(u, at, None)
  BY DEF SendFailed
<1>3. CASE a.proto # "tcp"
  BY <1>2, <1>3
<1>4. CASE a.proto = "tcp"
  <2>1. /\ NetGood(v) /\ v.adr = n.adr /\ v.file = n.file /\ v.stranger = n.stranger
        /\ \A t \in Servers : (v.srv[t] = NIL) <=> (n.srv[t] = NIL)
    <3>1. CASE from = NIL
      BY <3>1
    <3>2. CASE from # NIL
      <4>1. from \in Servers /\ n.srv[from] # NIL
        BY <3>2 DEF Sender
      <4>2. ASSUME ~ n.stranger PROVE First(n, from).fd # r.fd
        BY <4>1, <4>2, <1>0, <1>1, NotFirst
      <4>3. r.fd \in Fd \union {-1}
        BY <1>1 DEF Ref
      <4> DEFINE d == DelSocket(n, from, r.fd)
      <4>4. /\ NetGood(d) /\ d.adr = n.adr /\ d.file = n.file /\ d.stranger = n.stranger
            /\ \A t \in Servers : (d.srv[t] = NIL) <=> (n.srv[t] = NIL)
        <5> HIDE DEF r
        <5>1. r.fd \in Fd \union {-1} /\ (~ n.stranger => First(n, from).fd # r.fd) /\ d = DelSocket(n, from, r.fd)
          BY <4>2, <4>3
        <5> HIDE DEF r, d
        <5>2. Removed(n, from, r.fd, d)
          BY <4>1, <5>1, Dels
        <5> QED BY <5>2 DEF Removed
      <4> QED BY <3>2, <4>4
    <3> QED BY <3>1, <3>2
  <2>2. CASE b = NIL
    <3>1. at.srv # NIL
      BY <2>1, <2>2, Nils DEF AddressAt, Place
    <3> QED BY <1>2, <1>4, <2>1, <2>2, <3>1
  <2>3. CASE b # NIL
    <3> HIDE DEF v
    <3>1. Place(v, at)
      BY <2>1, <2>3, Nils DEF AddressAt, Place
    <3>2. b.sock \in Ref /\ Harmless(v, b.sock) /\ NetFirm(v)
      BY <2>1, <3>1, PlaceHas DEF NetGood, NetFirm
    <3>3. NetGood(u)
      BY <2>1, <3>2, ClosesGood
    <3>4. /\ \A s \in Servers : /\ (u.srv[s] = NIL) <=> (v.srv[s] = NIL)
                                /\ \A fd \in Fd : v.srv[s] # NIL => ((u.srv[s].sources[fd] = NIL) <=> (v.srv[s].sources[fd] = NIL))
          /\ \A k \in Addresses : /\ (u.adr[k] = NIL) <=> (v.adr[k] = NIL)
                                  /\ v.adr[k] # NIL => u.adr[k].own = v.adr[k].own
      BY <3>2, Closes
    <3>5. Place(u, at)
      BY <3>1, <3>4 DEF Place
    <3>6. w = SetSock(u, at, None)
      BY <1>2, <1>4, <2>3
    <3> HIDE DEF u
    <3>7. NetGood(w) /\ \A s \in Servers : (w.srv[s] = NIL) <=> (u.srv[s] = NIL)
      BY <3>3, <3>5, <3>6, NoneHarmless, Sets
    <3>8. ASSUME at.srv = NIL, CleanNet(n) PROVE CleanNet(w) /\ (NoneLost(n, {}) => NoneLost(w, {}))
      <4> DEFINE k == at.key
                 x == [u.adr[k] EXCEPT !.sock = None]
      <4>1. k \in Addresses /\ n.adr[k] # NIL /\ a = n.adr[k]
        BY <3>8, Nils DEF Place, AddressAt
      <4>2. v = n
        <5>1. CASE from = NIL
          BY <5>1 DEF v
        <5>2. CASE from # NIL
          <6>1. from \in Servers /\ n.srv[from] # NIL
            BY <5>2 DEF Sender
          <6>2. DOMAIN n.srv[from].sockets = 1 .. Len(n.srv[from].sockets)
            BY <6>1, <1>0, NetFields
          <6>3. \A i \in 1 .. Len(n.srv[from].sockets) : r.fd = -1 \/ n.srv[from].sockets[i].fd # r.fd
            BY <6>1, <4>1, <3>8 DEF CleanNet, Differ
          <6>4. r.fd = -1 \/ {i \in DOMAIN n.srv[from].sockets : n.srv[from].sockets[i].fd = r.fd} = {}
            BY <6>2, <6>3
          <6>5. DelSocket(n, from, r.fd) = n
            BY <6>4 DEF DelSocket
          <6> QED BY <5>2, <6>5 DEF v
        <5> QED BY <5>1, <5>2
      <4>3. u = closesocket(n, n.adr[k].sock)
        BY <4>1, <4>2 DEF u
      <4>4. CleanNet(Less(u, k)) /\ (NoneLost(n, {}) => NoneLost(Less(u, k), {}))
        BY <3>8, <4>1, <4>3, <1>0, AddressShrinks
      <4>5. u \in NetState /\ u.adr[k] \in AddressState /\ u.adr[k].own
        <5>1. u \in NetState /\ u.adr[k] # NIL
          BY <3>3, <3>4, <4>1, <4>2 DEF NetGood
        <5>2. n.adr[k].own
          BY <3>8, <4>1 DEF CleanNet
        <5> QED BY <5>1, <5>2, <3>4, <4>1, <4>2, NetFields
      <4>6. x \in AddressState /\ x.sock = None /\ x.own
        BY <4>5, Nils DEF AddressState, Ref
      <4>7. w = AddressPut(u, k, x)
        BY <3>6, <3>8, <4>1, <4>5 DEF SetSock, AddressPut, NetState
      <4> HIDE DEF x
      <4>8. /\ CleanNet(Less(u, k)) /\ x.own /\ (x.sock = None \/ (Untaken(Less(u, k), x.sock) /\ u.file[x.sock.fd] # "other")) => CleanNet(w)
            /\ NoneLost(Less(u, k), {x.sock.fd}) => NoneLost(w, {})
        BY <4>1, <4>5, <4>6, <4>7, AddressClean
      <4>9. NoneLost(Less(u, k), {}) => NoneLost(Less(u, k), {x.sock.fd})
        BY DEF NoneLost
      <4> QED BY <4>4, <4>6, <4>8, <4>9
    <3> QED BY <2>1, <3>4, <3>7, <3>8
  <2> QED BY <2>2, <2>3
<1> QED BY <1>3, <1>4

(* A send, or a part of it, leads from n to o.net.                         *)
Sends(n, at, o) ==
    /\ o = [net |-> o.net, cause |-> o.cause, sent |-> o.sent]
    /\ NetGood(o.net) /\ o.cause \subseteq {"lent", "reply"}
    /\ \A s \in Servers : (o.net.srv[s] = NIL) <=> (n.srv[s] = NIL)
    /\ o.cause = {} /\ CleanNet(n) => CleanNet(o.net) /\ (NoneLost(n, {}) => NoneLost(o.net, {}))

LEMMA SendsNone ==
    ASSUME NEW n, NetGood(n), NEW at, NEW ok
    PROVE  Sends(n, at, Sent(n, {}, ok))
  BY DEF Sends, Sent

(* One after the other                                                     *)
LEMMA SendsOn ==
    ASSUME NEW n, NEW at, NEW o, Sends(n, at, o), NEW t, Sends(o.net, at, t),
           NEW u, u = [t EXCEPT !.cause = @ \union o.cause]
    PROVE  Sends(n, at, u)
<1>1. t = [net |-> t.net, cause |-> t.cause, sent |-> t.sent]
  BY DEF Sends
<1>2. u.net = t.net /\ u.cause = t.cause \union o.cause /\ u = [net |-> u.net, cause |-> u.cause, sent |-> u.sent]
  BY <1>1
<1>3. u.cause = {} => t.cause = {} /\ o.cause = {}
  BY <1>2
<1> QED BY <1>2, <1>3 DEF Sends

(* The sending itself                                                      *)
LEMMA Transfers ==
    ASSUME NEW n, NetGood(n), NEW at, Place(n, at), NEW from, Sender(n, from), NEW o \in Transfer(n, at, from)
    PROVE  Sends(n, at, o)
<1> DEFINE r == AddressAt(n, at).sock
           v == Touched(n, r)
           c == IF at.srv = NIL THEN {} ELSE {"reply"}
           w == SendFailed(v, at, from)
<1>1. r \in Ref /\ (CleanNet(n) => r.mine)
  BY PlaceHas
<1>2. o = Sent(w, c, FALSE) \/ o = Sent(v, {}, TRUE)
  BY DEF Transfer
<1> HIDE DEF r
<1>3. /\ NetGood(v) /\ v.srv = n.srv /\ v.adr = n.adr /\ v.file = n.file
      /\ v.stranger = (n.stranger \/ (Usable(n, r) /\ ~ r.mine))
      /\ r.mine \/ ~ Usable(n, r) => v = n
  BY <1>1, Touching
<1> HIDE DEF v
<1>4. AddressAt(v, at) = AddressAt(n, at) /\ Place(v, at) /\ Sender(v, from) /\ (CleanNet(n) => v = n)
  BY <1>1, <1>3 DEF AddressAt, Place, Sender
<1>5. v.stranger \/ ~ (Usable(v, AddressAt(v, at).sock) /\ ~ AddressAt(v, at).sock.mine)
  <2>1. AddressAt(v, at).sock = r /\ (Usable(v, r) <=> Usable(n, r))
    BY <1>3, <1>4 DEF Usable, r
  <2> QED BY <2>1, <1>3
<1>6. /\ NetGood(w)
      /\ \A s \in Servers : (w.srv[s] = NIL) <=> (v.srv[s] = NIL)
      /\ at.srv = NIL /\ CleanNet(v) => CleanNet(w) /\ (NoneLost(v, {}) => NoneLost(w, {}))
  BY <1>3, <1>4, <1>5, Fails
<1> HIDE DEF w
<1>7. CASE o = Sent(w, c, FALSE)
  <2>1. o.net = w /\ o.cause = c /\ o = [net |-> o.net, cause |-> o.cause, sent |-> o.sent]
    BY <1>7 DEF Sent
  <2>2. c \subseteq {"lent", "reply"} /\ (c = {} => at.srv = NIL)
    OBVIOUS
  <2> HIDE DEF c
  <2> QED BY <2>1, <2>2, <1>3, <1>4, <1>6 DEF Sends
<1>8. CASE o = Sent(v, {}, TRUE)
  <2>1. o.net = v /\ o.cause = {} /\ o = [net |-> o.net, cause |-> o.cause, sent |-> o.sent]
    BY <1>8 DEF Sent
  <2> QED BY <2>1, <1>3, <1>4 DEF Sends
<1> QED BY <1>2, <1>7, <1>8

LEMMA FreshUse ==
    ASSUME NEW n, NetGood(n), NEW r, Untaken(n, r)
    PROVE  r \in Ref /\ OpenRef(n, r) /\ Harmless(n, r)
<1>1. ~ n.stranger => \A s \in Servers : n.srv[s] # NIL => Beside(r, First(n, s).fd)
  <2> SUFFICES ASSUME ~ n.stranger, NEW s \in Servers, n.srv[s] # NIL PROVE Beside(r, First(n, s).fd)
    OBVIOUS
  <2>1. FirstKept(n, s)
    BY DEF NetGood, FirstsKept
  <2>2. 1 \in 1 .. Len(n.srv[s].sockets)
    BY <2>1, NetFields DEF NetGood, FirstKept
  <2>3. Beside(First(n, s), r.fd)
    BY <2>2 DEF Untaken, First
  <2> QED BY <2>1, <2>3 DEF Beside, FirstKept
<1> QED BY <1>1 DEF Untaken, OpenRef, Harmless

(* create_socket                                                           *)
LEMMA Creates ==
    ASSUME NEW n, NetGood(n), NEW at, Place(n, at), AddressAt(n, at).sock = None, NEW from, Sender(n, from),
           NEW o \in CreateSocket(n, at, from)
    PROVE  Sends(n, at, o) /\ (o.sent => Place(o.net, at))
<1> DEFINE a == AddressAt(n, at)
           r == NewSock(n)
           kind == IF a.proto = "tcp" THEN "stream" ELSE a.proto
           e == Opened(n, kind)
           v == SetSock(e, at, r)
           lent == from # NIL /\ a.proto = "tcp" /\ v.srv[from].sources[r.fd] = NIL
           u == AddSocket(v, from, r)
           y == IF at.srv = NIL THEN [u EXCEPT !.adr[at.key].own = FALSE] ELSE u
<1>0. n \in NetState
  BY DEF NetGood
<1>1. \/ o = Sent(n, {}, FALSE)
      \/ r # None /\ lent /\ o = Sent(y, {"lent"}, TRUE)
      \/ r # None /\ ~ lent /\ o = Sent(v, {}, TRUE)
  BY DEF CreateSocket
<1>2. CASE o = Sent(n, {}, FALSE)
  <2>1. ~ o.sent
    BY <1>2 DEF Sent
  <2> QED BY <2>1, <1>2, SendsNone
<1>3. CASE r # None
  <2>1. FreeFd(n) # {}
    BY <1>3 DEF NewSock
  <2>2. kind \in Kind /\ kind # "other"
    <3>1. a.proto \in {"udp", "tcp", "unix"}
      BY PlaceHas DEF AddressState
    <3> QED BY <3>1 DEF Kind
  <2>3. /\ NetGood(e) /\ Untaken(e, r) /\ e.srv = n.srv /\ e.adr = n.adr
        /\ e.file = [n.file EXCEPT ![r.fd] = kind]
        /\ CleanNet(n) => CleanNet(e)
        /\ NoneLost(n, {}) => NoneLost(e, {r.fd})
    BY <2>1, <2>2, Opens
  <2>4. e.file[r.fd] # "other" /\ r.fd # -1
    <3>1. r.fd \in Fd
      BY <2>1, <1>0, LowestFree
    <3> QED BY <3>1, <2>2, <2>3, <1>0, Nils DEF NetState
  <2> HIDE DEF e, r, kind
  <2>5. Place(e, at) /\ AddressAt(e, at) = AddressAt(n, at)
    BY <2>3 DEF Place, AddressAt
  <2>6. r \in Ref /\ OpenRef(e, r) /\ Harmless(e, r)
    BY <2>3, FreshUse
  <2>7. /\ NetGood(v) /\ Place(v, at) /\ AddressAt(v, at).sock = r
        /\ \A s \in Servers : (v.srv[s] = NIL) <=> (e.srv[s] = NIL)
    BY <2>3, <2>5, <2>6, Sets
  <2>8. CASE lent /\ o = Sent(y, {"lent"}, TRUE)
    <3> HIDE DEF v
    <3>1. from \in Servers /\ v.srv[from] # NIL
      BY <2>3, <2>7, <2>8 DEF Sender
    <3>2. OpenRef(v, r) /\ Harmless(v, r)
      BY <2>7, PlaceHas
    <3>3. Added(v, from, r, u)
      BY <2>6, <2>7, <3>1, <3>2, Adds
    <3> HIDE DEF u
    <3>4. NetGood(u) /\ u.adr = v.adr /\ \A s \in Servers : (u.srv[s] = NIL) <=> (v.srv[s] = NIL)
      BY <3>3 DEF Added
    <3>5. Place(u, at)
      <4>1. at.srv # from => u.srv[at.srv] = v.srv[at.srv] \/ at.srv = NIL
        BY <3>3, <2>7 DEF Added, Place
      <4> QED BY <4>1, <3>3, <3>4, <2>7 DEF Added, Place
    <3>6. NetGood(y) /\ Place(y, at) /\ \A s \in Servers : (y.srv[s] = NIL) <=> (u.srv[s] = NIL)
      <4>1. CASE at.srv # NIL
        BY <4>1, <3>4, <3>5
      <4>2. CASE at.srv = NIL
        <5> DEFINE k == at.key
                   x == [u.adr[k] EXCEPT !.own = FALSE]
        <5>1. k \in Addresses /\ u.adr[k] # NIL /\ u \in NetState
          BY <3>4, <3>5, <4>2, Nils DEF Place, NetGood
        <5>2. u.adr[k] \in AddressState
          BY <5>1, NetFields
        <5>3. x \in AddressState /\ x.sock = u.adr[k].sock
          BY <5>2 DEF AddressState
        <5>4. y = AddressPut(u, k, x)
          BY <4>2, <5>1 DEF AddressPut, NetState
        <5>5. OpenRef(u, x.sock) /\ Harmless(u, x.sock)
          <6>1. NetFirm(u)
            BY <3>4 DEF NetGood, NetFirm
          <6> QED BY <6>1, <5>1, <5>3, AddressHarmless DEF NetFirm, NetOpen
        <5> HIDE DEF x, y
        <5>6. NetGood(y)
          <6>1. x \in AddressState \union {NIL} /\ (x # NIL => OpenRef(u, x.sock) /\ Harmless(u, x.sock))
            BY <5>3, <5>5
          <6> QED BY <6>1, <5>1, <5>4, <3>4, AddressSet
        <5>7. y.srv = u.srv /\ y.adr[k] = x
          BY <5>1, <5>4 DEF AddressPut, NetState
        <5> QED BY <5>1, <5>3, <5>6, <5>7, <4>2, Nils DEF Place
      <4> QED BY <4>1, <4>2
    <3>7. o.net = y /\ o.cause = {"lent"} /\ o = [net |-> o.net, cause |-> o.cause, sent |-> o.sent]
      BY <2>8 DEF Sent
    <3> HIDE DEF y
    <3> QED BY <2>3, <2>7, <3>4, <3>6, <3>7 DEF Sends
  <2>9. CASE o = Sent(v, {}, TRUE)
    <3>1. o.net = v /\ o.cause = {} /\ o = [net |-> o.net, cause |-> o.cause, sent |-> o.sent]
      BY <2>9 DEF Sent
    <3>2. ASSUME CleanNet(n) PROVE CleanNet(v) /\ (NoneLost(n, {}) => NoneLost(v, {}))
      <4> DEFINE k == at.key
                 x == [e.adr[k] EXCEPT !.sock = r]
                 l == Less(e, k)
      <4>1. at.srv = NIL /\ k \in Addresses /\ n.adr[k] # NIL /\ n.adr[k].sock = None /\ n.adr[k].own
        <5>1. at.srv = NIL
          BY <3>2, PlaceHas
        <5>2. k \in Addresses /\ n.adr[k] # NIL
          BY <5>1, Nils DEF Place
        <5> QED BY <5>1, <5>2, <3>2 DEF CleanNet, AddressAt
      <4>2. e \in NetState /\ e.adr[k] \in AddressState
        BY <2>3, <4>1, NetFields DEF NetGood
      <4>3. x \in AddressState /\ x.sock = r /\ x.own
        BY <2>3, <2>6, <4>1, <4>2 DEF AddressState, Ref
      <4>4. v = AddressPut(e, k, x)
        BY <4>1, <4>2 DEF SetSock, AddressPut, NetState
      <4>5. Untaken(l, r)
        <5>1. /\ l.srv = e.srv /\ l.file = e.file /\ l.adr[k] = NIL /\ \A b \in Addresses : b # k => l.adr[b] = e.adr[b]
          BY <4>1, <4>2 DEF Less, AddressPut, NetState
        <5> QED BY <5>1, <2>3 DEF Untaken
      <4> HIDE DEF x, v, l
      <4>6. /\ CleanNet(l) /\ x.own /\ (x.sock = None \/ (Untaken(l, x.sock) /\ e.file[x.sock.fd] # "other")) => CleanNet(v)
            /\ NoneLost(l, {x.sock.fd}) => NoneLost(v, {})
            /\ CleanNet(e) => CleanNet(l)
            /\ \A S : NoneLost(e, S) /\ (e.adr[k] = NIL \/ e.adr[k].sock.fd = -1) => NoneLost(l, S)
        BY <4>1, <4>2, <4>3, <4>4, AddressClean DEF l
      <4>7. e.adr[k].sock.fd = -1
        BY <2>3, <4>1 DEF None
      <4> QED BY <4>3, <4>5, <4>6, <4>7, <3>2, <2>3, <2>4
    <3> HIDE DEF v
    <3> QED BY <2>3, <2>7, <3>1, <3>2 DEF Sends
  <2> QED BY <1>1, <1>2, <2>8, <2>9
<1> QED BY <1>1, <1>2, <1>3

LEMMA SendsAlive ==
    ASSUME NEW n, NEW at, NEW o, Sends(n, at, o), NEW from, Sender(n, from)
    PROVE  NetGood(o.net) /\ Sender(o.net, from)
  BY DEF Sends, Sender

(* send_data                                                               *)
LEMMA SendsData ==
    ASSUME NEW n, NetGood(n), NEW at, Place(n, at), NEW from, Sender(n, from), NEW o \in send_data(n, at, from)
    PROVE  Sends(n, at, o)
<1> DEFINE a == AddressAt(n, at)
           q == IF from # NIL THEN n.srv[from].sockets[1] ELSE n.client.udp
<1>0. n \in NetState
  BY DEF NetGood
<1>1. \/ o = Sent(n, {}, FALSE)
      \/ (from # NIL \/ n.client.udp.fd # -1) /\ o = Sent(Touched(n, q), {}, TRUE)
      \/ o \in Transfer(n, at, from)
      \/ a.sock = None /\ \E c \in CreateSocket(n, at, from) :
            IF c.sent THEN \E t \in Transfer(c.net, at, from) : o = [t EXCEPT !.cause = @ \union c.cause] ELSE o = c
  <2>1. o \in {Sent(n, {}, FALSE)} \/ o \in
         (IF a.proto = "udp" /\ (from # NIL \/ n.client.udp.fd # -1)
          THEN {Sent(Touched(n, IF from # NIL THEN n.srv[from].sockets[1] ELSE n.client.udp), {}, TRUE)}
          ELSE IF a.sock # None THEN Transfer(n, at, from)
          ELSE UNION {IF c.sent
                 THEN {[t EXCEPT !.cause = @ \union c.cause] : t \in Transfer(c.net, at, from)}
                 ELSE {c} : c \in CreateSocket(n, at, from)})
    BY DEF send_data
  <2>2. CASE o \in UNION {IF c.sent
                 THEN {[t EXCEPT !.cause = @ \union c.cause] : t \in Transfer(c.net, at, from)}
                 ELSE {c} : c \in CreateSocket(n, at, from)} /\ a.sock = None
    <3>1. PICK c \in CreateSocket(n, at, from) : o \in IF c.sent
                 THEN {[t EXCEPT !.cause = @ \union c.cause] : t \in Transfer(c.net, at, from)} ELSE {c}
      BY <2>2
    <3>2. IF c.sent THEN \E t \in Transfer(c.net, at, from) : o = [t EXCEPT !.cause = @ \union c.cause] ELSE o = c
      BY <3>1
    <3> QED BY <2>2, <3>2
  <2>3. CASE a.proto = "udp" /\ (from # NIL \/ n.client.udp.fd # -1)
    BY <2>1, <2>3
  <2>4. CASE ~ (a.proto = "udp" /\ (from # NIL \/ n.client.udp.fd # -1)) /\ a.sock # None
    BY <2>1, <2>4
  <2>5. CASE ~ (a.proto = "udp" /\ (from # NIL \/ n.client.udp.fd # -1)) /\ a.sock = None
    BY <2>1, <2>2, <2>5
  <2> QED BY <2>3, <2>4, <2>5
<1>2. CASE o = Sent(n, {}, FALSE)
  BY <1>2, SendsNone
<1>3. CASE (from # NIL \/ n.client.udp.fd # -1) /\ o = Sent(Touched(n, q), {}, TRUE)
  <2> DEFINE v == Touched(n, q)
  <2>1. v = n
    <3>1. CASE n.stranger
      BY <3>1, <1>0 DEF Touched, NetState
    <3>2. CASE ~ n.stranger
      <4>1. q \in Ref /\ q.mine
        <5>1. CASE from # NIL
          <6>1. from \in Servers /\ n.srv[from] # NIL /\ FirstKept(n, from)
            BY <3>2, <5>1 DEF Sender, NetGood, FirstsKept
          <6>2. 1 \in 1 .. Len(n.srv[from].sockets)
            BY <6>1, <1>0, NetFields DEF FirstKept
          <6>3. n.srv[from].sockets[1] \in Ref
            BY <6>1, <6>2, <1>0, NetFields
          <6> QED BY <5>1, <6>1, <6>3 DEF FirstKept, First
        <5>2. CASE from = NIL
          <6>1. n.client["udp"] # None /\ q = n.client["udp"]
            BY <1>3, <5>2 DEF None
          <6>2. PICK s \in Servers : n.srv[s] # NIL /\ First(n, s) = n.client["udp"]
            BY <3>2, <6>1 DEF NetGood, ClientKept
          <6>3. First(n, s).mine
            BY <3>2, <6>2 DEF NetGood, FirstsKept, FirstKept
          <6> QED BY <6>1, <6>2, <6>3, <1>0, NetFields
        <5> QED BY <5>1, <5>2
      <4> HIDE DEF q
      <4> QED BY <4>1, Touching
    <3> QED BY <3>1, <3>2
  <2> QED BY <2>1, <1>3, SendsNone
<1>4. CASE o \in Transfer(n, at, from)
  BY <1>4, Transfers
<1>5. CASE a.sock = None /\ \E c \in CreateSocket(n, at, from) :
            IF c.sent THEN \E t \in Transfer(c.net, at, from) : o = [t EXCEPT !.cause = @ \union c.cause] ELSE o = c
  <2>1. PICK c \in CreateSocket(n, at, from) :
            IF c.sent THEN \E t \in Transfer(c.net, at, from) : o = [t EXCEPT !.cause = @ \union c.cause] ELSE o = c
    BY <1>5
  <2>2. Sends(n, at, c) /\ (c.sent => Place(c.net, at))
    BY <1>5, Creates
  <2>3. CASE c.sent
    <3>1. PICK t \in Transfer(c.net, at, from) : o = [t EXCEPT !.cause = @ \union c.cause]
      BY <2>1, <2>3
    <3>2. NetGood(c.net) /\ Sender(c.net, from)
      BY <2>2, SendsAlive
    <3>3. Sends(c.net, at, t)
      BY <2>2, <2>3, <3>2, Transfers
    <3> QED BY <2>2, <3>1, <3>3, SendsOn
  <2>4. CASE ~ c.sent
    BY <2>1, <2>2, <2>4
  <2> QED BY <2>3, <2>4
<1> QED BY <1>1, <1>2, <1>3, <1>4, <1>5

LEMMA SendsFromGood ==
    ASSUME NEW n, NetGood(n), NEW at, Place(n, at), NEW from, Sender(n, from), NEW twice,
           NEW o \in SendFrom(n, at, from, twice)
    PROVE  Sends(n, at, o)
<1>1. PICK e \in send_data(n, at, from) : o \in
           (IF e.sent \/ ~ twice \/ AddressAt(e.net, at) = NIL \/ AddressAt(n, at).proto # "tcp" THEN {e}
            ELSE {[t EXCEPT !.cause = @ \union e.cause] : t \in send_data(e.net, at, from)})
  BY DEF SendFrom
<1>2. Sends(n, at, e)
  BY SendsData
<1>3. CASE o = e
  BY <1>2, <1>3
<1>4. CASE AddressAt(e.net, at) # NIL /\ \E t \in send_data(e.net, at, from) : o = [t EXCEPT !.cause = @ \union e.cause]
  <2>1. PICK t \in send_data(e.net, at, from) : o = [t EXCEPT !.cause = @ \union e.cause]
    BY <1>4
  <2>2. NetGood(e.net) /\ Sender(e.net, from) /\ \A s \in Servers : (e.net.srv[s] = NIL) <=> (n.srv[s] = NIL)
    BY <1>2, SendsAlive DEF Sends
  <2>3. Place(e.net, at)
    BY <1>4, <2>2, Nils DEF Place, AddressAt
  <2>4. Sends(e.net, at, t)
    BY <2>2, <2>3, SendsData
  <2> QED BY <1>2, <2>1, <2>4, SendsOn
<1>5. o = e \/ (AddressAt(e.net, at) # NIL /\ \E t \in send_data(e.net, at, from) : o = [t EXCEPT !.cause = @ \union e.cause])
  BY <1>1
<1> QED BY <1>3, <1>4, <1>5

-----------------------------------------------------------------------------
(* Steps of the net                                                        *)
NetPart(n, c) ==
    /\ NetGood(n)
    /\ c \intersect {"lent", "reply"} = {} => CleanNet(n)
    /\ c \intersect {"lent", "reply", "ports", "interface"} = {} => NoneLost(n, {})
Leads(n, m, d) ==
    /\ NetGood(m)
    /\ CleanNet(n) /\ d \intersect {"lent", "reply"} = {} => CleanNet(m)
    /\ CleanNet(n) /\ d \intersect {"lent", "reply", "ports", "interface"} = {} /\ NoneLost(n, {}) => NoneLost(m, {})
Alike(n, m) == \A s \in Servers : (m.srv[s] = NIL) <=> (n.srv[s] = NIL)

LEMMA LeadsOn ==
    ASSUME NEW n, NEW c, NetPart(n, c), NEW m, NEW d, Leads(n, m, d)
    PROVE  NetPart(m, c \union d)
<1>1. (c \union d) \intersect {"lent", "reply"} = {} => c \intersect {"lent", "reply"} = {} /\ d \intersect {"lent", "reply"} = {}
  OBVIOUS
<1>2. (c \union d) \intersect {"lent", "reply", "ports", "interface"} = {}
      => /\ c \intersect {"lent", "reply", "ports", "interface"} = {}
         /\ d \intersect {"lent", "reply", "ports", "interface"} = {}
         /\ c \intersect {"lent", "reply"} = {}
  OBVIOUS
<1> QED BY <1>1, <1>2 DEF NetPart, Leads

LEMMA LeadsNew ==
    ASSUME NEW n, NEW s, NEW o, NewGood(n, s, o)
    PROVE  Leads(n, o.net, o.cause)
<1>1. o.cause \intersect {"lent", "reply", "ports", "interface"} = {} => o.cause = {}
  BY DEF NewGood
<1> QED BY <1>1 DEF NewGood, Leads

LEMMA LeadsSend ==
    ASSUME NEW n, NEW at, NEW o, Sends(n, at, o)
    PROVE  Leads(n, o.net, o.cause) /\ Alike(n, o.net)
<1>1. o.cause \intersect {"lent", "reply"} = {} => o.cause = {}
  BY DEF Sends
<1>2. o.cause \intersect {"lent", "reply", "ports", "interface"} = {} => o.cause = {}
  BY DEF Sends
<1> QED BY <1>1, <1>2 DEF Sends, Leads, Alike

(* A TCP server accepts a connection.                                      *)
LEMMA Accepts ==
    ASSUME NEW n, NetGood(n), NEW s \in Servers, n.srv[s] # NIL,
           NEW m, m = AddSocket(Opened(n, "stream"), s, NewSock(n))
    PROVE  Leads(n, m, {}) /\ Alike(n, m)
<1> DEFINE e == Opened(n, "stream")
           r == NewSock(n)
<1>0. "stream" \in Kind
  BY DEF Kind
<1>1. /\ NetGood(e) /\ e.srv = n.srv /\ r \in Ref /\ OpenRef(e, r) /\ Harmless(e, r)
      /\ CleanNet(n) => CleanNet(e)
      /\ r = None \/ (Untaken(e, r) /\ e.file[r.fd] # "other")
      /\ NoneLost(n, {}) => NoneLost(e, {r.fd})
  <2>1. CASE FreeFd(n) = {}
    <3>1. e = n /\ r = None
      BY <2>1 DEF Opened, NewSock
    <3>2. NoneLost(n, {}) => NoneLost(n, {None.fd})
      BY DEF NoneLost
    <3> HIDE DEF e, r
    <3> QED BY <3>1, <3>2, NoneHarmless
  <2>2. CASE FreeFd(n) # {}
    <3>1. /\ NetGood(e) /\ e.srv = n.srv /\ Untaken(e, r)
          /\ CleanNet(n) => CleanNet(e)
          /\ NoneLost(n, {}) => NoneLost(e, {r.fd})
          /\ e.file = [n.file EXCEPT ![r.fd] = "stream"]
      BY <1>0, <2>2, Opens
    <3>2. e.file[r.fd] # "other"
      <4>1. n \in NetState
        BY DEF NetGood
      <4>2. r.fd \in Fd
        BY <4>1, <2>2, LowestFree
      <4> QED BY <3>1, <4>1, <4>2 DEF NetState
    <3> HIDE DEF e, r
    <3>3. r \in Ref /\ OpenRef(e, r) /\ Harmless(e, r)
      BY <3>1, FreshUse
    <3> QED BY <3>1, <3>2, <3>3
  <2> QED BY <2>1, <2>2
<1>2. m = AddSocket(e, s, r)
  OBVIOUS
<1> HIDE DEF e, r
<1>3. Added(e, s, r, m)
  BY <1>1, <1>2, Adds
<1> QED BY <1>1, <1>3 DEF Added, Leads, Alike

(* The other end of a connection closes it.                                *)
LEMMA Goes ==
    ASSUME NEW n, NetGood(n), NEW fd \in Fd, n.file[fd] = "stream", NEW m, m = [n EXCEPT !.file[fd] = "gone"]
    PROVE  Leads(n, m, {}) /\ Alike(n, m)
<1>1. n \in NetState /\ "gone" \in Kind
  BY DEF NetGood, Kind
<1>2. /\ m.srv = n.srv /\ m.adr = n.adr /\ m.client = n.client /\ m.stranger = n.stranger
      /\ m.file[fd] = "gone" /\ \A f \in Fd : f # fd => m.file[f] = n.file[f]
      /\ m \in NetState
  BY <1>1 DEF NetState
<1>3. \A q \in Ref : (OpenRef(n, q) => OpenRef(m, q)) /\ (Held(n, q) => Held(m, q))
  BY <1>2, Nils DEF OpenRef, Held, Ref, Kind
<1>4. NetOpen(m)
  <2>1. NetOpen(n)
    BY DEF NetGood
  <2>2. ASSUME NEW a \in Addresses, n.adr[a] # NIL PROVE OpenRef(m, n.adr[a].sock)
    <3>1. n.adr[a].sock \in Ref
      BY <1>1, <2>2, NetFields
    <3>2. OpenRef(n, n.adr[a].sock)
      BY <2>1, <2>2 DEF NetOpen
    <3> QED BY <1>3, <3>1, <3>2
  <2>3. ASSUME NEW s \in Servers, n.srv[s] # NIL, NEW i \in 1 .. Len(n.srv[s].sockets)
        PROVE  OpenRef(m, n.srv[s].sockets[i])
    <3>1. n.srv[s].sockets[i] \in Ref
      BY <1>1, <2>3, NetFields
    <3>2. OpenRef(n, n.srv[s].sockets[i])
      BY <2>1, <2>3 DEF NetOpen
    <3> QED BY <1>3, <3>1, <3>2
  <2>4. ASSUME NEW s \in Servers, n.srv[s] # NIL, NEW f \in Fd, n.srv[s].sources[f] # NIL
        PROVE  OpenRef(m, n.srv[s].sources[f].sock)
    <3>1. n.srv[s].sources[f].sock \in Ref
      BY <1>1, <2>4, NetFields
    <3>2. OpenRef(n, n.srv[s].sources[f].sock)
      BY <2>1, <2>4 DEF NetOpen
    <3> QED BY <1>3, <3>1, <3>2
  <2> QED BY <1>2, <2>2, <2>3, <2>4 DEF NetOpen
<1>5. FirstsKept(m) /\ ClientKept(m)
  BY <1>2 DEF FirstsKept, FirstKept, ClientKept, First, NetGood
<1>6. CleanNet(n) => CleanNet(m)
  BY <1>1, <1>2, <1>3, NetFields DEF CleanNet
<1>7. NoneLost(n, {}) => NoneLost(m, {})
  BY <1>2, Nils DEF NoneLost, KeptIn, Kind
<1> QED BY <1>2, <1>4, <1>5, <1>6, <1>7 DEF NetGood, Leads, Alike

LEMMA OpensOther ==
    ASSUME NEW n, NetGood(n), FreeFd(n) # {}, NEW m, m = Opened(n, "other")
    PROVE  Leads(n, m, {}) /\ Alike(n, m)
<1>0. "other" \in Kind /\ n \in NetState
  BY DEF Kind, NetGood
<1>1. /\ NetGood(m) /\ m.srv = n.srv /\ m.adr = n.adr
      /\ CleanNet(n) => CleanNet(m)
      /\ NoneLost(n, {}) => NoneLost(m, {NewSock(n).fd})
      /\ m.file = [n.file EXCEPT ![NewSock(n).fd] = "other"]
  BY <1>0, Opens
<1>2. NewSock(n).fd \in Fd
  BY <1>0, LowestFree
<1>3. m.file[NewSock(n).fd] = "other"
  BY <1>0, <1>1, <1>2 DEF NetState
<1>4. NoneLost(n, {}) => NoneLost(m, {})
  BY <1>1, <1>3 DEF NoneLost
<1> QED BY <1>1, <1>4 DEF Leads, Alike

LEMMA LeadsFreed ==
    ASSUME NEW n, NetGood(n), NEW a \in Addresses, n.adr[a] # NIL, NEW m, m = AddressFree(n, a)
    PROVE  Leads(n, m, {}) /\ Alike(n, m)
  BY Frees DEF Leads, Alike

LEMMA LeadsServerFreed ==
    ASSUME NEW n, NetGood(n), NEW s \in Servers, n.srv[s] # NIL, NEW m, m = ServerFree(n, s)
    PROVE  Leads(n, m, {}) /\ \A t \in Servers \ {s} : (m.srv[t] = NIL) <=> (n.srv[t] = NIL)
  BY ServerFrees DEF Leads

LEMMA News ==
    ASSUME NEW n, NetGood(n), NEW a \in Addresses, n.adr[a] = NIL, NEW proto \in {"udp", "tcp"},
           NEW m, m = AddressNew(n, a, proto)
    PROVE  Leads(n, m, {}) /\ Alike(n, m)
<1> DEFINE x == [proto |-> proto, sock |-> None, own |-> TRUE]
<1>1. x \in AddressState /\ x.sock = None /\ x.own
  BY Nils DEF AddressState, Ref
<1>2. m = AddressPut(n, a, x)
  BY DEF AddressNew, AddressPut
<1> HIDE DEF x
<1>3. n \in NetState
  BY DEF NetGood
<1>4. NetGood(m)
  <2>1. x \in AddressState \union {NIL} /\ (x # NIL => OpenRef(n, x.sock) /\ Harmless(n, x.sock))
    BY <1>1, NoneHarmless
  <2> QED BY <2>1, <1>2, AddressSet
<1>5. /\ CleanNet(Less(n, a)) /\ x.own /\ (x.sock = None \/ (Untaken(Less(n, a), x.sock) /\ n.file[x.sock.fd] # "other")) => CleanNet(m)
      /\ NoneLost(Less(n, a), {x.sock.fd}) => NoneLost(m, {})
      /\ \A S : NoneLost(n, S) /\ (n.adr[a] = NIL \/ n.adr[a].sock.fd = -1) => NoneLost(Less(n, a), S)
      /\ CleanNet(n) => CleanNet(Less(n, a))
  BY <1>1, <1>2, <1>3, AddressClean
<1>6. NoneLost(n, {}) => NoneLost(n, {x.sock.fd})
  BY DEF NoneLost
<1>7. m.srv = n.srv
  BY <1>2, <1>3 DEF AddressPut, NetState
<1> QED BY <1>1, <1>4, <1>5, <1>6, <1>7 DEF Leads, Alike

(* A message is received.                                                  *)
LEMMA Hears ==
    ASSUME NEW n, NetGood(n), NEW r \in Ref, CleanNet(n) => r.mine, NEW m, m = Touched(n, r)
    PROVE  Leads(n, m, {}) /\ Alike(n, m)
<1>1. /\ NetGood(m) /\ m.srv = n.srv /\ (r.mine => m = n)
  BY Touching
<1> QED BY <1>1 DEF Leads, Alike

(* The second socket of a server is closed and removed.                    *)
Shed(n, s, fd, w) ==
    LET L == n.srv[s].sockets IN
    /\ ~ w.stranger
    /\ w.file = [n.file EXCEPT ![fd] = NIL]
    /\ \A a \in Addresses : w.adr[a] = n.adr[a]
    /\ \A t \in Servers : t # s => w.srv[t] = n.srv[t]
    /\ w.srv[s] # NIL /\ Len(w.srv[s].sockets) = Len(L) - 1
    /\ \A j \in 1 .. Len(w.srv[s].sockets) : w.srv[s].sockets[j] = IF j < 2 THEN L[j] ELSE L[j + 1]
    /\ \A f \in Fd : w.srv[s].sources[f] = IF f = fd THEN NIL ELSE n.srv[s].sources[f]

LEMMA ShedClean ==
    ASSUME NEW n, NetGood(n), CleanNet(n), NEW s \in Servers, n.srv[s] # NIL, 2 \in 1 .. Len(n.srv[s].sockets),
           NEW fd \in Fd, n.srv[s].sockets[2].fd = fd, NEW w, Shed(n, s, fd, w)
    PROVE  CleanNet(w) /\ (NoneLost(n, {}) => NoneLost(w, {}))
<1> DEFINE L == n.srv[s].sockets
           M == w.srv[s].sockets
           at(j) == IF j < 2 THEN j ELSE j + 1
<1>0. n \in NetState /\ Len(L) \in Nat
  <2>1. n \in NetState
    BY DEF NetGood
  <2> QED BY <2>1, NetFields
<1>a. /\ ~ w.stranger /\ w.file = [n.file EXCEPT ![fd] = NIL]
      /\ \A a \in Addresses : w.adr[a] = n.adr[a]
      /\ \A t \in Servers : t # s => w.srv[t] = n.srv[t]
      /\ w.srv[s] # NIL /\ Len(M) = Len(L) - 1
      /\ \A f \in Fd : w.srv[s].sources[f] = IF f = fd THEN NIL ELSE n.srv[s].sources[f]
  BY DEF Shed
<1>b. \A j \in 1 .. Len(M) : M[j] = L[at(j)] /\ at(j) \in 1 .. Len(L) /\ at(j) # 2
  <2>1. \A j \in 1 .. Len(M) : M[j] = IF j < 2 THEN L[j] ELSE L[j + 1]
    BY DEF Shed
  <2> QED BY <1>0, <1>a, <2>1
<1>c. \A i \in 1 .. Len(L) : i # 2 => \E j \in 1 .. Len(M) : at(j) = i
  <2> SUFFICES ASSUME NEW i \in 1 .. Len(L), i # 2 PROVE \E j \in 1 .. Len(M) : at(j) = i
    OBVIOUS
  <2>1. CASE i < 2
    BY <1>0, <1>a, <2>1
  <2>2. CASE i > 2
    <3>1. i - 1 \in 1 .. Len(M) /\ at(i - 1) = i
      BY <1>0, <1>a, <2>2
    <3> QED BY <3>1
  <2> QED BY <1>0, <2>1, <2>2
<1>d. \A i, j \in 1 .. Len(M) : i # j => at(i) # at(j)
  BY <1>0, <1>a
<1> HIDE DEF at
<1>e. \A f \in Fd : f # fd => w.file[f] = n.file[f]
  BY <1>0, <1>a DEF NetState
<1>f. \A r \in Ref : r.fd # fd /\ Held(n, r) => Held(w, r)
  BY <1>e DEF Held, Ref
<1>g. w.file[fd] = NIL /\ L[2].fd # -1
  BY <1>0, <1>a, Nils DEF NetState
(* what is kept beside the socket that goes *)
<1>1. ASSUME NEW a \in Addresses, n.adr[a] # NIL
      PROVE  n.adr[a].own /\ Held(w, n.adr[a].sock)
  <2>1. Differ(L[2], n.adr[a].sock) /\ n.adr[a].own /\ Held(n, n.adr[a].sock)
    BY <1>1 DEF CleanNet
  <2>2. n.adr[a].sock.fd # fd /\ n.adr[a].sock \in Ref
    BY <2>1, <1>g, <1>1, <1>0, NetFields DEF Differ
  <2> QED BY <2>1, <2>2, <1>f
<1>2. ASSUME NEW t \in Servers, n.srv[t] # NIL, NEW i \in 1 .. Len(n.srv[t].sockets), t # s \/ i # 2
      PROVE  n.srv[t].sockets[i].fd # fd /\ Held(w, n.srv[t].sockets[i])
  <2>1. Differ(L[2], n.srv[t].sockets[i]) /\ Held(n, n.srv[t].sockets[i])
    BY <1>2 DEF CleanNet
  <2>2. n.srv[t].sockets[i].fd # fd /\ n.srv[t].sockets[i] \in Ref
    BY <2>1, <1>g, <1>2, <1>0, NetFields DEF Differ
  <2> QED BY <2>1, <2>2, <1>f
<1>3. \A t \in Servers : (w.srv[t] = NIL) <=> (n.srv[t] = NIL)
  BY <1>a
<1>4. ASSUME NEW t \in Servers, w.srv[t] # NIL, NEW i \in 1 .. Len(w.srv[t].sockets)
      PROVE  \E j \in 1 .. Len(n.srv[t].sockets) :
                w.srv[t].sockets[i] = n.srv[t].sockets[j] /\ (t # s \/ j # 2) /\ j = (IF t = s THEN at(i) ELSE i)
  BY <1>4, <1>a, <1>b
<1>5. CleanNet(w)
  <2>1. ASSUME NEW a \in Addresses, w.adr[a] # NIL
        PROVE  /\ w.adr[a].own /\ Held(w, w.adr[a].sock)
               /\ \A b \in Addresses : b # a /\ w.adr[b] # NIL => Differ(w.adr[a].sock, w.adr[b].sock)
    <3>1. w.adr[a].own /\ Held(w, w.adr[a].sock)
      BY <2>1, <1>1, <1>a
    <3>2. \A b \in Addresses : b # a /\ n.adr[b] # NIL => Differ(n.adr[a].sock, n.adr[b].sock)
      BY <2>1, <1>a DEF CleanNet
    <3> QED BY <3>1, <3>2, <1>a
  <2>2. ASSUME NEW t \in Servers, w.srv[t] # NIL, NEW i \in 1 .. Len(w.srv[t].sockets)
        PROVE  LET r == w.srv[t].sockets[i] IN
                /\ Held(w, r)
                /\ \A a \in Addresses : w.adr[a] # NIL => Differ(r, w.adr[a].sock)
                /\ \A u \in Servers : w.srv[u] # NIL =>
                      \A j \in 1 .. Len(w.srv[u].sockets) : t # u \/ i # j => Differ(r, w.srv[u].sockets[j])
    <3>1. PICK k \in 1 .. Len(n.srv[t].sockets) :
                w.srv[t].sockets[i] = n.srv[t].sockets[k] /\ (t # s \/ k # 2) /\ k = (IF t = s THEN at(i) ELSE i)
      BY <2>2, <1>4
    <3>2. n.srv[t] # NIL
      BY <2>2, <1>3
    <3>3. Held(w, w.srv[t].sockets[i])
      BY <3>1, <3>2, <1>2
    <3>4. \A a \in Addresses : w.adr[a] # NIL => Differ(w.srv[t].sockets[i], w.adr[a].sock)
      BY <3>1, <3>2, <1>a DEF CleanNet
    <3>5. ASSUME NEW u \in Servers, w.srv[u] # NIL, NEW j \in 1 .. Len(w.srv[u].sockets), t # u \/ i # j
          PROVE  Differ(w.srv[t].sockets[i], w.srv[u].sockets[j])
      <4>1. PICK l \in 1 .. Len(n.srv[u].sockets) :
                w.srv[u].sockets[j] = n.srv[u].sockets[l] /\ l = (IF u = s THEN at(j) ELSE j)
        BY <3>5, <1>4
      <4>2. n.srv[u] # NIL
        BY <3>5, <1>3
      <4>3. t # u \/ k # l
        BY <3>1, <3>5, <4>1, <2>2, <1>d
      <4>4. Differ(n.srv[t].sockets[k], n.srv[u].sockets[l])
        BY <3>2, <4>2, <4>3 DEF CleanNet
      <4> QED BY <3>1, <4>1, <4>4
    <3> QED BY <3>3, <3>4, <3>5
  <2>3. ASSUME NEW t \in Servers, w.srv[t] # NIL, NEW f \in Fd, w.srv[t].sources[f] # NIL
        PROVE  /\ w.srv[t].sources[f].sock = [fd |-> f, mine |-> TRUE] /\ w.srv[t].sources[f].proto = "tcp"
               /\ \E i \in 1 .. Len(w.srv[t].sockets) : w.srv[t].sockets[i].fd = f
    <3>0. w.srv[t].sources[f] = n.srv[t].sources[f] /\ n.srv[t] # NIL /\ (t = s => f # fd)
      BY <2>3, <1>3, <1>a
    <3>1. /\ n.srv[t].sources[f].sock = [fd |-> f, mine |-> TRUE] /\ n.srv[t].sources[f].proto = "tcp"
          /\ \E i \in 1 .. Len(n.srv[t].sockets) : n.srv[t].sockets[i].fd = f
      BY <2>3, <3>0 DEF CleanNet
    <3>2. \E i \in 1 .. Len(w.srv[t].sockets) : w.srv[t].sockets[i].fd = f
      <4>1. CASE t # s
        BY <4>1, <3>1, <1>a
      <4>2. CASE t = s
        <5>1. PICK i \in 1 .. Len(L) : L[i].fd = f
          BY <3>1, <4>2
        <5>2. i # 2
          BY <5>1, <3>0, <4>2
        <5>3. PICK j \in 1 .. Len(M) : at(j) = i
          BY <5>2, <1>c
        <5> QED BY <4>2, <5>1, <5>3, <1>b
      <4> QED BY <4>1, <4>2
    <3> QED BY <3>0, <3>1, <3>2
  <2> QED BY <1>a, <2>1, <2>2, <2>3 DEF CleanNet
<1>6. ASSUME NoneLost(n, {}) PROVE NoneLost(w, {})
  <2> SUFFICES ASSUME NEW f \in Fd, w.file[f] \notin {NIL, "other"} PROVE KeptIn(w, f)
    BY DEF NoneLost
  <2>1. f # fd
    BY <1>g
  <2>2. KeptIn(n, f)
    BY <2>1, <1>e, <1>6 DEF NoneLost
  <2>3. CASE \E a \in Addresses : n.adr[a] # NIL /\ n.adr[a].sock.fd = f
    BY <2>3, <1>a DEF KeptIn
  <2>4. CASE \E t \in Servers : n.srv[t] # NIL /\ \E i \in 1 .. Len(n.srv[t].sockets) : n.srv[t].sockets[i].fd = f
    <3>1. PICK t \in Servers : n.srv[t] # NIL /\ \E i \in 1 .. Len(n.srv[t].sockets) : n.srv[t].sockets[i].fd = f
      BY <2>4
    <3>2. CASE t # s
      BY <3>1, <3>2, <1>a DEF KeptIn
    <3>3. CASE t = s
      <4>1. PICK i \in 1 .. Len(L) : L[i].fd = f
        BY <3>1, <3>3
      <4>2. PICK j \in 1 .. Len(M) : at(j) = i
        BY <4>1, <2>1, <1>c
      <4>3. M[j].fd = f
        BY <4>1, <4>2, <1>b
      <4> QED BY <4>3, <1>a DEF KeptIn
    <3> QED BY <3>2, <3>3
  <2> QED BY <2>2, <2>3, <2>4 DEF KeptIn
<1> QED BY <1>5, <1>6

LEMMA Sheds ==
    ASSUME NEW n, NetGood(n), NEW s \in Servers, n.srv[s] # NIL, ~ n.stranger, Len(n.srv[s].sockets) > 1,
           NEW r, r = n.srv[s].sockets[2], Usable(n, r), NEW w, w = DelSocket(closesocket(n, r), s, r.fd)
    PROVE  Leads(n, w, {}) /\ Alike(n, w)
<1> DEFINE v == closesocket(n, r)
           L == n.srv[s].sockets
<1>0. n \in NetState /\ NetFirm(n) /\ Len(L) \in Nat /\ 2 \in 1 .. Len(L) /\ r \in Ref
  <2>1. n \in NetState /\ NetFirm(n)
    BY DEF NetGood, NetFirm
  <2>2. Len(L) \in Nat
    BY <2>1, NetFields
  <2>3. 2 \in 1 .. Len(L)
    BY <2>2
  <2>4. r \in Ref
    BY <2>1, <2>3, NetFields
  <2> QED BY <2>1, <2>2, <2>3, <2>4
<1>1. Harmless(n, r)
  <2>1. 2 \in 2 .. Len(L)
    BY <1>0
  <2> QED BY <2>1, <1>0, KeptHarmless
<1> HIDE DEF v
<1>2. NetGood(v)
  BY <1>0, <1>1, ClosesGood DEF v
<1>3. /\ \A t \in Servers : (v.srv[t] = NIL) <=> (n.srv[t] = NIL)
      /\ ~ v.stranger => First(v, s) = First(n, s)
  BY <1>0, <1>1, Closes DEF v
<1>4. /\ v \in NetState /\ r.fd \in Fd /\ v.file = [n.file EXCEPT ![r.fd] = NIL] /\ v.stranger = (n.stranger \/ ~ r.mine)
      /\ \A a \in Addresses : v.adr[a] = AddressForgot(n.adr[a], r.fd)
      /\ \A t \in Servers : v.srv[t] = ServerForgot(n.srv[t], r.fd)
  BY <1>0, ClosesFd DEF v
<1>5. ASSUME ~ v.stranger PROVE First(v, s).fd # r.fd
  <2>1. ~ (n.stranger \/ (Usable(n, r) /\ ~ r.mine))
    BY <1>4, <1>5
  <2>2. r.fd # First(n, s).fd
    BY <2>1, <1>0, <1>1, NotFirst
  <2> QED BY <2>2, <1>3, <1>5
<1>6. Removed(v, s, r.fd, w)
  <2>1. r.fd \in Fd \union {-1} /\ v.srv[s] # NIL /\ w = DelSocket(v, s, r.fd)
    BY <1>4, <1>3 DEF v
  <2> QED BY <2>1, <1>2, <1>5, Dels
<1>7. NetGood(w) /\ Alike(n, w)
  BY <1>6, <1>3 DEF Removed, Alike
<1>8. ASSUME CleanNet(n) PROVE Shed(n, s, r.fd, w)
  <2>1. r.mine /\ r.fd # -1 /\ ~ v.stranger
    <3>1. Held(n, r)
      BY <1>0, <1>8 DEF CleanNet
    <3>2. r.fd # -1
      BY <1>4, Nils
    <3>3. r.mine
      BY <3>1, <3>2 DEF Held, None
    <3>4. v.stranger = FALSE
      BY <3>3, <1>4
    <3> QED BY <3>2, <3>3, <3>4
  <2>2. ASSUME NEW a \in Addresses PROVE v.adr[a] = n.adr[a]
    <3>1. CASE n.adr[a] = NIL
      BY <3>1, <1>4 DEF AddressForgot
    <3>2. CASE n.adr[a] # NIL
      <4>1. Differ(r, n.adr[a].sock)
        BY <3>2, <1>0, <1>8 DEF CleanNet
      <4>2. n.adr[a].sock.fd # r.fd /\ n.adr[a] \in AddressState \union {NIL}
        BY <4>1, <3>2, <2>1, <1>0, NetFields DEF Differ
      <4> QED BY <4>2, <3>2, <1>4, AddressForgets
    <3> QED BY <3>1, <3>2
  <2>3. ASSUME NEW t \in Servers, n.srv[t] # NIL, NEW i \in 1 .. Len(n.srv[t].sockets), t # s \/ i # 2
        PROVE  n.srv[t].sockets[i].fd # r.fd
    <3>1. Differ(r, n.srv[t].sockets[i])
      BY <2>3, <1>0, <1>8 DEF CleanNet
    <3> QED BY <3>1, <2>1 DEF Differ
  <2>4. ASSUME NEW t \in Servers, n.srv[t] # NIL, NEW f \in Fd, n.srv[t].sources[f] # NIL
        PROVE  n.srv[t].sources[f].sock.fd = f
    <3>1. n.srv[t].sources[f].sock = [fd |-> f, mine |-> TRUE]
      BY <2>4, <1>8 DEF CleanNet
    <3> QED BY <3>1
  <2>5. ASSUME NEW t \in Servers, t # s PROVE v.srv[t] = n.srv[t]
    <3>1. CASE n.srv[t] = NIL
      BY <3>1, <1>4 DEF ServerForgot
    <3>2. CASE n.srv[t] # NIL
      <4>0. n.srv[t] \in ServerState \union {NIL}
        BY <3>2, <1>0, NetFields
      <4>1. \A i \in 1 .. Len(n.srv[t].sockets) : n.srv[t].sockets[i].fd # r.fd
        BY <2>3, <2>5, <3>2
      <4>2. \A f \in Fd : n.srv[t].sources[f] # NIL => n.srv[t].sources[f].sock.fd # r.fd
        <5> SUFFICES ASSUME NEW f \in Fd, n.srv[t].sources[f] # NIL PROVE f # r.fd
          BY <2>4, <3>2
        <5>1. \E i \in 1 .. Len(n.srv[t].sockets) : n.srv[t].sockets[i].fd = f
          BY <3>2, <1>8 DEF CleanNet
        <5> QED BY <5>1, <4>1
      <4> QED BY <3>2, <4>0, <4>1, <4>2, <1>4, ServerForgets
    <3> QED BY <3>1, <3>2
  <2>6. /\ v.srv[s] # NIL /\ Len(v.srv[s].sockets) = Len(L)
        /\ \A i \in 1 .. Len(L) : v.srv[s].sockets[i] = Forgotten(L[i], r.fd)
        /\ \A f \in Fd : v.srv[s].sources[f] = AddressForgot(n.srv[s].sources[f], r.fd)
    <3>1. n.srv[s] \in ServerState \union {NIL} /\ v.srv[s] = ServerForgot(n.srv[s], r.fd)
      BY <1>0, <1>4, NetFields
    <3> QED BY <3>1, ServerForgets
  <2>7. ASSUME NEW i \in 1 .. Len(L) PROVE v.srv[s].sockets[i].fd = L[i].fd /\ (i # 2 => v.srv[s].sockets[i] = L[i])
    <3>1. L[i] \in Ref
      BY <1>0, NetFields
    <3>2. i # 2 => L[i].fd # r.fd
      BY <2>3
    <3>3. Forgotten(L[i], r.fd).fd = L[i].fd /\ (L[i].fd # r.fd => Forgotten(L[i], r.fd) = L[i])
      BY <3>1, Forgets
    <3> QED BY <3>2, <3>3, <2>6
  <2>8. ASSUME NEW f \in Fd, f # r.fd PROVE v.srv[s].sources[f] = n.srv[s].sources[f]
    <3>1. CASE n.srv[s].sources[f] = NIL
      BY <3>1, <2>6 DEF AddressForgot
    <3>2. CASE n.srv[s].sources[f] # NIL
      <4>1. n.srv[s].sources[f].sock.fd # r.fd
        BY <2>4, <2>8, <3>2
      <4>2. n.srv[s].sources[f] \in AddressState \union {NIL}
        BY <1>0, NetFields
      <4> QED BY <4>1, <4>2, <3>2, <2>6, AddressForgets
    <3> QED BY <3>1, <3>2
  <2>9. PICK k \in 1 .. Len(v.srv[s].sockets) :
          /\ v.srv[s].sockets[k].fd = r.fd
          /\ Len(w.srv[s].sockets) = Len(v.srv[s].sockets) - 1
          /\ \A j \in 1 .. Len(w.srv[s].sockets) :
                w.srv[s].sockets[j] = IF j < k THEN v.srv[s].sockets[j] ELSE v.srv[s].sockets[j + 1]
          /\ w.srv[s].sources = [v.srv[s].sources EXCEPT ![r.fd] = NIL]
    <3>1. \E i \in 1 .. Len(v.srv[s].sockets) : v.srv[s].sockets[i].fd = r.fd
      BY <1>0, <2>6, <2>7
    <3> QED BY <3>1, <2>1, <1>6 DEF Removed
  <2>10. k = 2
    <3>1. k \in 1 .. Len(L)
      BY <2>6
    <3>2. L[k].fd = r.fd
      BY <3>1, <2>7, <2>9
    <3> QED BY <3>1, <3>2, <2>3
  <2>11. \A j \in 1 .. Len(w.srv[s].sockets) : w.srv[s].sockets[j] = IF j < 2 THEN L[j] ELSE L[j + 1]
    <3> SUFFICES ASSUME NEW j \in 1 .. Len(w.srv[s].sockets)
                 PROVE  w.srv[s].sockets[j] = IF j < 2 THEN L[j] ELSE L[j + 1]
      OBVIOUS
    <3>1. w.srv[s].sockets[j] = IF j < 2 THEN v.srv[s].sockets[j] ELSE v.srv[s].sockets[j + 1]
      BY <2>9, <2>10
    <3>2. Len(w.srv[s].sockets) = Len(L) - 1
      BY <2>9, <2>6
    <3>3. CASE j < 2
      <4>1. j \in 1 .. Len(L) /\ j # 2
        BY <3>2, <3>3, <1>0
      <4> QED BY <4>1, <3>1, <3>3, <2>7
    <3>4. CASE ~ (j < 2)
      <4>1. j + 1 \in 1 .. Len(L) /\ j + 1 # 2
        BY <3>2, <3>4, <1>0
      <4> QED BY <4>1, <3>1, <3>4, <2>7
    <3> QED BY <3>3, <3>4
  <2>12. \A f \in Fd : w.srv[s].sources[f] = IF f = r.fd THEN NIL ELSE n.srv[s].sources[f]
    <3>1. v.srv[s].sources \in [Fd -> AddressState \union {NIL}]
      BY <1>4, <2>6, NetFields DEF ServerState
    <3> QED BY <3>1, <2>8, <2>9
  <2>13. /\ w.adr = v.adr /\ w.file = v.file /\ w.stranger = v.stranger
         /\ \A t \in Servers : (w.srv[t] = NIL) <=> (v.srv[t] = NIL)
         /\ \A t \in Servers : t # s => w.srv[t] = v.srv[t]
    BY <1>6 DEF Removed
  <2>14. ~ w.stranger /\ w.srv[s] # NIL
    BY <2>1, <2>6, <2>13
  <2>15. w.file = [n.file EXCEPT ![r.fd] = NIL] /\ \A a \in Addresses : w.adr[a] = n.adr[a]
    BY <1>4, <2>2, <2>13
  <2>16. \A t \in Servers : t # s => w.srv[t] = n.srv[t]
    BY <2>5, <2>13
  <2>17. Len(w.srv[s].sockets) = Len(L) - 1
    BY <2>6, <2>9
  <2> QED BY <2>11, <2>12, <2>14, <2>15, <2>16, <2>17 DEF Shed
<1>9. CleanNet(n) => CleanNet(w) /\ (NoneLost(n, {}) => NoneLost(w, {}))
  <2> SUFFICES ASSUME CleanNet(n) PROVE CleanNet(w) /\ (NoneLost(n, {}) => NoneLost(w, {}))
    OBVIOUS
  <2>1. Shed(n, s, r.fd, w)
    BY <1>8
  <2> QED BY <2>1, <1>0, <1>4, ShedClean
<1> QED BY <1>7, <1>9 DEF Leads


-----------------------------------------------------------------------------
(* Threads                                                                 *)
ProcessShape(p) ==
    /\ p = [todo |-> p.todo, does |-> p.does, calls |-> p.calls, peers |-> p.peers]
    /\ p.todo \in Seq({"udp", "tcp"})
MainState == [pc : {"runs", "spins", "joins"}, srv : Servers \union {NIL}, free : BOOLEAN]
ThreadsShape ==
    /\ ProcessShape(process) /\ threads \in [Servers -> ThreadState] /\ main \in MainState
    /\ main.pc = "joins" => main.srv \in Servers /\ ~ threads[main.srv].active
    /\ \A s \in Servers : threads[s].active /\ threads[s].made = 0 => "no thread" \in cause
    /\ "no thread joined" \in fate => "no thread" \in cause
(* A thread that is not off is the one its server waits for. *)
Running(s, k) ==
    /\ net.srv[s] # NIL /\ threads[s].own /\ threads[s].made = k
    /\ threads[s].active \/ (main.pc = "joins" /\ main.srv = s)
ThreadsGood == "itself" \notin cause =>
    /\ fate \intersect {"freed while it runs", "two threads"} = {}
    /\ \A s \in Servers, k \in 1 .. 2 : threads[s].at[k] # "off" => Running(s, k)
    /\ main.pc = "joins" => net.srv[main.srv] # NIL
SocketsGood == NetPart(net, cause) /\ ThreadsShape /\ ThreadsGood

(* A step that leads the net on keeps its part of SocketsGood.             *)
LEMMA NetStep ==
    ASSUME NetPart(net, cause), NEW d, Leads(net, net', d), cause' = cause \union d
    PROVE  NetPart(net, cause)'
  BY LeadsOn

LEMMA Uses ==
    ASSUME NEW call, ProcessShape(process), Calls(call)
    PROVE  ProcessShape(process)'
  BY DEF ProcessShape, Calls

(* Steps that leave the threads alone *)
LEMMA Quiet ==
    ASSUME SocketsGood, UNCHANGED <<threads, main>>, ProcessShape(process)',
           NEW d, Leads(net, net', d), Alike(net, net'), cause' = cause \union d,
           fate' = fate \/ fate' = fate \union {"source before the first"}
    PROVE  SocketsGood'
<1>1. NetPart(net, cause)'
  BY NetStep DEF SocketsGood
<1>2. ThreadsShape'
  BY DEF SocketsGood, ThreadsShape
<1>3. ThreadsGood'
  <2> SUFFICES ASSUME "itself" \notin cause'
               PROVE  /\ fate' \intersect {"freed while it runs", "two threads"} = {}
                      /\ \A s \in Servers, k \in 1 .. 2 : threads'[s].at[k] # "off" => Running(s, k)'
                      /\ main'.pc = "joins" => net'.srv[main'.srv] # NIL
    BY DEF ThreadsGood
  <2>1. ThreadsGood /\ "itself" \notin cause
    BY DEF SocketsGood
  <2>2. fate' \intersect {"freed while it runs", "two threads"} = {}
    BY <2>1 DEF ThreadsGood
  <2>3. \A s \in Servers, k \in 1 .. 2 : threads'[s].at[k] # "off" => Running(s, k)'
    BY <2>1 DEF ThreadsGood, Running, Alike
  <2>4. main'.pc = "joins" => net'.srv[main'.srv] # NIL
    BY <2>1 DEF ThreadsGood, Alike, SocketsGood, ThreadsShape
  <2> QED BY <2>2, <2>3, <2>4
<1> QED BY <1>1, <1>2, <1>3 DEF SocketsGood

LEMMA MainQuiet ==
    ASSUME SocketsGood, NEW call, Calls(call), UNCHANGED <<threads, main, fate>>,
           NEW d, Leads(net, net', d), Alike(net, net'), cause' = cause \union d
    PROVE  SocketsGood'
<1>1. ProcessShape(process)'
  BY Uses DEF SocketsGood, ThreadsShape
<1> QED BY <1>1, Quiet

LEMMA StepNewAddress ==
    ASSUME SocketsGood, NEW a \in Addresses, NEW proto \in {"udp", "tcp"}, NewAddress(a, proto)
    PROVE  SocketsGood'
<1>1. NetGood(net) /\ net.adr[a] = NIL /\ net' = AddressNew(net, a, proto)
  BY DEF SocketsGood, NetPart, NewAddress
<1>2. Leads(net, net', {}) /\ Alike(net, net')
  BY <1>1, News
<1>3. UNCHANGED <<threads, main, fate>> /\ cause' = cause \union {} /\ Calls("address")
  BY DEF NewAddress
<1> QED BY <1>2, <1>3, MainQuiet

LEMMA StepFreeAddress ==
    ASSUME SocketsGood, NEW a \in Addresses, FreeAddress(a)
    PROVE  SocketsGood'
<1>1. NetGood(net) /\ net.adr[a] # NIL /\ net' = AddressFree(net, a)
  BY DEF SocketsGood, NetPart, FreeAddress
<1>2. Leads(net, net', {}) /\ Alike(net, net')
  BY <1>1, LeadsFreed
<1>3. UNCHANGED <<threads, main, fate>> /\ cause' = cause \union {} /\ Calls("address")
  BY DEF FreeAddress
<1> QED BY <1>2, <1>3, MainQuiet

LEMMA StepSendMessage ==
    ASSUME SocketsGood, NEW a \in Addresses, NEW from \in Servers \union {NIL}, NEW twice \in BOOLEAN,
           SendMessage(a, from, twice)
    PROVE  SocketsGood'
<1> DEFINE at == [srv |-> NIL, key |-> a]
<1>1. NetGood(net) /\ Place(net, at) /\ Sender(net, from)
  BY DEF SocketsGood, NetPart, SendMessage, Place, Sender, Alive
<1>2. PICK o \in SendFrom(net, at, from, twice) : net' = o.net /\ cause' = cause \union o.cause
  BY DEF SendMessage, Becomes
<1> HIDE DEF at
<1>3. Sends(net, at, o)
  BY <1>1, <1>2, SendsFromGood
<1>4. Leads(net, net', o.cause) /\ Alike(net, net')
  BY <1>2, <1>3, LeadsSend
<1>5. UNCHANGED <<threads, main, fate>> /\ Calls("send")
  BY DEF SendMessage
<1> QED BY <1>2, <1>4, <1>5, MainQuiet

LEMMA StepOpenOther ==
    ASSUME SocketsGood, OpenOther
    PROVE  SocketsGood'
<1>1. NetGood(net) /\ FreeFd(net) # {} /\ net' = Opened(net, "other")
  BY DEF SocketsGood, NetPart, OpenOther
<1>2. Leads(net, net', {}) /\ Alike(net, net')
  BY <1>1, OpensOther
<1>3. UNCHANGED <<threads, main, fate>> /\ cause' = cause \union {} /\ Calls("other")
  BY DEF OpenOther
<1> QED BY <1>2, <1>3, MainQuiet

LEMMA StepPeerCloses ==
    ASSUME SocketsGood, NEW fd \in Fd, PeerCloses(fd)
    PROVE  SocketsGood'
<1>1. NetGood(net) /\ net.file[fd] = "stream" /\ net' = [net EXCEPT !.file[fd] = "gone"]
  BY DEF SocketsGood, NetPart, PeerCloses
<1>2. Leads(net, net', {}) /\ Alike(net, net')
  BY <1>1, Goes
<1>3. UNCHANGED <<threads, main>> /\ fate' = fate /\ cause' = cause \union {} /\ ProcessShape(process)'
  BY DEF PeerCloses, SocketsGood, ThreadsShape
<1> QED BY <1>2, <1>3, Quiet

LEMMA StepAcceptStream ==
    ASSUME SocketsGood, NEW s \in Servers, NEW k \in 1 .. 2, AcceptStream(s, k)
    PROVE  SocketsGood'
<1>1. NetGood(net) /\ net.srv[s] # NIL /\ net' = AddSocket(Opened(net, "stream"), s, NewSock(net))
  BY DEF SocketsGood, NetPart, AcceptStream, Runs, Alive
<1>2. Leads(net, net', {}) /\ Alike(net, net')
  BY <1>1, Accepts
<1>3. /\ UNCHANGED <<threads, main>> /\ cause' = cause \union {}
      /\ fate' = fate \/ fate' = fate \union {"source before the first"}
  BY DEF AcceptStream
<1>4. ProcessShape(process)'
  BY DEF AcceptStream, SocketsGood, ThreadsShape, ProcessShape
<1> QED BY <1>2, <1>3, <1>4, Quiet

LEMMA StepSocketEnds ==
    ASSUME SocketsGood, NEW s \in Servers, NEW k \in 1 .. 2, SocketEnds(s, k)
    PROVE  SocketsGood'
<1> DEFINE r == Reading(s)
<1>1. /\ NetGood(net) /\ net.srv[s] # NIL /\ ~ net.stranger /\ net.srv[s].proto = "tcp"
      /\ Usable(net, r) /\ net' = DelSocket(closesocket(net, r), s, r.fd)
  BY DEF SocketsGood, NetPart, SocketEnds, Runs, Alive
<1>2. Len(net.srv[s].sockets) > 1 /\ r = net.srv[s].sockets[2]
  BY <1>1 DEF Reading, Usable, None
<1> HIDE DEF r
<1>3. Leads(net, net', {}) /\ Alike(net, net')
  BY <1>1, <1>2, Sheds
<1>4. UNCHANGED <<threads, main>> /\ fate' = fate /\ cause' = cause \union {} /\ ProcessShape(process)'
  BY DEF SocketEnds, SocketsGood, ThreadsShape
<1> QED BY <1>3, <1>4, Quiet

LEMMA StepReply ==
    ASSUME SocketsGood, NEW s \in Servers, NEW k \in 1 .. 2, NEW from \in {s, NIL}, Reply(s, k, from)
    PROVE  SocketsGood'
<1> DEFINE fd == threads[s].now[k]
           at == [srv |-> s, key |-> fd]
<1>1. NetGood(net) /\ Place(net, at) /\ Sender(net, from)
  <2>1. fd \in Fd
    BY DEF SocketsGood, ThreadsShape, ThreadState, Reply
  <2>2. net.srv[s] # NIL /\ net.srv[s].sources[fd] # NIL
    BY DEF Reply, Alive
  <2> QED BY <2>1, <2>2 DEF SocketsGood, NetPart, Place, Sender
<1>2. PICK o \in SendFrom(net, at, from, TRUE) : net' = o.net /\ cause' = cause \union o.cause
  BY DEF Reply, Becomes
<1> HIDE DEF at
<1>3. Sends(net, at, o)
  BY <1>1, <1>2, SendsFromGood
<1>4. Leads(net, net', o.cause) /\ Alike(net, net')
  BY <1>2, <1>3, LeadsSend
<1>5. UNCHANGED <<threads, main, fate>> /\ Calls("reply")
  BY DEF Reply
<1> QED BY <1>2, <1>4, <1>5, MainQuiet

-----------------------------------------------------------------------------
(* What the state of one server's thread is set to                         *)
LEMMA Threaded1 ==
    ASSUME SocketsGood, NEW s \in Servers
    PROVE  /\ threads[s] \in ThreadState
           /\ threads[s] = [active |-> threads[s].active, own |-> threads[s].own, made |-> threads[s].made,
                            at |-> threads[s].at, now |-> threads[s].now]
           /\ DOMAIN threads[s].at = 1 .. 2 /\ DOMAIN threads[s].now = 1 .. 2
           /\ DOMAIN threads = Servers
  BY DEF SocketsGood, ThreadsShape, ThreadState

LEMMA StepHandle ==
    ASSUME SocketsGood, NEW s \in Servers, NEW k \in 1 .. 2, Handle(s, k)
    PROVE  SocketsGood'
<1> DEFINE r == Reading(s)
           x == threads[s]
           f == IF net.srv[s].proto = "tcp" THEN r.fd ELSE -1
           y == [x EXCEPT !.at[k] = "handler", !.now[k] = f]
<1>1. /\ NetGood(net) /\ net.srv[s] # NIL /\ ~ net.stranger /\ net' = Touched(net, r) /\ x.at[k] = "recv"
      /\ UNCHANGED <<process, main, cause, fate>> /\ threads' = [threads EXCEPT ![s] = y] /\ Usable(net, r)
  BY DEF SocketsGood, NetPart, Handle, Runs, Alive
<1>2. r \in Ref /\ (CleanNet(net) => r.mine)
  <2>1. Len(net.srv[s].sockets) >= 1 /\ net \in NetState
    BY <1>1 DEF NetGood, FirstsKept, FirstKept
  <2>2. Len(net.srv[s].sockets) \in Nat
    BY <1>1, <2>1, NetFields
  <2>3. r = None \/ \E i \in 1 .. Len(net.srv[s].sockets) : r = net.srv[s].sockets[i]
    <3>1. 1 \in 1 .. Len(net.srv[s].sockets)
      BY <2>1, <2>2
    <3>2. Len(net.srv[s].sockets) > 1 => 2 \in 1 .. Len(net.srv[s].sockets)
      BY <2>2
    <3> QED BY <3>1, <3>2 DEF Reading
  <2>4. CASE r = None
    BY <2>4, Nils DEF None
  <2>5. CASE \E i \in 1 .. Len(net.srv[s].sockets) : r = net.srv[s].sockets[i]
    <3>1. PICK i \in 1 .. Len(net.srv[s].sockets) : r = net.srv[s].sockets[i]
      BY <2>5
    <3>2. r \in Ref
      BY <3>1, <2>1, <1>1, NetFields
    <3>3. CleanNet(net) => Held(net, net.srv[s].sockets[i])
      BY <1>1 DEF CleanNet
    <3> HIDE DEF r
    <3> QED BY <3>1, <3>2, <3>3 DEF Held, None
  <2> QED BY <2>3, <2>4, <2>5
<1> HIDE DEF r
<1>3. Leads(net, net', {}) /\ Alike(net, net')
  BY <1>1, <1>2, Hears
<1>4. cause' = cause \union {}
  BY <1>1
<1>5. NetPart(net, cause)'
  BY <1>3, <1>4, NetStep DEF SocketsGood
<1>6. f \in Fd \union {-1}
  BY <1>2 DEF Ref
<1>7. x \in ThreadState /\ DOMAIN threads = Servers
  BY Threaded1
<1>8. /\ y \in ThreadState /\ y.active = x.active /\ y.own = x.own /\ y.made = x.made
      /\ \A j \in 1 .. 2 : y.at[j] # "off" => x.at[j] # "off"
  <2> HIDE DEF x, f
  <2>1. y \in ThreadState /\ y.active = x.active /\ y.own = x.own /\ y.made = x.made
    BY <1>6, <1>7 DEF ThreadState
  <2>2. \A j \in 1 .. 2 : y.at[j] # "off" => x.at[j] # "off"
    BY <1>1, <1>7 DEF ThreadState, x
  <2> QED BY <2>1, <2>2
<1> HIDE DEF y
<1>9. threads'[s] = y /\ \A t \in Servers : t # s => threads'[t] = threads[t]
  BY <1>1, <1>7
<1>10. ThreadsShape'
  <2>1. threads' \in [Servers -> ThreadState]
    BY <1>1, <1>8 DEF SocketsGood, ThreadsShape
  <2> QED BY <2>1, <1>1, <1>8, <1>9 DEF SocketsGood, ThreadsShape
<1>11. ThreadsGood'
  <2> SUFFICES ASSUME "itself" \notin cause'
               PROVE  /\ fate' \intersect {"freed while it runs", "two threads"} = {}
                      /\ \A t \in Servers, j \in 1 .. 2 : threads'[t].at[j] # "off" => Running(t, j)'
                      /\ main'.pc = "joins" => net'.srv[main'.srv] # NIL
    BY DEF ThreadsGood
  <2>1. ThreadsGood /\ "itself" \notin cause
    BY <1>1 DEF SocketsGood
  <2>2. fate' \intersect {"freed while it runs", "two threads"} = {}
    BY <2>1, <1>1 DEF ThreadsGood
  <2>3. ASSUME NEW t \in Servers, NEW j \in 1 .. 2, threads'[t].at[j] # "off" PROVE Running(t, j)'
    <3>1. threads[t].at[j] # "off"
      BY <2>3, <1>8, <1>9
    <3>2. Running(t, j)
      BY <3>1, <2>1 DEF ThreadsGood
    <3>3. threads'[t].own = threads[t].own /\ threads'[t].made = threads[t].made /\ threads'[t].active = threads[t].active
      BY <1>8, <1>9
    <3> QED BY <3>2, <3>3, <1>1, <1>3 DEF Running, Alike
  <2>4. main'.pc = "joins" => net'.srv[main'.srv] # NIL
    BY <2>1, <1>1, <1>3 DEF ThreadsGood, Alike, SocketsGood, ThreadsShape
  <2> QED BY <2>2, <2>3, <2>4
<1> QED BY <1>5, <1>10, <1>11 DEF SocketsGood

LEMMA StepThreadGoesOn ==
    ASSUME SocketsGood, NEW s \in Servers, NEW k \in 1 .. 2, ThreadGoesOn(s, k)
    PROVE  SocketsGood'
<1> DEFINE x == threads[s]
           v == IF x.at[k] = "handler" /\ s \in Alive THEN "recv" ELSE "off"
           y == [x EXCEPT !.now[k] = -1, !.at[k] = v]
<1>1. /\ x.at[k] # "off" /\ UNCHANGED <<process, net, main, cause>> /\ threads' = [threads EXCEPT ![s] = y]
      /\ fate' = IF s \in Alive THEN fate ELSE fate \union {"freed while it runs"}
  BY DEF ThreadGoesOn
<1>2. NetPart(net, cause)'
  BY <1>1 DEF SocketsGood
<1>3. x \in ThreadState /\ DOMAIN threads = Servers
  BY Threaded1
<1>4. v \in {"off", "recv"}
  OBVIOUS
<1>5. /\ y \in ThreadState /\ y.active = x.active /\ y.own = x.own /\ y.made = x.made
      /\ \A j \in 1 .. 2 : y.at[j] # "off" => x.at[j] # "off"
  <2> HIDE DEF x, v
  <2>1. y \in ThreadState /\ y.active = x.active /\ y.own = x.own /\ y.made = x.made
    BY <1>4, <1>3 DEF ThreadState
  <2>2. \A j \in 1 .. 2 : y.at[j] # "off" => x.at[j] # "off"
    BY <1>1, <1>3 DEF ThreadState, x
  <2> QED BY <2>1, <2>2
<1> HIDE DEF y
<1>6. threads'[s] = y /\ \A t \in Servers : t # s => threads'[t] = threads[t]
  BY <1>1, <1>3
<1>7. ThreadsShape'
  <2>1. threads' \in [Servers -> ThreadState]
    BY <1>1, <1>5 DEF SocketsGood, ThreadsShape
  <2>2. "no thread joined" \in fate' => "no thread joined" \in fate
    BY <1>1
  <2> QED BY <2>1, <2>2, <1>1, <1>5, <1>6 DEF SocketsGood, ThreadsShape
<1>8. ThreadsGood'
  <2> SUFFICES ASSUME "itself" \notin cause'
               PROVE  /\ fate' \intersect {"freed while it runs", "two threads"} = {}
                      /\ \A t \in Servers, j \in 1 .. 2 : threads'[t].at[j] # "off" => Running(t, j)'
                      /\ main'.pc = "joins" => net'.srv[main'.srv] # NIL
    BY DEF ThreadsGood
  <2>1. ThreadsGood /\ "itself" \notin cause
    BY <1>1 DEF SocketsGood
  <2>0. s \in Alive
    BY <2>1, <1>1 DEF ThreadsGood, Running, Alive
  <2>2. fate' \intersect {"freed while it runs", "two threads"} = {}
    BY <2>1, <2>0, <1>1 DEF ThreadsGood
  <2>3. ASSUME NEW t \in Servers, NEW j \in 1 .. 2, threads'[t].at[j] # "off" PROVE Running(t, j)'
    <3>1. threads[t].at[j] # "off"
      BY <2>3, <1>5, <1>6
    <3>2. Running(t, j)
      BY <3>1, <2>1 DEF ThreadsGood
    <3>3. threads'[t].own = threads[t].own /\ threads'[t].made = threads[t].made /\ threads'[t].active = threads[t].active
      BY <1>5, <1>6
    <3> QED BY <3>2, <3>3, <1>1 DEF Running, Alike
  <2>4. main'.pc = "joins" => net'.srv[main'.srv] # NIL
    BY <2>1, <1>1 DEF ThreadsGood, Alike, SocketsGood, ThreadsShape
  <2> QED BY <2>2, <2>3, <2>4
<1> QED BY <1>2, <1>7, <1>8 DEF SocketsGood

LEMMA FreedNet ==
    ASSUME SocketsGood, NEW s \in Servers, net.srv[s] # NIL, NEW free,
           IF free THEN net' = ServerFree(net, s) ELSE UNCHANGED net
    PROVE  /\ Leads(net, net', {})
           /\ \A t \in Servers : t # s \/ ~ free => ((net'.srv[t] = NIL) <=> (net.srv[t] = NIL))
<1>1. NetGood(net)
  BY DEF SocketsGood, NetPart
<1>2. CASE free
  BY <1>1, <1>2, LeadsServerFreed
<1>3. CASE ~ free
  BY <1>1, <1>3 DEF Leads
<1> QED BY <1>2, <1>3

LEMMA StepStopItself ==
    ASSUME SocketsGood, NEW s \in Servers, NEW k \in 1 .. 2, NEW free \in BOOLEAN, StopItself(s, k, free)
    PROVE  SocketsGood'
<1> DEFINE x == threads[s]
           y == [x EXCEPT !.active = FALSE, !.own = ~ free]
<1>1. /\ net.srv[s] # NIL /\ Calls("itself") /\ threads' = [threads EXCEPT ![s] = y]
      /\ IF free THEN net' = ServerFree(net, s) ELSE UNCHANGED net
      /\ cause' = cause \union {"itself"} /\ UNCHANGED <<main, fate>>
  BY DEF StopItself, Alive
<1>2. Leads(net, net', {"itself"})
  <2>1. Leads(net, net', {})
    BY <1>1, FreedNet
  <2> QED BY <2>1 DEF Leads
<1>3. NetPart(net, cause)'
  BY <1>1, <1>2, NetStep DEF SocketsGood
<1>4. x \in ThreadState /\ DOMAIN threads = Servers
  BY Threaded1
<1>5. y \in ThreadState /\ y.active = FALSE /\ y.made = x.made
  <2> HIDE DEF x
  <2> QED BY <1>4 DEF ThreadState
<1> HIDE DEF y
<1>6. threads'[s] = y /\ \A t \in Servers : t # s => threads'[t] = threads[t]
  BY <1>1, <1>4
<1>7. ThreadsShape'
  <2>1. threads' \in [Servers -> ThreadState]
    BY <1>1, <1>5 DEF SocketsGood, ThreadsShape
  <2>2. ProcessShape(process)'
    BY <1>1, Uses DEF SocketsGood, ThreadsShape
  <2> QED BY <2>1, <2>2, <1>1, <1>5, <1>6 DEF SocketsGood, ThreadsShape
<1>8. ThreadsGood'
  BY <1>1 DEF ThreadsGood
<1> QED BY <1>3, <1>7, <1>8 DEF SocketsGood

-----------------------------------------------------------------------------
(* A step of the main thread that changes one server's thread              *)
LEMMA ThreadsOn ==
    ASSUME SocketsGood, NEW s \in Servers, NEW y, threads' = [threads EXCEPT ![s] = y],
           "itself" \in cause => "itself" \in cause',
           "itself" \notin cause' => fate' \intersect {"freed while it runs", "two threads"} \subseteq fate,
           \A t \in Servers : t # s => ((net'.srv[t] = NIL) <=> (net.srv[t] = NIL)),
           "itself" \notin cause' => \A k \in 1 .. 2 : y.at[k] # "off" => Running(s, k)',
           "itself" \notin cause' /\ main'.pc = "joins" => net'.srv[main'.srv] # NIL,
           main.pc # "joins" \/ main.srv = s
    PROVE  ThreadsGood'
<1> SUFFICES ASSUME "itself" \notin cause'
             PROVE  /\ fate' \intersect {"freed while it runs", "two threads"} = {}
                    /\ \A t \in Servers, j \in 1 .. 2 : threads'[t].at[j] # "off" => Running(t, j)'
                    /\ main'.pc = "joins" => net'.srv[main'.srv] # NIL
  BY DEF ThreadsGood
<1>1. ThreadsGood /\ "itself" \notin cause
  BY DEF SocketsGood
<1>2. fate' \intersect {"freed while it runs", "two threads"} = {}
  BY <1>1 DEF ThreadsGood
<1>3. threads'[s] = y /\ \A t \in Servers : t # s => threads'[t] = threads[t]
  BY Threaded1
<1>4. ASSUME NEW t \in Servers, NEW j \in 1 .. 2, threads'[t].at[j] # "off" PROVE Running(t, j)'
  <2>1. CASE t = s
    BY <1>3, <1>4, <2>1
  <2>2. CASE t # s
    <3>1. Running(t, j) /\ threads'[t] = threads[t]
      BY <1>1, <1>3, <1>4, <2>2 DEF ThreadsGood
    <3> QED BY <3>1, <2>2 DEF Running
  <2> QED BY <2>1, <2>2
<1> QED BY <1>2, <1>4

LEMMA ShapeOn ==
    ASSUME SocketsGood, NEW s \in Servers, NEW y \in ThreadState, threads' = [threads EXCEPT ![s] = y],
           ProcessShape(process)', main' \in MainState,
           main'.pc = "joins" => main'.srv \in Servers /\ (main'.srv = s \/ main' = main) /\ (main'.srv = s => ~ y.active),
           y.active /\ y.made = 0 => "no thread" \in cause',
           "no thread" \in cause => "no thread" \in cause',
           "no thread joined" \in fate' => "no thread joined" \in fate \/ "no thread" \in cause'
    PROVE  ThreadsShape'
<1>1. threads'[s] = y /\ \A t \in Servers : t # s => threads'[t] = threads[t]
  BY Threaded1
<1>2. threads' \in [Servers -> ThreadState]
  BY DEF SocketsGood, ThreadsShape
<1>3. ThreadsShape
  BY DEF SocketsGood
<1>4. main'.pc = "joins" => main'.srv \in Servers /\ ~ threads'[main'.srv].active
  BY <1>1, <1>3 DEF ThreadsShape
<1>5. \A t \in Servers : threads'[t].active /\ threads'[t].made = 0 => "no thread" \in cause'
  BY <1>1, <1>3 DEF ThreadsShape
<1>6. "no thread joined" \in fate' => "no thread" \in cause'
  BY <1>3 DEF ThreadsShape
<1> QED BY <1>2, <1>4, <1>5, <1>6 DEF ThreadsShape

LEMMA IdleThread ==
    ASSUME SocketsGood, "itself" \notin cause, NEW s \in Servers, NEW k \in 1 .. 2,
           main.pc # "joins", net.srv[s] = NIL \/ ~ threads[s].active \/ ~ threads[s].own
    PROVE  threads[s].at[k] = "off"
  BY DEF SocketsGood, ThreadsGood, Running

LEMMA StepFreeServer ==
    ASSUME SocketsGood, NEW s \in Servers, FreeServer(s)
    PROVE  SocketsGood'
<1>1. /\ net.srv[s] # NIL /\ ~ threads[s].own /\ main.pc = "runs" /\ Calls("server")
      /\ net' = ServerFree(net, s) /\ UNCHANGED <<threads, main, cause, fate>>
  BY DEF FreeServer, MainRuns, Alive, Threaded
<1>2. Leads(net, net', {}) /\ \A t \in Servers : t # s => ((net'.srv[t] = NIL) <=> (net.srv[t] = NIL))
  BY <1>1, LeadsServerFreed DEF SocketsGood, NetPart
<1>3. cause' = cause \union {}
  BY <1>1
<1>4. NetPart(net, cause)'
  BY <1>2, <1>3, NetStep DEF SocketsGood
<1>5. threads' = [threads EXCEPT ![s] = threads[s]] /\ threads[s] \in ThreadState
  BY <1>1, Threaded1 DEF SocketsGood, ThreadsShape
<1>6. ProcessShape(process)'
  BY <1>1, Uses DEF SocketsGood, ThreadsShape
<1>7. ThreadsShape'
  BY <1>1, <1>6 DEF SocketsGood, ThreadsShape
<1>8. "itself" \notin cause' => \A k \in 1 .. 2 : threads[s].at[k] # "off" => Running(s, k)'
  BY <1>1, IdleThread
<1>9. ThreadsGood'
  BY <1>1, <1>2, <1>5, <1>8, ThreadsOn
<1> QED BY <1>4, <1>7, <1>9 DEF SocketsGood

LEMMA StepStartThread ==
    ASSUME SocketsGood, NEW s \in Servers, StartThread(s)
    PROVE  SocketsGood'
<1> DEFINE x == threads[s]
<1>1. /\ net.srv[s] # NIL /\ x.own /\ main.pc = "runs" /\ Calls("thread") /\ UNCHANGED <<net, main>>
      /\ \/ x.active /\ UNCHANGED <<threads, cause, fate>>
         \/ ~ x.active /\ threads' = [threads EXCEPT ![s].active = TRUE] /\ cause' = cause \union {"no thread"} /\ UNCHANGED fate
         \/ ~ x.active /\ UNCHANGED cause /\ \E k \in 1 .. 2 :
                 /\ x.at[k] = "off"
                 /\ threads' = [threads EXCEPT ![s] = [@ EXCEPT !.active = TRUE, !.made = k, !.at[k] = "recv"]]
                 /\ fate' = IF x.at[3 - k] = "off" THEN fate ELSE fate \union {"two threads"}
  BY DEF StartThread, MainRuns, Alive, Threaded
<1>2. ProcessShape(process)'
  BY <1>1, Uses DEF SocketsGood, ThreadsShape
<1>3. Leads(net, net', {}) /\ Leads(net, net', {"no thread"}) /\ Alike(net, net')
  BY <1>1 DEF SocketsGood, NetPart, Leads, Alike
<1>4. main' \in MainState /\ main'.pc = "runs"
  BY <1>1 DEF SocketsGood, ThreadsShape
<1>5. x \in ThreadState /\ DOMAIN threads = Servers
  BY Threaded1
<1>6. CASE UNCHANGED <<threads, cause, fate>>
  <2>1. cause' = cause \union {} /\ UNCHANGED <<threads, main, fate>> /\ Calls("thread")
    BY <1>1, <1>6
  <2> QED BY <2>1, <1>3, MainQuiet
<1>7. CASE ~ x.active /\ threads' = [threads EXCEPT ![s].active = TRUE] /\ cause' = cause \union {"no thread"} /\ UNCHANGED fate
  <2> DEFINE y == [x EXCEPT !.active = TRUE]
  <2>1. threads' = [threads EXCEPT ![s] = y]
    BY <1>7
  <2>2. y \in ThreadState /\ y.at = x.at
    <3> HIDE DEF x
    <3> QED BY <1>5 DEF ThreadState
  <2> HIDE DEF y
  <2>3. ThreadsShape'
    BY <1>2, <1>4, <1>7, <2>1, <2>2, ShapeOn
  <2>4. "itself" \notin cause' => \A k \in 1 .. 2 : y.at[k] # "off" => Running(s, k)'
    BY <1>1, <1>7, <2>2, IdleThread
  <2>5. /\ "itself" \in cause => "itself" \in cause'
        /\ "itself" \notin cause' => fate' \intersect {"freed while it runs", "two threads"} \subseteq fate
        /\ \A t \in Servers : t # s => ((net'.srv[t] = NIL) <=> (net.srv[t] = NIL))
        /\ "itself" \notin cause' /\ main'.pc = "joins" => net'.srv[main'.srv] # NIL
        /\ main.pc # "joins" \/ main.srv = s
    BY <1>1, <1>4, <1>7
  <2>6. ThreadsGood'
    BY <2>1, <2>4, <2>5, ThreadsOn
  <2>7. NetPart(net, cause)'
    BY <1>3, <1>7, NetStep DEF SocketsGood
  <2> QED BY <2>3, <2>6, <2>7 DEF SocketsGood
<1>8. CASE ~ x.active /\ UNCHANGED cause /\ \E k \in 1 .. 2 :
                 /\ x.at[k] = "off"
                 /\ threads' = [threads EXCEPT ![s] = [@ EXCEPT !.active = TRUE, !.made = k, !.at[k] = "recv"]]
                 /\ fate' = IF x.at[3 - k] = "off" THEN fate ELSE fate \union {"two threads"}
  <2>1. PICK k \in 1 .. 2 :
                 /\ x.at[k] = "off"
                 /\ threads' = [threads EXCEPT ![s] = [@ EXCEPT !.active = TRUE, !.made = k, !.at[k] = "recv"]]
                 /\ fate' = IF x.at[3 - k] = "off" THEN fate ELSE fate \union {"two threads"}
    BY <1>8
  <2> DEFINE y == [x EXCEPT !.active = TRUE, !.made = k, !.at[k] = "recv"]
  <2>2. threads' = [threads EXCEPT ![s] = y]
    BY <2>1
  <2>3. /\ y \in ThreadState /\ y.active /\ y.made = k /\ y.own = x.own
        /\ \A j \in 1 .. 2 : j # k => y.at[j] = x.at[j]
    <3> HIDE DEF x
    <3>1. k \in 0 .. 2
      OBVIOUS
    <3> QED BY <1>5, <3>1 DEF ThreadState
  <2> HIDE DEF y
  <2>4. y.made # 0 /\ ("no thread joined" \in fate' => "no thread joined" \in fate)
    <3>1. fate' = fate \/ fate' = fate \union {"two threads"}
      BY <2>1
    <3>2. y.made # 0
      BY <2>3
    <3> QED BY <3>1, <3>2
  <2>5. ThreadsShape'
    BY <1>2, <1>4, <1>8, <2>2, <2>3, <2>4, ShapeOn
  <2>6. "itself" \notin cause' => \A j \in 1 .. 2 : x.at[j] = "off"
    BY <1>1, <1>8, IdleThread
  <2>7. "itself" \notin cause' => \A j \in 1 .. 2 : y.at[j] # "off" => Running(s, j)'
    <3>1. threads'[s] = y
      BY <2>2, <1>5
    <3> HIDE DEF x
    <3>2. "itself" \notin cause' => \A j \in 1 .. 2 : y.at[j] # "off" => j = k
      BY <2>3, <2>6
    <3> QED BY <3>1, <3>2, <2>3, <1>1 DEF Running
  <2>8. "itself" \notin cause' => fate' = fate
    <3>1. 3 - k \in 1 .. 2
      OBVIOUS
    <3> QED BY <3>1, <2>1, <2>6
  <2>9. /\ "itself" \in cause => "itself" \in cause'
        /\ "itself" \notin cause' => fate' \intersect {"freed while it runs", "two threads"} \subseteq fate
        /\ \A t \in Servers : t # s => ((net'.srv[t] = NIL) <=> (net.srv[t] = NIL))
        /\ "itself" \notin cause' /\ main'.pc = "joins" => net'.srv[main'.srv] # NIL
        /\ main.pc # "joins" \/ main.srv = s
    BY <1>1, <1>4, <1>8, <2>8
  <2>10. ThreadsGood'
    BY <2>2, <2>7, <2>9, ThreadsOn
  <2>11. NetPart(net, cause)'
    <3>1. cause' = cause \union {}
      BY <1>8
    <3> QED BY <3>1, <1>3, NetStep DEF SocketsGood
  <2> QED BY <2>5, <2>10, <2>11 DEF SocketsGood
<1> QED BY <1>1, <1>6, <1>7, <1>8
LEMMA ThreadPut ==
    ASSUME NEW x \in ThreadState, NEW m \in 0 .. 2, NEW o \in BOOLEAN, NEW y, y = [x EXCEPT !.made = m, !.own = o]
    PROVE  y \in ThreadState /\ y.active = x.active /\ y.own = o /\ y.made = m /\ y.at = x.at
  BY DEF ThreadState

LEMMA FirstThread ==
    ASSUME NEW y, y = [NoThread EXCEPT !.own = TRUE, !.active = TRUE, !.made = 1, !.at[1] = "recv"]
    PROVE  /\ y \in ThreadState /\ y.active /\ y.own /\ y.made = 1
           /\ \A k \in 1 .. 2 : y.at[k] # "off" => k = 1
<1>1. NoThread \in ThreadState /\ NoThread.at = [k \in 1 .. 2 |-> "off"]
  BY DEF NoThread, ThreadState
<1>2. y.at = [NoThread.at EXCEPT ![1] = "recv"] /\ y.active = TRUE /\ y.own = TRUE /\ y.made = 1 /\ y.now = NoThread.now
  BY <1>1 DEF ThreadState
<1>3. y = [active |-> TRUE, own |-> TRUE, made |-> 1, at |-> [NoThread.at EXCEPT ![1] = "recv"], now |-> NoThread.now]
  BY <1>1 DEF ThreadState
<1>4. [NoThread.at EXCEPT ![1] = "recv"] \in [1 .. 2 -> {"off", "recv", "handler"}]
  BY <1>1
<1>5. y \in ThreadState
  <2>1. NoThread.now \in [1 .. 2 -> Fd \union {-1}] /\ 1 \in 0 .. 2
    BY <1>1 DEF ThreadState
  <2> DEFINE u == [NoThread.at EXCEPT ![1] = "recv"]
             v == NoThread.now
  <2> DEFINE b == TRUE
             m == 1
  <2>2. y = [active |-> b, own |-> b, made |-> m, at |-> u, now |-> v]
    BY <1>3
  <2>a. b \in BOOLEAN /\ m \in 0 .. 2
    OBVIOUS
  <2>3. u \in [1 .. 2 -> {"off", "recv", "handler"}] /\ v \in [1 .. 2 -> Fd \union {-1}]
    BY <1>4, <2>1
  <2> HIDE DEF u, v, b, m
  <2> QED BY <2>a, <2>2, <2>3 DEF ThreadState
<1>6. \A k \in 1 .. 2 : y.at[k] # "off" => k = 1
  BY <1>1, <1>2
<1> QED BY <1>2, <1>5, <1>6

LEMMA OwnThread ==
    ASSUME NEW o \in BOOLEAN, NEW y, y = [NoThread EXCEPT !.own = o]
    PROVE  /\ y \in ThreadState /\ y.active = FALSE /\ y.own = o /\ \A k \in 1 .. 2 : y.at[k] = "off"
<1>1. NoThread \in ThreadState /\ NoThread.at = [k \in 1 .. 2 |-> "off"] /\ NoThread.active = FALSE
  BY DEF NoThread, ThreadState
<1>2. y \in ThreadState /\ y.active = NoThread.active /\ y.own = o /\ y.at = NoThread.at
  BY <1>1 DEF ThreadState
<1> QED BY <1>1, <1>2

LEMMA StepStopThread ==
    ASSUME SocketsGood, NEW s \in Servers, NEW free \in BOOLEAN, StopThread(s, free)
    PROVE  SocketsGood'
<1> DEFINE x == threads[s]
           y == [x EXCEPT !.active = FALSE, !.own = ~ (free /\ ~ x.active)]
<1>1. /\ net.srv[s] # NIL /\ x.own /\ main.pc = "runs" /\ Calls("thread") /\ UNCHANGED cause
      /\ threads' = [threads EXCEPT ![s] = y]
      /\ \/ /\ ~ x.active /\ UNCHANGED <<main, fate>>
            /\ IF free THEN net' = ServerFree(net, s) ELSE UNCHANGED net
         \/ /\ x.active /\ main' = [pc |-> "joins", srv |-> s, free |-> free] /\ UNCHANGED net
            /\ fate' = IF x.made = 0 THEN fate \union {"no thread joined"} ELSE fate
  BY DEF StopThread, MainRuns, Alive, Threaded
<1>2. ProcessShape(process)'
  BY <1>1, Uses DEF SocketsGood, ThreadsShape
<1>3. x \in ThreadState /\ (x.active /\ x.made = 0 => "no thread" \in cause)
  BY Threaded1 DEF SocketsGood, ThreadsShape
<1>4. /\ y \in ThreadState /\ y.active = FALSE /\ y.own = ~ (free /\ ~ x.active)
      /\ y.made = x.made /\ y.at = x.at
  <2> HIDE DEF x
  <2> QED BY <1>3 DEF ThreadState
<1>5. threads'[s] = y
  BY <1>1, Threaded1
<1> HIDE DEF y
<1>6. cause' = cause \union {}
  BY <1>1
<1>7. CASE ~ x.active /\ UNCHANGED <<main, fate>> /\ IF free THEN net' = ServerFree(net, s) ELSE UNCHANGED net
  <2>1. /\ Leads(net, net', {})
        /\ \A t \in Servers : t # s \/ ~ free => ((net'.srv[t] = NIL) <=> (net.srv[t] = NIL))
    BY <1>1, <1>7, FreedNet
  <2>2. NetPart(net, cause)'
    BY <2>1, <1>6, NetStep DEF SocketsGood
  <2>3. main' \in MainState /\ main'.pc = "runs"
    BY <1>1, <1>7 DEF SocketsGood, ThreadsShape
  <2>4. ThreadsShape'
    BY <1>1, <1>2, <1>4, <1>7, <2>3, ShapeOn
  <2>5. "itself" \notin cause' => \A k \in 1 .. 2 : y.at[k] # "off" => Running(s, k)'
    BY <1>1, <1>4, <1>7, IdleThread
  <2>6. /\ "itself" \in cause => "itself" \in cause'
        /\ "itself" \notin cause' => fate' \intersect {"freed while it runs", "two threads"} \subseteq fate
        /\ \A t \in Servers : t # s => ((net'.srv[t] = NIL) <=> (net.srv[t] = NIL))
        /\ "itself" \notin cause' /\ main'.pc = "joins" => net'.srv[main'.srv] # NIL
        /\ main.pc # "joins" \/ main.srv = s
    BY <1>1, <1>7, <2>1, <2>3
  <2>7. ThreadsGood'
    BY <1>1, <2>5, <2>6, ThreadsOn
  <2> QED BY <2>2, <2>4, <2>7 DEF SocketsGood
<1>8. CASE /\ x.active /\ main' = [pc |-> "joins", srv |-> s, free |-> free] /\ UNCHANGED net
           /\ fate' = IF x.made = 0 THEN fate \union {"no thread joined"} ELSE fate
  <2>1. Leads(net, net', {})
    BY <1>8 DEF SocketsGood, NetPart, Leads
  <2>2. NetPart(net, cause)'
    BY <2>1, <1>6, NetStep DEF SocketsGood
  <2>3. main' \in MainState /\ main'.pc = "joins" /\ main'.srv = s
    BY <1>8 DEF MainState
  <2>4. "no thread joined" \in fate' => "no thread joined" \in fate \/ "no thread" \in cause'
    BY <1>3, <1>6, <1>8
  <2>5. ThreadsShape'
    BY <1>1, <1>2, <1>4, <2>3, <2>4, ShapeOn
  <2>6. ASSUME "itself" \notin cause', NEW k \in 1 .. 2, y.at[k] # "off" PROVE Running(s, k)'
    <3>1. Running(s, k)
      BY <1>4, <1>6, <2>6 DEF SocketsGood, ThreadsGood
    <3>2. y.own /\ y.made = k
      BY <1>4, <1>8, <3>1 DEF Running
    <3> QED BY <3>1, <3>2, <1>5, <1>8, <2>3 DEF Running
  <2>7. /\ "itself" \in cause => "itself" \in cause'
        /\ "itself" \notin cause' => fate' \intersect {"freed while it runs", "two threads"} \subseteq fate
        /\ \A t \in Servers : t # s => ((net'.srv[t] = NIL) <=> (net.srv[t] = NIL))
        /\ "itself" \notin cause' /\ main'.pc = "joins" => net'.srv[main'.srv] # NIL
        /\ main.pc # "joins" \/ main.srv = s
    <3>1. fate' \intersect {"freed while it runs", "two threads"} \subseteq fate
      BY <1>8
    <3> QED BY <3>1, <1>1, <1>6, <1>8, <2>3
  <2>8. ThreadsGood'
    BY <1>1, <2>6, <2>7, ThreadsOn
  <2> QED BY <2>2, <2>5, <2>8 DEF SocketsGood
<1> QED BY <1>1, <1>7, <1>8

LEMMA StepJoined ==
    ASSUME SocketsGood, Joined
    PROVE  SocketsGood'
<1> DEFINE s == main.srv
           x == threads[s]
           y == [x EXCEPT !.made = 0, !.own = ~ main.free]
<1>1. /\ main.pc = "joins" /\ (x.made # 0 => x.at[x.made] = "off")
      /\ threads' = [threads EXCEPT ![s] = y]
      /\ IF main.free /\ s \in Alive THEN net' = ServerFree(net, s) ELSE UNCHANGED net
      /\ fate' = IF s \in Alive THEN fate ELSE fate \union {"freed while it runs"}
      /\ main' = [main EXCEPT !.pc = "runs", !.srv = NIL, !.free = FALSE]
      /\ UNCHANGED <<process, cause>>
  BY DEF Joined
<1>2. s \in Servers /\ ~ x.active /\ main \in MainState
  BY <1>1 DEF SocketsGood, ThreadsShape
<1> HIDE DEF s
<1>3. x \in ThreadState
  BY <1>2, Threaded1
<1>4. y \in ThreadState /\ y.active = FALSE /\ y.made = 0 /\ y.at = x.at
  <2> DEFINE o == ~ main.free
  <2>1. o \in BOOLEAN /\ 0 \in 0 .. 2
    OBVIOUS
  <2>2. x.active = FALSE
    BY <1>2, <1>3 DEF ThreadState
  <2>3. y = [x EXCEPT !.made = 0, !.own = o]
    OBVIOUS
  <2> HIDE DEF x, y, o
  <2>4. y \in ThreadState /\ y.active = x.active /\ y.made = 0 /\ y.at = x.at
    BY <1>3, <2>1, <2>3 DEF ThreadState
  <2> QED BY <2>2, <2>4
<1> HIDE DEF y
<1>5. main' \in MainState /\ main'.pc = "runs"
  BY <1>1, <1>2 DEF MainState
<1>6. cause' = cause \union {} /\ ProcessShape(process)'
  BY <1>1 DEF SocketsGood, ThreadsShape
<1>7. /\ Leads(net, net', {})
      /\ \A t \in Servers : t # s => ((net'.srv[t] = NIL) <=> (net.srv[t] = NIL))
  <2>1. CASE main.free /\ s \in Alive
    <3>1. net.srv[s] # NIL /\ net' = ServerFree(net, s) /\ NetGood(net)
      BY <1>1, <2>1 DEF Alive, SocketsGood, NetPart
    <3> QED BY <3>1, <1>2, LeadsServerFreed
  <2>2. CASE ~ (main.free /\ s \in Alive)
    <3>1. net' = net /\ NetGood(net)
      BY <1>1, <2>2 DEF SocketsGood, NetPart
    <3> QED BY <3>1 DEF Leads
  <2> QED BY <2>1, <2>2
<1>8. NetPart(net, cause)'
  BY <1>6, <1>7, NetStep DEF SocketsGood
<1>9. ThreadsShape'
  <2>1. "no thread joined" \in fate' => "no thread joined" \in fate
    BY <1>1
  <2> QED BY <2>1, <1>1, <1>2, <1>4, <1>5, <1>6, ShapeOn
<1>10. ASSUME "itself" \notin cause', NEW k \in 1 .. 2, y.at[k] # "off" PROVE FALSE
  <2>1. Running(s, k)
    BY <1>2, <1>4, <1>6, <1>10 DEF SocketsGood, ThreadsGood
  <2>2. x.made = k
    BY <2>1 DEF Running
  <2>3. k # 0
    OBVIOUS
  <2>4. x.at[k] = "off"
    <3>1. x.made # 0 => x.at[x.made] = "off"
      BY <1>1
    <3> HIDE DEF x
    <3> QED BY <2>2, <2>3, <3>1
  <2> QED BY <2>4, <1>4, <1>10
<1>11. ASSUME "itself" \notin cause' PROVE s \in Alive
  BY <1>1, <1>2, <1>6, <1>11 DEF SocketsGood, ThreadsGood, Alive, s
<1>12. /\ "itself" \in cause => "itself" \in cause'
       /\ "itself" \notin cause' => fate' \intersect {"freed while it runs", "two threads"} \subseteq fate
       /\ "itself" \notin cause' /\ main'.pc = "joins" => net'.srv[main'.srv] # NIL
       /\ main.pc # "joins" \/ main.srv = s
  BY <1>1, <1>5, <1>6, <1>11 DEF s
<1>13. ThreadsGood'
  BY <1>1, <1>2, <1>7, <1>10, <1>12, ThreadsOn
<1> QED BY <1>8, <1>9, <1>13 DEF SocketsGood

LEMMA StepNewServer ==
    ASSUME SocketsGood, NEW s \in Servers, NEW proto \in {"udp", "tcp", "unix"}, NEW group \in BOOLEAN,
           NEW own \in BOOLEAN, NewServer(s, proto, group, own)
    PROVE  SocketsGood'
<1>1. /\ net.srv[s] = NIL /\ threads[s] = NoThread /\ main.pc = "runs" /\ Calls("server") /\ UNCHANGED <<main, fate>>
      /\ \E o \in ServerNew(net, s, proto, group) :
          /\ net' = o.net /\ cause' = cause \union o.cause
          /\ threads' = [threads EXCEPT ![s].own = own /\ o.net.srv[s] # NIL]
  BY DEF NewServer, MainRuns, Alive, Becomes
<1>2. PICK o \in ServerNew(net, s, proto, group) :
          /\ net' = o.net /\ cause' = cause \union o.cause
          /\ threads' = [threads EXCEPT ![s].own = own /\ o.net.srv[s] # NIL]
  BY <1>1
<1>3. NewGood(net, s, o)
  BY <1>1, <1>2, Invents DEF SocketsGood, NetPart
<1>4. Leads(net, net', o.cause)
  BY <1>2, <1>3, LeadsNew
<1>5. NetPart(net, cause)'
  BY <1>2, <1>4, NetStep DEF SocketsGood
<1> DEFINE b == own /\ o.net.srv[s] # NIL
           y == [NoThread EXCEPT !.own = b]
<1>6. threads' = [threads EXCEPT ![s] = y]
  BY <1>1, <1>2
<1>7. y \in ThreadState /\ y.active = FALSE /\ \A k \in 1 .. 2 : y.at[k] = "off"
  <2>1. b \in BOOLEAN /\ y = [NoThread EXCEPT !.own = b]
    OBVIOUS
  <2> HIDE DEF b, y
  <2> QED BY <2>1, OwnThread
<1> HIDE DEF y
<1>8. ProcessShape(process)'
  BY <1>1, Uses DEF SocketsGood, ThreadsShape
<1>9. main' \in MainState /\ main'.pc = "runs"
  BY <1>1 DEF SocketsGood, ThreadsShape
<1>10. "no thread" \in cause => "no thread" \in cause'
  BY <1>2
<1>11. ThreadsShape'
  BY <1>1, <1>6, <1>7, <1>8, <1>9, <1>10, ShapeOn
<1>12. /\ "itself" \in cause => "itself" \in cause'
       /\ \A t \in Servers : t # s => ((net'.srv[t] = NIL) <=> (net.srv[t] = NIL))
  BY <1>2, <1>3 DEF NewGood
<1>13. ThreadsGood'
  BY <1>1, <1>6, <1>7, <1>9, <1>12, ThreadsOn
<1> QED BY <1>5, <1>11, <1>13 DEF SocketsGood

LEMMA StepConstruct ==
    ASSUME SocketsGood, Construct
    PROVE  SocketsGood'
<1> DEFINE free == CHOOSE s \in Servers : net.srv[s] = NIL
           proto == Head(process.todo)
<1>0. free \in Servers /\ net.srv[free] = NIL
  BY DEF Construct, Alive
<1> HIDE DEF free
<1>b. PICK s \in Servers : s = free
  BY <1>0
<1>1. /\ main.pc = "runs" /\ process.todo # <<>> /\ Alive # Servers
      /\ process' = [process EXCEPT !.todo = Tail(@)]
      /\ \E o \in ServerNew(net, s, proto, FALSE) :
          /\ net' = o.net /\ cause' = cause \union o.cause
          /\ IF o.net.srv[s] = NIL
             THEN main' = [main EXCEPT !.pc = "spins"] /\ UNCHANGED threads
             ELSE /\ threads' = [threads EXCEPT ![s] = [NoThread EXCEPT !.own = TRUE, !.active = TRUE,
                                                                       !.made = 1, !.at[1] = "recv"]]
                  /\ UNCHANGED main
      /\ UNCHANGED fate
  BY <1>b DEF Construct, Becomes, free
<1>2. s \in Servers /\ net.srv[s] = NIL
  BY <1>0, <1>b
<1>3. proto \in {"udp", "tcp", "unix"} /\ ProcessShape(process)'
  <2>1. process.todo \in Seq({"udp", "tcp"}) /\ ProcessShape(process)
    BY DEF SocketsGood, ThreadsShape, ProcessShape
  <2>2. Head(process.todo) \in {"udp", "tcp"} /\ Tail(process.todo) \in Seq({"udp", "tcp"})
    BY <2>1, <1>1
  <2>3. process' = [todo |-> Tail(process.todo), does |-> process.does, calls |-> process.calls, peers |-> process.peers]
    BY <2>1, <1>1 DEF ProcessShape
  <2> QED BY <2>2, <2>3 DEF ProcessShape
<1> HIDE DEF proto
<1>4. PICK o \in ServerNew(net, s, proto, FALSE) :
          /\ net' = o.net /\ cause' = cause \union o.cause
          /\ IF o.net.srv[s] = NIL
             THEN main' = [main EXCEPT !.pc = "spins"] /\ UNCHANGED threads
             ELSE /\ threads' = [threads EXCEPT ![s] = [NoThread EXCEPT !.own = TRUE, !.active = TRUE,
                                                                       !.made = 1, !.at[1] = "recv"]]
                  /\ UNCHANGED main
  BY <1>1
<1>5. NewGood(net, s, o)
  BY <1>2, <1>3, <1>4, Invents DEF SocketsGood, NetPart
<1>6. Leads(net, net', o.cause)
  BY <1>4, <1>5, LeadsNew
<1>7. NetPart(net, cause)'
  BY <1>4, <1>6, NetStep DEF SocketsGood
<1>8. /\ "itself" \in cause => "itself" \in cause'
      /\ "no thread" \in cause => "no thread" \in cause'
      /\ \A t \in Servers : t # s => ((net'.srv[t] = NIL) <=> (net.srv[t] = NIL))
  BY <1>4, <1>5 DEF NewGood
<1>a. main.pc = "runs" /\ fate' = fate
  BY <1>1
<1>9. CASE o.net.srv[s] = NIL
  <2>1. threads' = [threads EXCEPT ![s] = threads[s]] /\ threads[s] \in ThreadState
    BY <1>2, <1>4, <1>9, Threaded1 DEF SocketsGood, ThreadsShape
  <2>2. main' \in MainState /\ main'.pc = "spins"
    BY <1>4, <1>9 DEF SocketsGood, ThreadsShape, MainState
  <2>3. threads[s].active /\ threads[s].made = 0 => "no thread" \in cause'
    BY <1>2, <1>8 DEF SocketsGood, ThreadsShape
  <2>4. ThreadsShape'
    BY <1>a, <1>2, <1>3, <1>8, <2>1, <2>2, <2>3, ShapeOn
  <2>5. "itself" \notin cause' => \A k \in 1 .. 2 : threads[s].at[k] # "off" => Running(s, k)'
    BY <1>1, <1>2, <1>8, IdleThread
  <2>6. ThreadsGood'
    BY <1>a, <1>2, <1>8, <2>1, <2>2, <2>5, ThreadsOn
  <2> QED BY <1>7, <2>4, <2>6 DEF SocketsGood
<1>10. CASE o.net.srv[s] # NIL
  <2> DEFINE y == [NoThread EXCEPT !.own = TRUE, !.active = TRUE, !.made = 1, !.at[1] = "recv"]
  <2>1. threads' = [threads EXCEPT ![s] = y]
    BY <1>4, <1>10
  <2>2. /\ y \in ThreadState /\ y.active /\ y.own /\ y.made = 1
        /\ \A k \in 1 .. 2 : y.at[k] # "off" => k = 1
    BY FirstThread
  <2> HIDE DEF y
  <2>3. main' \in MainState /\ main'.pc = "runs"
    BY <1>1, <1>4, <1>10 DEF SocketsGood, ThreadsShape
  <2>4. ThreadsShape'
    <3>1. y.made # 0 /\ main'.pc # "joins"
      BY <2>2, <2>3
    <3>2. "no thread joined" \in fate' => "no thread joined" \in fate
      BY <1>a
    <3>3. y \in ThreadState /\ ProcessShape(process)'
      BY <1>3, <2>2
    <3> QED BY <1>8, <2>1, <2>3, <3>1, <3>2, <3>3, ShapeOn
  <2>5. threads'[s] = y /\ net'.srv[s] # NIL
    BY <1>2, <1>4, <1>10, <2>1, Threaded1
  <2>6. \A k \in 1 .. 2 : y.at[k] # "off" => Running(s, k)'
    BY <2>2, <2>5 DEF Running
  <2>7. ThreadsGood'
    BY <1>a, <1>2, <1>8, <2>1, <2>3, <2>6, ThreadsOn
  <2> QED BY <1>7, <2>4, <2>7 DEF SocketsGood
<1> QED BY <1>9, <1>10

-----------------------------------------------------------------------------
LEMMA InitSockets ==
    ASSUME SocketsInit
    PROVE  SocketsGood
<1>1. /\ net = [file |-> [fd \in Fd |-> NIL], client |-> [udp |-> None, tcp |-> None],
                srv |-> [s \in Servers |-> NIL], adr |-> [a \in Addresses |-> NIL], stranger |-> FALSE]
      /\ process \in Process /\ threads = [s \in Servers |-> NoThread]
      /\ main = [pc |-> "runs", srv |-> NIL, free |-> FALSE] /\ cause = {} /\ fate = {}
  BY DEF SocketsInit
<1>2. /\ \A fd \in Fd : net.file[fd] = NIL
      /\ \A s \in Servers : net.srv[s] = NIL
      /\ \A a \in Addresses : net.adr[a] = NIL
      /\ net.client["udp"] = None /\ net.stranger = FALSE
  BY <1>1
<1>3. net \in NetState
  <2>1. [udp |-> None, tcp |-> None] \in [{"udp", "tcp"} -> Ref]
    BY Nils
  <2>2. /\ [fd \in Fd |-> NIL] \in [Fd -> Kind \union {NIL}] /\ [s \in Servers |-> NIL] \in [Servers -> ServerState \union {NIL}]
        /\ [a \in Addresses |-> NIL] \in [Addresses -> AddressState \union {NIL}]
    OBVIOUS
  <2> QED BY <1>1, <2>1, <2>2 DEF NetState
<1>4. NetGood(net)
  BY <1>2, <1>3 DEF NetGood, NetOpen, FirstsKept, ClientKept
<1>5. CleanNet(net)
  BY <1>2 DEF CleanNet
<1>6. NoneLost(net, {})
  BY <1>2 DEF NoneLost
<1>7. ProcessShape(process)
  BY <1>1, SocketAssumption DEF SocketAssumption, ProcessShape
<1>8. NoThread \in ThreadState /\ NoThread.active = FALSE /\ \A k \in 1 .. 2 : NoThread.at[k] = "off"
  BY DEF NoThread, ThreadState
<1>9. \A s \in Servers : threads[s] = NoThread
  BY <1>1
<1>10. threads \in [Servers -> ThreadState]
  BY <1>1, <1>8
<1>11. main \in MainState /\ main.pc = "runs"
  BY <1>1 DEF MainState
<1>12. ThreadsShape
  BY <1>1, <1>7, <1>8, <1>9, <1>10, <1>11 DEF ThreadsShape
<1>13. ThreadsGood
  <2>1. \A s \in Servers, k \in 1 .. 2 : threads[s].at[k] = "off"
    BY <1>8, <1>9
  <2> QED BY <2>1, <1>1, <1>11 DEF ThreadsGood
<1> QED BY <1>4, <1>5, <1>6, <1>12, <1>13 DEF SocketsGood, NetPart

LEMMA NextSockets ==
    ASSUME SocketsGood, [SocketsNext]_sockets
    PROVE  SocketsGood'
<1>1. CASE UNCHANGED sockets
  <2>1. UNCHANGED <<process, net, threads, main, cause, fate>>
    BY <1>1 DEF sockets
  <2>2. NetPart(net, cause)'
    BY <2>1 DEF SocketsGood
  <2>3. ThreadsShape'
    BY <2>1 DEF SocketsGood, ThreadsShape
  <2>4. ThreadsGood'
    BY <2>1 DEF SocketsGood, ThreadsGood, Running
  <2> QED BY <2>2, <2>3, <2>4 DEF SocketsGood
<1>2. CASE Construct
  BY <1>2, StepConstruct
<1>3. CASE Joined
  BY <1>3, StepJoined
<1>4. CASE OpenOther
  BY <1>4, StepOpenOther
<1>5. ASSUME NEW s \in Servers,
             \/ \E proto \in {"udp", "tcp", "unix"}, group, own \in BOOLEAN : NewServer(s, proto, group, own)
             \/ FreeServer(s) \/ StartThread(s)
             \/ \E free \in BOOLEAN : StopThread(s, free)
      PROVE  SocketsGood'
  BY <1>5, StepNewServer, StepFreeServer, StepStartThread, StepStopThread
<1>6. ASSUME NEW a \in Addresses,
             \/ \E proto \in {"udp", "tcp"} : NewAddress(a, proto)
             \/ FreeAddress(a)
             \/ \E from \in Servers \union {NIL}, twice \in BOOLEAN : SendMessage(a, from, twice)
      PROVE  SocketsGood'
  BY <1>6, StepNewAddress, StepFreeAddress, StepSendMessage
<1>7. ASSUME NEW s \in Servers, NEW k \in 1 .. 2,
             \/ AcceptStream(s, k) \/ Handle(s, k) \/ SocketEnds(s, k) \/ ThreadGoesOn(s, k)
             \/ \E from \in {s, NIL} : Reply(s, k, from)
             \/ \E free \in BOOLEAN : StopItself(s, k, free)
      PROVE  SocketsGood'
  BY <1>7, StepAcceptStream, StepHandle, StepSocketEnds, StepThreadGoesOn, StepReply, StepStopItself
<1>8. ASSUME NEW fd \in Fd, PeerCloses(fd) PROVE SocketsGood'
  BY <1>8, StepPeerCloses
<1>9. CASE MainThread
  BY <1>9, <1>2, <1>3, <1>4, <1>5, <1>6 DEF MainThread
<1>10. CASE ServerThreads
  BY <1>10, <1>7 DEF ServerThreads
<1> QED BY <1>1, <1>8, <1>9, <1>10 DEF SocketsNext

(* What the inductive invariant says of the program                        *)
LEMMA GoodSockets ==
    ASSUME SocketsGood
    PROVE  SocketsInv
<1>0. NetGood(net) /\ net \in NetState
  BY DEF SocketsGood, NetPart, NetGood
<1>1. SocketsTypeOK
  <2>1. net.file \in [Fd -> Kind \union {NIL}]
    BY <1>0 DEF NetState
  <2>2. \A s \in Alive : net.srv[s] \in ServerState
    BY <1>0, NetFields DEF Alive
  <2>3. \A a \in Addresses : net.adr[a] = NIL \/ net.adr[a] \in AddressState
    BY <1>0, NetFields
  <2>4. threads \in [Servers -> ThreadState] /\ main.pc \in {"runs", "spins", "joins"}
    BY DEF SocketsGood, ThreadsShape, MainState
  <2> QED BY <2>1, <2>2, <2>3, <2>4 DEF SocketsTypeOK
<1>2. net.stranger => cause \intersect {"lent", "reply"} # {}
  BY DEF SocketsGood, NetPart, CleanNet
<1>3. ASSUME cause \intersect {"lent", "reply", "ports", "interface"} = {} PROVE Leaked = {}
  <2>1. CleanNet(net) /\ NoneLost(net, {})
    <3>1. cause \intersect {"lent", "reply"} = {}
      BY <1>3
    <3> QED BY <3>1, <1>3 DEF SocketsGood, NetPart
  <2> SUFFICES ASSUME NEW fd \in Fd, net.file[fd] \notin {NIL, "other"} PROVE fd \in Kept
    BY DEF Leaked
  <2>2. KeptIn(net, fd)
    BY <2>1 DEF NoneLost
  <2>3. fd # -1
    BY Nils
  <2>4. CASE \E a \in Addresses : net.adr[a] # NIL /\ net.adr[a].sock.fd = fd
    <3>1. PICK c \in Addresses : net.adr[c] # NIL /\ net.adr[c].sock.fd = fd
      BY <2>4
    <3>2. net.adr[c].own /\ net.adr[c].sock.mine
      BY <2>1, <3>1 DEF CleanNet, Held, None
    <3> DEFINE S == {b \in Addresses : net.adr[b] # NIL /\ net.adr[b].own /\ net.adr[b].sock.mine}
               U == UNION {KeptBy(s) : s \in Alive}
    <3>3. c \in S
      BY <3>1, <3>2
    <3>4. Kept = U \union {net.adr[a].sock.fd : a \in S}
      BY Zenon DEF Kept
    <3> HIDE DEF S, U
    <3>5. fd \in {net.adr[a].sock.fd : a \in S}
      BY <3>1, <3>3
    <3> QED BY <3>4, <3>5
  <2>5. CASE \E s \in Servers : net.srv[s] # NIL /\ \E i \in 1 .. Len(net.srv[s].sockets) : net.srv[s].sockets[i].fd = fd
    <3>1. PICK s \in Servers : net.srv[s] # NIL /\ \E i \in 1 .. Len(net.srv[s].sockets) : net.srv[s].sockets[i].fd = fd
      BY <2>5
    <3>2. PICK i \in 1 .. Len(net.srv[s].sockets) : net.srv[s].sockets[i].fd = fd
      BY <3>1
    <3> DEFINE r == net.srv[s].sockets[i]
    <3>3. Held(net, r)
      BY <2>1, <3>1 DEF CleanNet
    <3>4. r.mine
      BY <3>3 DEF Held, None
    <3>5. r \in ToSet(net.srv[s].sockets)
      <4>1. net.srv[s].sockets \in Seq(Ref)
        BY <1>0, <3>1, NetFields
      <4> QED BY <4>1 DEF ToSet
    <3>6. fd \in KeptBy(s)
      BY <3>2, <3>4, <3>5 DEF KeptBy
    <3> QED BY <3>1, <3>6 DEF Kept, Alive
  <2> QED BY <2>2, <2>4, <2>5 DEF KeptIn
<1>4. ClientSocket
  BY <1>0 DEF NetGood, ClientKept, ClientSocket, Alive, First
<1>5. ThreadsEnd
  BY DEF SocketsGood, ThreadsShape, ThreadsGood, ThreadsEnd
<1> QED BY <1>1, <1>2, <1>3, <1>4, <1>5 DEF SocketsInv, SocketsKept
===============================================================================
