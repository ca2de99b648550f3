----------------------- MODULE ServiceMethods_proofs -----------------------
(***************************************************************************)
(* Proofs about ServiceMethods.tla for every set of ADCs and DACs, however *)
(* often each is made, every number of module managers and every size of   *)
(* the heap.                                                               *)
(*                                                                         *)
(* The cells of the heap are the list: the invariant Good(L) says so of a  *)
(* sequence L of cells that is not a variable of the program.  Each step   *)
(* keeps it for L, for L with one more cell at its end, or for L without   *)
(* one cell.  The one cell that is allocated and not in L is the one that  *)
(* lo_server_del_method is about to free.  CellGood says whose method a    *)
(* cell can hold: of a module that is there, one its destructor has still  *)
(* to delete, or one it forgets.                                           *)
(*                                                                         *)
(* WalkGood says that the walk of a message has called, up to the place    *)
(* in L where it goes on, what the message found when it came; that place  *)
(* moves with what is added and deleted.                                   *)
(*                                                                         *)
(* For the refinement of MethodList, Kept is a recursive function of the   *)
(* length of what was looked at: what it does is proved by induction.      *)
(***************************************************************************)
EXTENDS ServiceMethods, FiniteSetTheorems, WellFoundedInduction, SequenceTheorems, TLAPS

(* What the heap holds is the list - the cells of L, each with the next -  *)
(* and, while it is being deleted, the method that was taken out of it.    *)
Elems(L) == {L[i] : i \in 1 .. Len(L)}

Linked(h, f, L) ==
    /\ L \in Seq(Cell) /\ \A i, j \in 1 .. Len(L) : L[i] = L[j] => i = j
    /\ \A i \in 1 .. Len(L) : h[L[i]] # NULL /\ h[L[i]].next = IF i < Len(L) THEN L[i + 1] ELSE NULL
    /\ f = IF Len(L) > 0 THEN L[1] ELSE NULL

Allocated(L) == \A c \in Cell : heap[c] # NULL => c \in Elems(L) \/ (wpc = "free" /\ c = it)

(* lo_server_del_method stands between the methods k - 1 and k + 1, or, if *)
(* the one it was at is out of the list already, between k - 1 and k.      *)
Stands(L, k) ==
    /\ (IF wpc = "walk" THEN it ELSE heap[it].next) = IF k <= Len(L) THEN L[k] ELSE NULL
    /\ k > 1 => prev = L[k - 1]
    /\ \A i \in 1 .. k - 1 : ~ Deleting(L[i])

ListGood(L) ==
    /\ heap \in [Cell -> LoMethod \union {NULL}]
    /\ Linked(heap, first, L) /\ Allocated(L)
    /\ wpc \in {"next", "walk", "free"}
    /\ it \in Cell \union {NULL} /\ prev \in Cell \union {NULL}
    /\ wpc # "next" => \E k \in 1 .. Len(L) + 1 : Stands(L, k)
    /\ wpc = "free" => it \in Cell /\ heap[it] # NULL /\ it \notin Elems(L) /\ Deleting(it)

(* The TCP thread has done j statements of Making(who) or Ending(who).     *)
Left(full, j) ==
    /\ j < Len(full) /\ Len(todo) = Len(full) - j
    /\ \A i \in 1 .. Len(todo) : todo[i] = full[i + j]

LifeGood ==
    /\ made \in [Module -> Nat] /\ \A m \in Module : made[m] <= MaxMade[m]
    /\ stage \in [Module -> {"none", "making", "alive", "dying"}]
    /\ \A m \in Module : /\ stage[m] \in {"making", "dying"} => m = who
                         /\ stage[m] # "none" => made[m] > 0
    /\ todo \in Seq(Statement) /\ who \in Module \union {NULL}
    /\ todo = <<>> <=> who = NULL
    /\ todo # <<>> => \/ stage[who] = "making" /\ \E j \in 0 .. 5 : Left(Making(who), j)
                      \/ stage[who] = "dying" /\ \E j \in 0 .. 5 : Left(Ending(who), j)
    /\ wpc # "next" => todo # <<>> /\ todo[1][1] = "delete"

StillTo(s) == \E i \in 1 .. Len(todo) : todo[i] = s

CellGood(m) ==
    IF m.path \in Module
    THEN /\ m.owner[1] = m.path /\ m.owner[2] \in 1 .. made[m.path]
         /\ m.types # "RequestML_i" /\ (m.path \in ADC => m.types = "Volume_ii")
         /\ m.types \notin Forgotten =>
               /\ m.owner[2] = made[m.path] /\ stage[m.path] # "none"
               /\ stage[m.path] = "dying" => StillTo(<<"delete", m.types>>)
    ELSE m.types = "RequestML_i"

CellsGood == \A c \in Cell : heap[c] # NULL => CellGood(heap[c])

UdpGood ==
    /\ upc \in {"idle", "test", "handler", "next"} /\ at \in Cell \union {NULL}
    /\ msg \in [path : Path, types : Types] \union {NULL}
    /\ called \in Seq(Owner) /\ start \subseteq Method /\ stood \in BOOLEAN
    /\ upc # "idle" => msg \in Message
    /\ upc # "idle" /\ ~ stood /\ at # NULL => heap[at] # NULL
    /\ upc = "handler" => /\ Len(called) > 0
                          /\ ~ stood => at # NULL /\ Matches /\ called[Len(called)] = heap[at].owner
    /\ upc # "idle" /\ msg.path \in Module => \A i \in 1 .. Len(called) : called[i][1] = msg.path

BrokenGood == broken \in {"no", "list", "object", "buffers"} /\ BrokenExplained

Good(L) == ListGood(L) /\ LifeGood /\ CellsGood /\ UdpGood /\ BrokenGood

(* Induction over the naturals, for sets of them. *)
LEMMA Induction ==
    ASSUME NEW S \in SUBSET Nat, 0 \in S, \A n \in S : n + 1 \in S
    PROVE  \A n \in Nat : n \in S
<1> DEFINE T == Nat \ S
<1> SUFFICES ASSUME T # {} PROVE FALSE
  OBVIOUS
<1>1. T \subseteq Nat
  OBVIOUS
<1> HIDE DEF T
<1>2. PICK x \in T : \A y \in T : ~ (<<y, x>> \in OpToRel(<, Nat))
  BY <1>1, NatLessThanWellFounded, WFMin
<1>3. x \in Nat \ S /\ x # 0
  BY DEF T
<1>4. x - 1 \in T
  <2>1. x - 1 \in Nat /\ x = (x - 1) + 1
    BY <1>3
  <2> QED BY <1>3, <2>1 DEF T
<1>5. <<x - 1, x>> \in OpToRel(<, Nat)
  BY <1>1, <1>3, <1>4 DEF OpToRel
<1> QED BY <1>2, <1>4, <1>5

(* reach, in From, is g. *)
Ends(h, k, d) == k = 0 \/ d = NULL \/ h[d] = NULL
Reaches(h, g) ==
    g = [k \in 0 .. Cells |-> [d \in Cell \union {NULL} |->
            IF k = 0 \/ d = NULL THEN <<>>
            ELSE IF h[d] = NULL THEN <<>> ELSE <<Content(h, d)>> \o g[k - 1][h[d].next]]]

(* There is a function that satisfies the definition in From: it is built  *)
(* row by row.                                                             *)
LEMMA ReachesExists ==
    ASSUME NEW h \in [Cell -> LoMethod \union {NULL}]
    PROVE  \E g : Reaches(h, g)
<1> DEFINE D == (0 .. Cells) \X (Cell \union {NULL})
           B(g, k, d) == IF k = 0 \/ d = NULL THEN <<>>
                         ELSE IF h[d] = NULL THEN <<>> ELSE <<Content(h, d)>> \o g[k - 1][h[d].next]
           Fine(n, g) == \A k \in 0 .. n, d \in Cell \union {NULL} : g[k][d] = B(g, k, d)
           F(g) == g = [k \in 0 .. Cells |-> [d \in Cell \union {NULL} |-> g[k][d]]]
           Some(n) == \E g : F(g) /\ Fine(n, g)
           S == {n \in Nat : n <= Cells => Some(n)}
<1>0. Cells \in Nat
  BY ServiceAssumption
<1>1. 0 \in S
  <2> DEFINE g == [k \in 0 .. Cells |-> [d \in Cell \union {NULL} |-> <<>>]]
  <2>1. \A k \in 0 .. Cells, d \in Cell \union {NULL} : g[k][d] = <<>>
    OBVIOUS
  <2>2. F(g)
    BY <2>1
  <2>3. Fine(0, g)
    <3>1. 0 .. 0 = {0} /\ 0 \in 0 .. Cells
      BY <1>0
    <3> QED BY <2>1, <3>1
  <2> QED BY <2>2, <2>3
<1>2. ASSUME NEW n \in S PROVE n + 1 \in S
  <2> HIDE DEF Some
  <2> SUFFICES ASSUME n + 1 <= Cells PROVE Some(n + 1)
    OBVIOUS
  <2>1. n \in Nat /\ n <= Cells /\ Some(n)
    BY <1>0
  <2> USE DEF Some
  <2>2. PICK g : F(g) /\ Fine(n, g)
    BY <2>1
  <2> DEFINE e == [k \in 0 .. Cells |-> [d \in Cell \union {NULL} |-> IF k = n + 1 THEN B(g, k, d) ELSE g[k][d]]]
  <2>3. \A k \in 0 .. Cells, d \in Cell \union {NULL} : e[k][d] = IF k = n + 1 THEN B(g, k, d) ELSE g[k][d]
    OBVIOUS
  <2>4. F(e)
    BY <2>3
  <2> HIDE DEF e
  <2>5. ASSUME NEW k \in 0 .. n + 1, NEW d \in Cell \union {NULL} PROVE e[k][d] = B(e, k, d)
    <3>1. k \in 0 .. Cells /\ k \in Nat
      BY <2>1, <1>0
    <3>2. B(e, k, d) = B(g, k, d)
      <4>1. CASE Ends(h, k, d)
        BY <4>1 DEF Ends
      <4>2. CASE ~ Ends(h, k, d)
        <5>1. h[d] \in LoMethod /\ h[d].next \in Cell \union {NULL}
          BY <4>2 DEF Ends, LoMethod
        <5>2. k - 1 \in 0 .. Cells /\ k - 1 # n + 1
          BY <2>1, <3>1, <4>2, <1>0 DEF Ends
        <5>3. e[k - 1][h[d].next] = g[k - 1][h[d].next]
          BY <2>3, <5>1, <5>2
        <5> QED BY <5>3
      <4> QED BY <4>1, <4>2
    <3>3. CASE k = n + 1
      BY <2>3, <3>1, <3>2, <3>3
    <3>4. CASE k # n + 1
      <4>1. k \in 0 .. n
        BY <2>1, <3>1, <3>4
      <4>2. g[k][d] = B(g, k, d)
        BY <2>2, <4>1
      <4>3. e[k][d] = g[k][d]
        BY <2>3, <3>1, <3>4
      <4> QED BY <3>2, <4>2, <4>3
    <3> QED BY <3>3, <3>4
  <2> QED BY <2>4, <2>5
<1> HIDE DEF B, Some
<1>3. Cells \in S
  BY <1>0, <1>1, <1>2, Induction
<1>3a. Some(Cells)
  BY <1>0, <1>3
<1> USE DEF Some
<1>4. PICK g : F(g) /\ Fine(Cells, g)
  BY <1>3a
<1>5. g = [k \in 0 .. Cells |-> [d \in Cell \union {NULL} |-> B(g, k, d)]]
  BY <1>4
<1> QED BY <1>5 DEF Reaches, B

(* A sequence with a new head. *)
LEMMA Cons ==
    ASSUME NEW T, NEW x \in T, NEW m \in Nat, NEW s \in [1 .. m -> T]
    PROVE  <<x>> \o s = [i \in 1 .. m + 1 |-> IF i = 1 THEN x ELSE s[i - 1]]
<1> DEFINE u == [i \in 1 .. m + 1 |-> IF i = 1 THEN x ELSE s[i - 1]]
<1>1. s \in Seq(T) /\ Len(s) = m /\ <<x>> \in Seq(T) /\ Len(<<x>>) = 1 /\ <<x>>[1] = x
  OBVIOUS
<1>2. u \in [1 .. m + 1 -> T]
  OBVIOUS
<1>3. u \in Seq(T) /\ Len(u) = m + 1
  BY <1>2
<1> DEFINE v == <<x>> \o s
<1>4. v \in Seq(T) /\ Len(v) = m + 1
  BY <1>1
<1>5. ASSUME NEW i \in 1 .. m + 1 PROVE v[i] = u[i]
  <2>1. CASE i = 1
    BY <1>1, <2>1
  <2>2. CASE i # 1
    BY <1>1, <2>2
  <2> QED BY <2>1, <2>2
<1> HIDE DEF u, v
<1>6. u = v
  BY <1>3, <1>4, <1>5
<1> QED BY <1>6 DEF u, v

(* A list without cycles has no more cells than the heap. *)
LEMMA LinkedShort ==
    ASSUME NEW h, NEW f, NEW L, Linked(h, f, L)
    PROVE  Len(L) \in 0 .. Cells
<1> DEFINE n == Len(L)
<1>1. Cells \in Nat /\ n \in Nat /\ L \in [1 .. n -> Cell] /\ \A i, j \in 1 .. n : L[i] = L[j] => i = j
  BY ServiceAssumption DEF Linked
<1> HIDE DEF n
<1>2. IsFiniteSet(Cell) /\ Cardinality(Cell) = Cells
  <2>1. IsFiniteSet(1 .. Cells) /\ Cardinality(1 .. Cells) = IF 1 > Cells THEN 0 ELSE Cells - 1 + 1
    BY <1>1, FS_Interval
  <2> QED BY <1>1, <2>1 DEF Cell
<1>3. IsFiniteSet(1 .. n) /\ Cardinality(1 .. n) = n
  <2>1. IsFiniteSet(1 .. n) /\ Cardinality(1 .. n) = IF 1 > n THEN 0 ELSE n - 1 + 1
    BY <1>1, FS_Interval
  <2> QED BY <1>1, <2>1
<1>4. L \in Injection(1 .. n, Cell)
  BY <1>1 DEF Injection, IsInjective
<1>5. Cardinality(1 .. n) <= Cardinality(Cell)
  BY <1>2, <1>4, FS_Injection
<1> QED BY <1>1, <1>2, <1>3, <1>5 DEF n

Rest(h, L, j) == [i \in 1 .. Len(L) - j + 1 |-> Content(h, L[i + j - 1])]

(* From follows the cells of the list and gives what they hold, in their   *)
(* order.                                                                  *)
LEMMA FromIs ==
    ASSUME NEW h \in [Cell -> LoMethod \union {NULL}], NEW f, NEW L, Linked(h, f, L)
    PROVE  From(h, f) = Rest(h, L, 1) /\ \A j \in 1 .. Len(L) : From(h, L[j]) = Rest(h, L, j)
<1> DEFINE g == CHOOSE g : Reaches(h, g)
           n == Len(L)
           Right(k) == \A j \in 1 .. n : n - j + 1 <= k => g[k][L[j]] = Rest(h, L, j)
           S == {k \in Nat : k <= Cells => Right(k)}
<1>0. n \in 0 .. Cells /\ Cells \in Nat /\ Cells > 0 /\ n \in Nat
      /\ \A j \in 1 .. n : /\ L[j] \in Cell /\ h[L[j]] # NULL
                          /\ h[L[j]].next = IF j < n THEN L[j + 1] ELSE NULL
  <2>1. n \in 0 .. Cells
    BY LinkedShort
  <2>2. Cells \in Nat /\ Cells > 0
    BY ServiceAssumption
  <2> QED BY <2>1, <2>2 DEF Linked
<1>1. Reaches(h, g)
  BY ReachesExists
<1>2. \A c : From(h, c) = g[Cells][c]
  BY DEF From, Reaches
<1>3. NULL \notin Cell
  BY NullAssumption
<1> HIDE DEF g, n
<1>4. \A k \in 0 .. Cells : g[k][NULL] = <<>>
  BY <1>1 DEF Reaches
<1>5. ASSUME NEW k \in Nat, k + 1 <= Cells, NEW j \in 1 .. n
      PROVE  g[k + 1][L[j]] = <<Content(h, L[j])>> \o g[k][IF j < n THEN L[j + 1] ELSE NULL]
  <2>1. k + 1 \in 0 .. Cells /\ k + 1 # 0 /\ (k + 1) - 1 = k /\ L[j] \in Cell \union {NULL} /\ L[j] # NULL
    BY <1>0, <1>3, <1>5
  <2>2. g[k + 1][L[j]] = IF k + 1 = 0 \/ L[j] = NULL THEN <<>>
                         ELSE IF h[L[j]] = NULL THEN <<>>
                         ELSE <<Content(h, L[j])>> \o g[(k + 1) - 1][h[L[j]].next]
    <3>1. g[k + 1] = [d \in Cell \union {NULL} |->
                         IF k + 1 = 0 \/ d = NULL THEN <<>>
                         ELSE IF h[d] = NULL THEN <<>>
                         ELSE <<Content(h, d)>> \o g[(k + 1) - 1][h[d].next]]
      <4> DEFINE i == k + 1
      <4>1. i \in 0 .. Cells
        BY <2>1
      <4> HIDE DEF i
      <4>2. g[i] = [d \in Cell \union {NULL} |->
                         IF i = 0 \/ d = NULL THEN <<>>
                         ELSE IF h[d] = NULL THEN <<>>
                         ELSE <<Content(h, d)>> \o g[i - 1][h[d].next]]
        BY <1>1, <4>1 DEF Reaches
      <4> QED BY <4>2 DEF i
    <3> QED BY <2>1, <3>1
  <2>3. g[k + 1][L[j]] = <<Content(h, L[j])>> \o g[(k + 1) - 1][h[L[j]].next]
    BY <1>0, <2>1, <2>2
  <2> QED BY <1>0, <2>1, <2>3
<1>6. 0 \in S
  BY <1>0
<1>7. ASSUME NEW k \in S PROVE k + 1 \in S
  <2> HIDE DEF Right
  <2> SUFFICES ASSUME k + 1 <= Cells PROVE Right(k + 1)
    OBVIOUS
  <2>1. k \in Nat /\ k <= Cells /\ Right(k)
    BY <1>0
  <2> USE DEF Right
  <2> SUFFICES ASSUME NEW j \in 1 .. n, n - j + 1 <= k + 1 PROVE g[k + 1][L[j]] = Rest(h, L, j)
    OBVIOUS
  <2> DEFINE T == {Content(h, L[i]) : i \in 1 .. n}
             x == Content(h, L[j])
  <2>2. g[k + 1][L[j]] = <<x>> \o g[k][IF j < n THEN L[j + 1] ELSE NULL]
    BY <1>5, <2>1
  <2>3. x \in T
    OBVIOUS
  <2>4. CASE j < n
    <3> DEFINE s == Rest(h, L, j + 1)
               m == n - j
    <3>1. j + 1 \in 1 .. n /\ n - (j + 1) + 1 <= k /\ m \in Nat /\ n - (j + 1) + 1 = m
      BY <1>0, <2>1, <2>4
    <3>2. g[k][L[j + 1]] = s
      BY <2>1, <3>1
    <3>3. s = [i \in 1 .. m |-> Content(h, L[i + j])]
      <4>1. Len(L) - (j + 1) + 1 = m
        BY <3>1 DEF n
      <4>2. \A i \in 1 .. m : i + (j + 1) - 1 = i + j
        BY <3>1
      <4> HIDE DEF m
      <4> QED BY <4>1, <4>2 DEF Rest
    <3>4. s \in [1 .. m -> T]
      <4>1. \A i \in 1 .. m : i + j \in 1 .. n
        BY <1>0, <2>4
      <4> HIDE DEF s, m
      <4> QED BY <3>3, <4>1
    <3> HIDE DEF s, T, x
    <3>5. <<x>> \o s = [i \in 1 .. m + 1 |-> IF i = 1 THEN x ELSE s[i - 1]]
      BY <2>3, <3>1, <3>4, Cons
    <3>6. Rest(h, L, j) = [i \in 1 .. m + 1 |-> Content(h, L[i + j - 1])]
      <4>1. Len(L) - j + 1 = m + 1
        BY DEF n
      <4> HIDE DEF m
      <4> QED BY <4>1 DEF Rest
    <3>7. \A i \in 1 .. m + 1 : (IF i = 1 THEN x ELSE s[i - 1]) = Content(h, L[i + j - 1])
      <4> SUFFICES ASSUME NEW i \in 1 .. m + 1
                   PROVE (IF i = 1 THEN x ELSE s[i - 1]) = Content(h, L[i + j - 1])
        OBVIOUS
      <4>1. CASE i = 1
        <5>1. i + j - 1 = j
          BY <4>1
        <5> QED BY <4>1, <5>1 DEF x
      <4>2. CASE i # 1
        <5>1. i - 1 \in 1 .. m /\ i - 1 + j = i + j - 1
          BY <3>1, <4>2
        <5>2. s[i - 1] = Content(h, L[i - 1 + j])
          BY <3>3, <5>1
        <5> QED BY <4>2, <5>1, <5>2
      <4> QED BY <4>1, <4>2
    <3> HIDE DEF m
    <3> QED BY <2>2, <2>4, <3>2, <3>5, <3>6, <3>7
  <2>5. CASE ~ (j < n)
    <3>1. j = n /\ n - j + 1 = 1
      BY <1>0, <2>5
    <3>2. g[k][NULL] = <<>>
      BY <1>4, <2>1
    <3>3. Rest(h, L, j) = [i \in 1 .. 1 |-> x]
      <4>1. Len(L) - j + 1 = 1 /\ \A i \in 1 .. 1 : i + j - 1 = j
        BY <3>1 DEF n
      <4> QED BY <4>1 DEF Rest
    <3>4. <<x>> \o <<>> = <<x>>
      OBVIOUS
    <3>5. [i \in 1 .. 1 |-> x] = <<x>>
      OBVIOUS
    <3> QED BY <2>2, <2>5, <3>2, <3>3, <3>4, <3>5
  <2> QED BY <2>4, <2>5
<1>8. Right(Cells)
  <2> HIDE DEF Right
  <2>1. S \in SUBSET Nat
    OBVIOUS
  <2> HIDE DEF S
  <2>2. Cells \in S
    BY <1>0, <1>6, <1>7, <2>1, Induction
  <2> QED BY <1>0, <2>2 DEF S
<1>9. \A j \in 1 .. n : From(h, L[j]) = Rest(h, L, j)
  BY <1>0, <1>2, <1>8
<1>10. From(h, f) = Rest(h, L, 1)
  <2>1. CASE n = 0
    <3>1. f = NULL
      BY <2>1 DEF Linked, n
    <3>2. From(h, f) = <<>>
      BY <1>0, <1>2, <1>4, <3>1
    <3>3. Rest(h, L, 1) = <<>>
      BY <2>1 DEF Rest, n
    <3> QED BY <3>2, <3>3
  <2>2. CASE n # 0
    <3>1. f = L[1] /\ 1 \in 1 .. n
      BY <1>0, <2>2 DEF Linked, n
    <3> QED BY <1>9, <3>1
  <2> QED BY <2>1, <2>2
<1> QED BY <1>9, <1>10 DEF n


-----------------------------------------------------------------------------
(* What the three changes of the list do to its cells. *)

(* NULL is neither a cell nor a module nor what a cell holds. *)
LEMMA CellFacts ==
    /\ NULL \notin Cell /\ NULL \notin LoMethod /\ NULL \notin Module /\ Cells \in Nat
    /\ Cell \subseteq Nat /\ 1 \in Cell
<1>1. NULL \notin Cell /\ NULL \notin LoMethod /\ NULL \notin Module
  BY NullAssumption
<1> QED BY <1>1, ServiceAssumption DEF Cell

(* Setting next changes nothing else of a method. *)
LEMMA Changed ==
    ASSUME NEW h \in [Cell -> LoMethod \union {NULL}], NEW d \in Cell, h[d] # NULL, NEW c \in Cell \union {NULL}
    PROVE  LET m == [h[d] EXCEPT !.next = c] IN
           m \in LoMethod /\ m.next = c /\ m.path = h[d].path /\ m.types = h[d].types /\ m.owner = h[d].owner
BY DEF LoMethod

SameCell(h, h2, d) == /\ h2[d] # NULL /\ h2[d].path = h[d].path
                      /\ h2[d].types = h[d].types /\ h2[d].owner = h[d].owner

(* Linking a free cell behind the last one appends it to the list. *)
LEMMA Appended ==
    ASSUME NEW h \in [Cell -> LoMethod \union {NULL}], NEW f, NEW L, Linked(h, f, L), Len(L) > 0,
           NEW c \in Cell, h[c] = NULL, NEW m \in LoMethod, m.next = NULL
    PROVE  LET h2 == [h EXCEPT ![c] = m, ![L[Len(L)]].next = c] IN
           /\ h2 \in [Cell -> LoMethod \union {NULL}] /\ Linked(h2, f, Append(L, c))
           /\ h2[c] = m
           /\ \A d \in Cell \ {c} : IF h[d] = NULL THEN h2[d] = NULL ELSE SameCell(h, h2, d)
<1> DEFINE n == Len(L)
           last == L[n]
           e == [h[last] EXCEPT !.next = c]
           h2 == [d \in Cell |-> IF d = last THEN e ELSE IF d = c THEN m ELSE h[d]]
           K == Append(L, c)
<1>1. n \in Nat /\ n \in 1 .. n /\ last \in Cell /\ h[last] # NULL /\ last # c
  BY DEF Linked
<1> HIDE DEF n
<1>2. e \in LoMethod /\ e.next = c /\ e.path = h[last].path /\ e.types = h[last].types /\ e.owner = h[last].owner
  BY <1>1, Changed
<1>3. [h EXCEPT ![c] = m, ![last].next = c] = h2
  BY <1>1
<1> HIDE DEF last, e
<1>4. m # NULL /\ e # NULL /\ NULL \notin Cell
  BY <1>2, CellFacts
<1>5. h2 \in [Cell -> LoMethod \union {NULL}]
  BY <1>2
<1>6. \A d \in Cell : h2[d] = IF d = last THEN e ELSE IF d = c THEN m ELSE h[d]
  OBVIOUS
<1> HIDE DEF h2
<1>7. K \in Seq(Cell) /\ Len(K) = n + 1 /\ K[n + 1] = c /\ \A i \in 1 .. n : K[i] = L[i]
  BY DEF Linked, n
<1>8. L \in [1 .. n -> Cell] /\ \A i \in 1 .. n : h[L[i]] # NULL /\ L[i] # c /\ (L[i] = last <=> i = n)
  BY <1>1 DEF Linked, last, n
<1> HIDE DEF K
<1>9. Linked(h2, f, K)
  <2>1. \A i, j \in 1 .. Len(K) : K[i] = K[j] => i = j
    <3> SUFFICES ASSUME NEW i \in 1 .. n + 1, NEW j \in 1 .. n + 1, K[i] = K[j] PROVE i = j
      BY <1>7
    <3>1. CASE i \in 1 .. n /\ j \in 1 .. n
      BY <1>7, <3>1 DEF Linked, n
    <3>2. CASE i = n + 1 /\ j \in 1 .. n
      BY <1>7, <1>8, <3>2
    <3>3. CASE j = n + 1 /\ i \in 1 .. n
      BY <1>7, <1>8, <3>3
    <3> QED BY <1>1, <3>1, <3>2, <3>3
  <2>2. ASSUME NEW i \in 1 .. Len(K)
        PROVE  h2[K[i]] # NULL /\ h2[K[i]].next = IF i < Len(K) THEN K[i + 1] ELSE NULL
    <3>1. CASE i = n + 1
      BY <1>1, <1>4, <1>6, <1>7, <3>1
    <3>2. CASE i = n
      BY <1>1, <1>2, <1>4, <1>6, <1>7, <1>8, <3>2
    <3>3. CASE i < n
      <4>1. i \in 1 .. n /\ i + 1 \in 1 .. n /\ K[i] = L[i] /\ K[i + 1] = L[i + 1]
        BY <1>1, <1>7, <2>2, <3>3
      <4>2. L[i] \in Cell /\ L[i] # last /\ L[i] # c
        BY <1>8, <3>3, <4>1
      <4>3. h2[L[i]] = h[L[i]]
        BY <1>6, <4>2
      <4>4. h[L[i]] # NULL /\ h[L[i]].next = L[i + 1]
        BY <3>3, <4>1 DEF Linked, n
      <4> QED BY <1>1, <1>7, <3>3, <4>1, <4>3, <4>4
    <3> QED BY <1>1, <1>7, <2>2, <3>1, <3>2, <3>3
  <2>3. f = IF Len(K) > 0 THEN K[1] ELSE NULL
    BY <1>1, <1>7 DEF Linked, n
  <2> QED BY <1>7, <2>1, <2>2, <2>3 DEF Linked
<1>10. h2[c] = m
  BY <1>1, <1>6
<1>11. \A d \in Cell \ {c} : IF h[d] = NULL THEN h2[d] = NULL ELSE SameCell(h, h2, d)
  BY <1>1, <1>2, <1>4, <1>6 DEF SameCell
<1> QED BY <1>3, <1>5, <1>9, <1>10, <1>11 DEF last, n, K

(* The first cell of an empty list. *)
LEMMA AppendedFirst ==
    ASSUME NEW h \in [Cell -> LoMethod \union {NULL}], NEW c \in Cell, NEW m \in LoMethod, m.next = NULL
    PROVE  LET h2 == [h EXCEPT ![c] = m] IN
           h2 \in [Cell -> LoMethod \union {NULL}] /\ Linked(h2, c, <<c>>)
           /\ h2[c] = m /\ \A d \in Cell \ {c} : h2[d] = h[d]
<1> DEFINE h2 == [h EXCEPT ![c] = m]
<1>1. h2 \in [Cell -> LoMethod \union {NULL}] /\ h2[c] = m /\ \A d \in Cell \ {c} : h2[d] = h[d]
  OBVIOUS
<1> HIDE DEF h2
<1>2. <<c>> \in Seq(Cell) /\ Len(<<c>>) = 1 /\ <<c>>[1] = c /\ m # NULL
  BY CellFacts
<1>3. Linked(h2, c, <<c>>)
  BY <1>1, <1>2 DEF Linked
<1> QED BY <1>1, <1>3 DEF h2

Without(L, k) == [i \in 1 .. Len(L) - 1 |-> IF i < k THEN L[i] ELSE L[i + 1]]

(* The list without its k-th cell. *)
LEMMA WithoutIs ==
    ASSUME NEW h, NEW f, NEW L, Linked(h, f, L), NEW k \in 1 .. Len(L)
    PROVE  /\ Without(L, k) \in Seq(Cell) /\ Len(Without(L, k)) = Len(L) - 1
           /\ \A i \in 1 .. Len(L) - 1 : Without(L, k)[i] = IF i < k THEN L[i] ELSE L[i + 1]
           /\ \A i, j \in 1 .. Len(L) - 1 : Without(L, k)[i] = Without(L, k)[j] => i = j
           /\ \A i \in 1 .. Len(L) - 1 : Without(L, k)[i] # L[k]
           /\ \A i \in 1 .. Len(L) : i # k => L[i] \in Elems(Without(L, k))
<1> DEFINE n == Len(L)
           K == Without(L, k)
<1>1. n \in Nat /\ n - 1 \in Nat /\ k \in 1 .. n /\ L \in [1 .. n -> Cell]
      /\ \A i, j \in 1 .. n : L[i] = L[j] => i = j
  BY DEF Linked
<1>2. K = [i \in 1 .. n - 1 |-> IF i < k THEN L[i] ELSE L[i + 1]]
  BY DEF Without
<1> HIDE DEF n, K
<1>3. \A i \in 1 .. n - 1 : i \in 1 .. n /\ i + 1 \in 1 .. n
  BY <1>1
<1>4. K \in [1 .. n - 1 -> Cell] /\ \A i \in 1 .. n - 1 : K[i] = IF i < k THEN L[i] ELSE L[i + 1]
  BY <1>1, <1>2, <1>3
<1>5. K \in Seq(Cell) /\ Len(K) = n - 1
  BY <1>1, <1>4
<1>6. ASSUME NEW i \in 1 .. n - 1, NEW j \in 1 .. n - 1, K[i] = K[j] PROVE i = j
  BY <1>1, <1>3, <1>4, <1>6
<1>7. ASSUME NEW i \in 1 .. n - 1 PROVE K[i] # L[k]
  BY <1>1, <1>3, <1>4
<1>8. ASSUME NEW i \in 1 .. n, i # k PROVE L[i] \in Elems(K)
  <2>1. CASE i < k
    <3>1. i \in 1 .. n - 1 /\ K[i] = L[i]
      BY <1>1, <1>4, <2>1
    <3> QED BY <1>5, <3>1 DEF Elems
  <2>2. CASE i > k
    <3>1. i - 1 \in 1 .. n - 1 /\ (i - 1) + 1 = i /\ ~ (i - 1 < k)
      BY <1>1, <2>2
    <3>2. K[i - 1] = L[i]
      BY <1>4, <3>1
    <3> QED BY <1>5, <3>1, <3>2 DEF Elems
  <2> QED BY <1>1, <1>8, <2>1, <2>2
<1> QED BY <1>4, <1>5, <1>6, <1>7, <1>8 DEF n, K

(* Taking out the first cell by setting s->first. *)
LEMMA UnlinkedFirst ==
    ASSUME NEW h \in [Cell -> LoMethod \union {NULL}], NEW f, NEW L, Linked(h, f, L), Len(L) > 0
    PROVE  Linked(h, h[L[1]].next, Without(L, 1))
<1> DEFINE n == Len(L)
           K == Without(L, 1)
<1>1. n \in Nat /\ n > 0 /\ 1 \in 1 .. n
      /\ \A i \in 1 .. n : h[L[i]] # NULL /\ h[L[i]].next = IF i < n THEN L[i + 1] ELSE NULL
  BY DEF Linked
<1>2. /\ K \in Seq(Cell) /\ Len(K) = n - 1
      /\ \A i \in 1 .. n - 1 : K[i] = IF i < 1 THEN L[i] ELSE L[i + 1]
      /\ \A i, j \in 1 .. n - 1 : K[i] = K[j] => i = j
  BY <1>1, WithoutIs
<1> HIDE DEF n, K
<1>3. ASSUME NEW i \in 1 .. Len(K)
      PROVE  h[K[i]] # NULL /\ h[K[i]].next = IF i < Len(K) THEN K[i + 1] ELSE NULL
  <2>1. i \in 1 .. n - 1 /\ i + 1 \in 1 .. n /\ K[i] = L[i + 1]
    BY <1>1, <1>2
  <2>2. CASE i < n - 1
    BY <1>1, <1>2, <2>1, <2>2
  <2>3. CASE i = n - 1
    BY <1>1, <1>2, <2>1, <2>3
  <2> QED BY <1>1, <2>1, <2>2, <2>3
<1>4. h[L[1]].next = IF Len(K) > 0 THEN K[1] ELSE NULL
  BY <1>1, <1>2
<1> QED BY <1>2, <1>3, <1>4 DEF Linked, K

(* What Unlink makes of the heap, for a cell that is not the first. *)
Skips(h, h2, L, k) ==
    h2 = [d \in Cell |-> IF d = L[k - 1] THEN [h[d] EXCEPT !.next = h[L[k]].next] ELSE h[d]]

(* Taking out a later cell by setting next of the one before it. *)
LEMMA Unlinked ==
    ASSUME NEW h \in [Cell -> LoMethod \union {NULL}], NEW f, NEW L, Linked(h, f, L), NEW k \in 2 .. Len(L),
           NEW h2, Skips(h, h2, L, k)
    PROVE  /\ h2 \in [Cell -> LoMethod \union {NULL}] /\ Linked(h2, f, Without(L, k))
           /\ \A d \in Cell : IF h[d] = NULL THEN h2[d] = NULL ELSE SameCell(h, h2, d)
           /\ h2[L[k]] = h[L[k]]
<1> DEFINE n == Len(L)
           K == Without(L, k)
           p == L[k - 1]
           e == [h[p] EXCEPT !.next = h[L[k]].next]
<1>1. /\ n \in Nat /\ k \in 1 .. n /\ k - 1 \in 1 .. n
      /\ \A i \in 1 .. n : L[i] \in Cell /\ h[L[i]] # NULL /\ h[L[i]].next = IF i < n THEN L[i + 1] ELSE NULL
      /\ \A i, j \in 1 .. n : L[i] = L[j] => i = j
      /\ f = IF n > 0 THEN L[1] ELSE NULL
  BY DEF Linked
<1>2. /\ K \in Seq(Cell) /\ Len(K) = n - 1
      /\ \A i \in 1 .. n - 1 : K[i] = IF i < k THEN L[i] ELSE L[i + 1]
      /\ \A i, j \in 1 .. n - 1 : K[i] = K[j] => i = j
  BY <1>1, WithoutIs
<1> HIDE DEF n, K
<1>3. p \in Cell /\ h[p] # NULL /\ h[L[k]].next \in Cell \union {NULL}
  <2>1. k < n => k + 1 \in 1 .. n
    BY <1>1
  <2> QED BY <1>1, <2>1
<1>4. e \in LoMethod /\ e.next = h[L[k]].next /\ e.path = h[p].path /\ e.types = h[p].types /\ e.owner = h[p].owner
  BY <1>3, Changed
<1>5. h2 = [d \in Cell |-> IF d = p THEN e ELSE h[d]]
  BY DEF Skips
<1>6. e # NULL /\ p # L[k] /\ \A i \in 1 .. n : (L[i] = p <=> i = k - 1)
  <2>1. e # NULL
    BY <1>4, CellFacts
  <2>2. k # k - 1
    BY <1>1
  <2> QED BY <1>1, <2>1, <2>2 DEF p
<1> HIDE DEF e, p
<1>7. h2 \in [Cell -> LoMethod \union {NULL}] /\ \A d \in Cell : h2[d] = IF d = p THEN e ELSE h[d]
  BY <1>4, <1>5
<1>8. ASSUME NEW i \in 1 .. Len(K)
      PROVE  h2[K[i]] # NULL /\ h2[K[i]].next = IF i < Len(K) THEN K[i + 1] ELSE NULL
  <2>1. i \in 1 .. n - 1 /\ i \in 1 .. n /\ i + 1 \in 1 .. n
    BY <1>1, <1>2
  <2>2. CASE i < k - 1
    <3>1. i < n - 1 /\ i + 1 \in 1 .. n - 1 /\ K[i] = L[i] /\ K[i + 1] = L[i + 1]
      BY <1>1, <1>2, <2>1, <2>2
    <3>2. h2[L[i]] = h[L[i]]
      BY <1>1, <1>6, <1>7, <2>1, <2>2
    <3> QED BY <1>1, <1>2, <2>1, <3>1, <3>2
  <2>3. CASE i = k - 1
    <3>1. K[i] = p /\ h2[p] = e
      BY <1>1, <1>2, <1>3, <1>7, <2>1, <2>3 DEF p
    <3>2. e.next = IF k < n THEN L[k + 1] ELSE NULL
      BY <1>1, <1>4
    <3>3. k < n => K[i + 1] = L[k + 1]
      <4>1. k < n => i + 1 \in 1 .. n - 1 /\ i + 1 = k
        BY <1>1, <2>1, <2>3
      <4> QED BY <1>2, <4>1
    <3> QED BY <1>1, <1>2, <1>6, <2>3, <3>1, <3>2, <3>3
  <2>4. CASE i > k - 1
    <3>1. K[i] = L[i + 1] /\ h2[L[i + 1]] = h[L[i + 1]]
      BY <1>1, <1>2, <1>6, <1>7, <2>1, <2>4
    <3>2. i < n - 1 => K[i + 1] = L[(i + 1) + 1]
      BY <1>1, <1>2, <2>1, <2>4
    <3> QED BY <1>1, <1>2, <2>1, <3>1, <3>2
  <2> QED BY <1>1, <2>1, <2>2, <2>3, <2>4
<1>9. f = IF Len(K) > 0 THEN K[1] ELSE NULL
  <2>1. n >= 2 /\ k >= 2 /\ n - 1 >= 1
    BY <1>1 DEF n
  <2>2. K[1] = L[1]
    BY <1>1, <1>2, <2>1
  <2> QED BY <1>1, <1>2, <2>1, <2>2
<1>10. Linked(h2, f, K)
  BY <1>2, <1>8, <1>9 DEF Linked
<1>11. \A d \in Cell : IF h[d] = NULL THEN h2[d] = NULL ELSE SameCell(h, h2, d)
  BY <1>3, <1>4, <1>6, <1>7 DEF SameCell
<1>12. h2[L[k]] = h[L[k]]
  BY <1>1, <1>6, <1>7
<1> QED BY <1>5, <1>7, <1>10, <1>11, <1>12 DEF p, K

(* Freeing a cell that is not in the list leaves the list as it is. *)
LEMMA Freed ==
    ASSUME NEW h \in [Cell -> LoMethod \union {NULL}], NEW f, NEW L, Linked(h, f, L), NEW c \in Cell, c \notin Elems(L)
    PROVE  LET h2 == [h EXCEPT ![c] = NULL] IN
           /\ h2 \in [Cell -> LoMethod \union {NULL}] /\ Linked(h2, f, L)
           /\ h2[c] = NULL /\ \A d \in Cell \ {c} : h2[d] = h[d]
<1> DEFINE h2 == [h EXCEPT ![c] = NULL]
<1>1. h2 \in [Cell -> LoMethod \union {NULL}] /\ h2[c] = NULL /\ \A d \in Cell \ {c} : h2[d] = h[d]
  OBVIOUS
<1> HIDE DEF h2
<1>2. \A i \in 1 .. Len(L) : L[i] \in Cell /\ L[i] # c
  BY DEF Linked, Elems
<1>3. \A i \in 1 .. Len(L) : h2[L[i]] = h[L[i]]
  BY <1>1, <1>2
<1>4. Linked(h2, f, L)
  BY <1>3 DEF Linked
<1> QED BY <1>1, <1>4 DEF h2

-----------------------------------------------------------------------------
(* The statements of constructors and destructors *)

(* What a module is. *)
LEMMA ModuleFacts ==
    ASSUME NEW m \in Module
    PROVE  /\ (m \in DAC) <=> ~ (m \in ADC)
           /\ m # "/ModuleManager" /\ m \in Path /\ m # NULL
           /\ MaxMade \in [Module -> Nat]
           /\ \A k \in 1 .. MaxMade[m] : <<m, k>> \in Owner
<1>1. (m \in DAC) <=> ~ (m \in ADC)
  BY ServiceAssumption DEF Module
<1>2. m # "/ModuleManager" /\ m \in Path /\ m # NULL
  BY ServiceAssumption, CellFacts DEF Module, Path
<1>3. MaxMade \in [Module -> Nat]
  BY ServiceAssumption DEF Module
<1>4. ASSUME NEW k \in 1 .. MaxMade[m] PROVE <<m, k>> \in Owner
  <2>1. <<m, k>> \in {m} \X (1 .. MaxMade[m])
    OBVIOUS
  <2>2. <<m, k>> \in UNION {{n} \X (1 .. MaxMade[n]) : n \in Module}
    BY <2>1
  <2> QED BY <2>2 DEF Owner
<1> QED BY <1>1, <1>2, <1>3, <1>4

(* The components of tuples. *)
LEMMA Pair == ASSUME NEW x, NEW a, NEW b, x = <<a, b>> PROVE x[1] = a /\ x[2] = b
OBVIOUS

LEMMA Single == ASSUME NEW x, NEW a, x = <<a>> PROVE x[1] = a
OBVIOUS

(* Tuples are sequences. *)
LEMMA Two == ASSUME NEW S, NEW a \in S, NEW b \in S PROVE <<a, b>> \in Seq(S) /\ Len(<<a, b>>) = 2
OBVIOUS

LEMMA Five ==
    ASSUME NEW S, NEW a \in S, NEW b \in S, NEW c \in S, NEW d \in S, NEW e \in S
    PROVE  <<a, b, c, d, e>> \in Seq(S) /\ Len(<<a, b, c, d, e>>) = 5
OBVIOUS

LEMMA Six ==
    ASSUME NEW S, NEW a \in S, NEW b \in S, NEW c \in S, NEW d \in S, NEW e \in S, NEW f \in S
    PROVE  <<a, b, c, d, e, f>> \in Seq(S) /\ Len(<<a, b, c, d, e, f>>) = 6
OBVIOUS

(* The statements there are. *)
LEMMA StatementIs ==
    /\ \A t \in Types : <<"add", t>> \in Statement /\ <<"delete", t>> \in Statement
    /\ <<"delete", "Audio_bb">> \in Statement /\ <<"delete", "Data_ii">> \in Statement
    /\ <<"init">> \in Statement /\ <<"buffers">> \in Statement /\ <<"free">> \in Statement
    /\ Types = {"AudioIn_b", "AudioIn_bb", "Volume_ii", "Data_iiii", "RequestML_i"}
BY DEF Statement, Named, Types

(* The statements of a constructor, one by one. *)
LEMMA MakingIs ==
    ASSUME NEW m \in Module
    PROVE  LET full == Making(m) IN
           /\ full \in Seq(Statement) /\ Len(full) = IF m \in DAC THEN 5 ELSE 2
           /\ full[Len(full)] = <<"init">>
           /\ \A i \in 1 .. Len(full) - 1 :
                 \E t \in Types \ {"RequestML_i"} : full[i] = <<"add", t>> /\ (m \in ADC => t = "Volume_ii")
<1> DEFINE full == Making(m)
<1>1. CASE m \in DAC
  <2>1. full = <<<<"add", "AudioIn_b">>, <<"add", "AudioIn_bb">>, <<"add", "Volume_ii">>,
                 <<"add", "Data_iiii">>, <<"init">>>>
    BY <1>1 DEF Making
  <2> HIDE DEF full
  <2>2. /\ Len(full) = 5 /\ full[1] = <<"add", "AudioIn_b">> /\ full[2] = <<"add", "AudioIn_bb">>
        /\ full[3] = <<"add", "Volume_ii">> /\ full[4] = <<"add", "Data_iiii">> /\ full[5] = <<"init">>
    BY <2>1
  <2>4. full \in Seq(Statement)
    <3>1. /\ <<"add", "AudioIn_b">> \in Statement /\ <<"add", "AudioIn_bb">> \in Statement
          /\ <<"add", "Volume_ii">> \in Statement /\ <<"add", "Data_iiii">> \in Statement
          /\ <<"init">> \in Statement
      BY StatementIs
    <3> QED BY <2>1, <3>1, Five, Zenon
  <2>5. ~ (m \in ADC)
    BY <1>1, ModuleFacts
  <2>6. ASSUME NEW i \in 1 .. Len(full) - 1
        PROVE \E t \in Types \ {"RequestML_i"} : full[i] = <<"add", t>> /\ (m \in ADC => t = "Volume_ii")
    <3>1. Len(full) = 5
      BY <2>2
    <3>2. i = 1 \/ i = 2 \/ i = 3 \/ i = 4
      BY <3>1
    <3>3. {"AudioIn_b", "AudioIn_bb", "Volume_ii", "Data_iiii"} \subseteq Types \ {"RequestML_i"}
      BY StatementIs
    <3> QED BY <2>2, <2>5, <3>2, <3>3
  <2> QED BY <1>1, <2>2, <2>4, <2>6 DEF full
<1>2. CASE ~ (m \in DAC)
  <2>1. full = <<<<"add", "Volume_ii">>, <<"init">>>>
    BY <1>2 DEF Making
  <2> HIDE DEF full
  <2>2. Len(full) = 2 /\ full[1] = <<"add", "Volume_ii">> /\ full[2] = <<"init">>
    BY <2>1
  <2>4. full \in Seq(Statement)
    <3>1. <<"add", "Volume_ii">> \in Statement /\ <<"init">> \in Statement
      BY StatementIs
    <3> QED BY <2>1, <3>1, Two, Zenon
  <2>5. ASSUME NEW i \in 1 .. Len(full) - 1
        PROVE \E t \in Types \ {"RequestML_i"} : full[i] = <<"add", t>> /\ (m \in ADC => t = "Volume_ii")
    <3>1. Len(full) = 2
      BY <2>2
    <3>2. i = 1
      BY <3>1
    <3>3. "Volume_ii" \in Types \ {"RequestML_i"}
      BY StatementIs
    <3> QED BY <2>2, <3>2, <3>3
  <2> QED BY <1>2, <2>2, <2>4, <2>5 DEF full
<1> QED BY <1>1, <1>2

(* The statements of a destructor, one by one. *)
LEMMA EndingIs ==
    ASSUME NEW m \in Module
    PROVE  LET full == Ending(m) IN
           /\ full \in Seq(Statement) /\ Len(full) = IF m \in DAC THEN 6 ELSE 2
           /\ full[Len(full)] = <<"free">>
           /\ \A i \in 1 .. Len(full) - 1 : full[i][1] \in {"delete", "buffers"}
           /\ \A t \in Types \ Forgotten : t # "RequestML_i" /\ (m \in ADC => t = "Volume_ii") =>
                 \E i \in 1 .. Len(full) : full[i] = <<"delete", t>>
<1> DEFINE full == Ending(m)
<1>1. CASE m \in DAC
  <2>1. full = <<<<"delete", "AudioIn_b">>, <<"delete", "Audio_bb">>, <<"delete", "Volume_ii">>,
                    <<"delete", "Data_ii">>, <<"buffers">>, <<"free">>>>
    BY <1>1 DEF Ending
  <2> HIDE DEF full
  <2>2. /\ Len(full) = 6 /\ full[1] = <<"delete", "AudioIn_b">> /\ full[2] = <<"delete", "Audio_bb">>
        /\ full[3] = <<"delete", "Volume_ii">> /\ full[4] = <<"delete", "Data_ii">>
        /\ full[5] = <<"buffers">> /\ full[6] = <<"free">>
    BY <2>1
  <2>4. full \in Seq(Statement)
    <3>1. /\ <<"delete", "AudioIn_b">> \in Statement /\ <<"delete", "Audio_bb">> \in Statement
          /\ <<"delete", "Volume_ii">> \in Statement /\ <<"delete", "Data_ii">> \in Statement
          /\ <<"buffers">> \in Statement /\ <<"free">> \in Statement
      BY StatementIs
    <3> QED BY <2>1, <3>1, Six, Zenon
  <2>5. ASSUME NEW i \in 1 .. Len(full) - 1 PROVE full[i][1] \in {"delete", "buffers"}
    <3>1. Len(full) = 6
      BY <2>2
    <3>2. i = 1 \/ i = 2 \/ i = 3 \/ i = 4 \/ i = 5
      BY <3>1
    <3>3. /\ full[1][1] = "delete" /\ full[2][1] = "delete"
          /\ full[3][1] = "delete" /\ full[4][1] = "delete"
      <4>1. full[1][1] = "delete"
        <5>1. full[1] = <<"delete", "AudioIn_b">>
          BY <2>2
        <5> QED BY <5>1, Pair, Zenon
      <4>2. full[2][1] = "delete"
        <5>1. full[2] = <<"delete", "Audio_bb">>
          BY <2>2
        <5> QED BY <5>1, Pair, Zenon
      <4>3. full[3][1] = "delete"
        <5>1. full[3] = <<"delete", "Volume_ii">>
          BY <2>2
        <5> QED BY <5>1, Pair, Zenon
      <4>4. full[4][1] = "delete"
        <5>1. full[4] = <<"delete", "Data_ii">>
          BY <2>2
        <5> QED BY <5>1, Pair, Zenon
      <4> QED BY <4>1, <4>2, <4>3, <4>4
    <3>5. full[5][1] = "buffers"
      BY <2>2, Single, Zenon
    <3> QED BY <3>2, <3>3, <3>5
  <2>6. ASSUME NEW t \in Types \ Forgotten, t # "RequestML_i"
        PROVE  \E i \in 1 .. Len(full) : full[i] = <<"delete", t>>
    <3>1. t = "AudioIn_b" \/ t = "Volume_ii"
      BY <2>6 DEF Types, Forgotten
    <3>2. 1 \in 1 .. Len(full) /\ 3 \in 1 .. Len(full)
      <4>1. Len(full) = 6
        BY <2>2
      <4> QED BY <4>1
    <3> QED BY <2>2, <3>1, <3>2
  <2> QED BY <1>1, <2>2, <2>4, <2>5, <2>6 DEF full
<1>2. CASE ~ (m \in DAC)
  <2>1. full = <<<<"delete", "Volume_ii">>, <<"free">>>>
    BY <1>2 DEF Ending
  <2> HIDE DEF full
  <2>2. Len(full) = 2 /\ full[1] = <<"delete", "Volume_ii">> /\ full[2] = <<"free">>
    BY <2>1
  <2>4. full \in Seq(Statement)
    <3>1. <<"delete", "Volume_ii">> \in Statement /\ <<"free">> \in Statement
      BY StatementIs
    <3> QED BY <2>1, <3>1, Two, Zenon
  <2>5. ASSUME NEW i \in 1 .. Len(full) - 1 PROVE full[i][1] \in {"delete", "buffers"}
    <3>1. Len(full) = 2
      BY <2>2
    <3>2. i = 1
      BY <3>1
    <3>3. full[1][1] = "delete"
      BY <2>2, Pair, Zenon
    <3> QED BY <3>2, <3>3
  <2>6. m \in ADC
    BY <1>2, ModuleFacts
  <2>7. \E i \in 1 .. Len(full) : full[i] = <<"delete", "Volume_ii">>
    <3>1. 1 \in 1 .. Len(full)
      <4>1. Len(full) = 2
        BY <2>2
      <4> QED BY <4>1
    <3> QED BY <2>2, <3>1
  <2> QED BY <1>2, <2>2, <2>4, <2>5, <2>6, <2>7 DEF full
<1> QED BY <1>1, <1>2

(* The next statement, and which of them are the last. *)
LEMMA TodoIs ==
    ASSUME LifeGood, todo # <<>>
    PROVE  /\ who \in Module /\ made[who] \in 1 .. MaxMade[who] /\ Len(todo) > 0
           /\ stage[who] = "making" =>
                 \/ /\ Len(todo) > 1 /\ \E t \in Types \ {"RequestML_i"} :
                          todo[1] = <<"add", t>> /\ (who \in ADC => t = "Volume_ii")
                 \/ Len(todo) = 1 /\ todo[1] = <<"init">>
           /\ stage[who] = "dying" =>
                 \/ Len(todo) > 1 /\ todo[1][1] \in {"delete", "buffers"}
                 \/ Len(todo) = 1 /\ todo[1] = <<"free">>
           /\ stage[who] \in {"making", "dying"}
<1>1. who \in Module /\ Len(todo) \in Nat /\ Len(todo) > 0 /\ stage[who] \in {"making", "dying"}
  BY DEF LifeGood
<1>2. made[who] \in 1 .. MaxMade[who]
  <2>1. /\ MaxMade[who] \in Nat /\ made[who] \in Nat /\ made[who] <= MaxMade[who]
        /\ stage[who] # "none" => made[who] > 0
    BY <1>1, ModuleFacts DEF LifeGood
  <2> QED BY <1>1, <2>1
<1>3. ASSUME stage[who] = "making"
      PROVE  \/ /\ Len(todo) > 1 /\ \E t \in Types \ {"RequestML_i"} :
                          todo[1] = <<"add", t>> /\ (who \in ADC => t = "Volume_ii")
             \/ Len(todo) = 1 /\ todo[1] = <<"init">>
  <2> DEFINE full == Making(who)
  <2>1. /\ Len(full) \in Nat /\ full[Len(full)] = <<"init">>
        /\ \A i \in 1 .. Len(full) - 1 :
                 \E t \in Types \ {"RequestML_i"} : full[i] = <<"add", t>> /\ (who \in ADC => t = "Volume_ii")
    <3>1. full \in Seq(Statement)
      BY <1>1, MakingIs
    <3>2. Len(full) \in Nat
      BY <3>1
    <3>3. /\ full[Len(full)] = <<"init">>
          /\ \A i \in 1 .. Len(full) - 1 :
                 \E t \in Types \ {"RequestML_i"} : full[i] = <<"add", t>> /\ (who \in ADC => t = "Volume_ii")
      BY <1>1, MakingIs
    <3> QED BY <3>2, <3>3
  <2>0. Len(full) \in Nat
    BY <2>1, Zenon
  <2>2. PICK j \in 0 .. 5 : Left(full, j)
    BY <1>3 DEF LifeGood
  <2> HIDE DEF full
  <2>3. j + 1 \in 1 .. Len(full) /\ todo[1] = full[j + 1] /\ Len(todo) = Len(full) - j
    <3>1. 1 \in 1 .. Len(todo) /\ j < Len(full) /\ Len(todo) = Len(full) - j /\ todo[1] = full[1 + j]
      BY <1>1, <2>2 DEF Left
    <3>2. Len(full) \in Nat /\ 1 + j = j + 1
      BY <2>0
    <3> QED BY <3>1, <3>2
  <2>4. CASE j + 1 = Len(full)
    <3>1. Len(todo) = 1
      BY <2>0, <2>3, <2>4
    <3>2. todo[1] = <<"init">>
      BY <2>1, <2>3, <2>4, Zenon
    <3> QED BY <3>1, <3>2
  <2>5. CASE j + 1 # Len(full)
    <3>1. j + 1 \in 1 .. Len(full) - 1 /\ Len(todo) > 1
      BY <2>0, <2>3, <2>5
    <3> QED BY <2>1, <2>3, <3>1
  <2> QED BY <2>4, <2>5
<1>4. ASSUME stage[who] = "dying"
      PROVE  \/ Len(todo) > 1 /\ todo[1][1] \in {"delete", "buffers"}
             \/ Len(todo) = 1 /\ todo[1] = <<"free">>
  <2> DEFINE full == Ending(who)
  <2>1. /\ Len(full) \in Nat /\ full[Len(full)] = <<"free">>
        /\ \A i \in 1 .. Len(full) - 1 : full[i][1] \in {"delete", "buffers"}
    <3>1. full \in Seq(Statement)
      BY <1>1, EndingIs
    <3>2. Len(full) \in Nat
      BY <3>1
    <3> QED BY <1>1, <3>2, EndingIs
  <2>0. Len(full) \in Nat
    BY <2>1, Zenon
  <2>2. PICK j \in 0 .. 5 : Left(full, j)
    BY <1>4 DEF LifeGood
  <2> HIDE DEF full
  <2>3. j + 1 \in 1 .. Len(full) /\ todo[1] = full[j + 1] /\ Len(todo) = Len(full) - j
    <3>1. 1 \in 1 .. Len(todo) /\ j < Len(full) /\ Len(todo) = Len(full) - j /\ todo[1] = full[1 + j]
      BY <1>1, <2>2 DEF Left
    <3>2. Len(full) \in Nat /\ 1 + j = j + 1
      BY <2>0
    <3> QED BY <3>1, <3>2
  <2> QED BY <2>1, <2>3
<1> QED BY <1>1, <1>2, <1>3, <1>4

(* The empty sequence. *)
LEMMA EmptyIs == ASSUME NEW S, NEW t \in Seq(S) PROVE t = <<>> <=> Len(t) = 0
OBVIOUS

(* What is left when the first statement is done. *)
LEMMA TailIs ==
    ASSUME LifeGood, todo # <<>>
    PROVE  /\ Tail(todo) \in Seq(Statement) /\ Len(Tail(todo)) = Len(todo) - 1
           /\ \A i \in 1 .. Len(todo) - 1 : Tail(todo)[i] = todo[i + 1]
           /\ Tail(todo) = <<>> <=> Len(todo) = 1
<1> DEFINE t == Tail(todo)
<1>1. todo \in Seq(Statement) /\ Len(todo) \in Nat
  BY DEF LifeGood
<1>2. t \in Seq(Statement) /\ Len(t) = Len(todo) - 1
  BY <1>1
<1>3. \A i \in 1 .. Len(todo) - 1 : t[i] = todo[i + 1]
  BY <1>1
<1> HIDE DEF t
<1>4. t = <<>> <=> Len(t) = 0
  BY <1>2, EmptyIs
<1> QED BY <1>1, <1>2, <1>3, <1>4 DEF t

(* A statement that is not the last: the next of them is due. *)
LEMMA OneDone ==
    ASSUME LifeGood, todo # <<>>, Len(todo) > 1, Done, UNCHANGED <<made, stage>>, wpc' = "next"
    PROVE  /\ LifeGood' /\ who' = who /\ todo' # <<>>
           /\ \A s : s # todo[1] /\ StillTo(s) => StillTo(s)'
<1>1. /\ todo' \in Seq(Statement) /\ Len(todo') = Len(todo) - 1 /\ todo' # <<>> /\ who' = who
      /\ \A i \in 1 .. Len(todo) - 1 : todo'[i] = todo[i + 1]
  BY TailIs DEF Done
<1>2. ASSUME NEW full \in Seq(Statement), NEW j \in 0 .. 5, Len(full) <= 6, Left(full, j)
      PROVE  \E k \in 0 .. 5 : Left(full, k)'
  <2>1. Len(todo) \in Nat /\ Len(full) \in Nat
    BY DEF LifeGood
  <2>2. j + 1 \in 0 .. 5 /\ j + 1 < Len(full) /\ Len(todo') = Len(full) - (j + 1)
    BY <1>1, <1>2, <2>1 DEF Left
  <2>3. \A i \in 1 .. Len(todo') : todo'[i] = full[i + (j + 1)]
    <3> SUFFICES ASSUME NEW i \in 1 .. Len(todo') PROVE todo'[i] = full[i + (j + 1)]
      OBVIOUS
    <3>1. i + 1 \in 1 .. Len(todo) /\ (i + 1) + j = i + (j + 1) /\ todo'[i] = todo[i + 1]
      BY <1>1, <2>1
    <3>2. todo[i + 1] = full[(i + 1) + j]
      BY <1>2, <3>1 DEF Left
    <3> QED BY <3>1, <3>2
  <2> QED BY <2>2, <2>3 DEF Left
<1>3. who \in Module
  BY DEF LifeGood
<1>4. stage[who] = "making" => \E k \in 0 .. 5 : Left(Making(who), k)'
  <2> SUFFICES ASSUME stage[who] = "making" PROVE \E k \in 0 .. 5 : Left(Making(who), k)'
    OBVIOUS
  <2>1. \E j \in 0 .. 5 : Left(Making(who), j)
    BY DEF LifeGood
  <2>2. Making(who) \in Seq(Statement) /\ Len(Making(who)) <= 6
    <3>1. Making(who) \in Seq(Statement) /\ Len(Making(who)) = IF who \in DAC THEN 5 ELSE 2
      BY <1>3, MakingIs, Zenon
    <3> QED BY <3>1
  <2> QED BY <1>1, <1>2, <2>1, <2>2 DEF Left, Making
<1>5. stage[who] = "dying" => \E k \in 0 .. 5 : Left(Ending(who), k)'
  <2> SUFFICES ASSUME stage[who] = "dying" PROVE \E k \in 0 .. 5 : Left(Ending(who), k)'
    OBVIOUS
  <2>1. \E j \in 0 .. 5 : Left(Ending(who), j)
    BY DEF LifeGood
  <2>2. Ending(who) \in Seq(Statement) /\ Len(Ending(who)) <= 6
    <3>1. Ending(who) \in Seq(Statement) /\ Len(Ending(who)) = IF who \in DAC THEN 6 ELSE 2
      BY <1>3, EndingIs, Zenon
    <3> QED BY <3>1
  <2> QED BY <1>1, <1>2, <2>1, <2>2 DEF Left, Ending
<1>6. LifeGood'
  BY <1>1, <1>3, <1>4, <1>5 DEF LifeGood
<1>7. ASSUME NEW s, s # todo[1], StillTo(s) PROVE StillTo(s)'
  <2>1. PICK i \in 1 .. Len(todo) : todo[i] = s
    BY <1>7 DEF StillTo
  <2>2. Len(todo) \in Nat
    BY DEF LifeGood
  <2>3. i - 1 \in 1 .. Len(todo) - 1 /\ (i - 1) + 1 = i
    BY <1>7, <2>1, <2>2
  <2>4. todo'[i - 1] = s
    BY <1>1, <2>1, <2>3
  <2> QED BY <1>1, <2>3, <2>4 DEF StillTo
<1> QED BY <1>1, <1>6, <1>7

-----------------------------------------------------------------------------
(* What a step leaves alone *)

(* Between two deletions a step that leaves the cells leaves the list. *)
LEMMA ListSame ==
    ASSUME NEW L, ListGood(L), wpc = "next", wpc' = "next", UNCHANGED <<heap, first>>,
           it' \in Cell \union {NULL}, prev' \in Cell \union {NULL}
    PROVE  ListGood(L)'
BY DEF ListGood, Allocated

(* The walk of a message, when the cell it stands on keeps its method or   *)
(* stood says that it was freed.                                           *)
LEMMA UdpKeeps ==
    ASSUME UdpGood, UNCHANGED walk, stood' \in BOOLEAN, stood => stood',
           upc # "idle" /\ ~ stood' /\ at # NULL => SameCell(heap, heap', at)
    PROVE  UdpGood'
BY DEF UdpGood, walk, SameCell, Matches

(* The walk of a message, when the TCP thread leaves the cells. *)
LEMMA UdpSame ==
    ASSUME UdpGood, UNCHANGED <<walk, heap, stood>>
    PROVE  UdpGood'
BY DEF UdpGood, walk, Matches

(* Nothing new is undefined. *)
LEMMA NotBroken == ASSUME broken = "no", UNCHANGED broken PROVE BrokenGood'
BY DEF BrokenGood, BrokenExplained

(* The heap and the cells of the list, as the invariant has them. *)
LEMMA HeapIs ==
    ASSUME NEW L, ListGood(L)
    PROVE  /\ heap \in [Cell -> LoMethod \union {NULL}]
           /\ \A c \in Cell : heap[c] # NULL =>
                 /\ heap[c] \in LoMethod /\ heap[c].path \in Path /\ heap[c].types \in Types
                 /\ heap[c].owner \in Owner /\ heap[c].next \in Cell \union {NULL}
           /\ \A i \in 1 .. Len(L) : L[i] \in Cell /\ heap[L[i]] # NULL
           /\ Len(L) \in Nat
BY DEF ListGood, LoMethod, Linked

(* One lemma for each action. A constructor begins: no cell has the new    *)
(* number of the module yet.                                               *)
LEMMA CreateKeeps ==
    ASSUME NEW L, Good(L), NEW m \in Module, Create(m) PROVE Good(L)'
<1>1. /\ broken = "no" /\ todo = <<>> /\ stage[m] = "none" /\ made[m] < MaxMade[m]
      /\ made' = [made EXCEPT ![m] = @ + 1] /\ stage' = [stage EXCEPT ![m] = "making"]
      /\ todo' = Making(m) /\ who' = m
      /\ UNCHANGED <<heap, first, wpc, it, prev, walk, broken, stood>>
  BY DEF Create, list, delete
<1>2. who = NULL /\ wpc = "next" /\ m # NULL /\ \A n \in Module : stage[n] \notin {"making", "dying"}
  BY <1>1, CellFacts DEF Good, LifeGood
<1>3. /\ made \in [Module -> Nat] /\ stage \in [Module -> {"none", "making", "alive", "dying"}]
      /\ made' \in [Module -> Nat] /\ stage' \in [Module -> {"none", "making", "alive", "dying"}]
      /\ made'[m] = made[m] + 1 /\ stage'[m] = "making"
      /\ \A n \in Module \ {m} : made'[n] = made[n] /\ stage'[n] = stage[n]
  BY <1>1 DEF Good, LifeGood
<1>4. ListGood(L)'
  BY <1>1, <1>2, ListSame DEF Good, ListGood
<1>5. LifeGood'
  <2>1. Making(m) \in Seq(Statement) /\ Len(Making(m)) = IF m \in DAC THEN 5 ELSE 2
    BY MakingIs, Zenon
  <2>2. todo' \in Seq(Statement) /\ todo' # <<>>
    <3> DEFINE full == Making(m)
    <3>1. full \in Seq(Statement) /\ Len(full) > 0
      BY <2>1
    <3> HIDE DEF full
    <3>2. full # <<>>
      BY <3>1
    <3>3. todo' = full
      BY <1>1 DEF full
    <3> QED BY <3>1, <3>2, <3>3
  <2>3. Left(Making(m), 0)'
    <3> DEFINE full == Making(m)
    <3>1. full \in Seq(Statement) /\ 0 < Len(full) /\ Len(full) = Len(full) - 0
      BY <2>1
    <3> HIDE DEF full
    <3>2. \A i \in 1 .. Len(full) : full[i] = full[i + 0]
      BY <3>1
    <3>3. todo' = full
      BY <1>1 DEF full
    <3> QED BY <3>1, <3>2, <3>3 DEF Left, full, Making
  <2>4. \A n \in Module : made'[n] <= MaxMade[n] /\ (stage'[n] # "none" => made'[n] > 0)
                           /\ (stage'[n] \in {"making", "dying"} => n = m)
    <3> SUFFICES ASSUME NEW n \in Module
                 PROVE  made'[n] <= MaxMade[n] /\ (stage'[n] # "none" => made'[n] > 0)
                           /\ (stage'[n] \in {"making", "dying"} => n = m)
      OBVIOUS
    <3>1. /\ MaxMade[n] \in Nat /\ MaxMade[m] \in Nat /\ made[n] <= MaxMade[n]
          /\ stage[n] # "none" => made[n] > 0
      BY ModuleFacts DEF Good, LifeGood
    <3> QED BY <1>1, <1>2, <1>3, <3>1
  <2>5. \E j \in 0 .. 5 : Left(Making(m), j)'
    BY <2>3
  <2> QED BY <1>1, <1>2, <1>3, <2>2, <2>4, <2>5 DEF LifeGood, Making, Left
<1>6. CellsGood'
  <2> SUFFICES ASSUME NEW c \in Cell, heap[c] # NULL PROVE CellGood(heap[c])'
    BY <1>1 DEF CellsGood
  <2>1. CellGood(heap[c])
    BY DEF Good, CellsGood
  <2>2. CASE heap[c].path = m
    <3>1. heap[c].types \in Forgotten
      BY <1>1, <2>1, <2>2 DEF CellGood
    <3>2. heap[c].owner[2] \in 1 .. made'[m]
      <4>1. made[m] \in Nat /\ heap[c].owner[2] \in 1 .. made[m]
        BY <1>3, <2>1, <2>2 DEF CellGood
      <4> QED BY <1>3, <4>1
    <3> QED BY <1>1, <2>1, <2>2, <3>1, <3>2 DEF CellGood
  <2>3. CASE heap[c].path # m
    <3>1. heap[c].path \in Module => /\ made'[heap[c].path] = made[heap[c].path]
                                     /\ stage'[heap[c].path] = stage[heap[c].path]
                                     /\ stage[heap[c].path] # "dying"
      BY <1>2, <1>3, <2>3
    <3> QED BY <1>1, <2>1, <3>1 DEF CellGood
  <2> QED BY <2>2, <2>3
<1>7. UdpGood'
  BY <1>1, UdpSame DEF Good
<1> QED BY <1>1, <1>4, <1>5, <1>6, <1>7, NotBroken DEF Good

(* A destructor begins: what it will not forget it still has to delete. *)
LEMMA RemoveKeeps ==
    ASSUME NEW L, Good(L), NEW m \in Module, Remove(m) PROVE Good(L)'
<1>1. /\ broken = "no" /\ todo = <<>> /\ stage[m] = "alive"
      /\ stage' = [stage EXCEPT ![m] = "dying"]
      /\ todo' = Ending(m) /\ who' = m
      /\ UNCHANGED <<made, heap, first, wpc, it, prev, walk, broken, stood>>
  BY DEF Remove, list, delete
<1>2. who = NULL /\ wpc = "next" /\ m # NULL /\ \A n \in Module : stage[n] \notin {"making", "dying"}
  BY <1>1, CellFacts DEF Good, LifeGood
<1>3. /\ stage \in [Module -> {"none", "making", "alive", "dying"}]
      /\ stage' \in [Module -> {"none", "making", "alive", "dying"}]
      /\ stage'[m] = "dying" /\ \A n \in Module \ {m} : stage'[n] = stage[n]
  BY <1>1 DEF Good, LifeGood
<1>4. ListGood(L)'
  BY <1>1, <1>2, ListSame DEF Good, ListGood
<1>0. Ending(m) \in Seq(Statement) /\ Len(Ending(m)) = IF m \in DAC THEN 6 ELSE 2
  BY EndingIs, Zenon
<1>5. LifeGood'
  <2>2. todo' \in Seq(Statement) /\ todo' # <<>>
    <3> DEFINE full == Ending(m)
    <3>1. full \in Seq(Statement) /\ Len(full) > 0
      BY <1>0
    <3> HIDE DEF full
    <3>2. full # <<>>
      BY <3>1
    <3>3. todo' = full
      BY <1>1 DEF full
    <3> QED BY <3>1, <3>2, <3>3
  <2>3. Left(Ending(m), 0)'
    <3> DEFINE full == Ending(m)
    <3>1. full \in Seq(Statement) /\ 0 < Len(full) /\ Len(full) = Len(full) - 0
      BY <1>0
    <3> HIDE DEF full
    <3>2. \A i \in 1 .. Len(full) : full[i] = full[i + 0]
      BY <3>1
    <3>3. todo' = full
      BY <1>1 DEF full
    <3> QED BY <3>1, <3>2, <3>3 DEF Left, full, Ending
  <2>5. \E j \in 0 .. 5 : Left(Ending(m), j)'
    BY <2>3
  <2> QED BY <1>1, <1>2, <1>3, <2>2, <2>5 DEF Good, LifeGood, Ending, Left
<1>6. CellsGood'
  <2> SUFFICES ASSUME NEW c \in Cell, heap[c] # NULL PROVE CellGood(heap[c])'
    BY <1>1 DEF CellsGood
  <2>1. CellGood(heap[c]) /\ heap[c].types \in Types
    BY HeapIs DEF Good, CellsGood
  <2>2. CASE heap[c].path = m
    <3>1. heap[c].types \notin Forgotten => StillTo(<<"delete", heap[c].types>>)'
      <4> SUFFICES ASSUME heap[c].types \notin Forgotten PROVE StillTo(<<"delete", heap[c].types>>)'
        OBVIOUS
      <4>1. \E i \in 1 .. Len(Ending(m)) : Ending(m)[i] = <<"delete", heap[c].types>>
        <5> DEFINE t == heap[c].types
        <5>1. t \in Types \ Forgotten /\ t # "RequestML_i" /\ (m \in ADC => t = "Volume_ii")
          BY <2>1, <2>2 DEF CellGood
        <5> HIDE DEF t
        <5>2. \E i \in 1 .. Len(Ending(m)) : Ending(m)[i] = <<"delete", t>>
          BY <5>1, EndingIs, Zenon
        <5> QED BY <5>2 DEF t
      <4> QED BY <1>1, <4>1 DEF StillTo
    <3> QED BY <1>1, <1>3, <2>1, <2>2, <3>1 DEF CellGood
  <2>3. CASE heap[c].path # m
    <3>1. heap[c].path \in Module => /\ stage'[heap[c].path] = stage[heap[c].path]
                                     /\ stage[heap[c].path] # "dying"
      BY <1>2, <1>3, <2>3
    <3> QED BY <1>1, <2>1, <3>1 DEF CellGood
  <2> QED BY <2>2, <2>3
<1>7. UdpGood'
  BY <1>1, UdpSame DEF Good
<1> QED BY <1>1, <1>4, <1>5, <1>6, <1>7, NotBroken DEF Good

(* addMethod puts a method of its own behind the list. *)
Adds(L, c) ==
    /\ heap[c] = NULL /\ who \in Module /\ stage[who] = "making" /\ made[who] \in 1 .. MaxMade[who]
    /\ Len(todo) > 1 /\ todo[1] = <<"add", todo[1][2]>>
    /\ todo[1][2] \in Types \ {"RequestML_i"} /\ (who \in ADC => todo[1][2] = "Volume_ii")
    /\ heap' \in [Cell -> LoMethod \union {NULL}] /\ Linked(heap', first', Append(L, c))
    /\ heap'[c] # NULL /\ heap'[c].path = who /\ heap'[c].types = todo[1][2]
    /\ heap'[c].owner = <<who, made[who]>>
    /\ \A d \in Cell \ {c} : IF heap[d] = NULL THEN heap'[d] = NULL ELSE SameCell(heap, heap', d)

(* What lo_server_add_method does. *)
LEMMA AddIs ==
    ASSUME NEW L, Good(L), addMethod PROVE \E c \in Cell : Adds(L, c)
<1>1. /\ broken = "no" /\ wpc = "next" /\ todo # <<>> /\ todo[1][1] = "add" /\ Done
      /\ UNCHANGED <<made, stage, wpc, it, prev, walk, broken, stood>>
  BY DEF addMethod, Statement1, delete
<1>2. /\ who \in Module /\ made[who] \in 1 .. MaxMade[who] /\ stage[who] = "making" /\ Len(todo) > 1
      /\ \E t \in Types \ {"RequestML_i"} : todo[1] = <<"add", t>> /\ (who \in ADC => t = "Volume_ii")
  <2>1. LifeGood
    BY DEF Good
  <2>2. CASE stage[who] = "making"
    <3>1. todo[1] # <<"init">>
      <4>1. <<"init">>[1] = "init"
        OBVIOUS
      <4> QED BY <1>1, <4>1
    <3> QED BY <1>1, <2>1, <2>2, <3>1, TodoIs
  <2>3. CASE stage[who] = "dying"
    <3>1. todo[1] # <<"free">>
      <4>1. <<"free">>[1] = "free"
        OBVIOUS
      <4> QED BY <1>1, <4>1
    <3> QED BY <1>1, <2>1, <2>3, <3>1, TodoIs
  <2> QED BY <1>1, <2>1, <2>2, <2>3, TodoIs
<1>3. PICK t \in Types \ {"RequestML_i"} : todo[1] = <<"add", t>> /\ (who \in ADC => t = "Volume_ii")
  BY <1>2
<1>4. todo[1][2] = t
  BY <1>3, Pair, Zenon
<1> DEFINE m == [path |-> who, types |-> t, owner |-> <<who, made[who]>>, next |-> NULL]
<1>5. PICK c \in Cell :
         /\ Free(c)
         /\ IF first = NULL
            THEN first' = c /\ heap' = [heap EXCEPT ![c] = m]
            ELSE \E last \in Cell :
                    /\ heap[last] # NULL /\ Len(From(heap, last)) = 1
                    /\ heap' = [heap EXCEPT ![c] = m, ![last].next = c] /\ UNCHANGED first
  BY <1>4 DEF addMethod
<1>6. heap[c] = NULL
  BY <1>5 DEF Free
<1>7. m \in LoMethod /\ m.next = NULL /\ m.path = who /\ m.types = t /\ m.owner = <<who, made[who]>>
  BY <1>2, ModuleFacts DEF LoMethod
<1>8. /\ heap \in [Cell -> LoMethod \union {NULL}] /\ Linked(heap, first, L)
      /\ \A d \in Cell : heap[d] # NULL => d \in Elems(L)
  BY <1>1 DEF Good, ListGood, Allocated
<1>0. Len(L) \in Nat /\ \A i \in 1 .. Len(L) : L[i] \in Cell
  BY HeapIs DEF Good
<1> HIDE DEF m
<1>9. /\ heap' \in [Cell -> LoMethod \union {NULL}] /\ Linked(heap', first', Append(L, c))
      /\ heap'[c] = m
      /\ \A d \in Cell \ {c} : IF heap[d] = NULL THEN heap'[d] = NULL ELSE SameCell(heap, heap', d)
  <2>1. CASE first = NULL
    <3>1. Len(L) = 0
      <4>1. ~ (Len(L) > 0)
        <5>1. Len(L) > 0 => 1 \in 1 .. Len(L) /\ first = L[1]
          BY <1>0, <1>8 DEF Linked
        <5> QED BY <1>0, <2>1, <5>1, CellFacts
      <4> QED BY <1>0, <4>1
    <3>2. first' = c /\ heap' = [heap EXCEPT ![c] = m]
      BY <1>5, <2>1
    <3>3. /\ heap' \in [Cell -> LoMethod \union {NULL}] /\ Linked(heap', first', <<c>>)
          /\ heap'[c] = m /\ \A d \in Cell \ {c} : heap'[d] = heap[d]
      BY <1>7, <1>8, <3>2, AppendedFirst
    <3>4. Append(L, c) = <<c>>
      <4>1. L \in Seq(Cell)
        BY <1>8 DEF Linked
      <4>2. L = <<>>
        BY <3>1, <4>1, EmptyIs
      <4> QED BY <4>2
    <3>5. \A d \in Cell \ {c} : IF heap[d] = NULL THEN heap'[d] = NULL ELSE SameCell(heap, heap', d)
      BY <3>3 DEF SameCell
    <3> QED BY <3>3, <3>4, <3>5
  <2>2. CASE first # NULL
    <3>1. Len(L) \in Nat /\ Len(L) > 0
      BY <1>0, <1>8, <2>2 DEF Linked
    <3>2. PICK last \in Cell : /\ heap[last] # NULL /\ Len(From(heap, last)) = 1
                               /\ heap' = [heap EXCEPT ![c] = m, ![last].next = c] /\ UNCHANGED first
      BY <1>5, <2>2
    <3>3. PICK j \in 1 .. Len(L) : last = L[j]
      BY <1>8, <3>2 DEF Elems
    <3>4. last = L[Len(L)]
      <4>1. From(heap, L[j]) = Rest(heap, L, j)
        BY <1>8, FromIs
      <4>2. Len(Rest(heap, L, j)) = Len(L) - j + 1
        <5> DEFINE n == Len(L) - j + 1
                   e(i) == Content(heap, L[i + j - 1])
        <5>1. n \in Nat
          BY <1>0, <3>3
        <5>2. Rest(heap, L, j) = [i \in 1 .. n |-> e(i)]
          BY DEF Rest
        <5> HIDE DEF n, e
        <5>3. Len([i \in 1 .. n |-> e(i)]) = n
          BY <5>1
        <5> QED BY <5>2, <5>3 DEF n
      <4>3. Len(L) - j + 1 = 1
        BY <3>2, <3>3, <4>1, <4>2
      <4>4. j = Len(L)
        BY <1>0, <4>3
      <4> QED BY <3>3, <4>4
    <3>5. /\ heap' \in [Cell -> LoMethod \union {NULL}] /\ Linked(heap', first', Append(L, c))
          /\ heap'[c] = m
          /\ \A d \in Cell \ {c} : IF heap[d] = NULL THEN heap'[d] = NULL ELSE SameCell(heap, heap', d)
      <4>1. heap' = [heap EXCEPT ![c] = m, ![L[Len(L)]].next = c] /\ first' = first
        BY <3>2, <3>4
      <4>2. /\ heap \in [Cell -> LoMethod \union {NULL}] /\ Linked(heap, first, L)
            /\ m \in LoMethod /\ m.next = NULL
        BY <1>7, <1>8
      <4>3. LET h2 == [heap EXCEPT ![c] = m, ![L[Len(L)]].next = c] IN
           /\ h2 \in [Cell -> LoMethod \union {NULL}] /\ Linked(h2, first, Append(L, c))
           /\ h2[c] = m
           /\ \A d \in Cell \ {c} : IF heap[d] = NULL THEN h2[d] = NULL ELSE SameCell(heap, h2, d)
        BY <1>6, <3>1, <4>2, Appended, Zenon
      <4> QED BY <4>1, <4>3, Zenon
    <3> QED BY <3>5
  <2> QED BY <2>1, <2>2
<1>10. heap'[c] # NULL
  BY <1>7, <1>9, CellFacts
<1> QED BY <1>2, <1>3, <1>4, <1>6, <1>7, <1>9, <1>10 DEF Adds

(* A constructor adds a method, at the end of the list. *)
LEMMA AddKeeps ==
    ASSUME NEW L, Good(L), addMethod, NEW c \in Cell, Adds(L, c) PROVE Good(Append(L, c))'
<1> DEFINE K == Append(L, c)
           t == todo[1][2]
<1>1. /\ broken = "no" /\ wpc = "next" /\ todo # <<>> /\ todo[1][1] = "add" /\ Done
      /\ UNCHANGED <<made, stage, wpc, it, prev, walk, broken, stood>>
  BY DEF addMethod, Statement1, delete
<1>2. /\ heap[c] = NULL /\ who \in Module /\ made[who] \in 1 .. MaxMade[who] /\ stage[who] = "making"
      /\ Len(todo) > 1 /\ t \in Types \ {"RequestML_i"} /\ (who \in ADC => t = "Volume_ii")
  BY DEF Adds
<1>8. \A d \in Cell : heap[d] # NULL => d \in Elems(L)
  BY <1>1 DEF Good, ListGood, Allocated
<1>9. c \in Elems(K) /\ \A d \in Elems(L) : d \in Elems(K)
  <2>1. L \in Seq(Cell) /\ Len(L) \in Nat
    BY DEF Good, ListGood, Linked
  <2>2. Len(K) = Len(L) + 1 /\ K[Len(L) + 1] = c /\ \A i \in 1 .. Len(L) : K[i] = L[i]
    BY <2>1, AppendProperties
  <2>3. Len(L) + 1 \in 1 .. Len(K) /\ \A i \in 1 .. Len(L) : i \in 1 .. Len(K)
    BY <2>1, <2>2
  <2> HIDE DEF K
  <2>4. c \in Elems(K)
    BY <2>2, <2>3 DEF Elems
  <2>5. \A i \in 1 .. Len(L) : L[i] \in Elems(K)
    BY <2>2, <2>3 DEF Elems
  <2> QED BY <2>4, <2>5 DEF Elems
<1>10. /\ heap' \in [Cell -> LoMethod \union {NULL}] /\ Linked(heap', first', K)
       /\ heap'[c].path = who /\ heap'[c].types = t /\ heap'[c].owner = <<who, made[who]>>
       /\ \A d \in Cell \ {c} : IF heap[d] = NULL THEN heap'[d] = NULL ELSE SameCell(heap, heap', d)
  BY DEF Adds
<1> HIDE DEF K, t
<1>11. /\ LifeGood' /\ who' = who /\ \A s : s # todo[1] /\ StillTo(s) => StillTo(s)'
  BY <1>1, <1>2, OneDone DEF Good
<1>12. ListGood(K)'
  <2>1. \A d \in Cell : heap'[d] # NULL => d \in Elems(K)
    BY <1>8, <1>9, <1>10
  <2> QED BY <1>1, <1>10, <2>1 DEF Good, ListGood, Allocated
<1>13. CellsGood'
  <2> SUFFICES ASSUME NEW d \in Cell, heap'[d] # NULL PROVE CellGood(heap[d])'
    BY DEF CellsGood
  <2>1. CASE d = c
    <3>1. /\ heap'[d].path = who /\ heap'[d].types = t
          /\ heap'[d].owner[1] = who /\ heap'[d].owner[2] = made[who]
      BY <1>10, <2>1, Pair
    <3>2. made[who] \in 1 .. made[who]
      BY <1>2
    <3> QED BY <1>1, <1>2, <3>1, <3>2 DEF CellGood
  <2>2. CASE d # c
    <3>1. heap[d] # NULL /\ SameCell(heap, heap', d) /\ CellGood(heap[d]) /\ heap[d].types \in Types
      BY <1>10, <2>2, HeapIs DEF Good, CellsGood
    <3>2. <<"delete", heap[d].types>> # todo[1]
      <4>1. <<"delete", heap[d].types>>[1] = "delete"
        OBVIOUS
      <4> QED BY <1>1, <4>1
    <3>3. /\ heap'[d].path = heap[d].path /\ heap'[d].types = heap[d].types
          /\ heap'[d].owner = heap[d].owner
      BY <3>1 DEF SameCell
    <3>4. StillTo(<<"delete", heap[d].types>>) =>
             \E i \in 1 .. Len(todo') : todo'[i] = <<"delete", heap'[d].types>>
      <4> DEFINE s == <<"delete", heap[d].types>>
      <4>1. s # todo[1] /\ s = <<"delete", heap'[d].types>>
        BY <3>2, <3>3
      <4> HIDE DEF s
      <4>2. StillTo(s) => \E i \in 1 .. Len(todo') : todo'[i] = s
        BY <1>11, <4>1 DEF StillTo
      <4> QED BY <4>1, <4>2 DEF s
    <3>5. made' = made /\ stage' = stage
      BY <1>1
    <3> QED BY <3>1, <3>3, <3>4, <3>5 DEF CellGood, StillTo
  <2> QED BY <2>1, <2>2
<1>14. UdpGood'
  <2>1. upc # "idle" /\ ~ stood' /\ at # NULL => SameCell(heap, heap', at)
    BY <1>1, <1>2, <1>10 DEF Good, UdpGood
  <2> QED BY <1>1, <2>1, UdpKeeps DEF Good, UdpGood
<1> QED BY <1>1, <1>11, <1>12, <1>13, <1>14, NotBroken DEF Good, K

(* What cells hold of modules stays good when a statement is done that     *)
(* deletes nothing and is not the last.                                    *)
LEMMA CellsKeep ==
    ASSUME CellsGood, UNCHANGED <<heap, made, stage>>, \A c \in Cell : heap[c] # NULL => heap[c].types \in Types,
           \A t \in Types : StillTo(<<"delete", t>>) => StillTo(<<"delete", t>>)'
    PROVE  CellsGood'
<1> SUFFICES ASSUME NEW c \in Cell, heap[c] # NULL PROVE CellGood(heap[c])'
  BY DEF CellsGood
<1>1. CellGood(heap[c]) /\ heap[c].types \in Types
  BY DEF CellsGood
<1>2. StillTo(<<"delete", heap[c].types>>) => StillTo(<<"delete", heap[c].types>>)'
  <2> DEFINE t == heap[c].types
  <2>1. t \in Types /\ t = heap'[c].types
    BY <1>1
  <2>2. StillTo(<<"delete", t>>) => \E i \in 1 .. Len(todo') : todo'[i] = <<"delete", t>>
    BY <2>1 DEF StillTo
  <2> QED BY <2>1, <2>2 DEF StillTo
<1> QED BY <1>1, <1>2 DEF CellGood

(* The last statement of a constructor or destructor. *)
LEMMA LastDone ==
    ASSUME LifeGood, todo # <<>>, Len(todo) = 1, Done, wpc = "next", wpc' = "next", UNCHANGED made,
           NEW s \in {"none", "alive"}, stage' = [stage EXCEPT ![who] = s]
    PROVE  /\ LifeGood' /\ who \in Module /\ stage' \in [Module -> {"none", "making", "alive", "dying"}]
           /\ \A m \in Module : stage'[m] = IF m = who THEN s ELSE stage[m]
           /\ \A m \in Module : stage'[m] \notin {"making", "dying"}
<1>1. todo' = <<>> /\ who' = NULL
  BY TailIs DEF Done
<1>2. who \in Module /\ made[who] \in Nat /\ made[who] > 0 /\ stage[who] \in {"making", "dying"}
  BY TodoIs DEF LifeGood
<1>3. /\ stage' \in [Module -> {"none", "making", "alive", "dying"}]
      /\ \A m \in Module : stage'[m] = IF m = who THEN s ELSE stage[m]
  BY <1>2 DEF LifeGood
<1>4. \A m \in Module : stage'[m] \notin {"making", "dying"}
  BY <1>3 DEF LifeGood
<1>5. <<>> \in Seq(Statement)
  OBVIOUS
<1> QED BY <1>1, <1>2, <1>3, <1>4, <1>5 DEF LifeGood

(* The end of a constructor. *)
LEMMA InitKeeps ==
    ASSUME NEW L, Good(L), InitService PROVE Good(L)'
<1>1. /\ broken = "no" /\ wpc = "next" /\ todo # <<>> /\ todo[1][1] = "init" /\ Done
      /\ stage' = [stage EXCEPT ![who] = "alive"]
      /\ UNCHANGED <<heap, first, made, wpc, it, prev, walk, broken, stood>>
  BY DEF InitService, Statement1, list, delete
<1>2. Len(todo) = 1
  <2>1. LifeGood
    BY DEF Good
  <2>2. ASSUME NEW t, todo[1] = <<"add", t>> PROVE FALSE
    BY <1>1, <2>2, Pair
  <2> QED BY <1>1, <2>1, <2>2, TodoIs
<1>3. /\ LifeGood' /\ who \in Module
      /\ \A m \in Module : stage'[m] = IF m = who THEN "alive" ELSE stage[m]
      /\ \A m \in Module : stage'[m] \notin {"making", "dying"}
  BY <1>1, <1>2, LastDone DEF Good
<1>4. ListGood(L)'
  BY <1>1, ListSame DEF Good, ListGood
<1>5. CellsGood'
  <2> SUFFICES ASSUME NEW c \in Cell, heap[c] # NULL PROVE CellGood(heap[c])'
    BY <1>1 DEF CellsGood
  <2>1. CellGood(heap[c])
    BY DEF Good, CellsGood
  <2> QED BY <1>1, <1>3, <2>1 DEF CellGood
<1>6. UdpGood'
  BY <1>1, UdpSame DEF Good
<1> QED BY <1>1, <1>3, <1>4, <1>5, <1>6, NotBroken DEF Good

(* A DAC frees its buffers. *)
LEMMA BuffersKeeps ==
    ASSUME NEW L, Good(L), FreeBuffers PROVE Good(L)'
<1>1. /\ broken = "no" /\ wpc = "next" /\ todo # <<>> /\ todo[1][1] = "buffers" /\ Done
      /\ UNCHANGED <<heap, first, made, stage, wpc, it, prev, walk, broken, stood>>
  BY DEF FreeBuffers, Statement1, list, delete
<1>2. Len(todo) > 1
  <2>1. LifeGood
    BY DEF Good
  <2>2. ASSUME NEW t, todo[1] = <<"add", t>> PROVE FALSE
    BY <1>1, <2>2, Pair
  <2>3. todo[1] # <<"init">> /\ todo[1] # <<"free">>
    BY <1>1, Single
  <2> QED BY <1>1, <2>1, <2>2, <2>3, TodoIs
<1>3. LifeGood' /\ \A s : s # todo[1] /\ StillTo(s) => StillTo(s)'
  BY <1>1, <1>2, OneDone DEF Good
<1>4. ListGood(L)'
  BY <1>1, ListSame DEF Good, ListGood
<1>5. CellsGood'
  <2>1. \A t \in Types : <<"delete", t>> # todo[1]
    <3> SUFFICES ASSUME NEW t \in Types, <<"delete", t>> = todo[1] PROVE FALSE
      OBVIOUS
    <3> QED BY <1>1, Pair
  <2> QED BY <1>1, <1>3, <2>1, CellsKeep, HeapIs DEF Good
<1>6. UdpGood'
  BY <1>1, UdpSame DEF Good
<1> QED BY <1>1, <1>3, <1>4, <1>5, <1>6, NotBroken DEF Good

(* The end of a destructor: all deletions are done, so the module has left *)
(* only what it forgets.                                                   *)
LEMMA FreeKeeps ==
    ASSUME NEW L, Good(L), FreeService PROVE Good(L)'
<1>1. /\ broken = "no" /\ wpc = "next" /\ todo # <<>> /\ todo[1][1] = "free" /\ Done
      /\ stage' = [stage EXCEPT ![who] = "none"]
      /\ UNCHANGED <<heap, first, made, wpc, it, prev, walk, broken, stood>>
  BY DEF FreeService, Statement1, list, delete
<1>2. Len(todo) = 1 /\ todo[1] = <<"free">> /\ stage[who] = "dying"
  <2>1. LifeGood
    BY DEF Good
  <2>2. ASSUME NEW t, todo[1] = <<"add", t>> PROVE FALSE
    BY <1>1, <2>2, Pair
  <2>3. todo[1] # <<"init">>
    BY <1>1, Single
  <2> QED BY <1>1, <2>1, <2>2, <2>3, TodoIs
<1>3. /\ LifeGood' /\ who \in Module
      /\ \A m \in Module : stage'[m] = IF m = who THEN "none" ELSE stage[m]
      /\ \A m \in Module : stage'[m] \notin {"making", "dying"}
  BY <1>1, <1>2, LastDone DEF Good
<1>4. ListGood(L)'
  BY <1>1, ListSame DEF Good, ListGood
<1>5. CellsGood'
  <2> SUFFICES ASSUME NEW c \in Cell, heap[c] # NULL PROVE CellGood(heap[c])'
    BY <1>1 DEF CellsGood
  <2>1. CellGood(heap[c])
    BY DEF Good, CellsGood
  <2>2. ~ StillTo(<<"delete", heap[c].types>>)
    <3> SUFFICES ASSUME StillTo(<<"delete", heap[c].types>>) PROVE FALSE
      OBVIOUS
    <3>1. todo[1] = <<"delete", heap[c].types>>
      BY <1>2 DEF StillTo
    <3> QED BY <1>1, <3>1, Pair
  <2> QED BY <1>1, <1>2, <1>3, <2>1, <2>2 DEF CellGood
<1>6. UdpGood'
  BY <1>1, UdpSame DEF Good
<1> QED BY <1>1, <1>3, <1>4, <1>5, <1>6, NotBroken DEF Good

-----------------------------------------------------------------------------
(* lo_server_del_method *)

(* The loop of lo_server_del_method leaves the modules alone. *)
LEMMA LifeSame ==
    ASSUME LifeGood, CellsGood, UNCHANGED life, wpc' # "next" => wpc # "next" \/ (todo # <<>> /\ todo[1][1] = "delete")
    PROVE  LifeGood' /\ (UNCHANGED heap => CellsGood')
<1>1. LifeGood'
  BY DEF LifeGood, life, Left, Making, Ending
<1>2. UNCHANGED heap => CellsGood'
  BY DEF CellsGood, CellGood, life, StillTo
<1> QED BY <1>1, <1>2

(* The walk, before it has to move. *)
LEMMA StandsIs ==
    ASSUME NEW L, Good(L), wpc # "next"
    PROVE  \E k \in 1 .. Len(L) + 1 : Stands(L, k)
BY DEF Good, ListGood

(* A deletion begins at the first cell. *)
LEMMA DelKeeps ==
    ASSUME NEW L, Good(L), delMethod PROVE Good(L)'
<1>1. /\ broken = "no" /\ wpc = "next" /\ todo # <<>> /\ todo[1][1] = "delete"
      /\ wpc' = "walk" /\ it' = first /\ prev' = first
      /\ UNCHANGED <<heap, first, life, walk, broken, stood>>
  BY DEF delMethod, Statement1, list
<1>2. Linked(heap, first, L) /\ Len(L) \in Nat /\ 1 \in 1 .. Len(L) + 1 /\ first \in Cell \union {NULL}
  <2>1. Linked(heap, first, L) /\ Len(L) \in Nat
    BY HeapIs DEF Good, ListGood
  <2>2. Len(L) > 0 => 1 \in 1 .. Len(L)
    BY <2>1
  <2> QED BY <2>1, <2>2, HeapIs DEF Good, Linked
<1>3. Stands(L, 1)'
  <2>1. it' = IF 1 <= Len(L) THEN L[1] ELSE NULL
    BY <1>1, <1>2 DEF Linked
  <2> QED BY <1>1, <2>1 DEF Stands
<1>4. ListGood(L)'
  BY <1>1, <1>2, <1>3 DEF Good, ListGood, Allocated
<1>5. LifeGood' /\ CellsGood'
  BY <1>1, LifeSame DEF Good
<1>6. UdpGood'
  BY <1>1, UdpSame DEF Good
<1> QED BY <1>1, <1>4, <1>5, <1>6, NotBroken DEF Good

(* It passes a cell that stays. *)
LEMMA PassKeeps ==
    ASSUME NEW L, Good(L), Pass PROVE Good(L)'
<1>1. /\ broken = "no" /\ wpc = "walk" /\ it # NULL /\ ~ Deleting(it)
      /\ prev' = it /\ it' = heap[it].next
      /\ UNCHANGED <<heap, first, life, wpc, walk, broken, stood>>
  BY DEF Pass, list
<1> DEFINE n == Len(L)
<1>2. /\ n \in Nat /\ NULL \notin Cell /\ \A i \in 1 .. n : L[i] \in Cell /\ heap[L[i]].next \in Cell \union {NULL}
      /\ \A i \in 1 .. n : heap[L[i]].next = IF i < n THEN L[i + 1] ELSE NULL
  BY HeapIs, CellFacts DEF Good, ListGood, Linked
<1>3. PICK k \in 1 .. n + 1 : Stands(L, k)
  BY <1>1, StandsIs
<1> HIDE DEF n
<1>4. k \in 1 .. n /\ it = L[k] /\ k + 1 \in 1 .. n + 1
  BY <1>1, <1>2, <1>3 DEF Stands, n
<1>5. Stands(L, k + 1)'
  <2>1. it' = IF k + 1 <= n THEN L[k + 1] ELSE NULL
    BY <1>1, <1>2, <1>4
  <2>2. prev' = L[(k + 1) - 1]
    BY <1>1, <1>2, <1>4
  <2>3. \A i \in 1 .. (k + 1) - 1 : ~ Deleting(L[i])
    <3> SUFFICES ASSUME NEW i \in 1 .. (k + 1) - 1 PROVE ~ Deleting(L[i])
      OBVIOUS
    <3>1. i = k \/ i \in 1 .. k - 1
      BY <1>2, <1>4
    <3> QED BY <1>1, <1>3, <1>4, <3>1 DEF Stands
  <2>4. \A i \in 1 .. (k + 1) - 1 : ~ Deleting(L[i])'
    BY <1>1, <2>3 DEF Deleting, life
  <2> QED BY <1>1, <2>1, <2>2, <2>4 DEF Stands, n
<1>6. it' \in Cell \union {NULL} /\ prev' \in Cell \union {NULL}
  BY <1>1, <1>2, <1>4
<1>7. ListGood(L)'
  BY <1>1, <1>4, <1>5, <1>6 DEF Good, ListGood, Allocated, n
<1>8. LifeGood' /\ CellsGood'
  BY <1>1, LifeSame DEF Good
<1>9. UdpGood'
  BY <1>1, UdpSame DEF Good
<1> QED BY <1>1, <1>7, <1>8, <1>9, NotBroken DEF Good

(* A step that leaves what the cells say of modules, but for their next.   *)
LEMMA CellsStay ==
    ASSUME CellsGood, UNCHANGED life,
           \A d \in Cell : IF heap[d] = NULL THEN heap'[d] = NULL ELSE SameCell(heap, heap', d)
    PROVE  CellsGood'
<1> SUFFICES ASSUME NEW c \in Cell, heap'[c] # NULL PROVE CellGood(heap[c])'
  BY DEF CellsGood
<1>1. CellGood(heap[c]) /\ SameCell(heap, heap', c)
  BY DEF CellsGood
<1> QED BY <1>1 DEF CellGood, SameCell, life, StillTo

(* Unlink takes the k-th cell out of the list. *)
Cuts(L, k) ==
    /\ k \in 1 .. Len(L) /\ it = L[k] /\ Stands(L, k)
    /\ heap' \in [Cell -> LoMethod \union {NULL}] /\ Linked(heap', first', Without(L, k))
    /\ \A d \in Cell : IF heap[d] = NULL THEN heap'[d] = NULL ELSE SameCell(heap, heap', d)
    /\ heap'[it] = heap[it]

(* What taking a cell out of the list does. *)
LEMMA UnlinkIs ==
    ASSUME NEW L, Good(L), Unlink PROVE \E k \in 1 .. Len(L) : Cuts(L, k)
<1>1. /\ broken = "no" /\ wpc = "walk" /\ it # NULL /\ Deleting(it) /\ wpc' = "free"
      /\ UNCHANGED <<life, it, prev, walk, broken, stood>>
  BY DEF Unlink
<1> DEFINE n == Len(L)
<1>2. /\ n \in Nat /\ NULL \notin Cell /\ Linked(heap, first, L)
      /\ heap \in [Cell -> LoMethod \union {NULL}]
      /\ \A i \in 1 .. n : L[i] \in Cell /\ heap[L[i]] # NULL /\ heap[L[i]].next \in Cell \union {NULL}
      /\ \A i \in 1 .. n : heap[L[i]].next = IF i < n THEN L[i + 1] ELSE NULL
      /\ \A i, j \in 1 .. n : L[i] = L[j] => i = j
  BY HeapIs, CellFacts DEF Good, ListGood, Linked
<1>3. PICK k \in 1 .. n + 1 : Stands(L, k)
  BY <1>1, StandsIs
<1> HIDE DEF n
<1>4. k \in 1 .. n /\ it = L[k] /\ it \in Cell /\ (k > 1 => prev = L[k - 1])
  BY <1>1, <1>2, <1>3 DEF Stands, n
<1>6. /\ heap' \in [Cell -> LoMethod \union {NULL}] /\ Linked(heap', first', Without(L, k))
      /\ \A d \in Cell : IF heap[d] = NULL THEN heap'[d] = NULL ELSE SameCell(heap, heap', d)
      /\ heap'[it] = heap[it]
  <2>1. it = first <=> k = 1
    <3>1. first = L[1] /\ 1 \in 1 .. n
      BY <1>2, <1>4 DEF Linked, n
    <3> QED BY <1>2, <1>4, <3>1
  <2>2. CASE k = 1
    <3>1. first' = heap[L[1]].next /\ heap' = heap
      BY <1>4, <2>1, <2>2 DEF Unlink
    <3>2. Linked(heap, heap[L[1]].next, Without(L, 1))
      <4>1. Len(L) > 0
        BY <1>2, <1>4 DEF n
      <4> QED BY <1>2, <4>1, UnlinkedFirst
    <3>3. \A d \in Cell : heap[d] # NULL => SameCell(heap, heap, d)
      BY DEF SameCell
    <3> QED BY <1>2, <2>2, <3>1, <3>2, <3>3
  <2>3. CASE k # 1
    <3>1. first' = first /\ heap' = [heap EXCEPT ![L[k - 1]].next = heap[L[k]].next] /\ k \in 2 .. n
      BY <1>2, <1>4, <2>1, <2>3 DEF Unlink
    <3>2. k \in 2 .. Len(L)
      BY <3>1 DEF n
    <3>3. Skips(heap, heap', L, k)
      <4>1. L[k - 1] \in Cell /\ DOMAIN heap = Cell
        BY <1>2, <1>4, <3>1
      <4> QED BY <3>1, <4>1 DEF Skips
    <3>4. heap \in [Cell -> LoMethod \union {NULL}] /\ Linked(heap, first, L)
      BY <1>2
    <3>5. /\ heap' \in [Cell -> LoMethod \union {NULL}] /\ Linked(heap', first, Without(L, k))
          /\ \A d \in Cell : IF heap[d] = NULL THEN heap'[d] = NULL ELSE SameCell(heap, heap', d)
          /\ heap'[L[k]] = heap[L[k]]
      BY <3>2, <3>3, <3>4, Unlinked
    <3> QED BY <1>4, <3>1, <3>5
  <2> QED BY <2>2, <2>3
<1> QED BY <1>3, <1>4, <1>6 DEF Cuts, n

(* It takes out the cell it is at: that one stays allocated, and its next  *)
(* still leads into the list.                                              *)
LEMMA UnlinkKeeps ==
    ASSUME NEW L, Good(L), Unlink, NEW k \in 1 .. Len(L), Cuts(L, k) PROVE Good(Without(L, k))'
<1> DEFINE n == Len(L)
           K == Without(L, k)
<1>1. /\ broken = "no" /\ wpc = "walk" /\ it # NULL /\ Deleting(it) /\ wpc' = "free"
      /\ UNCHANGED <<life, it, prev, walk, broken, stood>>
  BY DEF Unlink
<1>2. /\ n \in Nat /\ NULL \notin Cell /\ Linked(heap, first, L)
      /\ heap \in [Cell -> LoMethod \union {NULL}]
      /\ \A i \in 1 .. n : L[i] \in Cell /\ heap[L[i]] # NULL /\ heap[L[i]].next \in Cell \union {NULL}
      /\ \A i \in 1 .. n : heap[L[i]].next = IF i < n THEN L[i + 1] ELSE NULL
      /\ \A i, j \in 1 .. n : L[i] = L[j] => i = j
  BY HeapIs, CellFacts DEF Good, ListGood, Linked
<1>3. Stands(L, k)
  BY DEF Cuts
<1> HIDE DEF n
<1>4. k \in 1 .. n /\ it = L[k] /\ it \in Cell /\ (k > 1 => prev = L[k - 1])
  BY <1>2, <1>3 DEF Cuts, Stands, n
<1>5. /\ K \in Seq(Cell) /\ Len(K) = n - 1
      /\ \A i \in 1 .. n - 1 : K[i] = IF i < k THEN L[i] ELSE L[i + 1]
      /\ \A i \in 1 .. n - 1 : K[i] # it
      /\ \A i \in 1 .. n : i # k => L[i] \in Elems(K)
  BY <1>2, <1>4, WithoutIs DEF n
<1>6. /\ heap' \in [Cell -> LoMethod \union {NULL}] /\ Linked(heap', first', K)
      /\ \A d \in Cell : IF heap[d] = NULL THEN heap'[d] = NULL ELSE SameCell(heap, heap', d)
      /\ heap'[it] = heap[it]
  BY DEF Cuts
<1> HIDE DEF K
<1>7. heap[it] # NULL /\ SameCell(heap, heap', it)
  BY <1>2, <1>4, <1>6
<1>8. \A d \in Cell : heap[d] # NULL => (Deleting(d)' <=> Deleting(d))
  BY <1>1, <1>6 DEF Deleting, SameCell, life
<1>9. Stands(K, k)'
  <2>1. heap'[it].next = IF k <= n - 1 THEN K[k] ELSE NULL
    <3>1. heap'[it].next = IF k < n THEN L[k + 1] ELSE NULL
      BY <1>2, <1>4, <1>6
    <3>2. k < n => k \in 1 .. n - 1 /\ K[k] = L[k + 1]
      BY <1>2, <1>4, <1>5
    <3> QED BY <1>2, <1>4, <3>1, <3>2
  <2>2. k > 1 => prev = K[k - 1]
    <3> SUFFICES ASSUME k > 1 PROVE prev = K[k - 1]
      OBVIOUS
    <3>1. k - 1 \in 1 .. n - 1
      BY <1>2, <1>4
    <3> QED BY <1>2, <1>4, <1>5, <3>1
  <2>3. ASSUME NEW i \in 1 .. k - 1 PROVE ~ Deleting(K[i])'
    <3>1. i \in 1 .. n - 1 /\ i \in 1 .. n /\ i < k
      BY <1>2, <1>4
    <3>2. K[i] = L[i] /\ ~ Deleting(L[i]) /\ L[i] \in Cell /\ heap[L[i]] # NULL
      BY <1>2, <1>3, <1>5, <3>1 DEF Stands
    <3> QED BY <1>8, <3>2 DEF Deleting
  <2> QED BY <1>1, <1>5, <2>1, <2>2, <2>3 DEF Stands
<1>10. Allocated(K)'
  <2> SUFFICES ASSUME NEW c \in Cell, heap'[c] # NULL, c # it PROVE c \in Elems(K)
    BY <1>1 DEF Allocated
  <2>1. c \in Elems(L)
    BY <1>1, <1>6 DEF Good, ListGood, Allocated
  <2>2. PICK i \in 1 .. n : c = L[i]
    BY <2>1 DEF Elems, n
  <2> QED BY <1>4, <1>5, <2>2
<1>11. ListGood(K)'
  <2>1. it \notin Elems(K)
    BY <1>5 DEF Elems
  <2>2. k \in 1 .. Len(K) + 1
    BY <1>2, <1>4, <1>5
  <2>3. Deleting(it)' /\ heap'[it] # NULL
    BY <1>1, <1>4, <1>7, <1>8 DEF SameCell
  <2>4. it' \in Cell /\ prev' \in Cell \union {NULL}
    BY <1>1, <1>4 DEF Good, ListGood
  <2> QED BY <1>1, <1>6, <1>9, <1>10, <2>1, <2>2, <2>3, <2>4 DEF ListGood
<1>12. LifeGood'
  BY <1>1, LifeSame DEF Good
<1>13. CellsGood'
  BY <1>1, <1>6, CellsStay DEF Good
<1>14. UdpGood'
  <2>1. UdpGood /\ stood' = stood /\ stood \in BOOLEAN
    BY <1>1 DEF Good, UdpGood
  <2>2. upc # "idle" /\ ~ stood' /\ at # NULL => SameCell(heap, heap', at)
    BY <1>6, <2>1 DEF UdpGood
  <2> QED BY <1>1, <2>1, <2>2, UdpKeeps
<1> QED BY <1>1, <1>11, <1>12, <1>13, <1>14, NotBroken DEF Good, K

(* It frees that cell and goes on in the list. *)
LEMMA FreeMethodKeeps ==
    ASSUME NEW L, Good(L), FreeMethod PROVE Good(L)'
<1>1. /\ broken = "no" /\ wpc = "free"
      /\ heap' = [heap EXCEPT ![it] = NULL] /\ it' = heap[it].next /\ wpc' = "walk"
      /\ stood' = (stood \/ (upc # "idle" /\ at = it))
      /\ UNCHANGED <<first, life, prev, walk, broken>>
  BY DEF FreeMethod
<1>2. /\ heap \in [Cell -> LoMethod \union {NULL}] /\ Linked(heap, first, L)
      /\ it \in Cell /\ heap[it] # NULL /\ it \notin Elems(L)
      /\ heap[it].next \in Cell \union {NULL} /\ prev \in Cell \union {NULL}
  BY <1>1, HeapIs DEF Good, ListGood
<1>3. /\ heap' \in [Cell -> LoMethod \union {NULL}] /\ Linked(heap', first, L)
      /\ heap'[it] = NULL /\ \A d \in Cell \ {it} : heap'[d] = heap[d]
  BY <1>1, <1>2, Freed
<1>4. PICK k \in 1 .. Len(L) + 1 : Stands(L, k)
  BY <1>1, StandsIs
<1>5. Stands(L, k)'
  <2>1. it' = IF k <= Len(L) THEN L[k] ELSE NULL
    BY <1>1, <1>4 DEF Stands
  <2>2. k > 1 => prev' = L[k - 1]
    BY <1>1, <1>4 DEF Stands
  <2>3. ASSUME NEW i \in 1 .. k - 1 PROVE ~ Deleting(L[i])'
    <3>1. i \in 1 .. Len(L)
      BY HeapIs DEF Good
    <3>2. L[i] \in Cell \ {it} /\ ~ Deleting(L[i])
      BY <1>2, <1>4, <3>1 DEF Elems, Linked, Stands
    <3> QED BY <1>1, <1>3, <3>2 DEF Deleting, life
  <2> QED BY <1>1, <2>1, <2>2, <2>3 DEF Stands
<1>6. Allocated(L)'
  <2> SUFFICES ASSUME NEW c \in Cell, heap'[c] # NULL PROVE c \in Elems(L)
    BY DEF Allocated
  <2>1. c # it /\ heap[c] # NULL
    BY <1>3
  <2> QED BY <1>1, <2>1 DEF Good, ListGood, Allocated
<1>7. ListGood(L)'
  BY <1>1, <1>2, <1>3, <1>5, <1>6 DEF ListGood
<1>8. LifeGood'
  BY <1>1, LifeSame DEF Good
<1>9. CellsGood'
  <2> SUFFICES ASSUME NEW c \in Cell, heap'[c] # NULL PROVE CellGood(heap[c])'
    BY DEF CellsGood
  <2>1. heap'[c] = heap[c] /\ CellGood(heap[c])
    BY <1>3 DEF Good, CellsGood
  <2> QED BY <1>1, <2>1 DEF CellGood, life, StillTo
<1>10. UdpGood'
  <2>1. UdpGood /\ stood \in BOOLEAN /\ stood' \in BOOLEAN /\ (stood => stood')
    BY <1>1 DEF Good, UdpGood
  <2>2. upc # "idle" /\ ~ stood' /\ at # NULL => SameCell(heap, heap', at)
    <3> SUFFICES ASSUME upc # "idle", ~ stood', at # NULL PROVE SameCell(heap, heap', at)
      OBVIOUS
    <3>1. ~ stood /\ at # it /\ at \in Cell
      BY <1>1, <2>1 DEF UdpGood
    <3>2. heap[at] # NULL
      BY <2>1, <3>1 DEF UdpGood
    <3> QED BY <1>3, <3>1, <3>2 DEF SameCell
  <2> QED BY <1>1, <2>1, <2>2, UdpKeeps
<1> QED BY <1>1, <1>7, <1>8, <1>9, <1>10, NotBroken DEF Good

(* It ends at the end of the list: none of its cells has the path and the  *)
(* types that were deleted.                                                *)
LEMMA EndDeleteKeeps ==
    ASSUME NEW L, Good(L), EndDelete PROVE Good(L)'
<1>1. /\ broken = "no" /\ wpc = "walk" /\ it = NULL /\ wpc' = "next" /\ prev' = NULL /\ Done
      /\ UNCHANGED <<heap, first, made, stage, it, walk, broken, stood>>
  BY DEF EndDelete, list
<1> DEFINE n == Len(L)
<1>2. /\ n \in Nat /\ NULL \notin Cell /\ \A i \in 1 .. n : L[i] \in Cell
      /\ LifeGood /\ todo # <<>> /\ todo[1][1] = "delete"
  BY <1>1, HeapIs, CellFacts DEF Good, LifeGood
<1>3. PICK k \in 1 .. n + 1 : Stands(L, k)
  BY <1>1, StandsIs
<1> HIDE DEF n
<1>4. k = n + 1
  BY <1>1, <1>2, <1>3 DEF Stands, n
<1>5. \A i \in 1 .. n : ~ Deleting(L[i])
  BY <1>2, <1>3, <1>4 DEF Stands
<1>6. Len(todo) > 1 /\ stage[who] = "dying" /\ who \in Module
  <2>2. ASSUME NEW t, todo[1] = <<"add", t>> PROVE FALSE
    BY <1>2, <2>2, Pair
  <2>3. todo[1] # <<"init">> /\ todo[1] # <<"free">>
    BY <1>2, Single
  <2> QED BY <1>2, <2>2, <2>3, TodoIs
<1>7. LifeGood' /\ who' = who /\ \A s : s # todo[1] /\ StillTo(s) => StillTo(s)'
  BY <1>1, <1>2, <1>6, OneDone
<1>8. ListGood(L)'
  BY <1>1, CellFacts DEF Good, ListGood, Allocated
<1>9. CellsGood'
  <2> SUFFICES ASSUME NEW c \in Cell, heap[c] # NULL PROVE CellGood(heap[c])'
    BY <1>1 DEF CellsGood
  <2> DEFINE t == heap[c].types
  <2>1. CellGood(heap[c]) /\ c \in Elems(L)
    BY <1>1 DEF Good, CellsGood, ListGood, Allocated
  <2>2. ~ Deleting(c)
    BY <1>5, <2>1 DEF Elems, n
  <2>3. CASE heap[c].path = who /\ StillTo(<<"delete", t>>)
    <3>1. <<"delete", t>> # todo[1]
      <4> SUFFICES ASSUME <<"delete", t>> = todo[1] PROVE FALSE
        OBVIOUS
      <4>1. todo[1][2] = t
        BY Pair, Zenon
      <4> QED BY <2>2, <2>3, <4>1 DEF Deleting
    <3>2. StillTo(<<"delete", t>>)'
      <4>1. t' = t
        BY <1>1
      <4>2. \E i \in 1 .. Len(todo') : todo'[i] = <<"delete", t>>
        BY <1>7, <2>3, <3>1 DEF StillTo
      <4> QED BY <4>1, <4>2 DEF StillTo
    <3> QED BY <1>1, <2>1, <3>2 DEF CellGood
  <2>4. CASE heap[c].path # who /\ heap[c].path \in Module
    <3>1. stage[heap[c].path] # "dying"
      BY <1>2, <2>4 DEF LifeGood
    <3> QED BY <1>1, <2>1, <3>1 DEF CellGood
  <2>5. CASE heap[c].path \notin Module
    BY <1>1, <2>1, <2>5 DEF CellGood
  <2>6. CASE heap[c].path = who /\ ~ StillTo(<<"delete", t>>)
    BY <1>1, <1>6, <2>1, <2>6 DEF CellGood
  <2> QED BY <1>6, <2>3, <2>4, <2>5, <2>6
<1>10. UdpGood'
  BY <1>1, UdpSame DEF Good
<1> QED BY <1>1, <1>7, <1>8, <1>9, <1>10, NotBroken DEF Good

-----------------------------------------------------------------------------
(* dispatch_method *)

(* A step of dispatch_method leaves the list and the modules alone. *)
LEMMA WalkSame ==
    ASSUME NEW L, Good(L), UNCHANGED <<list, life, delete>>
    PROVE  ListGood(L)' /\ LifeGood' /\ CellsGood'
<1>1. UNCHANGED <<heap, first, life, wpc, it, prev>>
  BY DEF list, delete
<1>2. LifeGood' /\ CellsGood'
  <2>1. LifeGood /\ CellsGood /\ (wpc' # "next" => wpc # "next")
    BY <1>1 DEF Good
  <2> QED BY <1>1, <2>1, LifeSame
<1>3. ASSUME NEW k, Stands(L, k) PROVE Stands(L, k)'
  BY <1>1, <1>3 DEF Stands, Deleting, life
<1>4. wpc # "next" => \E k \in 1 .. Len(L) + 1 : Stands(L, k)'
  BY <1>3 DEF Good, ListGood
<1>5. ListGood(L)'
  BY <1>1, <1>4 DEF Good, ListGood, Allocated, Deleting, life
<1> QED BY <1>2, <1>5

(* What is sent. *)
LEMMA MessageIs ==
    ASSUME NEW m \in Message
    PROVE  m \in [path : Path, types : Types]
BY DEF Message, Types, Path, Module

(* What the cells say, for the messages they match. *)
LEMMA CellIs ==
    ASSUME NEW L, Good(L), NEW c \in Cell, heap[c] # NULL
    PROVE  /\ CellGood(heap[c]) /\ Content(heap, c) \in Method
           /\ heap[c].owner \in Owner /\ heap[c].types \in Types /\ heap[c].path \in Path
           /\ heap[c].path \in Module => heap[c].owner[1] = heap[c].path
           /\ heap[c].next # NULL => heap[c].next \in Cell /\ heap[heap[c].next] # NULL
<1>1. CellGood(heap[c]) /\ heap[c].owner \in Owner /\ heap[c].types \in Types /\ heap[c].path \in Path
  BY HeapIs DEF Good, CellsGood
<1>2. Content(heap, c) \in Method
  BY <1>1 DEF Content, Method
<1>3. heap[c].next # NULL => heap[c].next \in Cell /\ heap[heap[c].next] # NULL
  <2> DEFINE n == Len(L)
  <2>1. /\ n \in Nat /\ \A i \in 1 .. n : L[i] \in Cell /\ heap[L[i]] # NULL
        /\ \A i \in 1 .. n : heap[L[i]].next = IF i < n THEN L[i + 1] ELSE NULL
    BY HeapIs DEF Good, ListGood, Linked
  <2>2. c \in Elems(L) \/ (wpc = "free" /\ c = it)
    BY DEF Good, ListGood, Allocated
  <2> HIDE DEF n
  <2>3. CASE c \in Elems(L)
    <3>1. PICK i \in 1 .. n : c = L[i]
      BY <2>3 DEF Elems, n
    <3>2. i < n => i + 1 \in 1 .. n
      BY <2>1
    <3> QED BY <2>1, <3>1, <3>2
  <2>4. CASE wpc = "free" /\ c = it
    <3>1. PICK k \in 1 .. n + 1 : Stands(L, k)
      BY <2>4, StandsIs DEF n
    <3>2. heap[c].next = IF k <= n THEN L[k] ELSE NULL
      BY <2>4, <3>1 DEF Stands, n
    <3>3. k <= n => k \in 1 .. n
      BY <2>1
    <3> QED BY <2>1, <3>2, <3>3
  <2> QED BY <2>2, <2>3, <2>4
<1> QED BY <1>1, <1>2, <1>3 DEF CellGood

(* The methods of the model are those of the cells of L. *)
LEMMA MethodsAre ==
    ASSUME NEW L, Good(L)
    PROVE  Len(Methods) = Len(L) /\ \A k \in 1 .. Len(L) : Methods[k] = Content(heap, L[k])
<1>1. heap \in [Cell -> LoMethod \union {NULL}] /\ Linked(heap, first, L) /\ Len(L) \in Nat
  BY HeapIs DEF Good, ListGood
<1>2. Methods = Rest(heap, L, 1)
  BY <1>1, FromIs DEF Methods
<1> DEFINE n == Len(L)
<1>3. n \in Nat
  BY <1>1
<1>4. Methods = [i \in 1 .. n - 1 + 1 |-> Content(heap, L[i + 1 - 1])]
  BY <1>2 DEF Rest
<1> HIDE DEF n
<1>5. n - 1 + 1 = n /\ \A i \in 1 .. n : i + 1 - 1 = i
  BY <1>3
<1>6. Methods = [i \in 1 .. n |-> Content(heap, L[i])]
  BY <1>4, <1>5
<1>7. \A k \in 1 .. n : Methods[k] = Content(heap, L[k])
  BY <1>6
<1>8. Len([i \in 1 .. n |-> Content(heap, L[i])]) = n
  BY <1>3
<1> QED BY <1>6, <1>7, <1>8 DEF n

(* A dispatch that ended. *)
LEMMA Returned == ASSUME Return PROVE UdpGood'
<1>1. /\ upc' = "idle" /\ at' = NULL /\ msg' = NULL /\ called' = <<>> /\ start' = {} /\ stood' = FALSE
  BY DEF Return
<1>2. <<>> \in Seq(Owner) /\ {} \subseteq Method
  OBVIOUS
<1>3. called' \in Seq(Owner) /\ start' \subseteq Method
  BY <1>1, <1>2
<1> QED BY <1>1, <1>3 DEF UdpGood

(* A message comes. *)
LEMMA ReceiveKeeps ==
    ASSUME NEW L, Good(L), NEW m \in Message, Receive(m) PROVE Good(L)'
<1>1. /\ broken = "no" /\ upc' = "test" /\ at' = first /\ msg' = m /\ called' = <<>> /\ stood' = FALSE
      /\ UNCHANGED <<list, life, delete, broken>>
  BY DEF Receive
<1>2. start' \subseteq Method
  <2>1. start' = {Methods[k] : k \in {j \in 1 .. Len(Methods) :
                       Methods[j].path = m.path /\ Methods[j].types = m.types}}
    BY DEF Receive
  <2>2. \A k \in 1 .. Len(Methods) : Methods[k] \in Method
    <3> SUFFICES ASSUME NEW k \in 1 .. Len(Methods) PROVE Methods[k] \in Method
      OBVIOUS
    <3>1. k \in 1 .. Len(L) /\ Methods[k] = Content(heap, L[k])
      BY MethodsAre
    <3>2. L[k] \in Cell /\ heap[L[k]] # NULL
      BY <3>1, HeapIs DEF Good
    <3> QED BY <3>1, <3>2, CellIs
  <2> QED BY <2>1, <2>2
<1>3. first \in Cell \union {NULL} /\ (first # NULL => heap[first] # NULL)
  <2>1. Len(L) > 0 => 1 \in 1 .. Len(L)
    BY HeapIs DEF Good
  <2> QED BY <2>1, HeapIs DEF Good, ListGood, Linked
<1>4. m \in [path : Path, types : Types] /\ <<>> \in Seq(Owner) /\ Len(<<>>) = 0
  BY MessageIs
<1>5. called' \in Seq(Owner) /\ \A i \in 1 .. Len(called') : called'[i][1] = msg'.path
  BY <1>1, <1>4
<1>6. UdpGood'
  BY <1>1, <1>2, <1>3, <1>4, <1>5 DEF UdpGood, list
<1> QED BY <1>1, <1>6, WalkSame, NotBroken DEF Good

(* A cell is compared with it; the handler of one that matches belongs to  *)
(* the module the message names.                                           *)
LEMMA TestKeeps ==
    ASSUME NEW L, Good(L), Test PROVE Good(L)'
<1>1. /\ broken = "no" /\ upc = "test" /\ at # NULL /\ heap[at] # NULL
      /\ UNCHANGED <<list, life, delete, at, msg, start, stood>>
  BY DEF Test, At, Alive
<1>2. UdpGood /\ at \in Cell /\ called \in Seq(Owner) /\ msg \in Message
  BY <1>1 DEF Good, UdpGood
<1> DEFINE o == heap[at].owner
<1>3. o \in Owner /\ (heap[at].path \in Module => o[1] = heap[at].path)
  BY <1>1, <1>2, CellIs
<1>4. CASE ~ Matches
  <2>1. upc' = "next" /\ UNCHANGED <<called, broken>>
    BY <1>4 DEF Test
  <2>2. UdpGood'
    BY <1>1, <1>2, <2>1 DEF UdpGood, list
  <2> QED BY <1>1, <2>1, <2>2, WalkSame, NotBroken DEF Good
<1>5. CASE Matches
  <2>1. /\ upc' = "handler" /\ called' = Append(called, o)
        /\ broken' = IF msg.path \in DAC /\ NoBuffers(o) THEN "buffers" ELSE "no"
    BY <1>5 DEF Test
  <2> HIDE DEF o
  <2>2. /\ called' \in Seq(Owner) /\ Len(called') = Len(called) + 1 /\ Len(called) \in Nat
        /\ called'[Len(called) + 1] = o /\ \A i \in 1 .. Len(called) : called'[i] = called[i]
    BY <1>2, <1>3, <2>1
  <2>3. heap[at].path = msg.path /\ heap[at].types = msg.types
    BY <1>5 DEF Matches
  <2>4. msg.path \in Module => \A i \in 1 .. Len(called') : called'[i][1] = msg.path
    <3> SUFFICES ASSUME msg.path \in Module, NEW i \in 1 .. Len(called') PROVE called'[i][1] = msg.path
      OBVIOUS
    <3>1. i = Len(called) + 1 \/ i \in 1 .. Len(called)
      BY <2>2
    <3> QED BY <1>1, <1>2, <1>3, <2>2, <2>3, <3>1 DEF UdpGood
  <2>5. Len(called') > 0 /\ called'[Len(called')] = o
    BY <2>2
  <2>6. UdpGood'
    BY <1>1, <1>2, <2>1, <2>2, <2>3, <2>4, <2>5 DEF UdpGood, list, Matches, o
  <2>7. BrokenGood'
    <3>1. msg.path \in DAC /\ NoBuffers(o) => stage[msg.path] # "alive"
      BY <1>3, <2>3 DEF NoBuffers, Module
    <3> QED BY <1>1, <2>1, <3>1 DEF BrokenGood, BrokenExplained, life
  <2> QED BY <1>1, <2>6, <2>7, WalkSame DEF Good
<1> QED BY <1>4, <1>5

(* The handler runs: its module is gone only for a method that was freed   *)
(* under the walk or that the destructor forgets.                          *)
LEMMA HandlerKeeps ==
    ASSUME NEW L, Good(L), Handler PROVE Good(L)'
<1> DEFINE o == called[Len(called)]
<1>1. /\ broken = "no" /\ upc = "handler"
      /\ broken' = IF msg.path \notin Module THEN "no"
                   ELSE IF Gone(o) THEN "object" ELSE IF NoBuffers(o) THEN "buffers" ELSE "no"
      /\ UNCHANGED <<list, life, delete>>
  BY DEF Handler, At
<1>2. (broken' = "no" /\ Return) \/ (upc' = "next" /\ UNCHANGED <<at, msg, called, start, stood>>)
  BY DEF Handler
<1>3. /\ UdpGood /\ called \in Seq(Owner) /\ Len(called) > 0 /\ Len(called) \in Nat
      /\ ~ stood => at # NULL /\ Matches /\ o = heap[at].owner /\ heap[at] # NULL /\ at \in Cell
      /\ msg.path \in Module => o[1] = msg.path
  BY <1>1 DEF Good, UdpGood
<1> HIDE DEF o
<1>4. UdpGood'
  <2>1. CASE Return
    BY <2>1, Returned
  <2>2. CASE upc' = "next" /\ UNCHANGED <<at, msg, called, start, stood>>
    BY <1>1, <1>3, <2>2 DEF UdpGood, list
  <2> QED BY <1>2, <2>1, <2>2
<1>5. BrokenGood'
  <2>1. CASE broken' = "no"
    BY <2>1 DEF BrokenGood, BrokenExplained
  <2>2. CASE broken' = "object"
    <3>1. msg.path \in Module /\ Gone(o) /\ msg' = msg /\ stood' = stood
      BY <1>1, <1>2, <2>2
    <3>2. ASSUME ~ stood, msg.types \notin Forgotten PROVE FALSE
      <4>1. CellGood(heap[at]) /\ heap[at].path = msg.path /\ heap[at].types = msg.types /\ o = heap[at].owner
        BY <1>3, <3>2, CellIs DEF Matches
      <4>2. o[1] = msg.path /\ o[2] = made[msg.path] /\ stage[msg.path] # "none"
        BY <3>1, <3>2, <4>1 DEF CellGood
      <4> QED BY <3>1, <4>2 DEF Gone
    <3> QED BY <2>2, <3>1, <3>2 DEF BrokenGood, BrokenExplained
  <2>3. CASE broken' = "buffers"
    <3>1. msg.path \in Module /\ NoBuffers(o) /\ msg' = msg /\ stage' = stage
      BY <1>1, <1>2, <2>3 DEF life
    <3>2. stage[msg.path] # "alive"
      BY <1>3, <3>1 DEF NoBuffers
    <3> QED BY <2>3, <3>1, <3>2 DEF BrokenGood, BrokenExplained
  <2> QED BY <1>1, <2>1, <2>2, <2>3
<1> QED BY <1>1, <1>4, <1>5, WalkSame DEF Good

(* The walk advances: what a cell leads to is never freed before the cell. *)
LEMMA AdvanceKeeps ==
    ASSUME NEW L, Good(L), Advance PROVE Good(L)'
<1>1. /\ broken = "no" /\ upc = "next" /\ at # NULL /\ heap[at] # NULL
      /\ at' = heap[at].next /\ upc' = "test"
      /\ UNCHANGED <<list, life, delete, msg, called, start, broken, stood>>
  BY DEF Advance, At, Alive
<1>2. UdpGood /\ at \in Cell
  BY <1>1 DEF Good, UdpGood
<1>3. at' \in Cell \union {NULL} /\ (at' # NULL => heap[at'] # NULL)
  BY <1>1, <1>2, CellIs
<1>4. UdpGood'
  BY <1>1, <1>2, <1>3 DEF UdpGood, list
<1> QED BY <1>1, <1>4, WalkSame, NotBroken DEF Good

(* The walk reads a cell that was freed. *)
LEMMA ReadFreedKeeps ==
    ASSUME NEW L, Good(L), ReadFreed PROVE Good(L)'
<1>1. /\ upc \in {"test", "next"} /\ at # NULL /\ heap[at] = NULL /\ broken' = "list"
      /\ UNCHANGED <<list, life, delete, walk, stood>>
  BY DEF ReadFreed
<1>2. UdpGood /\ stood
  BY <1>1 DEF Good, UdpGood
<1>3. UdpGood'
  BY <1>1, <1>2, UdpSame DEF list
<1>4. BrokenGood'
  BY <1>1, <1>2 DEF BrokenGood, BrokenExplained
<1> QED BY <1>1, <1>3, <1>4, WalkSame DEF Good

(* The end of the list. *)
LEMMA EndDispatchKeeps ==
    ASSUME NEW L, Good(L), EndDispatch PROVE Good(L)'
<1>1. broken = "no" /\ Return /\ UNCHANGED <<list, life, delete, broken>>
  BY DEF EndDispatch, At
<1>2. UdpGood'
  BY <1>1, Returned
<1> QED BY <1>1, <1>2, WalkSame, NotBroken DEF Good

-----------------------------------------------------------------------------

(* The module managers' methods are the first cells. *)
LEMMA InitGood == ASSUME Init PROVE \E L : Good(L)
<1> DEFINE n == Len(Managers)
           L == [i \in 1 .. n |-> i]
<1>1. n \in Nat /\ n > 0 /\ n <= Cells /\ Cells \in Nat /\ NULL \notin Cell /\ NULL \notin LoMethod
      /\ \A i \in 1 .. n : i \in Cell /\ Managers[i] \in Owner
  <2>1. n \in Nat /\ n > 0 /\ n <= Cells
    BY ServiceAssumption
  <2>2. \A i \in 1 .. n : Managers[i] \in Owner
    <3> HIDE DEF n
    <3> SUFFICES ASSUME NEW i \in 1 .. n PROVE Managers[i] \in Owner
      OBVIOUS
    <3> DEFINE A == UNION {{m} \X (1 .. MaxMade[m]) : m \in Module}
               B == {Managers[k] : k \in 1 .. Len(Managers)}
    <3>1. Managers[i] \in B
      BY DEF n
    <3>2. Owner = A \union B
      <4> HIDE DEF n
      <4> QED BY Zenon DEF Owner
    <3> HIDE DEF A, B
    <3> QED BY <3>1, <3>2
  <2> HIDE DEF n
  <2>3. \A i \in 1 .. n : i \in Cell
    BY <2>1, CellFacts DEF Cell
  <2> QED BY <2>1, <2>2, <2>3, CellFacts
<1>2. /\ first = 1
      /\ heap = [c \in Cell |-> IF c <= n THEN RequestML(c) ELSE NULL]
      /\ made = [m \in Module |-> 0] /\ stage = [m \in Module |-> "none"]
      /\ todo = <<>> /\ who = NULL /\ wpc = "next" /\ it = NULL /\ prev = NULL
      /\ upc = "idle" /\ at = NULL /\ msg = NULL /\ called = <<>>
      /\ broken = "no" /\ start = {} /\ stood = FALSE
  BY DEF Init
<1> HIDE DEF n
<1>3. L \in Seq(Cell) /\ Len(L) = n /\ \A i \in 1 .. n : L[i] = i
  BY <1>1
<1> HIDE DEF L
<1>4. ASSUME NEW c \in 1 .. n
      PROVE  /\ RequestML(c) \in LoMethod /\ RequestML(c).next = IF c < n THEN c + 1 ELSE NULL
             /\ RequestML(c).path = "/ModuleManager" /\ RequestML(c).types = "RequestML_i"
  <2> DEFINE x == IF c = n THEN NULL ELSE c + 1
             o == Managers[c]
  <2>1. RequestML(c) = [path |-> "/ModuleManager", types |-> "RequestML_i", owner |-> o, next |-> x]
    BY DEF RequestML, n
  <2>2. x \in Cell \union {NULL} /\ o \in Owner /\ x = IF c < n THEN c + 1 ELSE NULL
    <3>1. c # n => c + 1 \in 1 .. n /\ c < n
      BY <1>1
    <3> QED BY <1>1, <3>1
  <2>3. "/ModuleManager" \in Path /\ "RequestML_i" \in Types
    BY DEF Path, Types
  <2> HIDE DEF x, o
  <2> QED BY <2>1, <2>2, <2>3 DEF LoMethod
<1>5. /\ heap \in [Cell -> LoMethod \union {NULL}]
      /\ \A c \in Cell : c \in Nat /\ heap[c] = IF c <= n THEN RequestML(c) ELSE NULL
      /\ \A c \in Cell : c <= n => c \in 1 .. n
  <2>1. \A c \in Cell : c \in Nat /\ (c <= n => c \in 1 .. n)
    BY <1>1 DEF Cell
  <2> QED BY <1>2, <1>4, <2>1
<1>6. ListGood(L)
  <2>1. \A i \in 1 .. n : heap[L[i]] # NULL /\ heap[L[i]].next = IF i < n THEN L[i + 1] ELSE NULL
    <3> SUFFICES ASSUME NEW i \in 1 .. n
                 PROVE  heap[L[i]] # NULL /\ heap[L[i]].next = IF i < n THEN L[i + 1] ELSE NULL
      OBVIOUS
    <3>1. L[i] = i /\ heap[i] = RequestML(i) /\ (i < n => L[i + 1] = i + 1)
      <4>1. i < n => i + 1 \in 1 .. n
        BY <1>1
      <4> QED BY <1>1, <1>3, <1>5, <4>1
    <3> QED BY <1>1, <1>4, <3>1
  <2>2. Linked(heap, first, L)
    <3>1. 1 \in 1 .. n
      BY <1>1
    <3> QED BY <1>1, <1>2, <1>3, <2>1, <3>1 DEF Linked
  <2>3. Allocated(L)
    BY <1>3, <1>5 DEF Allocated, Elems
  <2> QED BY <1>2, <1>5, <2>2, <2>3 DEF ListGood
<1>7. LifeGood
  <2>1. \A m \in Module : MaxMade[m] \in Nat
    BY ServiceAssumption DEF Module
  <2> QED BY <1>2, <2>1, CellFacts DEF LifeGood
<1>8. CellsGood
  <2> SUFFICES ASSUME NEW c \in Cell, heap[c] # NULL PROVE CellGood(heap[c])
    BY DEF CellsGood
  <2>1. heap[c].path = "/ModuleManager" /\ heap[c].types = "RequestML_i"
    BY <1>4, <1>5
  <2> QED BY <2>1, ServiceAssumption DEF CellGood, Module
<1>9. UdpGood
  <2>1. <<>> \in Seq(Owner) /\ {} \subseteq Method
    OBVIOUS
  <2>2. called \in Seq(Owner) /\ start \subseteq Method
    BY <1>2, <2>1
  <2> QED BY <1>2, <2>2 DEF UdpGood
<1>10. BrokenGood
  BY <1>2 DEF BrokenGood, BrokenExplained
<1> QED BY <1>6, <1>7, <1>8, <1>9, <1>10 DEF Good

(* Every step keeps the invariant, for this list or the one it makes. *)
LEMMA StepGood == ASSUME NEW L, Good(L), [Next]_vars PROVE (\E K : Good(K))'
<1>1. CASE TCP
  <2>1. ASSUME NEW m \in Module, Create(m) \/ Remove(m) PROVE Good(L)'
    BY <2>1, CreateKeeps, RemoveKeeps
  <2>2. ASSUME addMethod PROVE \E K : Good(K)'
    BY <2>2, AddIs, AddKeeps
  <2>4. ASSUME Unlink PROVE \E K : Good(K)'
    BY <2>4, UnlinkIs, UnlinkKeeps
  <2>3. ASSUME InitService \/ FreeBuffers \/ FreeService \/ delMethod \/ Pass \/ FreeMethod \/ EndDelete
        PROVE  Good(L)'
    BY <2>3, InitKeeps, BuffersKeeps, FreeKeeps, DelKeeps, PassKeeps, FreeMethodKeeps, EndDeleteKeeps
  <2> QED BY <1>1, <2>1, <2>2, <2>3, <2>4 DEF TCP
<1>2. CASE UDP
  BY <1>2, ReceiveKeeps, TestKeeps, HandlerKeeps, AdvanceKeeps, ReadFreedKeeps, EndDispatchKeeps DEF UDP
<1>3. CASE UNCHANGED vars
  <2>1. UNCHANGED <<list, life, delete, walk, broken, stood>>
    BY <1>3 DEF vars
  <2>2. UdpGood'
    BY <2>1, UdpSame DEF Good, list
  <2>3. BrokenGood'
    BY <2>1 DEF Good, BrokenGood, BrokenExplained, walk, life
  <2> QED BY <2>1, <2>2, <2>3, WalkSame DEF Good
<1> QED BY <1>1, <1>2, <1>3 DEF Next

(* The invariant implies the properties. *)
LEMMA GoodMethods == ASSUME NEW L, Good(L) PROVE MethodsInv /\ BrokenExplained
<1>1. TypeOK
  <2>1. \A c \in Cell : heap[c] = NULL \/
          /\ Content(heap, c) \in Method
          /\ heap[c].next \in Cell \union {NULL}
          /\ heap[c].next # NULL => heap[heap[c].next] # NULL
    BY CellIs
  <2>2. first \in Cell \union {NULL}
    <3>1. Len(L) > 0 => 1 \in 1 .. Len(L)
      BY HeapIs DEF Good
    <3> QED BY <3>1, HeapIs DEF Good, ListGood, Linked
  <2> QED BY <2>1, <2>2 DEF TypeOK, Content, Good, ListGood, LifeGood, UdpGood, BrokenGood
<1>2. OnlyForgottenStay
  <2> SUFFICES ASSUME NEW k \in 1 .. Len(Methods)
               PROVE  \/ Methods[k].types \in Forgotten \union {"RequestML_i"}
                      \/ made[Methods[k].path] = Methods[k].owner[2] /\ stage[Methods[k].path] # "none"
    BY DEF OnlyForgottenStay
  <2>1. k \in 1 .. Len(L) /\ Methods[k] = Content(heap, L[k])
    BY MethodsAre
  <2>2. CellGood(heap[L[k]])
    BY <2>1, HeapIs, CellIs DEF Good
  <2>3. /\ Methods[k].types = heap[L[k]].types /\ Methods[k].path = heap[L[k]].path
        /\ Methods[k].owner = heap[L[k]].owner
    BY <2>1 DEF Content
  <2> QED BY <2>2, <2>3 DEF CellGood
<1> QED BY <1>1, <1>2 DEF MethodsInv, Good, BrokenGood

(* In every state the heap holds a list for which the invariant holds. *)
LEMMA Invariant == Spec => [](\E L : Good(L))
<1>1. (\E L : Good(L)) /\ [Next]_vars => (\E L : Good(L))'
  BY StepGood
<1> QED BY <1>1, InitGood, PTL DEF Spec

(* Whatever modules are made and destroyed in whatever order, no cell of   *)
(* lo_server's list leads to freed memory, and what a module leaves in it  *)
(* are the methods ~DAC forgets to delete.                                 *)
THEOREM LinkedList == Spec => []MethodsInv
<1>1. (\E L : Good(L)) => MethodsInv
  BY GoodMethods
<1> QED BY <1>1, Invariant, PTL

(* dispatch_method reads freed memory only if the cell it stands on was    *)
(* deleted under it; a handler works on a module that is gone only then or *)
(* for a method ~DAC forgets, and without buffers only while the DAC is    *)
(* made or destroyed.                                                      *)
THEOREM Explained == Spec => []BrokenExplained
<1>1. (\E L : Good(L)) => BrokenExplained
  BY GoodMethods
<1> QED BY <1>1, Invariant, PTL

-----------------------------------------------------------------------------
(* What a message reaches *)

(* No cell of a module that is being made has what is still to be added,   *)
(* nor has what a message found when it came.                              *)
New(m) == m.path \in Module =>
            /\ m.owner[2] \in 1 .. made[m.path]
            /\ stage[m.path] = "making" /\ m.owner[2] = made[m.path] => ~ StillTo(<<"add", m.types>>)
NewGood ==
    /\ \A c \in Cell : heap[c] # NULL => New(heap[c])
    /\ \A m \in start : New(m) /\ m.path = msg.path /\ m.types = msg.types

Reached(o) == \E j \in 1 .. Len(called) : called[j] = o

(* Where the walk goes on: it is at the p-th cell and tests it, or it has  *)
(* tested the one before, or it has what the deletion just took out.       *)
Ahead(L, p) ==
    \/ upc = "test" /\ at = NULL /\ p = Len(L) + 1
    \/ upc = "test" /\ p <= Len(L) /\ at = L[p]
    \/ upc # "test" /\ p > 1 /\ at = L[p - 1]
    \/ wpc = "free" /\ at = it /\ heap[it].next = IF p <= Len(L) THEN L[p] ELSE NULL

Before(L, p) == \A i \in 1 .. p - 1 : Content(heap, L[i]) \in start => Reached(heap[L[i]].owner)

WalkGood(L) == upc # "idle" /\ ~ stood => \E p \in 1 .. Len(L) + 1 : Ahead(L, p) /\ Before(L, p)

Full(L) == Good(L) /\ NewGood /\ WalkGood(L)

(* A statement that is done does not come again. *)
LEMMA DoneLess == ASSUME LifeGood, todo # <<>>, Done, NEW s, StillTo(s)' PROVE StillTo(s)
<1>1. /\ todo' = Tail(todo) /\ Len(todo) \in Nat /\ Len(Tail(todo)) = Len(todo) - 1
      /\ \A i \in 1 .. Len(todo) - 1 : Tail(todo)[i] = todo[i + 1]
  BY TailIs DEF LifeGood, Done
<1>2. PICK i \in 1 .. Len(todo) - 1 : todo[i + 1] = s
  BY <1>1 DEF StillTo
<1>3. i + 1 \in 1 .. Len(todo)
  BY <1>1
<1> QED BY <1>2, <1>3 DEF StillTo

(* A step that makes no module and adds no method. *)
LEMMA NewStays ==
    ASSUME NewGood, UNCHANGED made, \A n \in Module : stage'[n] = "making" => stage[n] = "making",
           \A t \in Types : StillTo(<<"add", t>>)' => StillTo(<<"add", t>>),
           \A c \in Cell : heap[c] # NULL => heap[c].types \in Types, start \subseteq Method,
           \A c \in Cell : heap'[c] # NULL => heap[c] # NULL /\ SameCell(heap, heap', c),
           start' = {} \/ UNCHANGED <<start, msg>>
    PROVE  NewGood'
<1>1. ASSUME NEW t \in Types, \E i \in 1 .. Len(todo') : todo'[i] = <<"add", t>> PROVE StillTo(<<"add", t>>)
  BY <1>1 DEF StillTo
<1>2. ASSUME NEW c \in Cell, heap'[c] # NULL PROVE New(heap[c])'
  <2>1. /\ heap[c] # NULL /\ New(heap[c]) /\ heap'[c].path = heap[c].path /\ heap'[c].types = heap[c].types
        /\ heap'[c].owner = heap[c].owner /\ heap[c].types \in Types
    BY <1>2 DEF NewGood, SameCell
  <2> DEFINE t == heap[c].types
  <2>2. (\E i \in 1 .. Len(todo') : todo'[i] = <<"add", t>>) => StillTo(<<"add", t>>)
    <3> HIDE DEF t
    <3>1. t \in Types
      BY <2>1 DEF t
    <3> QED BY <1>1, <3>1
  <2>3. StillTo(<<"add", heap[c].types>>)' => StillTo(<<"add", t>>)
    BY <2>1, <2>2 DEF StillTo
  <2> QED BY <2>1, <2>3 DEF New
<1>3. ASSUME NEW m \in start' PROVE New(m)' /\ m.path = msg'.path /\ m.types = msg'.types
  <2>1. m \in start /\ msg' = msg /\ New(m) /\ m.path = msg.path /\ m.types = msg.types /\ m.types \in Types
    BY <1>3 DEF NewGood, Method
  <2>2. StillTo(<<"add", m.types>>)' => StillTo(<<"add", m.types>>)
    BY <2>1
  <2> QED BY <2>1, <2>2 DEF New
<1> QED BY <1>2, <1>3 DEF NewGood

(* A step of the TCP thread that leaves the cells. *)
LEMMA WalkStays ==
    ASSUME NEW L, WalkGood(L), wpc # "free", UNCHANGED <<heap, walk, stood>>
    PROVE  WalkGood(L)'
<1> SUFFICES ASSUME upc # "idle", ~ stood PROVE \E p \in 1 .. Len(L) + 1 : (Ahead(L, p) /\ Before(L, p))'
  BY DEF WalkGood, walk
<1>1. PICK p \in 1 .. Len(L) + 1 : Ahead(L, p) /\ Before(L, p)
  BY DEF WalkGood
<1>2. Ahead(L, p)'
  BY <1>1 DEF Ahead, walk
<1>3. Before(L, p)'
  BY <1>1 DEF Before, Reached, Content, walk
<1> QED BY <1>2, <1>3

(* A constructor begins: nothing holds the new number of the module. *)
LEMMA CreateFull ==
    ASSUME NEW L, Full(L), NEW m \in Module, Create(m) PROVE Full(L)'
<1>1. /\ todo = <<>> /\ stage[m] = "none" /\ made[m] < MaxMade[m]
      /\ made' = [made EXCEPT ![m] = @ + 1] /\ stage' = [stage EXCEPT ![m] = "making"]
      /\ UNCHANGED <<heap, wpc, walk, stood>>
  BY DEF Create, list, delete
<1>2. who = NULL /\ wpc = "next" /\ m # NULL /\ \A n \in Module : stage[n] \notin {"making", "dying"}
  BY <1>1, CellFacts DEF Full, Good, LifeGood
<1>3. /\ made \in [Module -> Nat] /\ made'[m] = made[m] + 1
      /\ \A n \in Module \ {m} : made'[n] = made[n] /\ stage'[n] = stage[n]
  BY <1>1 DEF Full, Good, LifeGood
<1>4. ASSUME NEW x, New(x), x.path \in Module
      PROVE  x.owner[2] \in 1 .. made'[x.path] /\ ~ (stage'[x.path] = "making" /\ x.owner[2] = made'[x.path])
  <2>1. CASE x.path = m
    <3>1. made[m] \in Nat /\ x.owner[2] \in 1 .. made[m]
      BY <1>3, <1>4, <2>1 DEF New
    <3> QED BY <1>3, <2>1, <3>1
  <2>2. CASE x.path # m
    BY <1>2, <1>3, <1>4, <2>2 DEF New
  <2> QED BY <2>1, <2>2
<1>5. NewGood'
  <2>1. ASSUME NEW c \in Cell, heap[c] # NULL PROVE New(heap[c])'
    <3>1. New(heap[c])
      BY <2>1 DEF Full, NewGood
    <3>2. heap[c].path \in Module =>
             /\ heap[c].owner[2] \in 1 .. made'[heap[c].path]
             /\ ~ (stage'[heap[c].path] = "making" /\ heap[c].owner[2] = made'[heap[c].path])
      <4> DEFINE x == heap[c]
      <4>1. New(x)
        BY <3>1
      <4> HIDE DEF x
      <4>2. x.path \in Module =>
             /\ x.owner[2] \in 1 .. made'[x.path]
             /\ ~ (stage'[x.path] = "making" /\ x.owner[2] = made'[x.path])
        BY <1>4, <4>1
      <4> QED BY <4>2 DEF x
    <3> QED BY <1>1, <3>2 DEF New
  <2>2. ASSUME NEW x \in start PROVE New(x)' /\ x.path = msg.path /\ x.types = msg.types
    BY <1>4, <2>2 DEF Full, NewGood, New
  <2> QED BY <1>1, <2>1, <2>2 DEF NewGood, walk
<1>6. WalkGood(L)'
  BY <1>1, <1>2, WalkStays DEF Full
<1> QED BY <1>5, <1>6, CreateKeeps DEF Full

(* What the cells hold has types that are known. *)
LEMMA TypesKnown ==
    ASSUME NEW L, Good(L)
    PROVE  /\ \A c \in Cell : heap[c] # NULL => heap[c].types \in Types
           /\ start \subseteq Method /\ LifeGood
BY HeapIs DEF Good, UdpGood

(* A destructor begins: its module is not being made any more. *)
LEMMA RemoveFull ==
    ASSUME NEW L, Full(L), NEW m \in Module, Remove(m) PROVE Full(L)'
<1>1. /\ todo = <<>> /\ stage' = [stage EXCEPT ![m] = "dying"] /\ todo' = Ending(m) /\ who' = m
      /\ UNCHANGED <<made, heap, wpc, walk, stood>>
  BY DEF Remove, list, delete
<1>2. wpc = "next" /\ stage \in [Module -> {"none", "making", "alive", "dying"}]
      /\ \A n \in Module : stage[n] \notin {"making", "dying"}
  BY <1>1, CellFacts DEF Full, Good, LifeGood
<1>3. \A n \in Module : stage'[n] # "making"
  BY <1>1, <1>2
<1>4. NewGood'
  <2>1. \A c \in Cell : heap[c] # NULL => New(heap[c])'
    BY <1>1, <1>3 DEF Full, NewGood, New
  <2>2. \A x \in start : New(x)' /\ x.path = msg.path /\ x.types = msg.types
    BY <1>1, <1>3 DEF Full, NewGood, New
  <2> QED BY <1>1, <2>1, <2>2 DEF NewGood, walk
<1>5. WalkGood(L)'
  BY <1>1, <1>2, WalkStays DEF Full
<1> QED BY <1>4, <1>5, RemoveKeeps DEF Full

(* A statement that leaves the cells; the end of a deletion is one, too. *)
LEMMA DoneFull ==
    ASSUME NEW L, Full(L), InitService \/ FreeBuffers \/ FreeService \/ EndDelete PROVE Full(L)'
<1>1. /\ todo # <<>> /\ Done /\ wpc # "free" /\ UNCHANGED <<made, heap, walk, stood>>
      /\ stage' = stage \/ \E s \in {"alive", "none"} : stage' = [stage EXCEPT ![who] = s]
  <2>1. CASE InitService \/ FreeBuffers \/ FreeService
    BY <2>1 DEF InitService, FreeBuffers, FreeService, Statement1, list
  <2>2. CASE EndDelete
    BY <2>2 DEF EndDelete, list, Full, Good, LifeGood
  <2> QED BY <2>1, <2>2
<1>2. \A n \in Module : stage'[n] = "making" => stage[n] = "making"
  BY <1>1 DEF Full, Good, LifeGood
<1>3. \A t \in Types : StillTo(<<"add", t>>)' => StillTo(<<"add", t>>)
  BY <1>1, DoneLess, TypesKnown DEF Full
<1>4. \A c \in Cell : heap'[c] # NULL => heap[c] # NULL /\ SameCell(heap, heap', c)
  BY <1>1 DEF SameCell
<1>5. start' = {} \/ UNCHANGED <<start, msg>>
  BY <1>1 DEF walk
<1>6. NewGood'
  BY <1>1, <1>2, <1>3, <1>4, <1>5, NewStays, TypesKnown DEF Full
<1>7. WalkGood(L)'
  BY <1>1, WalkStays DEF Full
<1>8. Good(L)'
  BY InitKeeps, BuffersKeeps, FreeKeeps, EndDeleteKeeps DEF Full
<1> QED BY <1>6, <1>7, <1>8 DEF Full

(* A step that leaves the modules and what they still have to do. *)
LEMMA NewSame ==
    ASSUME NEW L, Full(L), UNCHANGED life,
           \A c \in Cell : heap'[c] # NULL => heap[c] # NULL /\ SameCell(heap, heap', c),
           start' = {} \/ UNCHANGED <<start, msg>>
    PROVE  NewGood'
<1>1. UNCHANGED <<made, stage, todo>>
  BY DEF life
<1>2. \A t \in Types : StillTo(<<"add", t>>)' => StillTo(<<"add", t>>)
  BY <1>1 DEF StillTo
<1>3. \A n \in Module : stage'[n] = "making" => stage[n] = "making"
  BY <1>1
<1> QED BY <1>1, <1>2, <1>3, NewStays, TypesKnown DEF Full

(* A deletion that takes out nothing. *)
LEMMA DeletingFull ==
    ASSUME NEW L, Full(L), delMethod \/ Pass PROVE Full(L)'
<1>1. UNCHANGED <<heap, life, walk, stood>> /\ wpc # "free"
  BY DEF delMethod, Pass, Statement1, list
<1>2. \A c \in Cell : heap'[c] # NULL => heap[c] # NULL /\ SameCell(heap, heap', c)
  BY <1>1 DEF SameCell
<1>3. NewGood'
  BY <1>1, <1>2, NewSame DEF walk
<1>4. WalkGood(L)'
  BY <1>1, WalkStays DEF Full
<1> QED BY <1>3, <1>4, DelKeeps, PassKeeps DEF Full

Distinct(s) == \A i, j \in 1 .. Len(s) : s[i] = s[j] => i = j

(* A statement that adds is another than one that adds what has other types *)
LEMMA Differ ==
    ASSUME NEW a, NEW b, NEW x, x = <<a, b>>
    PROVE  \A c : x # <<c>>
OBVIOUS

(* A constructor's statements differ. *)
LEMMA MakingDistinct == ASSUME NEW m \in Module PROVE Distinct(Making(m))
<1> DEFINE full == Making(m)
<1>1. CASE m \in DAC
  <2>1. full = <<<<"add", "AudioIn_b">>, <<"add", "AudioIn_bb">>, <<"add", "Volume_ii">>,
                 <<"add", "Data_iiii">>, <<"init">>>>
    BY <1>1 DEF Making
  <2> HIDE DEF full
  <2>2. /\ Len(full) = 5 /\ full[1] = <<"add", "AudioIn_b">> /\ full[2] = <<"add", "AudioIn_bb">>
        /\ full[3] = <<"add", "Volume_ii">> /\ full[4] = <<"add", "Data_iiii">> /\ full[5] = <<"init">>
    BY <2>1
  <2>3. /\ full[1] # full[2] /\ full[1] # full[3] /\ full[1] # full[4]
        /\ full[2] # full[3] /\ full[2] # full[4] /\ full[3] # full[4]
    <3>1. full[1][2] = "AudioIn_b"
      <4>1. full[1] = <<"add", "AudioIn_b">>
        BY <2>2
      <4> QED BY <4>1, Pair, Zenon
    <3>2. full[2][2] = "AudioIn_bb"
      <4>1. full[2] = <<"add", "AudioIn_bb">>
        BY <2>2
      <4> QED BY <4>1, Pair, Zenon
    <3>3. full[3][2] = "Volume_ii"
      <4>1. full[3] = <<"add", "Volume_ii">>
        BY <2>2
      <4> QED BY <4>1, Pair, Zenon
    <3>4. full[4][2] = "Data_iiii"
      <4>1. full[4] = <<"add", "Data_iiii">>
        BY <2>2
      <4> QED BY <4>1, Pair, Zenon
    <3> QED BY <3>1, <3>2, <3>3, <3>4
  <2>4. full[1] # full[5] /\ full[2] # full[5] /\ full[3] # full[5] /\ full[4] # full[5]
    <3>1. full[1] # full[5]
      BY <2>2, Differ, Zenon
    <3>2. full[2] # full[5]
      BY <2>2, Differ, Zenon
    <3>3. full[3] # full[5]
      BY <2>2, Differ, Zenon
    <3>4. full[4] # full[5]
      BY <2>2, Differ, Zenon
    <3> QED BY <3>1, <3>2, <3>3, <3>4
  <2>5. \A i \in 1 .. Len(full) : i = 1 \/ i = 2 \/ i = 3 \/ i = 4 \/ i = 5
    BY <2>2
  <2> QED BY <2>3, <2>4, <2>5 DEF Distinct, full
<1>2. CASE ~ (m \in DAC)
  <2>1. full = <<<<"add", "Volume_ii">>, <<"init">>>>
    BY <1>2 DEF Making
  <2> HIDE DEF full
  <2>2. Len(full) = 2 /\ full[1] = <<"add", "Volume_ii">> /\ full[2] = <<"init">>
    BY <2>1
  <2>3. full[1] # full[2]
    BY <2>2, Differ, Zenon
  <2>4. \A i \in 1 .. Len(full) : i = 1 \/ i = 2
    BY <2>2
  <2> QED BY <2>3, <2>4 DEF Distinct, full
<1> QED BY <1>1, <1>2

(* A constructor adds each of its methods once. *)
LEMMA AddOnce ==
    ASSUME LifeGood, todo # <<>>, Done, who \in Module, stage[who] = "making",
           NEW t \in Types, todo[1] = <<"add", t>>
    PROVE  ~ StillTo(<<"add", t>>)'
<1> DEFINE full == Making(who)
<1>1. /\ todo' = Tail(todo) /\ Len(todo) \in Nat /\ Len(todo) > 0 /\ Len(Tail(todo)) = Len(todo) - 1
      /\ \A i \in 1 .. Len(todo) - 1 : Tail(todo)[i] = todo[i + 1]
  BY TailIs, TodoIs DEF LifeGood, Done
<1>2. PICK j \in 0 .. 5 : Left(full, j)
  BY DEF LifeGood
<1>3. Len(full) \in Nat /\ Distinct(full)
  <2>1. full \in Seq(Statement)
    BY MakingIs
  <2> QED BY <2>1, MakingDistinct
<1> HIDE DEF full
<1> SUFFICES ASSUME StillTo(<<"add", t>>)' PROVE FALSE
  OBVIOUS
<1>4. PICK i \in 1 .. Len(todo) - 1 : todo[i + 1] = <<"add", t>>
  BY <1>1 DEF StillTo
<1>5. i + 1 \in 1 .. Len(todo) /\ 1 \in 1 .. Len(todo) /\ Len(todo) = Len(full) - j
  BY <1>1, <1>2 DEF Left
<1>6. full[(i + 1) + j] = <<"add", t>> /\ full[1 + j] = <<"add", t>>
  BY <1>2, <1>4, <1>5 DEF Left
<1>7. (i + 1) + j \in 1 .. Len(full) /\ 1 + j \in 1 .. Len(full) /\ (i + 1) + j # 1 + j
  BY <1>1, <1>3, <1>5
<1> QED BY <1>3, <1>6, <1>7 DEF Distinct

(* What a constructor adds is not among what a message found when it came: *)
(* the walk may reach it, but does not have to.                            *)
LEMMA AddsNew ==
    ASSUME NEW L, Full(L), addMethod, NEW c \in Cell, Adds(L, c)
    PROVE  NewGood' /\ Content(heap, c)' \notin start
<1>1. todo # <<>> /\ Done /\ UNCHANGED <<made, stage, walk>>
  BY DEF addMethod, Statement1
<1>0. PICK t \in Types : t = todo[1][2]
  BY DEF Adds
<1>2. /\ who \in Module /\ stage[who] = "making" /\ made[who] \in 1 .. MaxMade[who]
      /\ todo[1] = <<"add", t>> /\ t \in Types
      /\ heap'[c] # NULL /\ heap'[c].path = who /\ heap'[c].types = t /\ heap'[c].owner = <<who, made[who]>>
      /\ \A d \in Cell \ {c} : IF heap[d] = NULL THEN heap'[d] = NULL ELSE SameCell(heap, heap', d)
  BY <1>0 DEF Adds
<1>3. 1 \in 1 .. Len(todo) /\ LifeGood
  BY <1>1, TodoIs DEF Full, Good, LifeGood
<1>4. StillTo(<<"add", t>>)
  BY <1>2, <1>3 DEF StillTo
<1>5. ~ StillTo(<<"add", t>>)'
  BY <1>1, <1>2, <1>3, AddOnce
<1>6. ASSUME NEW d \in Cell, heap'[d] # NULL PROVE New(heap[d])'
  <2>1. CASE d = c
    <3>1. heap'[d].owner[2] = made[who] /\ made[who] \in 1 .. made[who]
      BY <1>2, <2>1, Pair
    <3>2. ~ StillTo(<<"add", heap[d].types>>)'
      <4>1. ~ \E i \in 1 .. Len(todo') : todo'[i] = <<"add", t>>
        BY <1>5 DEF StillTo
      <4> QED BY <1>2, <2>1, <4>1 DEF StillTo
    <3> QED BY <1>1, <1>2, <2>1, <3>1, <3>2 DEF New
  <2>2. CASE d # c
    <3>1. /\ New(heap[d]) /\ heap[d].types \in Types /\ heap'[d].path = heap[d].path
          /\ heap'[d].types = heap[d].types /\ heap'[d].owner = heap[d].owner
      BY <1>2, <1>6, <2>2, TypesKnown DEF Full, NewGood, SameCell
    <3>2. StillTo(<<"add", heap[d].types>>)' => StillTo(<<"add", heap[d].types>>)
      <4> DEFINE u == heap[d].types
      <4>1. (\E i \in 1 .. Len(todo') : todo'[i] = <<"add", u>>) => StillTo(<<"add", u>>)
        <5> HIDE DEF u
        <5>1. ASSUME NEW s, s = <<"add", u>> PROVE StillTo(s)' => StillTo(s)
          BY <1>1, <1>3, DoneLess
        <5> QED BY <5>1 DEF StillTo
      <4> QED BY <3>1, <4>1 DEF StillTo
    <3> QED BY <1>1, <3>1, <3>2 DEF New
  <2> QED BY <2>1, <2>2
<1>7. ASSUME NEW x \in start PROVE New(x)' /\ x.path = msg.path /\ x.types = msg.types
  <2>1. New(x) /\ x.path = msg.path /\ x.types = msg.types
    BY <1>7 DEF Full, NewGood
  <2>2. StillTo(<<"add", x.types>>)' => StillTo(<<"add", x.types>>)
    BY <1>1, <1>3, DoneLess
  <2> QED BY <1>1, <2>1, <2>2 DEF New
<1>8. Content(heap, c)' \notin start
  <2> SUFFICES ASSUME Content(heap, c)' \in start PROVE FALSE
    OBVIOUS
  <2> DEFINE x == [path |-> who, types |-> t, owner |-> <<who, made[who]>>]
  <2>1. x \in start
    BY <1>2 DEF Content
  <2>2. New(x) /\ x.path = who /\ x.types = t /\ x.owner = <<who, made[who]>>
    BY <2>1 DEF Full, NewGood
  <2> HIDE DEF x
  <2>3. x.owner[2] = made[who]
    BY <2>2, Pair
  <2> QED BY <1>2, <1>4, <2>2, <2>3 DEF New
<1> QED BY <1>1, <1>6, <1>7, <1>8 DEF NewGood, walk

(* Cells that keep what they hold. *)
LEMMA SameContent ==
    ASSUME NEW d \in Cell, SameCell(heap, heap', d)
    PROVE  Content(heap, d)' = Content(heap, d) /\ (heap[d].owner)' = heap[d].owner
BY DEF SameCell, Content

(* A method is added: a walk that was at the end may stay there, or, at    *)
(* the last cell, go on to the new one, which it need not reach.           *)
LEMMA AddFull ==
    ASSUME NEW L, Full(L), addMethod, NEW c \in Cell, Adds(L, c) PROVE Full(Append(L, c))'
<1> DEFINE K == Append(L, c)
           n == Len(L)
<1>1. /\ wpc = "next" /\ UNCHANGED <<wpc, walk, stood>>
  BY DEF addMethod, Statement1, delete
<1>2. /\ n \in Nat /\ NULL \notin Cell /\ \A i \in 1 .. n : L[i] \in Cell /\ heap[L[i]] # NULL
      /\ L \in Seq(Cell)
  BY HeapIs, CellFacts DEF Full, Good, ListGood, Linked
<1>3. Len(K) = n + 1 /\ K[n + 1] = c /\ \A i \in 1 .. n : K[i] = L[i]
  BY <1>2, AppendProperties
<1>4. /\ heap[c] = NULL
      /\ \A d \in Cell \ {c} : IF heap[d] = NULL THEN heap'[d] = NULL ELSE SameCell(heap, heap', d)
  BY DEF Adds
<1> HIDE DEF K, n
<1>5. ASSUME upc # "idle", ~ stood PROVE \E p \in 1 .. Len(K) + 1 : (Ahead(K, p) /\ Before(K, p))'
  <2>1. PICK p \in 1 .. n + 1 : Ahead(L, p) /\ Before(L, p)
    BY <1>5 DEF Full, WalkGood, n
  <2>2. \A i \in 1 .. n : (Content(heap, K[i])' \in start => Reached((heap[K[i]].owner)'))
                          <=> (Content(heap, L[i]) \in start => Reached(heap[L[i]].owner))
    <3> SUFFICES ASSUME NEW i \in 1 .. n
                 PROVE  Content(heap, K[i])' = Content(heap, L[i]) /\ (heap[K[i]].owner)' = heap[L[i]].owner
      OBVIOUS
    <3>1. PICK d \in Cell : d = L[i]
      BY <1>2
    <3>2. d # c /\ heap[d] # NULL /\ K[i] = d
      BY <1>2, <1>3, <1>4, <3>1
    <3>3. SameCell(heap, heap', d)
      BY <1>4, <3>2
    <3> QED BY <3>1, <3>2, <3>3, SameContent DEF Content
  <2>3. CASE at = NULL
    <3>1. p = n + 1 /\ upc = "test"
      BY <1>1, <1>2, <2>1, <2>3 DEF Ahead, n
    <3>2. Ahead(K, n + 2)'
      BY <1>1, <1>2, <1>3, <2>3, <3>1 DEF Ahead, walk
    <3>3. Content(heap, c)' \notin start
      BY AddsNew
    <3>4. Before(K, n + 2)'
      <4>1. ASSUME NEW i \in 1 .. n + 1, Content(heap, K[i])' \in start PROVE Reached((heap[K[i]].owner)')
        <5>1. i = n + 1 \/ i \in 1 .. n
          BY <1>2
        <5>2. i # n + 1
          BY <1>3, <3>3, <4>1 DEF Content
        <5>3. i \in 1 .. p - 1
          BY <1>2, <3>1, <5>1, <5>2
        <5> QED BY <2>1, <2>2, <4>1, <5>1, <5>2, <5>3 DEF Before
      <4>2. (n + 2) - 1 = n + 1 /\ start' = start /\ called' = called
        BY <1>1, <1>2 DEF walk
      <4> QED BY <4>1, <4>2 DEF Before, Reached, Content
    <3> QED BY <1>2, <1>3, <3>2, <3>4
  <2>4. CASE at # NULL
    <3>1. Ahead(K, p)'
      <4>1. \/ upc = "test" /\ p <= n /\ at = L[p]
            \/ upc # "test" /\ p > 1 /\ at = L[p - 1]
        BY <1>1, <2>1, <2>4 DEF Ahead, n
      <4>2. p <= n => p \in 1 .. n
        BY <1>2
      <4>3. p > 1 => p - 1 \in 1 .. n
        BY <1>2
      <4>4. p <= Len(K)
        BY <1>2, <1>3
      <4> QED BY <1>1, <1>3, <4>1, <4>2, <4>3, <4>4 DEF Ahead, walk
    <3>2. Before(K, p)'
      <4>1. ASSUME NEW i \in 1 .. p - 1, Content(heap, K[i])' \in start PROVE Reached((heap[K[i]].owner)')
        <5>1. i \in 1 .. n
          BY <1>2
        <5> QED BY <2>1, <2>2, <4>1, <5>1 DEF Before
      <4>2. start' = start /\ called' = called
        BY <1>1 DEF walk
      <4> QED BY <4>1, <4>2 DEF Before, Reached, Content
    <3>3. p \in 1 .. Len(K) + 1
      BY <1>2, <1>3
    <3> QED BY <3>1, <3>2, <3>3
  <2> QED BY <2>3, <2>4
<1>6. WalkGood(K)'
  BY <1>1, <1>5 DEF WalkGood, walk
<1>7. Good(K)'
  BY AddKeeps DEF Full, K
<1>8. NewGood'
  BY AddsNew
<1> QED BY <1>6, <1>7, <1>8 DEF Full, K

(* The k-th cell is taken out: the cells behind it move down by one, and a *)
(* walk that stands on it goes on where it led.                            *)
LEMMA UnlinkFull ==
    ASSUME NEW L, Full(L), Unlink, NEW k \in 1 .. Len(L), Cuts(L, k) PROVE Full(Without(L, k))'
<1> DEFINE n == Len(L)
           K == Without(L, k)
<1>1. wpc = "walk" /\ wpc' = "free" /\ UNCHANGED <<it, walk, stood, life>>
  BY DEF Unlink
<1>2. /\ n \in Nat /\ k \in 1 .. n /\ NULL \notin Cell /\ \A i \in 1 .. n : L[i] \in Cell /\ heap[L[i]] # NULL
      /\ Linked(heap, first, L) /\ heap[L[k]].next = IF k < n THEN L[k + 1] ELSE NULL
      /\ \A i, j \in 1 .. n : L[i] = L[j] => i = j
  BY HeapIs, CellFacts DEF Full, Good, ListGood, Linked
<1>3. /\ it = L[k] /\ heap'[it] = heap[it]
      /\ \A d \in Cell : IF heap[d] = NULL THEN heap'[d] = NULL ELSE SameCell(heap, heap', d)
  BY DEF Cuts
<1>4. Len(K) = n - 1 /\ \A i \in 1 .. n - 1 : K[i] = IF i < k THEN L[i] ELSE L[i + 1]
  BY <1>2, WithoutIs
<1> HIDE DEF K, n
<1>5. ASSUME upc # "idle", ~ stood PROVE \E q \in 1 .. Len(K) + 1 : (Ahead(K, q) /\ Before(K, q))'
  <2>1. PICK p \in 1 .. n + 1 : Ahead(L, p) /\ Before(L, p)
    BY <1>5 DEF Full, WalkGood, n
  <2> DEFINE q == IF p <= k THEN p ELSE p - 1
  <2>2. q \in 1 .. Len(K) + 1
    BY <1>2, <1>4
  <2>3. Ahead(K, q)'
    <3>1. \/ upc = "test" /\ at = NULL /\ p = n + 1
          \/ upc = "test" /\ p <= n /\ at = L[p]
          \/ upc # "test" /\ p > 1 /\ at = L[p - 1]
      BY <1>1, <2>1 DEF Ahead, n
    <3>2. CASE upc = "test" /\ at = NULL /\ p = n + 1
      BY <1>1, <1>2, <1>4, <3>2 DEF Ahead, walk
    <3>3. heap'[it].next = IF k <= Len(K) THEN K[k] ELSE NULL
      <4>1. k < n => k \in 1 .. n - 1
        BY <1>2
      <4>2. k < n <=> k <= Len(K)
        BY <1>2, <1>4
      <4> QED BY <1>2, <1>3, <1>4, <4>1, <4>2
    <3>4. CASE upc = "test" /\ p <= n /\ at = L[p]
      <4>1. CASE p = k
        BY <1>1, <1>3, <3>3, <3>4, <4>1 DEF Ahead, walk
      <4>2. CASE p < k
        <5>1. p \in 1 .. n - 1 /\ q = p
          BY <1>2, <4>2
        <5>2. K[q] = at /\ q <= Len(K)
          BY <1>4, <3>4, <4>2, <5>1
        <5> QED BY <1>1, <3>4, <5>2 DEF Ahead, walk
      <4>3. CASE p > k
        <5>1. p - 1 \in 1 .. n - 1 /\ q = p - 1 /\ ~ (p - 1 < k) /\ (p - 1) + 1 = p
          BY <1>2, <3>4, <4>3
        <5>2. K[q] = at /\ q <= Len(K)
          BY <1>4, <3>4, <5>1
        <5> QED BY <1>1, <3>4, <5>2 DEF Ahead, walk
      <4> QED BY <1>2, <4>1, <4>2, <4>3
    <3>5. CASE upc # "test" /\ p > 1 /\ at = L[p - 1]
      <4>1. CASE p - 1 = k
        <5>1. q = k
          BY <1>2, <4>1
        <5> QED BY <1>1, <1>3, <3>3, <3>5, <4>1, <5>1 DEF Ahead, walk
      <4>2. CASE p - 1 < k
        <5>1. p - 1 \in 1 .. n - 1 /\ q = p
          BY <1>2, <3>5, <4>2
        <5>2. K[q - 1] = at /\ q > 1
          BY <1>4, <3>5, <4>2, <5>1
        <5> QED BY <1>1, <3>5, <5>2 DEF Ahead, walk
      <4>3. CASE p - 1 > k
        <5>1. p - 2 \in 1 .. n - 1 /\ q = p - 1 /\ ~ (p - 2 < k) /\ (p - 2) + 1 = p - 1 /\ q - 1 = p - 2
          BY <1>2, <3>5, <4>3
        <5>2. K[q - 1] = at /\ q > 1
          BY <1>2, <1>4, <3>5, <4>3, <5>1
        <5> QED BY <1>1, <3>5, <5>2 DEF Ahead, walk
      <4> QED BY <1>2, <4>1, <4>2, <4>3
    <3> QED BY <3>1, <3>2, <3>4, <3>5
  <2>4. Before(K, q)'
    <3>1. ASSUME NEW i \in 1 .. q - 1, Content(heap, K[i])' \in start PROVE Reached((heap[K[i]].owner)')
      <4>1. \E j \in 1 .. p - 1 : j \in 1 .. n /\ K[i] = L[j]
        <5>1. i \in 1 .. n - 1 /\ i \in 1 .. p - 1 /\ i \in 1 .. n
          BY <1>2
        <5>2. CASE i < k
          BY <1>4, <5>1, <5>2
        <5>3. CASE ~ (i < k)
          <6>1. i + 1 \in 1 .. p - 1 /\ i + 1 \in 1 .. n
            BY <1>2, <5>1, <5>3
          <6> QED BY <1>4, <5>1, <5>3, <6>1
        <5> QED BY <5>2, <5>3
      <4>2. PICK j \in 1 .. p - 1 : j \in 1 .. n /\ K[i] = L[j]
        BY <4>1
      <4>3. PICK d \in Cell : d = L[j]
        BY <1>2, <4>2
      <4>4. heap[d] # NULL /\ K[i] = d
        BY <1>2, <4>2, <4>3
      <4>5. SameCell(heap, heap', d)
        BY <1>3, <4>4
      <4>6. Content(heap, d)' = Content(heap, d) /\ (heap[d].owner)' = heap[d].owner
        BY <4>5, SameContent
      <4>7. Content(heap, d) \in start => Reached(heap[d].owner)
        BY <2>1, <4>3 DEF Before
      <4> QED BY <3>1, <4>4, <4>6, <4>7 DEF Content
    <3>2. start' = start /\ called' = called
      BY <1>1 DEF walk
    <3> HIDE DEF q
    <3> QED BY <3>1, <3>2 DEF Before, Reached, Content
  <2> QED BY <2>2, <2>3, <2>4
<1>6. WalkGood(K)'
  BY <1>1, <1>5 DEF WalkGood, walk
<1>7. NewGood'
  <2>1. \A c \in Cell : heap'[c] # NULL => heap[c] # NULL /\ SameCell(heap, heap', c)
    BY <1>3
  <2> QED BY <1>1, <2>1, NewSame DEF walk
<1>8. Good(K)'
  BY UnlinkKeeps DEF Full, K
<1> QED BY <1>6, <1>7, <1>8 DEF Full, K

(* It is freed: stood says so if the walk stands on it. *)
LEMMA FreeMethodFull ==
    ASSUME NEW L, Full(L), FreeMethod PROVE Full(L)'
<1>1. /\ wpc = "free" /\ wpc' = "walk" /\ heap' = [heap EXCEPT ![it] = NULL]
      /\ stood' = (stood \/ (upc # "idle" /\ at = it))
      /\ UNCHANGED <<life, walk>>
  BY DEF FreeMethod
<1>2. /\ heap \in [Cell -> LoMethod \union {NULL}] /\ it \in Cell /\ it \notin Elems(L)
      /\ \A i \in 1 .. Len(L) : L[i] \in Cell /\ heap[L[i]] # NULL
      /\ Len(L) \in Nat
  BY <1>1, HeapIs DEF Full, Good, ListGood
<1>3. heap'[it] = NULL /\ \A d \in Cell \ {it} : heap'[d] = heap[d]
  BY <1>1, <1>2
<1>4. \A i \in 1 .. Len(L) : heap'[L[i]] = heap[L[i]]
  BY <1>2, <1>3 DEF Elems
<1>5. ASSUME upc # "idle", ~ stood' PROVE \E p \in 1 .. Len(L) + 1 : (Ahead(L, p) /\ Before(L, p))'
  <2>1. ~ stood /\ at # it
    BY <1>1, <1>5 DEF Full, Good, UdpGood
  <2>2. PICK p \in 1 .. Len(L) + 1 : Ahead(L, p) /\ Before(L, p)
    BY <1>5, <2>1 DEF Full, WalkGood
  <2>3. Ahead(L, p)'
    BY <1>1, <2>1, <2>2 DEF Ahead, walk
  <2>4. Before(L, p)'
    <3>1. \A i \in 1 .. p - 1 : i \in 1 .. Len(L)
      BY <1>2
    <3> QED BY <1>1, <1>4, <2>2, <3>1 DEF Before, Reached, Content, walk
  <2> QED BY <2>3, <2>4
<1>6. WalkGood(L)'
  BY <1>1, <1>5 DEF WalkGood, walk
<1>7. NewGood'
  <2>1. \A c \in Cell : heap'[c] # NULL => heap[c] # NULL /\ SameCell(heap, heap', c)
    BY <1>3 DEF SameCell
  <2> QED BY <1>1, <2>1, NewSame DEF walk
<1> QED BY <1>6, <1>7, FreeMethodKeeps DEF Full

(* A step of dispatch_method that goes on leaves all but its own state. *)
LEMMA WalkOn ==
    ASSUME NEW L, Full(L), Good(L)', UNCHANGED <<list, life, delete, start, msg, stood>>,
           upc # "idle" /\ ~ stood => \E p \in 1 .. Len(L) + 1 : (Ahead(L, p) /\ Before(L, p))',
           upc # "idle"
    PROVE  Full(L)'
<1>1. \A c \in Cell : heap'[c] # NULL => heap[c] # NULL /\ SameCell(heap, heap', c)
  BY DEF list, SameCell
<1>2. NewGood'
  BY <1>1, NewSame
<1>3. WalkGood(L)'
  BY DEF WalkGood
<1> QED BY <1>2, <1>3 DEF Full

(* A step after which no message is there. *)
LEMMA WalkEnds ==
    ASSUME NEW L, Full(L), Good(L)', UNCHANGED <<list, life>>, Return
    PROVE  Full(L)'
<1>1. \A c \in Cell : heap'[c] # NULL => heap[c] # NULL /\ SameCell(heap, heap', c)
  BY DEF list, SameCell
<1>2. NewGood'
  BY <1>1, NewSame DEF Return
<1>3. WalkGood(L)'
  BY DEF WalkGood, Return
<1> QED BY <1>2, <1>3 DEF Full

(* A message comes: the walk begins at the first cell. *)
LEMMA ReceiveFull ==
    ASSUME NEW L, Full(L), NEW m \in Message, Receive(m) PROVE Full(L)'
<1>1. /\ upc' = "test" /\ at' = first /\ msg' = m /\ UNCHANGED <<heap, life>>
      /\ start' = {Methods[k] : k \in {j \in 1 .. Len(Methods) :
                                          Methods[j].path = m.path /\ Methods[j].types = m.types}}
  BY DEF Receive, list
<1>2. Linked(heap, first, L) /\ Len(L) \in Nat
  BY HeapIs DEF Full, Good, ListGood
<1>3. Ahead(L, 1)' /\ Before(L, 1)' /\ 1 \in 1 .. Len(L) + 1
  BY <1>1, <1>2 DEF Linked, Ahead, Before
<1>4. WalkGood(L)'
  BY <1>3 DEF WalkGood
<1>5. ASSUME NEW x \in start' PROVE New(x) /\ x.path = m.path /\ x.types = m.types
  <2>1. PICK k \in 1 .. Len(Methods) : x = Methods[k] /\ Methods[k].path = m.path /\ Methods[k].types = m.types
    BY <1>1, <1>5
  <2>2. k \in 1 .. Len(L) /\ Methods[k] = Content(heap, L[k])
    BY <2>1, MethodsAre DEF Full
  <2>3. New(heap[L[k]])
    BY <2>2, HeapIs DEF Full, Good, NewGood
  <2>4. x.path = heap[L[k]].path /\ x.types = heap[L[k]].types /\ x.owner = heap[L[k]].owner
    BY <2>1, <2>2 DEF Content
  <2> QED BY <2>1, <2>3, <2>4 DEF New
<1>6. NewGood'
  <2>1. UNCHANGED <<made, stage, todo>>
    BY <1>1 DEF life
  <2>2. \A c \in Cell : heap'[c] # NULL => New(heap[c])'
    BY <1>1, <2>1 DEF Full, NewGood, New, StillTo
  <2>3. \A x \in start' : New(x)' /\ x.path = m.path /\ x.types = m.types
    BY <1>5, <2>1 DEF New, StillTo
  <2> QED BY <1>1, <2>2, <2>3 DEF NewGood
<1> QED BY <1>4, <1>6, ReceiveKeeps DEF Full

(* A cell is tested: what it holds, if the message found it, is called. *)
LEMMA TestFull ==
    ASSUME NEW L, Full(L), Test PROVE Full(L)'
<1>1. /\ upc = "test" /\ at # NULL /\ UNCHANGED <<list, life, delete, at, msg, start, stood>>
  BY DEF Test, At, Alive
<1>2. Good(L)'
  BY TestKeeps DEF Full
<1>3. called \in Seq(Owner) /\ Len(L) \in Nat
  BY HeapIs DEF Full, Good, UdpGood
<1>4. \/ upc' = "next" /\ called' = called /\ ~ Matches
      \/ upc' = "handler" /\ called' = Append(called, heap[at].owner)
  BY DEF Test
<1>5. \A o : Reached(o) => Reached(o)'
  <2> SUFFICES ASSUME NEW o, Reached(o) PROVE Reached(o)'
    OBVIOUS
  <2>1. PICK j \in 1 .. Len(called) : called[j] = o
    BY DEF Reached
  <2>2. CASE called' = called
    BY <2>1, <2>2 DEF Reached
  <2>3. CASE upc' = "handler" /\ called' = Append(called, heap[at].owner)
    <3>1. heap[at].owner \in Owner
      <4>1. at \in Cell /\ heap[at] # NULL
        BY <1>1 DEF Test, Alive, Full, Good, UdpGood
      <4> QED BY <4>1, CellIs DEF Full
    <3>2. j \in 1 .. Len(called') /\ called'[j] = called[j]
      <4> DEFINE o2 == heap[at].owner
      <4>1. o2 \in Owner /\ called' = Append(called, o2) /\ j \in 1 .. Len(called)
        BY <2>1, <2>3, <3>1
      <4> HIDE DEF o2
      <4>2. Len(called') = Len(called) + 1 /\ \A i \in 1 .. Len(called) : called'[i] = called[i]
        BY <1>3, <4>1
      <4> QED BY <1>3, <4>1, <4>2
    <3> QED BY <2>1, <3>2 DEF Reached
  <2> QED BY <1>4, <2>2, <2>3
<1>6. ASSUME ~ stood PROVE \E p \in 1 .. Len(L) + 1 : (Ahead(L, p) /\ Before(L, p))'
  <2>1. PICK p \in 1 .. Len(L) + 1 : Ahead(L, p) /\ Before(L, p)
    BY <1>1, <1>6 DEF Full, WalkGood
  <2>2. ASSUME NEW i \in 1 .. p - 1, Content(heap, L[i]) \in start PROVE Reached(heap[L[i]].owner)'
    <3> DEFINE o == heap[L[i]].owner
    <3>1. heap' = heap /\ Reached(o)
      BY <1>1, <2>1, <2>2 DEF Before, list
    <3>2. \E j \in 1 .. Len(called') : called'[j] = o
      <4> HIDE DEF o
      <4> QED BY <1>5, <3>1 DEF Reached
    <3> QED BY <3>1, <3>2 DEF Reached
  <2>3. CASE p <= Len(L) /\ at = L[p]
    <3>1. p + 1 \in 1 .. Len(L) + 1 /\ p + 1 > 1 /\ (p + 1) - 1 = p
      BY <1>3, <2>3
    <3>2. Ahead(L, p + 1)'
      BY <1>1, <1>4, <2>3, <3>1 DEF Ahead
    <3>3. ASSUME Content(heap, L[p]) \in start PROVE Reached(heap[L[p]].owner)'
      <4>1. Matches
        BY <2>3, <3>3 DEF Full, NewGood, Matches, Content
      <4>2. called' = Append(called, heap[at].owner)
        BY <1>4, <4>1
      <4> DEFINE o2 == heap[at].owner
      <4>3. o2 \in Owner
        <5>1. at \in Cell /\ heap[at] # NULL
          BY <1>1 DEF Test, Alive, Full, Good, UdpGood
        <5> QED BY <5>1, CellIs DEF Full
      <4>4. heap' = heap /\ o2 = heap'[L[p]].owner /\ called' = Append(called, o2)
        BY <1>1, <2>3, <4>2 DEF list
      <4> HIDE DEF o2
      <4>5. Len(called') = Len(called) + 1 /\ called'[Len(called) + 1] = o2 /\ Len(called) + 1 \in 1 .. Len(called')
        BY <1>3, <4>3, <4>4
      <4> QED BY <4>4, <4>5 DEF Reached
    <3>4. Before(L, p + 1)'
      <4>1. \A i \in 1 .. p : i = p \/ i \in 1 .. p - 1
        BY <1>3
      <4>2. heap' = heap /\ start' = start
        BY <1>1 DEF list
      <4>3. ASSUME NEW i \in 1 .. p, Content(heap, L[i]) \in start PROVE Reached(heap[L[i]].owner)'
        BY <2>2, <3>3, <4>1, <4>3
      <4> QED BY <3>1, <4>2, <4>3 DEF Before, Reached, Content
    <3> QED BY <3>1, <3>2, <3>4
  <2>4. CASE wpc = "free" /\ at = it /\ heap[it].next = IF p <= Len(L) THEN L[p] ELSE NULL
    <3>1. Ahead(L, p)'
      BY <1>1, <2>4 DEF Ahead, list, delete
    <3>2. Before(L, p)'
      BY <1>1, <2>2 DEF Before, Reached, Content, list
    <3> QED BY <3>1, <3>2
  <2> QED BY <1>1, <2>1, <2>3, <2>4 DEF Ahead
<1> QED BY <1>1, <1>2, <1>6, WalkOn

(* The handler's end ends the dispatch or leads on. *)
LEMMA HandlerFull ==
    ASSUME NEW L, Full(L), Handler PROVE Full(L)'
<1>1. upc = "handler" /\ UNCHANGED <<list, life, delete>> /\ Good(L)'
  BY HandlerKeeps DEF Full, Handler, At
<1>2. CASE Return
  BY <1>1, <1>2, WalkEnds
<1>3. CASE upc' = "next" /\ UNCHANGED <<at, msg, called, start, stood>>
  <2>1. ASSUME ~ stood PROVE \E p \in 1 .. Len(L) + 1 : (Ahead(L, p) /\ Before(L, p))'
    <3>1. PICK p \in 1 .. Len(L) + 1 : Ahead(L, p) /\ Before(L, p)
      BY <1>1, <2>1 DEF Full, WalkGood
    <3>2. Ahead(L, p)'
      BY <1>1, <1>3, <3>1 DEF Ahead, list, delete
    <3>3. Before(L, p)'
      BY <1>1, <1>3, <3>1 DEF Before, Reached, Content, list
    <3> QED BY <3>2, <3>3
  <2> QED BY <1>1, <1>3, <2>1, WalkOn
<1> QED BY <1>2, <1>3 DEF Handler

(* The walk goes on where the cell leads to. *)
LEMMA AdvanceFull ==
    ASSUME NEW L, Full(L), Advance PROVE Full(L)'
<1>1. /\ upc = "next" /\ upc' = "test" /\ at' = heap[at].next
      /\ UNCHANGED <<list, life, delete, msg, called, start, stood>>
  BY DEF Advance, At
<1>2. Good(L)'
  BY AdvanceKeeps DEF Full
<1>3. ASSUME ~ stood PROVE \E p \in 1 .. Len(L) + 1 : (Ahead(L, p) /\ Before(L, p))'
  <2>1. PICK p \in 1 .. Len(L) + 1 : Ahead(L, p) /\ Before(L, p)
    BY <1>1, <1>3 DEF Full, WalkGood
  <2>2. heap[at].next = IF p <= Len(L) THEN L[p] ELSE NULL
    <3>1. CASE p > 1 /\ at = L[p - 1]
      <4>1. Linked(heap, first, L) /\ Len(L) \in Nat
        BY HeapIs DEF Full, Good, ListGood
      <4>2. p - 1 \in 1 .. Len(L) /\ (p - 1 < Len(L) <=> p <= Len(L)) /\ (p - 1) + 1 = p
        BY <3>1, <4>1
      <4> QED BY <3>1, <4>1, <4>2 DEF Linked
    <3> QED BY <1>1, <2>1, <3>1 DEF Ahead
  <2>3. Ahead(L, p)'
    <3>1. ~ (p <= Len(L)) => p = Len(L) + 1
      BY HeapIs DEF Full, Good
    <3> QED BY <1>1, <2>2, <3>1 DEF Ahead
  <2>4. Before(L, p)'
    BY <1>1, <2>1 DEF Before, Reached, Content, list
  <2> QED BY <2>3, <2>4
<1> QED BY <1>1, <1>2, <1>3, WalkOn

(* It stood on a cell that was freed. *)
LEMMA ReadFreedFull ==
    ASSUME NEW L, Full(L), ReadFreed PROVE Full(L)'
<1>1. /\ upc \in {"test", "next"} /\ at # NULL /\ heap[at] = NULL
      /\ UNCHANGED <<list, life, delete, walk, stood>>
  BY DEF ReadFreed
<1>2. Good(L)' /\ stood
  BY <1>1, ReadFreedKeeps DEF Full, Good, UdpGood
<1> QED BY <1>1, <1>2, WalkOn DEF walk

(* The end of the list. *)
LEMMA EndDispatchFull ==
    ASSUME NEW L, Full(L), EndDispatch PROVE Full(L)'
<1>1. Return /\ UNCHANGED <<list, life>> /\ Good(L)'
  BY EndDispatchKeeps DEF Full, EndDispatch
<1> QED BY <1>1, WalkEnds

(* Every step keeps the invariant with what it says of the walk. *)
LEMMA StepFull == ASSUME NEW L, Full(L), [Next]_vars PROVE (\E K : Full(K))'
<1>1. CASE TCP
  <2>1. ASSUME NEW m \in Module, Create(m) \/ Remove(m) PROVE Full(L)'
    BY <2>1, CreateFull, RemoveFull
  <2>2. ASSUME addMethod PROVE \E K : Full(K)'
    BY <2>2, AddIs, AddFull DEF Full
  <2>3. ASSUME Unlink PROVE \E K : Full(K)'
    BY <2>3, UnlinkIs, UnlinkFull DEF Full
  <2>4. ASSUME InitService \/ FreeBuffers \/ FreeService \/ delMethod \/ Pass \/ FreeMethod \/ EndDelete
        PROVE  Full(L)'
    BY <2>4, DoneFull, DeletingFull, FreeMethodFull
  <2> QED BY <1>1, <2>1, <2>2, <2>3, <2>4 DEF TCP
<1>2. CASE UDP
  BY <1>2, ReceiveFull, TestFull, HandlerFull, AdvanceFull, ReadFreedFull, EndDispatchFull DEF UDP
<1>3. CASE UNCHANGED vars
  <2>1. UNCHANGED <<list, life, delete, walk, broken, stood, heap>>
    BY <1>3 DEF vars, list
  <2>2. UdpGood'
    BY <2>1, UdpSame DEF Full, Good
  <2>3. BrokenGood'
    BY <2>1 DEF Full, Good, BrokenGood, BrokenExplained, walk, life
  <2>4. Good(L)'
    BY <2>1, <2>2, <2>3, WalkSame DEF Full, Good
  <2>5. \A c \in Cell : heap'[c] # NULL => heap[c] # NULL /\ SameCell(heap, heap', c)
    BY <2>1 DEF SameCell
  <2>6. NewGood'
    BY <2>1, <2>5, NewSame DEF walk
  <2>7. WalkGood(L)'
    BY <2>1 DEF Full, WalkGood, Ahead, Before, Reached, Content, walk, delete
  <2> QED BY <2>4, <2>6, <2>7 DEF Full
<1> QED BY <1>1, <1>2, <1>3 DEF Next

(* There is no walk at first. *)
LEMMA InitFull == ASSUME Init PROVE \E L : Full(L)
<1>1. PICK L : Good(L)
  BY InitGood
<1>2. /\ upc = "idle" /\ start = {}
      /\ \A c \in Cell : heap[c] # NULL => heap[c].path = "/ModuleManager"
  BY DEF Init, RequestML
<1>3. NewGood /\ WalkGood(L)
  BY <1>2, ServiceAssumption DEF NewGood, New, WalkGood, Module
<1> QED BY <1>1, <1>3 DEF Full

(* In every state the walk has called what it found on its way. *)
LEMMA FullInvariant == Spec => [](\E L : Full(L))
<1>1. (\E L : Full(L)) /\ [Next]_vars => (\E L : Full(L))'
  BY StepFull
<1> QED BY <1>1, InitFull, PTL DEF Spec

(* What a dispatch that ends has called. *)
LEMMA StepDelivers ==
    ASSUME NEW L, Full(L), [Next]_vars, upc # "idle", upc' = "idle", ~ stood
    PROVE  \/ called # <<>> /\ msg.types # "RequestML_i"
           \/ \A m \in start : (\E j \in 1 .. Len(Methods) : Methods[j] = m)
                                  => \E k \in 1 .. Len(called) : called[k] = m.owner
<1>1. Handler \/ EndDispatch
  <2>1. ASSUME TCP PROVE UNCHANGED walk
    BY <2>1 DEF TCP, Create, Remove, addMethod, InitService, FreeBuffers, FreeService, delMethod, Pass, Unlink,
                FreeMethod, EndDelete
  <2>2. ASSUME UDP PROVE Handler \/ EndDispatch
    <3>1. \A m \in Message : ~ Receive(m)
      BY DEF Receive
    <3>2. ~ Test
      BY DEF Test
    <3>3. ~ Advance
      BY DEF Advance
    <3>4. ~ ReadFreed
      BY DEF ReadFreed, walk
    <3> QED BY <2>2, <3>1, <3>2, <3>3, <3>4 DEF UDP
  <2> QED BY <2>1, <2>2 DEF Next, vars, walk
<1>2. CASE Handler
  <2>1. Len(called) > 0 /\ called \in Seq(Owner)
    BY <1>2 DEF Handler, At, Full, Good, UdpGood
  <2>2. called # <<>>
    BY <2>1
  <2>3. msg.types # "RequestML_i"
    BY <1>2 DEF Handler
  <2> QED BY <2>2, <2>3
<1>3. CASE EndDispatch
  <2>1. at = NULL /\ upc = "test"
    BY <1>3 DEF EndDispatch, At
  <2>2. PICK p \in 1 .. Len(L) + 1 : Ahead(L, p) /\ Before(L, p)
    BY DEF Full, WalkGood
  <2>3. /\ Len(L) \in Nat /\ NULL \notin Cell /\ \A i \in 1 .. Len(L) : L[i] \in Cell
        /\ wpc = "free" => it \in Cell
    BY HeapIs, CellFacts DEF Full, Good, ListGood
  <2>4. p = Len(L) + 1
    <3>1. p <= Len(L) => p \in 1 .. Len(L)
      BY <2>3
    <3> QED BY <2>1, <2>2, <2>3, <3>1 DEF Ahead
  <2>5. ASSUME NEW m \in start, NEW j \in 1 .. Len(Methods), Methods[j] = m
        PROVE  \E k \in 1 .. Len(called) : called[k] = m.owner
    <3>1. j \in 1 .. Len(L) /\ m = Content(heap, L[j])
      BY <2>5, MethodsAre DEF Full
    <3>2. j \in 1 .. p - 1
      BY <2>3, <2>4, <3>1
    <3>3. Reached(heap[L[j]].owner)
      BY <2>2, <3>1, <3>2 DEF Before
    <3> QED BY <3>1, <3>3 DEF Reached, Content
  <2> QED BY <2>5
<1> QED BY <1>1, <1>2, <1>3

(* A message reaches every method that is there from the beginning to the  *)
(* end of its dispatch_method, up to the first whose handler returns 0,    *)
(* whatever constructors add and destructors delete meanwhile, unless the  *)
(* cell the walk stands on is freed.                                       *)
THEOREM DispatchReaches == Spec => Delivered
<1>1. (\E L : Full(L)) /\ [Next]_vars =>
         [upc # "idle" /\ upc' = "idle" /\ ~ stood =>
          \/ called # <<>> /\ msg.types # "RequestML_i"
          \/ LET now == Methods IN
             \A m \in start :
                (\E j \in 1 .. Len(now) : now[j] = m) => \E k \in 1 .. Len(called) : called[k] = m.owner]_vars
  BY StepDelivers
<1> QED BY <1>1, FullInvariant, PTL DEF Spec, Delivered

-----------------------------------------------------------------------------
(* The refinement of MethodList *)

(* kept, in MethodList's Kept, is g. *)
Goes(m, p, t) == m.path = p /\ m.types = t
KeepsBy(l, p, t, g) ==
    g = [n \in 0 .. Len(l) |-> IF n = 0 THEN <<>>
                               ELSE IF Goes(l[n], p, t) THEN g[n - 1] ELSE Append(g[n - 1], l[n])]

(* There is a function that satisfies it: it is built place by place. *)
LEMMA KeepsByExists ==
    ASSUME NEW l \in Seq(Method), NEW p, NEW t
    PROVE  \E g : KeepsBy(l, p, t, g)
<1> DEFINE N == Len(l)
           B(g, n) == IF n = 0 THEN <<>>
                      ELSE IF Goes(l[n], p, t) THEN g[n - 1] ELSE Append(g[n - 1], l[n])
           F(g) == g = [n \in 0 .. N |-> g[n]]
           Fine(n, g) == \A k \in 0 .. n : g[k] = B(g, k)
           Some(n) == \E g : F(g) /\ Fine(n, g)
           S == {n \in Nat : n <= N => Some(n)}
<1>0. N \in Nat
  OBVIOUS
<1> HIDE DEF N
<1>1. 0 \in S
  <2> DEFINE g == [n \in 0 .. N |-> <<>>]
  <2>1. F(g)
    OBVIOUS
  <2>2. Fine(0, g)
    <3>1. 0 .. 0 = {0} /\ 0 \in 0 .. N
      BY <1>0
    <3> QED BY <3>1
  <2> QED BY <2>1, <2>2
<1>2. ASSUME NEW n \in S PROVE n + 1 \in S
  <2> HIDE DEF Some
  <2> SUFFICES ASSUME n + 1 <= N PROVE Some(n + 1)
    OBVIOUS
  <2>1. n \in Nat /\ n <= N /\ Some(n)
    BY <1>0
  <2> USE DEF Some
  <2>2. PICK g : F(g) /\ Fine(n, g)
    BY <2>1
  <2> DEFINE e == [k \in 0 .. N |-> IF k = n + 1 THEN B(g, k) ELSE g[k]]
  <2>3. \A k \in 0 .. N : e[k] = IF k = n + 1 THEN B(g, k) ELSE g[k]
    OBVIOUS
  <2>4. F(e)
    BY <2>3
  <2> HIDE DEF e
  <2>5. ASSUME NEW k \in 0 .. n + 1 PROVE e[k] = B(e, k)
    <3>1. k \in 0 .. N /\ k \in Nat
      BY <2>1, <1>0
    <3>2. B(e, k) = B(g, k)
      <4>1. CASE k = 0
        BY <4>1
      <4>2. CASE k # 0
        <5>1. k - 1 \in 0 .. N /\ k - 1 # n + 1
          BY <2>1, <3>1, <4>2, <1>0
        <5>2. e[k - 1] = g[k - 1]
          BY <2>3, <5>1
        <5> QED BY <5>2
      <4> QED BY <4>1, <4>2
    <3>3. CASE k = n + 1
      BY <2>3, <3>1, <3>2, <3>3
    <3>4. CASE k # n + 1
      <4>1. k \in 0 .. n
        BY <2>1, <3>1, <3>4
      <4>2. g[k] = B(g, k)
        BY <2>2, <4>1
      <4>3. e[k] = g[k]
        BY <2>3, <3>1, <3>4
      <4> QED BY <3>2, <4>2, <4>3
    <3> QED BY <3>3, <3>4
  <2> QED BY <2>4, <2>5
<1> HIDE DEF B, Some
<1>3. N \in S
  BY <1>0, <1>1, <1>2, Induction
<1>4. Some(N)
  BY <1>0, <1>3
<1> USE DEF Some
<1>5. PICK g : F(g) /\ Fine(N, g)
  BY <1>4
<1>6. g = [n \in 0 .. N |-> B(g, n)]
  BY <1>5
<1> QED BY <1>6 DEF KeepsBy, B, N

(* Kept, place by place. *)
LEMMA KeptIs ==
    ASSUME NEW l \in Seq(Method), NEW p, NEW t
    PROVE  \E g : /\ \A n \in 1 .. Len(l) : g[n] = IF Goes(l[n], p, t) THEN g[n - 1] ELSE Append(g[n - 1], l[n])
                  /\ g[0] = <<>> /\ ML!Kept(p, t)[l] = g[Len(l)]
<1> DEFINE g == CHOOSE g : KeepsBy(l, p, t, g)
<1>1. KeepsBy(l, p, t, g)
  BY KeepsByExists
<1>2. ML!Kept(p, t)[l] = g[Len(l)]
  BY DEF ML!Kept, KeepsBy, Goes
<1> HIDE DEF g
<1>3. Len(l) \in Nat
  OBVIOUS
<1>4. g[0] = <<>> /\ \A n \in 1 .. Len(l) : g[n] = IF Goes(l[n], p, t) THEN g[n - 1] ELSE Append(g[n - 1], l[n])
  <2> DEFINE N == Len(l)
             B(n) == IF n = 0 THEN <<>> ELSE IF Goes(l[n], p, t) THEN g[n - 1] ELSE Append(g[n - 1], l[n])
  <2>1. g = [n \in 0 .. N |-> B(n)]
    BY <1>1 DEF KeepsBy
  <2>2. N \in Nat
    BY <1>3
  <2> HIDE DEF N, B
  <2>3. \A n \in 0 .. N : g[n] = B(n)
    BY <2>1
  <2>4. g[0] = B(0) /\ \A n \in 1 .. N : g[n] = B(n) /\ n # 0
    BY <2>2, <2>3
  <2> QED BY <2>4 DEF N, B
<1> QED BY <1>2, <1>4

(* A deletion keeps all, or leaves a shorter list. *)
LEMMA KeptShorter ==
    ASSUME NEW l \in Seq(Method), NEW p, NEW t
    PROVE  /\ ML!Kept(p, t)[l] \in Seq(Method)
           /\ ML!Kept(p, t)[l] = l \/ Len(ML!Kept(p, t)[l]) < Len(l)
           /\ (\A i \in 1 .. Len(l) : ~ Goes(l[i], p, t)) => ML!Kept(p, t)[l] = l
<1> DEFINE N == Len(l)
<1>1. N \in Nat /\ \A i \in 1 .. N : l[i] \in Method
  OBVIOUS
<1>2. PICK g : /\ \A n \in 1 .. N : g[n] = IF Goes(l[n], p, t) THEN g[n - 1] ELSE Append(g[n - 1], l[n])
               /\ g[0] = <<>> /\ ML!Kept(p, t)[l] = g[N]
  BY KeptIs
<1> HIDE DEF N
<1> DEFINE R(n) == /\ g[n] \in Seq(Method) /\ Len(g[n]) <= n
                   /\ Len(g[n]) = n => \A i \in 1 .. n : g[n][i] = l[i]
                   /\ (\A i \in 1 .. n : ~ Goes(l[i], p, t)) => Len(g[n]) = n
           S == {n \in Nat : n <= N => R(n)}
<1>3. 0 \in S
  <2>1. <<>> \in Seq(Method) /\ Len(<<>>) = 0 /\ 1 .. 0 = {}
    OBVIOUS
  <2>2. g[0] \in Seq(Method) /\ Len(g[0]) = 0 /\ \A i \in 1 .. 0 : FALSE
    BY <1>2, <2>1
  <2>3. R(0)
    BY <2>2
  <2> HIDE DEF R
  <2> QED BY <2>3
<1>4. ASSUME NEW n \in S PROVE n + 1 \in S
  <2> SUFFICES ASSUME n + 1 <= N PROVE R(n + 1)
    OBVIOUS
  <2>1. n \in Nat /\ n + 1 \in 1 .. N /\ (n + 1) - 1 = n /\ l[n + 1] \in Method
    BY <1>1
  <2>2. R(n)
    BY <1>1, <2>1
  <2>3. CASE Goes(l[n + 1], p, t)
    <3>1. g[n + 1] = g[n]
      BY <1>2, <2>1, <2>3
    <3>2. Len(g[n + 1]) # n + 1 /\ Len(g[n + 1]) <= n + 1
      BY <2>1, <2>2, <3>1
    <3> QED BY <2>1, <2>2, <2>3, <3>1, <3>2
  <2>4. CASE ~ Goes(l[n + 1], p, t)
    <3>1. g[n + 1] = Append(g[n], l[n + 1])
      BY <1>2, <2>1, <2>4
    <3>2. /\ g[n + 1] \in Seq(Method) /\ Len(g[n + 1]) = Len(g[n]) + 1
          /\ \A i \in 1 .. Len(g[n]) : g[n + 1][i] = g[n][i]
          /\ g[n + 1][Len(g[n]) + 1] = l[n + 1]
      BY <2>1, <2>2, <3>1
    <3>3. Len(g[n + 1]) = n + 1 => \A i \in 1 .. n + 1 : g[n + 1][i] = l[i]
      <4> SUFFICES ASSUME Len(g[n + 1]) = n + 1, NEW i \in 1 .. n + 1 PROVE g[n + 1][i] = l[i]
        OBVIOUS
      <4>1. Len(g[n]) = n
        BY <2>1, <2>2, <3>2
      <4>2. i \in 1 .. n \/ i = n + 1
        BY <2>1
      <4> QED BY <2>2, <3>2, <4>1, <4>2
    <3>4. (\A i \in 1 .. n + 1 : ~ Goes(l[i], p, t)) => Len(g[n]) = n
      <4>1. \A i \in 1 .. n : i \in 1 .. n + 1
        BY <2>1
      <4> QED BY <2>2, <4>1
    <3> QED BY <2>1, <2>2, <3>2, <3>3, <3>4
  <2> QED BY <2>3, <2>4
<1> HIDE DEF R
<1>5. N \in S
  BY <1>1, <1>3, <1>4, Induction
<1>6. R(N)
  BY <1>1, <1>5
<1> USE DEF R
<1>7. Len(g[N]) = N => g[N] = l
  <2> SUFFICES ASSUME Len(g[N]) = N PROVE g[N] = l
    OBVIOUS
  <2>1. g[N] \in Seq(Method) /\ Len(g[N]) = Len(l) /\ \A i \in 1 .. Len(l) : g[N][i] = l[i]
    BY <1>6 DEF N
  <2> QED BY <2>1
<1> QED BY <1>1, <1>2, <1>6, <1>7 DEF N

(* What a deletion removes it also removes when some of it is gone. *)
LEMMA KeptWithout ==
    ASSUME NEW l \in Seq(Method), NEW p, NEW t, NEW k \in 1 .. Len(l), Goes(l[k], p, t),
           NEW w \in Seq(Method), Len(w) = Len(l) - 1,
           \A i \in 1 .. Len(w) : w[i] = IF i < k THEN l[i] ELSE l[i + 1]
    PROVE  ML!Kept(p, t)[w] = ML!Kept(p, t)[l]
<1> DEFINE N == Len(l)
<1>1. N \in Nat /\ k \in 1 .. N /\ Len(w) = N - 1
  OBVIOUS
<1>2. PICK g : /\ \A n \in 1 .. N : g[n] = IF Goes(l[n], p, t) THEN g[n - 1] ELSE Append(g[n - 1], l[n])
               /\ g[0] = <<>> /\ ML!Kept(p, t)[l] = g[N]
  BY KeptIs
<1>3. PICK e : /\ \A n \in 1 .. N - 1 : e[n] = IF Goes(w[n], p, t) THEN e[n - 1] ELSE Append(e[n - 1], w[n])
               /\ e[0] = <<>> /\ ML!Kept(p, t)[w] = e[N - 1]
  <2>1. PICK e : /\ \A n \in 1 .. Len(w) : e[n] = IF Goes(w[n], p, t) THEN e[n - 1] ELSE Append(e[n - 1], w[n])
                 /\ e[0] = <<>> /\ ML!Kept(p, t)[w] = e[Len(w)]
    BY KeptIs
  <2> QED BY <1>1, <2>1
<1>4. \A i \in 1 .. N - 1 : w[i] = IF i < k THEN l[i] ELSE l[i + 1]
  BY <1>1
<1> HIDE DEF N
<1> DEFINE R(n) == IF n < k THEN e[n] = g[n] ELSE e[n - 1] = g[n]
           S == {n \in Nat : n <= N => R(n)}
<1>5. 0 \in S
  BY <1>1, <1>2, <1>3
<1>6. ASSUME NEW n \in S PROVE n + 1 \in S
  <2> SUFFICES ASSUME n + 1 <= N PROVE R(n + 1)
    OBVIOUS
  <2>1. n \in Nat /\ n + 1 \in 1 .. N /\ (n + 1) - 1 = n
    BY <1>1
  <2>2. R(n)
    BY <1>1, <2>1
  <2>3. g[n + 1] = IF Goes(l[n + 1], p, t) THEN g[n] ELSE Append(g[n], l[n + 1])
    BY <1>2, <2>1
  <2>4. CASE n + 1 < k
    <3>1. n + 1 \in 1 .. N - 1 /\ n < k
      BY <1>1, <2>1, <2>4
    <3>2. w[n + 1] = l[n + 1]
      BY <1>4, <2>4, <3>1
    <3>3. e[n + 1] = IF Goes(w[n + 1], p, t) THEN e[n] ELSE Append(e[n], w[n + 1])
      BY <1>3, <2>1, <3>1
    <3> QED BY <2>2, <2>3, <2>4, <3>1, <3>2, <3>3
  <2>5. CASE n + 1 = k
    <3>1. Goes(l[n + 1], p, t) /\ n < k
      BY <2>1, <2>5
    <3> QED BY <1>1, <2>1, <2>2, <2>3, <2>5, <3>1
  <2>6. CASE n + 1 > k
    <3>1. n \in 1 .. N - 1 /\ ~ n < k /\ ~ n + 1 < k
      BY <1>1, <2>1, <2>6
    <3>2. w[n] = l[n + 1]
      BY <1>4, <3>1
    <3>3. e[n] = IF Goes(w[n], p, t) THEN e[n - 1] ELSE Append(e[n - 1], w[n])
      BY <1>3, <3>1
    <3> QED BY <2>1, <2>2, <2>3, <3>1, <3>2, <3>3
  <2> QED BY <1>1, <2>1, <2>4, <2>5, <2>6
<1> HIDE DEF R
<1>7. N \in S
  BY <1>1, <1>5, <1>6, Induction
<1>8. R(N)
  BY <1>1, <1>7
<1> QED BY <1>1, <1>2, <1>3, <1>8 DEF R

(* The methods of a list of cells. *)
LEMMA ListIs ==
    ASSUME NEW h \in [Cell -> LoMethod \union {NULL}], NEW f, NEW L, Linked(h, f, L)
    PROVE  /\ From(h, f) \in Seq(Method) /\ Len(From(h, f)) = Len(L)
           /\ \A i \in 1 .. Len(L) : From(h, f)[i] = Content(h, L[i])
<1> DEFINE n == Len(L)
<1>1. n \in Nat /\ \A i \in 1 .. n : Content(h, L[i]) \in Method
  BY DEF Linked, LoMethod, Content, Method
<1>2. From(h, f) = [i \in 1 .. n - 1 + 1 |-> Content(h, L[i + 1 - 1])]
  BY FromIs DEF Rest
<1> HIDE DEF n
<1>3. n - 1 + 1 = n /\ \A i \in 1 .. n : i + 1 - 1 = i
  BY <1>1
<1>4. From(h, f) = [i \in 1 .. n |-> Content(h, L[i])]
  BY <1>2, <1>3
<1>5. [i \in 1 .. n |-> Content(h, L[i])] \in [1 .. n -> Method]
  BY <1>1
<1>6. From(h, f) \in Seq(Method) /\ Len(From(h, f)) = n
  BY <1>1, <1>4, <1>5
<1> QED BY <1>4, <1>6 DEF n

(* The module managers' methods are a list. *)
LEMMA InitIs == ASSUME Init PROVE ML!Init
<1>1. PICK L : Good(L)
  BY InitGood
<1>2. Methods \in Seq(Method)
  BY <1>1, ListIs DEF Good, ListGood, Methods
<1>3. wpc = "next"
  BY DEF Init
<1> QED BY <1>2, <1>3 DEF ML!Init, Promised

(* No step of the UDP thread and none of a module touches the list. *)
LEMMA OthersKeep ==
    ASSUME UNCHANGED <<heap, first, wpc>>, wpc = "next" \/ UNCHANGED <<todo, who>>
    PROVE  UNCHANGED Promised
BY DEF Promised, Methods

(* lo_server_add_method appends one method. *)
LEMMA AddImplements ==
    ASSUME NEW L, Good(L), addMethod PROVE ML!Next
<1>1. PICK c \in Cell : Adds(L, c)
  BY AddIs
<1>2. wpc = "next" /\ wpc' = "next"
  BY DEF addMethod, Statement1, delete
<1>3. heap \in [Cell -> LoMethod \union {NULL}] /\ Linked(heap, first, L) /\ heap' \in [Cell -> LoMethod \union {NULL}]
      /\ Linked(heap', first', Append(L, c)) /\ L \in Seq(Cell)
  BY <1>1 DEF Good, ListGood, Linked, Adds
<1> DEFINE l == From(heap, first)
           k == From(heap', first')
           m == Content(heap', c)
<1>4. /\ l \in Seq(Method) /\ Len(l) = Len(L)
      /\ \A i \in 1 .. Len(L) : l[i] = Content(heap, L[i])
  BY <1>3, ListIs
<1>5. /\ k \in Seq(Method) /\ Len(k) = Len(Append(L, c))
      /\ \A i \in 1 .. Len(Append(L, c)) : k[i] = Content(heap', Append(L, c)[i])
  BY <1>3, ListIs
<1>6. Promised = l /\ Promised' = k
  BY <1>2 DEF Promised, Methods
<1> HIDE DEF l, k
<1>7. Len(L) \in Nat /\ Len(Append(L, c)) = Len(L) + 1 /\ Append(L, c)[Len(L) + 1] = c
      /\ \A i \in 1 .. Len(L) : Append(L, c)[i] = L[i] /\ L[i] \in Cell /\ heap[L[i]] # NULL
  BY <1>3 DEF Linked
<1>8. Len(k) = Len(l) + 1 /\ k[Len(l) + 1] = m
  <2>1. Len(L) + 1 \in 1 .. Len(Append(L, c))
    BY <1>7
  <2> QED BY <1>4, <1>5, <1>7, <2>1
<1>9. m \in Method
  <2>1. Len(l) + 1 \in 1 .. Len(k)
    BY <1>4, <1>8
  <2> QED BY <1>5, <1>8, <2>1
<1>10. ASSUME NEW i \in 1 .. Len(l) PROVE k[i] = l[i]
  <2>1. i \in 1 .. Len(L) /\ i \in 1 .. Len(Append(L, c)) /\ L[i] # c
    BY <1>1, <1>4, <1>7 DEF Adds
  <2>2. SameCell(heap, heap', L[i])
    BY <1>1, <1>7, <2>1 DEF Adds
  <2>3. k[i] = Content(heap', L[i]) /\ l[i] = Content(heap, L[i])
    BY <1>4, <1>5, <1>7, <2>1
  <2> QED BY <2>2, <2>3 DEF SameCell, Content
<1> HIDE DEF m
<1>11. k = Append(l, m)
  <2>1. Append(l, m) \in Seq(Method) /\ Len(Append(l, m)) = Len(l) + 1 /\ Append(l, m)[Len(l) + 1] = m
        /\ \A i \in 1 .. Len(l) : Append(l, m)[i] = l[i]
    BY <1>4, <1>9
  <2>2. \A i \in 1 .. Len(k) : k[i] = Append(l, m)[i]
    <3> SUFFICES ASSUME NEW i \in 1 .. Len(k) PROVE k[i] = Append(l, m)[i]
      OBVIOUS
    <3>1. i \in 1 .. Len(l) \/ i = Len(l) + 1
      BY <1>4, <1>8
    <3> QED BY <1>8, <1>10, <2>1, <3>1
  <2> QED BY <1>5, <1>8, <2>1, <2>2
<1>12. Len(k) > Len(l)
  BY <1>4, <1>8
<1> QED BY <1>6, <1>9, <1>11, <1>12 DEF ML!Next, ML!Add

(* The whole deletion takes effect when it begins. *)
LEMMA DelImplements ==
    ASSUME NEW L, Good(L), delMethod PROVE [ML!Next]_Promised
<1>1. wpc = "next" /\ wpc' = "walk" /\ UNCHANGED <<heap, first, who, todo>> /\ todo # <<>> /\ todo[1][1] = "delete"
  BY DEF delMethod, Statement1, list, life
<1> DEFINE l == From(heap, first)
<1>2. l \in Seq(Method)
  BY ListIs DEF Good, ListGood
<1>3. PICK p, t : p = who /\ t = todo[1][2] /\ p \in Path /\ t \in Named
  <2>1. who \in Module /\ todo[1] \in Statement
    <3>1. todo \in Seq(Statement) /\ Len(todo) # 0
      BY <1>1, EmptyIs DEF Good, LifeGood
    <3>2. 1 \in 1 .. Len(todo)
      BY <3>1
    <3> QED BY <1>1, <3>1, <3>2 DEF Good, LifeGood
  <2>2. PICK t \in Named : todo[1] = <<"delete", t>>
    BY <1>1, <2>1 DEF Statement
  <2>3. todo[1][2] = t
    BY <2>2
  <2> QED BY <2>1, <2>2, <2>3 DEF Path
<1>4. Promised = l /\ Promised' = ML!Kept(p, t)[l]
  BY <1>1, <1>3 DEF Promised, Methods, All!Kept, ML!Kept
<1> HIDE DEF l
<1>5. ML!Kept(p, t)[l] = l \/ Len(ML!Kept(p, t)[l]) < Len(l)
  BY <1>2, KeptShorter
<1> QED BY <1>3, <1>4, <1>5 DEF ML!Next, ML!Delete

(* What is taken out of the list is what the deletion removes. *)
LEMMA UnlinkImplements ==
    ASSUME NEW L, Good(L), Unlink PROVE UNCHANGED Promised
<1>1. wpc = "walk" /\ wpc' = "free" /\ UNCHANGED <<who, todo>> /\ Deleting(it)
  BY DEF Unlink, life
<1>2. PICK k \in 1 .. Len(L) : Cuts(L, k)
  BY UnlinkIs
<1>3. heap \in [Cell -> LoMethod \union {NULL}] /\ Linked(heap, first, L) /\ heap' \in [Cell -> LoMethod \union {NULL}]
      /\ Linked(heap', first', Without(L, k)) /\ L \in Seq(Cell) /\ Len(L) \in Nat
  BY <1>2 DEF Good, ListGood, Linked, Cuts
<1> DEFINE l == From(heap, first)
           w == From(heap', first')
<1>4. /\ l \in Seq(Method) /\ Len(l) = Len(L)
      /\ \A i \in 1 .. Len(L) : l[i] = Content(heap, L[i])
  BY <1>3, ListIs
<1>5. /\ w \in Seq(Method) /\ Len(w) = Len(Without(L, k))
      /\ \A i \in 1 .. Len(Without(L, k)) : w[i] = Content(heap', Without(L, k)[i])
  BY <1>3, ListIs
<1>6. PICK p, t : p = who /\ t = todo[1][2]
  OBVIOUS
<1>7. Promised = ML!Kept(p, t)[l] /\ Promised' = ML!Kept(p, t)[w]
  BY <1>1, <1>6 DEF Promised, Methods, All!Kept, ML!Kept
<1> HIDE DEF l, w
<1>8. Goes(l[k], p, t) /\ k \in 1 .. Len(l)
  <2>1. l[k] = Content(heap, it)
    BY <1>2, <1>4 DEF Cuts
  <2> QED BY <1>1, <1>4, <1>6, <2>1 DEF Deleting, Goes, Content
<1>9. /\ Len(Without(L, k)) = Len(L) - 1
      /\ \A i \in 1 .. Len(L) - 1 : Without(L, k)[i] = IF i < k THEN L[i] ELSE L[i + 1]
  BY <1>3, WithoutIs
<1>10. Len(w) = Len(l) - 1
  BY <1>4, <1>5, <1>9
<1>11. ASSUME NEW i \in 1 .. Len(w) PROVE w[i] = IF i < k THEN l[i] ELSE l[i + 1]
  <2> DEFINE j == IF i < k THEN i ELSE i + 1
  <2>1. j \in 1 .. Len(L) /\ i \in 1 .. Len(L) - 1 /\ i \in 1 .. Len(Without(L, k))
    BY <1>3, <1>5, <1>9
  <2>2. Without(L, k)[i] = L[j]
    BY <1>9, <2>1
  <2>3. l[j] = IF i < k THEN l[i] ELSE l[i + 1]
    OBVIOUS
  <2> HIDE DEF j
  <2>4. w[i] = Content(heap', L[j]) /\ l[j] = Content(heap, L[j])
    BY <1>4, <1>5, <2>1, <2>2
  <2>5. SameCell(heap, heap', L[j])
    <3>1. L[j] \in Cell /\ heap[L[j]] # NULL
      BY <1>3, <2>1 DEF Linked
    <3> QED BY <1>2, <3>1 DEF Cuts
  <2> QED BY <2>3, <2>4, <2>5 DEF SameCell, Content
<1>12. ML!Kept(p, t)[w] = ML!Kept(p, t)[l]
  BY <1>4, <1>5, <1>8, <1>10, <1>11, KeptWithout
<1> QED BY <1>7, <1>12

(* The cell that is freed is no longer in the list. *)
LEMMA FreeImplements ==
    ASSUME NEW L, Good(L), FreeMethod PROVE UNCHANGED Promised
<1>1. /\ wpc = "free" /\ wpc' = "walk" /\ UNCHANGED <<first, who, todo>> /\ heap' = [heap EXCEPT ![it] = NULL]
  BY DEF FreeMethod, life
<1>2. /\ heap \in [Cell -> LoMethod \union {NULL}] /\ Linked(heap, first, L) /\ L \in Seq(Cell) /\ Len(L) \in Nat
      /\ it \in Cell /\ it \notin Elems(L)
  BY <1>1 DEF Good, ListGood, Linked
<1>3. /\ heap' \in [Cell -> LoMethod \union {NULL}] /\ Linked(heap', first, L)
      /\ \A d \in Cell \ {it} : heap'[d] = heap[d]
  BY <1>1, <1>2, Freed
<1> DEFINE l == From(heap, first)
           w == From(heap', first)
<1>4. /\ l \in Seq(Method) /\ Len(l) = Len(L)
      /\ \A i \in 1 .. Len(L) : l[i] = Content(heap, L[i])
  BY <1>2, ListIs
<1>5. /\ w \in Seq(Method) /\ Len(w) = Len(L)
      /\ \A i \in 1 .. Len(L) : w[i] = Content(heap', L[i])
  BY <1>3, ListIs
<1>6. Promised = All!Kept(who, todo[1][2])[l] /\ Promised' = All!Kept(who, todo[1][2])[w]
  BY <1>1 DEF Promised, Methods
<1> HIDE DEF l, w
<1>7. ASSUME NEW i \in 1 .. Len(L) PROVE w[i] = l[i]
  <2>1. L[i] \in Cell \ {it}
    BY <1>2 DEF Elems
  <2>2. heap'[L[i]] = heap[L[i]]
    BY <1>3, <2>1
  <2> QED BY <1>4, <1>5, <2>2 DEF Content
<1>8. w = l
  BY <1>4, <1>5, <1>7
<1> QED BY <1>6, <1>8

(* When the walk of a deletion ends, nothing is left to delete. *)
LEMMA EndImplements ==
    ASSUME NEW L, Good(L), EndDelete PROVE UNCHANGED Promised
<1>1. wpc = "walk" /\ wpc' = "next" /\ it = NULL /\ UNCHANGED <<heap, first>>
  BY DEF EndDelete, list
<1>2. /\ heap \in [Cell -> LoMethod \union {NULL}] /\ Linked(heap, first, L) /\ Len(L) \in Nat
      /\ NULL \notin Cell /\ \A i \in 1 .. Len(L) : L[i] \in Cell
  BY HeapIs, CellFacts DEF Good, ListGood
<1>3. PICK k \in 1 .. Len(L) + 1 : Stands(L, k)
  BY <1>1, StandsIs
<1>4. k = Len(L) + 1
  BY <1>1, <1>2, <1>3 DEF Stands
<1>5. \A i \in 1 .. Len(L) : ~ Deleting(L[i])
  BY <1>2, <1>3, <1>4 DEF Stands
<1> DEFINE l == From(heap, first)
<1>6. /\ l \in Seq(Method) /\ Len(l) = Len(L)
      /\ \A i \in 1 .. Len(L) : l[i] = Content(heap, L[i])
  BY <1>2, ListIs
<1>7. PICK p, t : p = who /\ t = todo[1][2]
  OBVIOUS
<1>8. Promised = ML!Kept(p, t)[l] /\ Promised' = l
  BY <1>1, <1>7 DEF Promised, Methods, All!Kept, ML!Kept
<1> HIDE DEF l
<1>9. \A i \in 1 .. Len(l) : ~ Goes(l[i], p, t)
  <2> SUFFICES ASSUME NEW i \in 1 .. Len(l), Goes(l[i], p, t) PROVE FALSE
    OBVIOUS
  <2>1. i \in 1 .. Len(L) /\ l[i] = Content(heap, L[i])
    BY <1>6
  <2>2. Content(heap, L[i]).path = heap[L[i]].path /\ Content(heap, L[i]).types = heap[L[i]].types
    BY DEF Content
  <2>3. Deleting(L[i])
    BY <1>7, <2>1, <2>2 DEF Deleting, Goes
  <2> QED BY <1>5, <2>1, <2>3
<1> QED BY <1>6, <1>8, <1>9, KeptShorter

(* Every step is a step of MethodList or leaves the list promised. *)
LEMMA StepImplements ==
    ASSUME NEW L, Good(L), [Next]_vars PROVE [ML!Next]_Promised
<1>1. CASE TCP
  <2>1. ASSUME NEW m \in Module, Create(m) \/ Remove(m) PROVE UNCHANGED Promised
    <3>1. UNCHANGED <<heap, first, wpc>> /\ todo = <<>>
      BY <2>1 DEF Create, Remove, list, delete
    <3>2. wpc = "next"
      BY <3>1 DEF Good, LifeGood
    <3> QED BY <3>1, <3>2, OthersKeep
  <2>2. ASSUME InitService \/ FreeBuffers \/ FreeService PROVE UNCHANGED Promised
    <3>1. UNCHANGED <<heap, first, wpc>> /\ wpc = "next"
      BY <2>2 DEF InitService, FreeBuffers, FreeService, Statement1, list, delete
    <3> QED BY <3>1, OthersKeep
  <2>3. ASSUME Pass PROVE UNCHANGED Promised
    <3>1. UNCHANGED <<heap, first, wpc, todo, who>>
      BY <2>3 DEF Pass, list, life
    <3> QED BY <3>1, OthersKeep
  <2> QED BY <1>1, <2>1, <2>2, <2>3, AddImplements, DelImplements, UnlinkImplements, FreeImplements, EndImplements
          DEF TCP
<1>2. CASE UDP
  <2>1. UNCHANGED <<heap, first, wpc, todo, who>>
    BY <1>2 DEF UDP, Receive, Test, Handler, Advance, ReadFreed, EndDispatch, list, life, delete
  <2> QED BY <2>1, OthersKeep
<1>3. CASE UNCHANGED vars
  <2>1. UNCHANGED <<heap, first, wpc, todo, who>>
    BY <1>3 DEF vars, list, life, delete
  <2> QED BY <2>1, OthersKeep
<1> QED BY <1>1, <1>2, <1>3 DEF Next

(* The cells, with what threads do to them one assignment at a time, are   *)
(* the list of methods liblo promises: a method that is added comes last,  *)
(* and a deletion, from its first step on, is as if it were done.          *)
THEOREM ListRefinement == Spec => ImplementsMethodList
<1>1. (\E L : Good(L)) /\ [Next]_vars => [ML!Next]_Promised
  BY StepImplements
<1> QED BY <1>1, InitIs, Invariant, PTL DEF Spec, ImplementsMethodList, ML!Spec
=============================================================================
