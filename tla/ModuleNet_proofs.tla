-------------------------- MODULE ModuleNet_proofs --------------------------
(***************************************************************************)
(* Proofs about ModuleNet.tla for every set of machines, kinds and         *)
(* managers, every number of ids, of calls and of restarts.                *)
(*                                                                         *)
(* An id that nothing disturbed goes through a life (Life): its order to   *)
(* create waits; the module exists and its report waits; it exists and has *)
(* its token; it is gone and one report or two wait; all is gone.  Its     *)
(* messages are on their way between the coordinator and the one manager   *)
(* that was asked (Addressed), and its connections are ordered only when   *)
(* the token has come (Orders).                                            *)
(***************************************************************************)
EXTENDS ModuleNet, SequenceTheorems, TLAPS

(* The messages a machine gets *)
Order(h) == [op : {"create", "delete"}, kind : {k \in Kind : <<h, k>> \in Mgr}, id : Id]
              \union [op : {"add", "remove"}, kind : Kind, id : Id, dest : Place \X Id]
Notice   == [op : {"set", "unset"}, kind : Kind, id : Id, from : Host \ {CoHost}]
Mail(h)  == IF h = CoHost THEN Notice ELSE Order(h)

Mailed(q) == DOMAIN q = Host /\ \A h \in Host : q[h] \in Seq(Mail(h))

TypeInv ==
    /\ TypeOK /\ restarts \in Nat
    /\ nodes \in [DOMAIN nodes -> SUBSET (Place \X Id)]
    /\ \A id \in Id : Known(id) => mtknMap[id] \in Token /\ mtknMap[id].at[1] # CoHost
    /\ Mailed(inbox)

(* An inbox q: a message about id with op is in it; of some, one at most;  *)
(* set comes before unset; a module with routes will have route d.         *)
About(m, id, op) == m.id = id /\ m.op = op
Holds(q, id, op) == \E i \in 1 .. Len(q) : About(q[i], id, op)
Once(q, id) ==
    \A op \in {"create", "set", "unset"} : \A i, j \in 1 .. Len(q) :
        About(q[i], id, op) /\ About(q[j], id, op) => i = j
InOrder(q, id) ==
    \A i, j \in 1 .. Len(q) : About(q[i], id, "set") /\ About(q[j], id, "unset") => i < j
Routing(m, id, d) == m.id = id /\ m.op \in {"add", "remove"} /\ m.dest = d
Becomes(q, id, d, routes) ==
    \/ d \in routes /\ \A i \in 1 .. Len(q) : ~ Routing(q[i], id, d)
    \/ \E i \in 1 .. Len(q) : /\ Routing(q[i], id, d) /\ q[i].op = "add"
                              /\ \A j \in i + 1 .. Len(q) : ~ Routing(q[j], id, d)

HasIn(q, id, op) == \E h \in Host : Holds(q[h], id, op)
Has(id, op)      == HasIn(inbox, id, op)
Exists(id)       == \E n \in DOMAIN nodes : n[2] = id

Addressed(id) ==
    /\ \A h \in Host : \A i \in 1 .. Len(inbox[h]) :
          LET m == inbox[h][i] IN
          m.id = id => /\ mListIDArray[id] # NULL
                       /\ mListIDArray[id] = IF h = CoHost THEN <<m.from, m.kind>> ELSE <<h, m.kind>>
                       /\ m.op \in {"delete", "unset"} => id \in doomed
    /\ \A n \in DOMAIN nodes : n[2] = id => mListIDArray[id] # NULL /\ n[1] = mListIDArray[id]
    /\ Known(id) => /\ mListIDArray[id] # NULL
                    /\ mtknMap[id] = [at |-> mListIDArray[id], info |-> mListIDArray[id]]

Life(id) ==
    /\ \A h \in Host : Once(inbox[h], id) /\ InOrder(inbox[h], id)
    /\ Has(id, "create") => ~ Exists(id) /\ ~ Known(id) /\ ~ Has(id, "set") /\ ~ Has(id, "unset")
    /\ Has(id, "unset") => ~ Exists(id)
    /\ Has(id, "set") => ~ Known(id)
    /\ Exists(id) \/ Has(id, "unset") <=> Known(id) \/ Has(id, "set")

Orders(id) ==
    /\ Has(id, "create") \/ Has(id, "set") =>
          /\ ~ Has(id, "add") /\ ~ Has(id, "remove")
          /\ \A n \in DOMAIN nodes : n[2] = id => nodes[n] = {}
          /\ \A d \in Place \X Id : <<id, d>> \notin wanted
    /\ Known(id) => \A n \in DOMAIN nodes : n[2] = id =>
          \A d \in Place \X Id :
              <<id, d>> \in wanted <=> Becomes(inbox[n[1][1]], id, d, nodes[n])

IdInv(id) == Addressed(id) /\ Life(id) /\ Orders(id)

(* Something of the module is there: its token, itself or a message. *)
Mentioned(id) == \/ Known(id) \/ Exists(id)
                 \/ \E h \in Host : \E i \in 1 .. Len(inbox[h]) : inbox[h][i].id = id

(* Why the coordinator's process may die. *)
CallInv ==
    /\ call # NULL => \A x \in {call.from, call.to} : Known(x) \/ x \in doomed \union disturbed
    /\ crash = "connect" => call # NULL
    /\ restarts = 0 => \A id \in Id : Mentioned(id) => mListIDArray[id] # NULL
    /\ CrashExplained

IInv == TypeInv /\ CallInv /\ \A id \in Id \ disturbed : IdInv(id)

-----------------------------------------------------------------------------
(* Inboxes *)

LEMMA TailOf ==
    ASSUME NEW S, NEW q \in Seq(S), q # <<>>
    PROVE  /\ Tail(q) \in Seq(S) /\ Len(q) \in Nat \ {0} /\ Len(Tail(q)) = Len(q) - 1
           /\ Head(q) = q[1] /\ q[1] \in S
           /\ \A i \in 1 .. Len(q) - 1 : Tail(q)[i] = q[i + 1]
  OBVIOUS

LEMMA AppendOf ==
    ASSUME NEW S, NEW q \in Seq(S), NEW m \in S
    PROVE  /\ Append(q, m) \in Seq(S) /\ Len(q) \in Nat /\ Len(Append(q, m)) = Len(q) + 1
           /\ Append(q, m)[Len(q) + 1] = m
           /\ \A i \in 1 .. Len(q) : Append(q, m)[i] = q[i]
  OBVIOUS

(* Nothing that concerns id happens between the inboxes q and r. *)
SameFor(q, r, id) ==
    /\ \A op : Holds(r, id, op) <=> Holds(q, id, op)
    /\ Once(q, id) => Once(r, id)
    /\ InOrder(q, id) => InOrder(r, id)
    /\ \A d, routes : Becomes(r, id, d, routes) <=> Becomes(q, id, d, routes)
    /\ \A i \in 1 .. Len(r) : r[i].id = id => \E j \in 1 .. Len(q) : q[j] = r[i]

LEMMA TailHolds ==
    ASSUME NEW S, NEW q \in Seq(S), q # <<>>, NEW id, NEW op
    PROVE  Holds(q, id, op) <=> About(Head(q), id, op) \/ Holds(Tail(q), id, op)
  <1> DEFINE n == Len(q)
             t == Tail(q)
  <1>1. n \in Nat \ {0} /\ Len(t) = n - 1 /\ Head(q) = q[1] /\ \A i \in 1 .. n - 1 : t[i] = q[i + 1]
    BY TailOf
  <1> HIDE DEF n, t
  <1>2. ASSUME NEW i \in 1 .. n, About(q[i], id, op)
        PROVE  About(q[1], id, op) \/ \E j \in 1 .. n - 1 : About(t[j], id, op)
    <2>1. CASE i = 1
      BY <1>2, <2>1
    <2>2. CASE i # 1
      <3>1. i - 1 \in 1 .. n - 1 /\ t[i - 1] = q[i]
        BY <1>1, <2>2
      <3> QED BY <1>2, <3>1
    <2> QED BY <2>1, <2>2
  <1>3. ASSUME NEW j \in 1 .. n - 1, About(t[j], id, op)
        PROVE  \E i \in 1 .. n : About(q[i], id, op)
    <2>1. j + 1 \in 1 .. n /\ t[j] = q[j + 1]
      BY <1>1
    <2> QED BY <1>3, <2>1
  <1>4. 1 \in 1 .. n
    BY <1>1
  <1>5. Holds(q, id, op) <=> \E i \in 1 .. n : About(q[i], id, op)
    BY DEF Holds, n
  <1>6. Holds(t, id, op) <=> \E i \in 1 .. n - 1 : About(t[i], id, op)
    BY <1>1 DEF Holds
  <1> QED BY <1>1, <1>2, <1>3, <1>4, <1>5, <1>6 DEF t

LEMMA AppendHolds ==
    ASSUME NEW S, NEW q \in Seq(S), NEW m \in S, NEW id, NEW op
    PROVE  Holds(Append(q, m), id, op) <=> About(m, id, op) \/ Holds(q, id, op)
  <1> DEFINE n == Len(q)
             a == Append(q, m)
  <1>1. n \in Nat /\ Len(a) = n + 1 /\ a[n + 1] = m /\ \A i \in 1 .. n : a[i] = q[i]
    BY AppendOf
  <1>2. Holds(q, id, op) <=> \E i \in 1 .. n : About(q[i], id, op)
    BY DEF Holds
  <1>3. Holds(a, id, op) <=> \E i \in 1 .. n + 1 : About(a[i], id, op)
    BY <1>1 DEF Holds
  <1> HIDE DEF n, a
  <1>4. n + 1 \in 1 .. n + 1 /\ \A i \in 1 .. n : i \in 1 .. n + 1
    BY <1>1
  <1>5. \A i \in 1 .. n + 1 : i = n + 1 \/ i \in 1 .. n
    BY <1>1
  <1>6. ASSUME NEW i \in 1 .. n + 1, About(a[i], id, op)
        PROVE  About(m, id, op) \/ \E j \in 1 .. n : About(q[j], id, op)
    BY <1>1, <1>5, <1>6
  <1>7. ASSUME About(m, id, op) \/ \E j \in 1 .. n : About(q[j], id, op)
        PROVE  \E i \in 1 .. n + 1 : About(a[i], id, op)
    BY <1>1, <1>4, <1>7
  <1> QED BY <1>2, <1>3, <1>6, <1>7 DEF a

(* Taking the first message leaves one at most, and in order. *)
LEMMA TailOnce ==
    ASSUME NEW S, NEW q \in Seq(S), q # <<>>, NEW id
    PROVE  /\ Once(q, id) => Once(Tail(q), id)
           /\ Once(q, id) => \A op \in {"create", "set", "unset"} :
                 About(Head(q), id, op) => ~ Holds(Tail(q), id, op)
           /\ InOrder(q, id) => InOrder(Tail(q), id)
           /\ InOrder(q, id) /\ About(Head(q), id, "unset") => ~ Holds(Tail(q), id, "set")
  <1> DEFINE n == Len(q)
             t == Tail(q)
  <1>1. n \in Nat \ {0} /\ Len(t) = n - 1 /\ Head(q) = q[1] /\ \A i \in 1 .. n - 1 : t[i] = q[i + 1]
    BY TailOf
  <1>2. /\ Once(q, id) <=> \A op \in {"create", "set", "unset"} : \A i, j \in 1 .. n :
                              About(q[i], id, op) /\ About(q[j], id, op) => i = j
        /\ Once(t, id) <=> \A op \in {"create", "set", "unset"} : \A i, j \in 1 .. n - 1 :
                              About(t[i], id, op) /\ About(t[j], id, op) => i = j
        /\ InOrder(q, id) <=> \A i, j \in 1 .. n : About(q[i], id, "set") /\ About(q[j], id, "unset") => i < j
        /\ InOrder(t, id) <=> \A i, j \in 1 .. n - 1 : About(t[i], id, "set") /\ About(t[j], id, "unset") => i < j
        /\ \A op : Holds(t, id, op) <=> \E i \in 1 .. n - 1 : About(t[i], id, op)
    BY <1>1 DEF Once, InOrder, Holds
  <1> HIDE DEF n, t
  <1>3. \A i \in 1 .. n - 1 : i + 1 \in 1 .. n /\ t[i] = q[i + 1] /\ i + 1 # 1
    BY <1>1
  <1>4. 1 \in 1 .. n
    BY <1>1
  <1>5. ASSUME Once(q, id) PROVE Once(t, id)
    <2>1. ASSUME NEW op \in {"create", "set", "unset"}, NEW i \in 1 .. n - 1, NEW j \in 1 .. n - 1,
                 About(t[i], id, op), About(t[j], id, op)
          PROVE  i = j
      <3>1. i + 1 = j + 1
        BY <1>2, <1>3, <1>5, <2>1
      <3> QED BY <3>1
    <2> QED BY <1>2, <2>1
  <1>6. ASSUME Once(q, id), NEW op \in {"create", "set", "unset"}, About(q[1], id, op)
        PROVE  ~ Holds(t, id, op)
    BY <1>2, <1>3, <1>4, <1>6
  <1>7. ASSUME InOrder(q, id) PROVE InOrder(t, id)
    <2>1. ASSUME NEW i \in 1 .. n - 1, NEW j \in 1 .. n - 1, About(t[i], id, "set"), About(t[j], id, "unset")
          PROVE  i < j
      <3>1. i + 1 < j + 1
        BY <1>2, <1>3, <1>7, <2>1
      <3> QED BY <3>1
    <2> QED BY <1>2, <2>1
  <1>8. ASSUME InOrder(q, id), About(q[1], id, "unset") PROVE ~ Holds(t, id, "set")
    <2>1. ASSUME NEW i \in 1 .. n - 1, About(t[i], id, "set") PROVE FALSE
      <3>1. i + 1 < 1
        BY <1>2, <1>3, <1>4, <1>8, <2>1
      <3> QED BY <3>1
    <2> QED BY <1>2, <2>1
  <1> QED BY <1>1, <1>5, <1>6, <1>7, <1>8 DEF t

(* So does a new message, if there is none like it, and none that must     *)
(* come later.                                                             *)
LEMMA AppendOnce ==
    ASSUME NEW S, NEW q \in Seq(S), NEW m \in S, NEW id
    PROVE  /\ Once(q, id) /\ (m.id = id /\ m.op \in {"create", "set", "unset"} => ~ Holds(q, id, m.op))
                 => Once(Append(q, m), id)
           /\ InOrder(q, id) /\ (About(m, id, "set") => ~ Holds(q, id, "unset"))
                 => InOrder(Append(q, m), id)
  <1> DEFINE n == Len(q)
             a == Append(q, m)
  <1>1. n \in Nat /\ Len(a) = n + 1 /\ a[n + 1] = m /\ \A i \in 1 .. n : a[i] = q[i]
    BY AppendOf
  <1>2. /\ Once(q, id) <=> \A op \in {"create", "set", "unset"} : \A i, j \in 1 .. n :
                              About(q[i], id, op) /\ About(q[j], id, op) => i = j
        /\ Once(a, id) <=> \A op \in {"create", "set", "unset"} : \A i, j \in 1 .. n + 1 :
                              About(a[i], id, op) /\ About(a[j], id, op) => i = j
        /\ InOrder(q, id) <=> \A i, j \in 1 .. n : About(q[i], id, "set") /\ About(q[j], id, "unset") => i < j
        /\ InOrder(a, id) <=> \A i, j \in 1 .. n + 1 : About(a[i], id, "set") /\ About(a[j], id, "unset") => i < j
        /\ \A op : Holds(q, id, op) <=> \E i \in 1 .. n : About(q[i], id, op)
    BY <1>1 DEF Once, InOrder, Holds
  <1> HIDE DEF n, a
  <1>3. \A i \in 1 .. n + 1 : \/ i \in 1 .. n /\ a[i] = q[i] /\ i < n + 1
                              \/ i = n + 1 /\ a[i] = m
    BY <1>1
  <1>4. ASSUME Once(q, id), m.id = id /\ m.op \in {"create", "set", "unset"} => ~ Holds(q, id, m.op)
        PROVE  Once(a, id)
    <2>1. ASSUME NEW op \in {"create", "set", "unset"}, NEW i \in 1 .. n + 1, NEW j \in 1 .. n + 1,
                 About(a[i], id, op), About(a[j], id, op)
          PROVE  i = j
      <3>1. About(m, id, op) => \A k \in 1 .. n : ~ About(q[k], id, op)
        BY <1>2, <1>4, <2>1 DEF About
      <3>2. CASE i \in 1 .. n /\ a[i] = q[i] /\ j \in 1 .. n /\ a[j] = q[j]
        BY <1>2, <1>4, <2>1, <3>2
      <3> QED BY <1>3, <2>1, <3>1, <3>2
    <2> QED BY <1>2, <2>1
  <1>5. ASSUME InOrder(q, id), About(m, id, "set") => ~ Holds(q, id, "unset")
        PROVE  InOrder(a, id)
    <2>1. ASSUME NEW i \in 1 .. n + 1, NEW j \in 1 .. n + 1, About(a[i], id, "set"), About(a[j], id, "unset")
          PROVE  i < j
      <3>1. ~ (About(m, id, "set") /\ About(m, id, "unset"))
        BY DEF About
      <3>2. CASE i \in 1 .. n /\ a[i] = q[i] /\ j \in 1 .. n /\ a[j] = q[j]
        BY <1>2, <1>5, <2>1, <3>2
      <3>3. CASE i = n + 1 /\ a[i] = m
        BY <1>2, <1>3, <1>5, <2>1, <3>1, <3>3
      <3>4. CASE i \in 1 .. n /\ j = n + 1
        BY <1>1, <3>4
      <3> QED BY <1>3, <3>2, <3>3, <3>4
    <2> QED BY <1>2, <2>1
  <1> QED BY <1>4, <1>5 DEF a

Applied(m, id, d, routes) ==
    IF ~ Routing(m, id, d) THEN routes
    ELSE IF m.op = "add" THEN routes \union {d} ELSE routes \ {d}

(* A route becomes what the orders make of it, one after the other. *)
LEMMA TailBecomes ==
    ASSUME NEW S, NEW q \in Seq(S), q # <<>>, NEW id, NEW d, NEW routes
    PROVE  Becomes(q, id, d, routes) <=> Becomes(Tail(q), id, d, Applied(Head(q), id, d, routes))
  <1> DEFINE n == Len(q)
             t == Tail(q)
             r == Applied(q[1], id, d, routes)
  <1>1. n \in Nat \ {0} /\ Len(t) = n - 1 /\ Head(q) = q[1] /\ \A i \in 1 .. n - 1 : t[i] = q[i + 1]
    BY TailOf
  <1>2. Becomes(q, id, d, routes) <=>
          \/ d \in routes /\ \A i \in 1 .. n : ~ Routing(q[i], id, d)
          \/ \E i \in 1 .. n : Routing(q[i], id, d) /\ q[i].op = "add"
                               /\ \A j \in i + 1 .. n : ~ Routing(q[j], id, d)
    BY DEF Becomes
  <1>3. Becomes(t, id, d, r) <=>
          \/ d \in r /\ \A i \in 1 .. n - 1 : ~ Routing(t[i], id, d)
          \/ \E i \in 1 .. n - 1 : Routing(t[i], id, d) /\ t[i].op = "add"
                               /\ \A j \in i + 1 .. n - 1 : ~ Routing(t[j], id, d)
    BY <1>1 DEF Becomes
  <1>4. Becomes(Tail(q), id, d, Applied(Head(q), id, d, routes)) <=> Becomes(t, id, d, r)
    BY <1>1
  <1> HIDE DEF n, t
  <1>5. /\ \A i \in 1 .. n - 1 : i + 1 \in 1 .. n /\ t[i] = q[i + 1]
        /\ \A i \in 1 .. n : i = 1 \/ (i - 1 \in 1 .. n - 1 /\ t[i - 1] = q[i])
        /\ 1 \in 1 .. n
    BY <1>1
  <1>6. (\A i \in 1 .. n : ~ Routing(q[i], id, d))
          <=> ~ Routing(q[1], id, d) /\ \A i \in 1 .. n - 1 : ~ Routing(t[i], id, d)
    BY <1>5
  <1>7. \A i \in 1 .. n - 1 : (\A j \in i + 1 .. n - 1 : ~ Routing(t[j], id, d))
                                 <=> \A j \in (i + 1) + 1 .. n : ~ Routing(q[j], id, d)
    <2> TAKE i \in 1 .. n - 1
    <2>1. ASSUME \A j \in i + 1 .. n - 1 : ~ Routing(t[j], id, d), NEW j \in (i + 1) + 1 .. n
          PROVE  ~ Routing(q[j], id, d)
      <3>1. j - 1 \in i + 1 .. n - 1 /\ j \in 1 .. n /\ j # 1
        BY <1>1
      <3> QED BY <1>5, <2>1, <3>1
    <2>2. ASSUME \A j \in (i + 1) + 1 .. n : ~ Routing(q[j], id, d), NEW j \in i + 1 .. n - 1
          PROVE  ~ Routing(t[j], id, d)
      <3>1. j + 1 \in (i + 1) + 1 .. n /\ j \in 1 .. n - 1
        BY <1>1
      <3> QED BY <1>5, <2>2, <3>1
    <2> QED BY <2>1, <2>2
  <1>8. (\A j \in 1 + 1 .. n : ~ Routing(q[j], id, d)) <=> \A i \in 1 .. n - 1 : ~ Routing(t[i], id, d)
    <2>1. ASSUME \A i \in 1 .. n - 1 : ~ Routing(t[i], id, d), NEW j \in 1 + 1 .. n
          PROVE  ~ Routing(q[j], id, d)
      <3>1. j \in 1 .. n /\ j # 1
        BY <1>1
      <3> QED BY <1>5, <2>1, <3>1
    <2>2. ASSUME \A j \in 1 + 1 .. n : ~ Routing(q[j], id, d), NEW i \in 1 .. n - 1
          PROVE  ~ Routing(t[i], id, d)
      <3>1. i + 1 \in 1 + 1 .. n
        BY <1>1
      <3> QED BY <1>5, <2>2, <3>1
    <2> QED BY <2>1, <2>2
  <1>9. ASSUME NEW i \in 1 .. n, Routing(q[i], id, d), q[i].op = "add",
               \A j \in i + 1 .. n : ~ Routing(q[j], id, d)
        PROVE  Becomes(t, id, d, r)
    <2>1. CASE i = 1
      BY <1>3, <1>8, <1>9, <2>1 DEF Applied
    <2>2. CASE i # 1
      <3>1. i - 1 \in 1 .. n - 1 /\ t[i - 1] = q[i] /\ (i - 1) + 1 = i
        BY <1>5, <2>2
      <3>2. \A j \in (i - 1) + 1 .. n - 1 : ~ Routing(t[j], id, d)
        BY <1>7, <1>9, <3>1
      <3> QED BY <1>3, <1>9, <3>1, <3>2
    <2> QED BY <2>1, <2>2
  <1>10. ASSUME NEW i \in 1 .. n - 1, Routing(t[i], id, d), t[i].op = "add",
                \A j \in i + 1 .. n - 1 : ~ Routing(t[j], id, d)
         PROVE  Becomes(q, id, d, routes)
    BY <1>2, <1>5, <1>7, <1>10
  <1>11. ASSUME d \in r, \A i \in 1 .. n - 1 : ~ Routing(t[i], id, d)
         PROVE  Becomes(q, id, d, routes)
    <2>1. CASE Routing(q[1], id, d)
      BY <1>2, <1>5, <1>8, <1>11, <2>1 DEF Applied
    <2>2. CASE ~ Routing(q[1], id, d)
      BY <1>2, <1>6, <1>11, <2>2 DEF Applied
    <2> QED BY <2>1, <2>2
  <1>12. ASSUME d \in routes, \A i \in 1 .. n : ~ Routing(q[i], id, d)
         PROVE  Becomes(t, id, d, r)
    BY <1>3, <1>6, <1>12 DEF Applied
  <1> HIDE DEF r
  <1>13. Becomes(q, id, d, routes) <=> Becomes(t, id, d, r)
    BY <1>2, <1>3, <1>9, <1>10, <1>11, <1>12
  <1> QED BY <1>4, <1>13

LEMMA AppendBecomes ==
    ASSUME NEW S, NEW q \in Seq(S), NEW m \in S, NEW id, NEW d, NEW routes
    PROVE  Becomes(Append(q, m), id, d, routes)
             <=> IF Routing(m, id, d) THEN m.op = "add" ELSE Becomes(q, id, d, routes)
  <1> DEFINE n == Len(q)
             a == Append(q, m)
  <1>1. n \in Nat /\ Len(a) = n + 1 /\ a[n + 1] = m /\ \A i \in 1 .. n : a[i] = q[i]
    BY AppendOf
  <1>2. Becomes(q, id, d, routes) <=>
          \/ d \in routes /\ \A i \in 1 .. n : ~ Routing(q[i], id, d)
          \/ \E i \in 1 .. n : Routing(q[i], id, d) /\ q[i].op = "add"
                               /\ \A j \in i + 1 .. n : ~ Routing(q[j], id, d)
    BY DEF Becomes
  <1>3. Becomes(a, id, d, routes) <=>
          \/ d \in routes /\ \A i \in 1 .. n + 1 : ~ Routing(a[i], id, d)
          \/ \E i \in 1 .. n + 1 : Routing(a[i], id, d) /\ a[i].op = "add"
                               /\ \A j \in i + 1 .. n + 1 : ~ Routing(a[j], id, d)
    BY <1>1 DEF Becomes
  <1> HIDE DEF n, a
  <1>4. /\ n + 1 \in 1 .. n + 1 /\ (n + 1) + 1 .. n + 1 = {}
        /\ \A i \in 1 .. n : i \in 1 .. n + 1 /\ n + 1 \in i + 1 .. n + 1
        /\ \A i \in 1 .. n + 1 : i = n + 1 \/ i \in 1 .. n
        /\ \A i \in 1 .. n : \A j \in i + 1 .. n + 1 : j = n + 1 \/ (j \in i + 1 .. n /\ j \in 1 .. n)
        /\ \A i \in 1 .. n : \A j \in i + 1 .. n : j \in i + 1 .. n + 1 /\ j \in 1 .. n
    BY <1>1
  <1>5. CASE Routing(m, id, d)
    <2>1. ~ (\A i \in 1 .. n + 1 : ~ Routing(a[i], id, d))
      BY <1>1, <1>4, <1>5
    <2>2. ASSUME NEW i \in 1 .. n, \A j \in i + 1 .. n + 1 : ~ Routing(a[j], id, d) PROVE FALSE
      BY <1>1, <1>4, <1>5, <2>2
    <2>3. Becomes(a, id, d, routes) <=> m.op = "add"
      BY <1>1, <1>3, <1>4, <1>5, <2>1, <2>2
    <2> QED BY <1>5, <2>3 DEF a
  <1>6. CASE ~ Routing(m, id, d)
    <2>1. (\A i \in 1 .. n + 1 : ~ Routing(a[i], id, d)) <=> \A i \in 1 .. n : ~ Routing(q[i], id, d)
      BY <1>1, <1>4, <1>6
    <2>2. \A i \in 1 .. n : (\A j \in i + 1 .. n + 1 : ~ Routing(a[j], id, d))
                               <=> \A j \in i + 1 .. n : ~ Routing(q[j], id, d)
      BY <1>1, <1>4, <1>6
    <2>3. (\E i \in 1 .. n + 1 : Routing(a[i], id, d) /\ a[i].op = "add"
                               /\ \A j \in i + 1 .. n + 1 : ~ Routing(a[j], id, d))
          <=> \E i \in 1 .. n : Routing(q[i], id, d) /\ q[i].op = "add"
                               /\ \A j \in i + 1 .. n : ~ Routing(q[j], id, d)
      <3>1. ASSUME NEW i \in 1 .. n + 1, Routing(a[i], id, d), a[i].op = "add",
                   \A j \in i + 1 .. n + 1 : ~ Routing(a[j], id, d)
            PROVE  \E k \in 1 .. n : Routing(q[k], id, d) /\ q[k].op = "add"
                               /\ \A j \in k + 1 .. n : ~ Routing(q[j], id, d)
        BY <1>1, <1>4, <1>6, <2>2, <3>1
      <3>2. ASSUME NEW i \in 1 .. n, Routing(q[i], id, d), q[i].op = "add",
                   \A j \in i + 1 .. n : ~ Routing(q[j], id, d)
            PROVE  \E k \in 1 .. n + 1 : Routing(a[k], id, d) /\ a[k].op = "add"
                               /\ \A j \in k + 1 .. n + 1 : ~ Routing(a[j], id, d)
        BY <1>1, <1>4, <2>2, <3>2
      <3> QED BY <3>1, <3>2
    <2>4. Becomes(a, id, d, routes) <=> Becomes(q, id, d, routes)
      BY <1>2, <1>3, <2>1, <2>3
    <2> QED BY <1>6, <2>4 DEF a
  <1> QED BY <1>5, <1>6

-----------------------------------------------------------------------------
(* Messages that are not about id *)

LEMMA SameItself == \A q, id : SameFor(q, q, id)
  BY DEF SameFor

LEMMA SameTwice ==
    \A q, r, s, id : SameFor(q, r, id) /\ SameFor(r, s, id) => SameFor(q, s, id)
  <1> TAKE q, r, s, id
  <1> SUFFICES ASSUME SameFor(q, r, id), SameFor(r, s, id) PROVE SameFor(q, s, id)
    OBVIOUS
  <1>1. \A i \in 1 .. Len(s) : s[i].id = id => \E j \in 1 .. Len(q) : q[j] = s[i]
    BY DEF SameFor
  <1> QED BY <1>1 DEF SameFor

LEMMA SameTail ==
    ASSUME NEW S, NEW q \in Seq(S), q # <<>>, NEW id, Head(q).id # id
    PROVE  SameFor(q, Tail(q), id)
  <1>1. \A op : ~ About(Head(q), id, op)
    BY DEF About
  <1>2. \A op : Holds(Tail(q), id, op) <=> Holds(q, id, op)
    BY <1>1, TailHolds
  <1>3. \A d : ~ Routing(Head(q), id, d)
    BY DEF Routing
  <1>4. ASSUME NEW d, NEW routes
        PROVE  Becomes(Tail(q), id, d, routes) <=> Becomes(q, id, d, routes)
    BY <1>3, TailBecomes DEF Applied
  <1>5. \A i \in 1 .. Len(Tail(q)) : \E j \in 1 .. Len(q) : q[j] = Tail(q)[i]
    BY TailOf
  <1> QED BY <1>2, <1>4, <1>5, TailOnce DEF SameFor

LEMMA SameAppend ==
    ASSUME NEW S, NEW q \in Seq(S), NEW m \in S, NEW id, m.id # id
    PROVE  SameFor(q, Append(q, m), id)
  <1>1. \A op : ~ About(m, id, op)
    BY DEF About
  <1>2. \A op : Holds(Append(q, m), id, op) <=> Holds(q, id, op)
    BY <1>1, AppendHolds
  <1>3. \A d : ~ Routing(m, id, d)
    BY DEF Routing
  <1>4. ASSUME NEW d, NEW routes
        PROVE  Becomes(Append(q, m), id, d, routes) <=> Becomes(q, id, d, routes)
    BY <1>3, AppendBecomes
  <1>5. ASSUME NEW i \in 1 .. Len(Append(q, m)), Append(q, m)[i].id = id
        PROVE  \E j \in 1 .. Len(q) : q[j] = Append(q, m)[i]
    <2>1. i = Len(q) + 1 \/ i \in 1 .. Len(q)
      BY AppendOf
    <2>2. i # Len(q) + 1
      BY <1>5, AppendOf
    <2> QED BY <2>1, <2>2, AppendOf
  <1>6. Once(q, id) => Once(Append(q, m), id)
    BY AppendOnce
  <1>7. InOrder(q, id) => InOrder(Append(q, m), id)
    BY <1>1, AppendOnce
  <1> QED BY <1>2, <1>4, <1>5, <1>6, <1>7 DEF SameFor

(* An inbox without messages about id may be emptied. *)
LEMMA SameEmptied ==
    ASSUME NEW S, NEW q \in Seq(S), NEW id, \A i \in 1 .. Len(q) : q[i].id # id
    PROVE  SameFor(q, <<>>, id)
  <1>1. Len(<<>>) = 0 /\ \A i \in 1 .. 0 : FALSE
    OBVIOUS
  <1>2. \A op : ~ Holds(q, id, op) /\ ~ Holds(<<>>, id, op)
    BY <1>1 DEF Holds, About
  <1>3. \A d, routes : Becomes(q, id, d, routes) <=> d \in routes
    BY DEF Becomes, Routing
  <1>4. \A d, routes : Becomes(<<>>, id, d, routes) <=> d \in routes
    BY <1>1 DEF Becomes, Routing
  <1>5. Once(<<>>, id) /\ InOrder(<<>>, id)
    BY <1>1 DEF Once, InOrder
  <1> QED BY <1>1, <1>2, <1>3, <1>4, <1>5 DEF SameFor

(* The first message of h is taken out of the inboxes q. *)
LEMMA Pops ==
    ASSUME NEW q, Mailed(q), NEW h \in Host, q[h] # <<>>, NEW r, r = [q EXCEPT ![h] = Tail(@)]
    PROVE  /\ Mailed(r) /\ Head(q[h]) \in Mail(h) /\ Head(q[h]) = q[h][1] /\ 1 \in 1 .. Len(q[h])
           /\ r[h] = Tail(q[h]) /\ \A x \in Host \ {h} : r[x] = q[x]
           /\ \A x \in Host : \A i \in 1 .. Len(r[x]) : \E j \in 1 .. Len(q[x]) : q[x][j] = r[x][i]
           /\ \A id, op : HasIn(q, id, op) <=> About(Head(q[h]), id, op) \/ HasIn(r, id, op)
           /\ \A id : Head(q[h]).id # id => \A x \in Host : SameFor(q[x], r[x], id)
           /\ \A id : \A x \in Host : /\ Once(q[x], id) => Once(r[x], id)
                                      /\ InOrder(q[x], id) => InOrder(r[x], id)
  <1>1. r[h] = Tail(q[h]) /\ DOMAIN r = Host /\ \A x \in Host \ {h} : r[x] = q[x]
    BY DEF Mailed
  <1>2. q[h] \in Seq(Mail(h))
    BY DEF Mailed
  <1>3. /\ Tail(q[h]) \in Seq(Mail(h)) /\ Head(q[h]) = q[h][1] /\ q[h][1] \in Mail(h)
        /\ 1 \in 1 .. Len(q[h])
        /\ \A i \in 1 .. Len(Tail(q[h])) : \E j \in 1 .. Len(q[h]) : q[h][j] = Tail(q[h])[i]
    BY <1>2, TailOf
  <1>4. Mailed(r)
    BY <1>1, <1>3 DEF Mailed
  <1>5. \A x \in Host : \A i \in 1 .. Len(r[x]) : \E j \in 1 .. Len(q[x]) : q[x][j] = r[x][i]
    BY <1>1, <1>3
  <1>6. ASSUME NEW id, NEW op
        PROVE  HasIn(q, id, op) <=> About(Head(q[h]), id, op) \/ HasIn(r, id, op)
    <2>1. Holds(q[h], id, op) <=> About(Head(q[h]), id, op) \/ Holds(r[h], id, op)
      BY <1>1, <1>2, TailHolds
    <2> QED BY <1>1, <2>1 DEF HasIn
  <1>7. ASSUME NEW id, Head(q[h]).id # id, NEW x \in Host
        PROVE  SameFor(q[x], r[x], id)
    BY <1>1, <1>2, <1>7, SameTail, SameItself
  <1>8. ASSUME NEW id, NEW x \in Host
        PROVE  /\ Once(q[x], id) => Once(r[x], id)
               /\ InOrder(q[x], id) => InOrder(r[x], id)
    BY <1>1, <1>2, TailOnce
  <1> QED BY <1>1, <1>3, <1>4, <1>5, <1>6, <1>7, <1>8

(* A message is sent. *)
LEMMA Posts ==
    ASSUME NEW q, Mailed(q), NEW h \in Host, NEW m \in Mail(h), NEW r, r = Post(q, h, m)
    PROVE  /\ Mailed(r)
           /\ r[h] = Append(q[h], m) /\ \A x \in Host \ {h} : r[x] = q[x]
           /\ \A x \in Host : \A i \in 1 .. Len(r[x]) :
                 (x = h /\ r[x][i] = m) \/ \E j \in 1 .. Len(q[x]) : q[x][j] = r[x][i]
           /\ \A id, op : HasIn(r, id, op) <=> About(m, id, op) \/ HasIn(q, id, op)
           /\ \A id : m.id # id => \A x \in Host : SameFor(q[x], r[x], id)
           /\ \A id : \A x \in Host :
                 /\ Once(q[x], id) /\ (m.id = id /\ m.op \in {"create", "set", "unset"} => ~ Holds(q[h], id, m.op))
                       => Once(r[x], id)
                 /\ InOrder(q[x], id) /\ (About(m, id, "set") => ~ Holds(q[h], id, "unset"))
                       => InOrder(r[x], id)
  <1>1. r[h] = Append(q[h], m) /\ DOMAIN r = Host /\ \A x \in Host \ {h} : r[x] = q[x]
    BY DEF Mailed, Post
  <1>2. q[h] \in Seq(Mail(h))
    BY DEF Mailed
  <1>3. /\ Append(q[h], m) \in Seq(Mail(h)) /\ Len(q[h]) \in Nat
        /\ \A i \in 1 .. Len(Append(q[h], m)) :
              Append(q[h], m)[i] = m \/ \E j \in 1 .. Len(q[h]) : q[h][j] = Append(q[h], m)[i]
    <2>1. \A i \in 1 .. Len(q[h]) + 1 : i = Len(q[h]) + 1 \/ i \in 1 .. Len(q[h])
      BY <1>2, AppendOf
    <2> QED BY <1>2, <2>1, AppendOf
  <1>4. Mailed(r)
    BY <1>1, <1>3 DEF Mailed
  <1>5. \A x \in Host : \A i \in 1 .. Len(r[x]) :
                 (x = h /\ r[x][i] = m) \/ \E j \in 1 .. Len(q[x]) : q[x][j] = r[x][i]
    BY <1>1, <1>3
  <1>6. ASSUME NEW id, NEW op
        PROVE  HasIn(r, id, op) <=> About(m, id, op) \/ HasIn(q, id, op)
    <2>1. Holds(r[h], id, op) <=> About(m, id, op) \/ Holds(q[h], id, op)
      BY <1>1, <1>2, AppendHolds
    <2> QED BY <1>1, <2>1 DEF HasIn
  <1>7. ASSUME NEW id, m.id # id, NEW x \in Host
        PROVE  SameFor(q[x], r[x], id)
    BY <1>1, <1>2, <1>7, SameAppend, SameItself
  <1>8. ASSUME NEW id, NEW x \in Host
        PROVE  /\ Once(q[x], id) /\ (m.id = id /\ m.op \in {"create", "set", "unset"} => ~ Holds(q[h], id, m.op))
                     => Once(r[x], id)
               /\ InOrder(q[x], id) /\ (About(m, id, "set") => ~ Holds(q[h], id, "unset"))
                     => InOrder(r[x], id)
    <2>0. /\ Once(q[h], id) /\ (m.id = id /\ m.op \in {"create", "set", "unset"} => ~ Holds(q[h], id, m.op))
                => Once(Append(q[h], m), id)
          /\ InOrder(q[h], id) /\ (About(m, id, "set") => ~ Holds(q[h], id, "unset"))
                => InOrder(Append(q[h], m), id)
      BY <1>2, AppendOnce
    <2>1. CASE x = h
      BY <1>1, <2>0, <2>1
    <2>2. CASE x # h
      BY <1>1, <2>2
    <2> QED BY <2>1, <2>2
  <1> QED BY <1>1, <1>4, <1>5, <1>6, <1>7, <1>8

(* Neither concerns an id that the message is not about. *)
LEMMA PopsAway ==
    ASSUME NEW q, Mailed(q), NEW h \in Host, q[h] # <<>>, NEW r, r = [q EXCEPT ![h] = Tail(@)],
           NEW id, Head(q[h]).id # id
    PROVE  \A x \in Host : SameFor(q[x], r[x], id)
  <1>1. q[h] \in Seq(Mail(h)) /\ r[h] = Tail(q[h]) /\ \A x \in Host \ {h} : r[x] = q[x]
    BY DEF Mailed
  <1>2. SameFor(q[h], r[h], id)
    BY <1>1, SameTail
  <1> QED BY <1>1, <1>2, SameItself

LEMMA PostsAway ==
    ASSUME NEW q, Mailed(q), NEW h \in Host, NEW m \in Mail(h), NEW r, r = Post(q, h, m),
           NEW id, m.id # id
    PROVE  \A x \in Host : SameFor(q[x], r[x], id)
  <1>1. q[h] \in Seq(Mail(h)) /\ r[h] = Append(q[h], m) /\ \A x \in Host \ {h} : r[x] = q[x]
    BY DEF Mailed, Post
  <1>2. SameFor(q[h], r[h], id)
    BY <1>1, SameAppend
  <1> QED BY <1>1, <1>2, SameItself

(* A machine other than the coordinator's gets orders, and the             *)
(* coordinator's gets reports.                                             *)
LEMMA Kinds ==
    ASSUME Mailed(inbox)
    PROVE  /\ \A h \in Host : \A i \in 1 .. Len(inbox[h]) : inbox[h][i] \in Mail(h)
           /\ \A id : ~ Holds(inbox[CoHost], id, "create")
           /\ \A h \in Host \ {CoHost} : \A id : ~ Holds(inbox[h], id, "set") /\ ~ Holds(inbox[h], id, "unset")
  <1>1. \A h \in Host : \A i \in 1 .. Len(inbox[h]) : inbox[h][i] \in Mail(h)
    <2> TAKE h \in Host
    <2>1. inbox[h] \in Seq(Mail(h))
      BY DEF Mailed
    <2> QED BY <2>1
  <1>2. \A m \in Mail(CoHost) : m.op # "create"
    BY DEF Mail, Notice
  <1>3. \A h \in Host \ {CoHost} : \A m \in Mail(h) : m.op # "set" /\ m.op # "unset"
    BY DEF Mail, Order
  <1>4. CoHost \in Host
    BY NetAssumption
  <1> QED BY <1>1, <1>2, <1>3, <1>4 DEF Holds, About

(* What is known of an id stays true while nothing concerns it. *)
LEMMA Untouched ==
    ASSUME NEW id \in Id, IdInv(id),
           \A h \in Host : SameFor(inbox[h], inbox'[h], id),
           mListIDArray'[id] = mListIDArray[id], mtknMap'[id] = mtknMap[id],
           \A n : n[2] = id => /\ n \in DOMAIN nodes' <=> n \in DOMAIN nodes
                               /\ n \in DOMAIN nodes => nodes'[n] = nodes[n] /\ n[1][1] \in Host,
           \A d \in Place \X Id : <<id, d>> \in wanted' <=> <<id, d>> \in wanted,
           id \in doomed => id \in doomed'
    PROVE  IdInv(id)'
  <1>1. \A op : Has(id, op)' <=> Has(id, op)
    BY DEF Has, HasIn, SameFor
  <1>2. Exists(id)' <=> Exists(id)
    BY DEF Exists
  <1>3. Known(id)' <=> Known(id)
    BY DEF Known
  <1>4. Addressed(id)'
    <2>1. ASSUME NEW h \in Host, NEW i \in 1 .. Len(inbox'[h]), inbox'[h][i].id = id
          PROVE  /\ mListIDArray'[id] # NULL
                 /\ mListIDArray'[id] = IF h = CoHost THEN <<inbox'[h][i].from, inbox'[h][i].kind>>
                                        ELSE <<h, inbox'[h][i].kind>>
                 /\ inbox'[h][i].op \in {"delete", "unset"} => id \in doomed'
      <3>1. PICK j \in 1 .. Len(inbox[h]) : inbox[h][j] = inbox'[h][i]
        BY <2>1 DEF SameFor
      <3> QED BY <2>1, <3>1 DEF IdInv, Addressed
    <2>2. \A n \in DOMAIN nodes' : n[2] = id => mListIDArray'[id] # NULL /\ n[1] = mListIDArray'[id]
      BY DEF IdInv, Addressed
    <2>3. Known(id) => /\ mListIDArray'[id] # NULL
                       /\ mtknMap'[id] = [at |-> mListIDArray'[id], info |-> mListIDArray'[id]]
      BY DEF IdInv, Addressed
    <2> QED BY <1>3, <2>1, <2>2, <2>3 DEF Addressed
  <1>5. Life(id)'
    <2>1. \A h \in Host : Once(inbox'[h], id) /\ InOrder(inbox'[h], id)
      BY DEF IdInv, Life, SameFor
    <2> QED BY <1>1, <1>2, <1>3, <2>1 DEF IdInv, Life
  <1>6. Orders(id)'
    <2>1. Has(id, "create") \/ Has(id, "set") =>
             /\ ~ Has(id, "add") /\ ~ Has(id, "remove")
             /\ \A n \in DOMAIN nodes' : n[2] = id => nodes'[n] = {}
             /\ \A d \in Place \X Id : <<id, d>> \notin wanted'
      BY DEF IdInv, Orders
    <2>2. ASSUME Known(id), NEW n \in DOMAIN nodes', n[2] = id, NEW d \in Place \X Id
          PROVE  <<id, d>> \in wanted' <=> Becomes(inbox'[n[1][1]], id, d, nodes'[n])
      <3>1. n \in DOMAIN nodes /\ nodes'[n] = nodes[n] /\ n[1][1] \in Host
        BY <2>2
      <3>2. Becomes(inbox'[n[1][1]], id, d, nodes[n]) <=> Becomes(inbox[n[1][1]], id, d, nodes[n])
        BY <3>1 DEF SameFor
      <3> QED BY <2>2, <3>1, <3>2 DEF IdInv, Orders
    <2> QED BY <1>1, <1>3, <2>1, <2>2 DEF Orders
  <1> QED BY <1>4, <1>5, <1>6 DEF IdInv

-----------------------------------------------------------------------------
(* Types *)

(* Where messages to a manager, to a token's module, and reports go. *)
LEMMA Mails ==
    /\ CoHost \in Host
    /\ \A g \in Mgr : g[1] \in Host \ {CoHost} /\ g[2] \in Kind /\ g = <<g[1], g[2]>> /\ g \in Place
    /\ \A g \in Mgr, id \in Id, op \in {"create", "delete"} :
          [op |-> op, kind |-> g[2], id |-> id] \in Mail(g[1])
    /\ \A at \in Place, id \in Id, d \in Place \X Id, op \in {"add", "remove"} :
          at[1] # CoHost => [op |-> op, kind |-> at[2], id |-> id, dest |-> d] \in Mail(at[1])
    /\ \A k \in Kind, id \in Id, op \in {"set", "unset"}, h \in Host \ {CoHost} :
          [op |-> op, kind |-> k, id |-> id, from |-> h] \in Mail(CoHost)
  <1>1. CoHost \in Host /\ Mgr \subseteq (Host \ {CoHost}) \X Kind
    BY NetAssumption
  <1>2. \A g \in Mgr : g[1] \in Host \ {CoHost} /\ g[2] \in Kind /\ g = <<g[1], g[2]>> /\ g \in Place
    BY <1>1 DEF Place
  <1>3. ASSUME NEW g \in Mgr, NEW id \in Id, NEW op \in {"create", "delete"}
        PROVE  [op |-> op, kind |-> g[2], id |-> id] \in Mail(g[1])
    BY <1>2 DEF Mail, Order
  <1>4. ASSUME NEW at \in Place, NEW id \in Id, NEW d \in Place \X Id, NEW op \in {"add", "remove"},
               at[1] # CoHost
        PROVE  [op |-> op, kind |-> at[2], id |-> id, dest |-> d] \in Mail(at[1])
    <2>1. at[2] \in Kind
      BY DEF Place
    <2> QED BY <1>4, <2>1 DEF Mail, Order
  <1>5. ASSUME NEW k \in Kind, NEW id \in Id, NEW op \in {"set", "unset"}, NEW h \in Host \ {CoHost}
        PROVE  [op |-> op, kind |-> k, id |-> id, from |-> h] \in Mail(CoHost)
    BY DEF Mail, Notice
  <1> QED BY <1>1, <1>2, <1>3, <1>4, <1>5

(* The head of an inbox, and what may stand in one. *)
LEMMA HeadOf ==
    ASSUME Mailed(inbox), NEW h \in Host, inbox[h] # <<>>
    PROVE  /\ Head(inbox[h]) \in Mail(h) /\ Head(inbox[h]).id \in Id /\ Head(inbox[h]).kind \in Kind
           /\ Head(inbox[h]) = inbox[h][1] /\ 1 \in 1 .. Len(inbox[h])
           /\ h = CoHost => /\ Head(inbox[h]).op \in {"set", "unset"}
                            /\ Head(inbox[h]).from \in Host \ {CoHost}
           /\ h # CoHost => /\ Head(inbox[h]).op \in {"create", "delete", "add", "remove"}
                            /\ Head(inbox[h]).op = "create" => <<h, Head(inbox[h]).kind>> \in Mgr
                            /\ Head(inbox[h]).op \in {"add", "remove"} => Head(inbox[h]).dest \in Place \X Id
  <1>1. inbox[h] \in Seq(Mail(h))
    BY DEF Mailed
  <1>2. Head(inbox[h]) \in Mail(h) /\ Head(inbox[h]) = inbox[h][1] /\ 1 \in 1 .. Len(inbox[h])
    BY <1>1, TailOf
  <1>3. CASE h = CoHost
    BY <1>2, <1>3 DEF Mail, Notice
  <1>4. CASE h # CoHost
    <2>1. Head(inbox[h]) \in Order(h)
      BY <1>2, <1>4 DEF Mail
    <2>2. CASE Head(inbox[h]) \in [op : {"create", "delete"}, kind : {k \in Kind : <<h, k>> \in Mgr}, id : Id]
      BY <1>2, <1>4, <2>2
    <2>3. CASE Head(inbox[h]) \in [op : {"add", "remove"}, kind : Kind, id : Id, dest : Place \X Id]
      BY <1>2, <1>4, <2>3
    <2> QED BY <2>1, <2>2, <2>3 DEF Order
  <1> QED BY <1>3, <1>4

LEMMA SendersOf ==
    ASSUME Mailed(inbox)
    PROVE  \A addr \in Senders : addr \in Host \ {CoHost}
  <1>1. \A i \in 1 .. Len(inbox[CoHost]) : inbox[CoHost][i] \in Notice
    BY Kinds, NetAssumption DEF Mail
  <1> QED BY <1>1 DEF Senders, Notice

LEMMA NextIdIn == TypeInv => NextId \in Id /\ NextId + 1 \in 0 .. NID
  BY NetAssumption DEF TypeInv, TypeOK, NextId, Id

LEMMA ApplicationTypes == TypeInv /\ Application => TypeInv'
  <1> SUFFICES ASSUME TypeInv, Application PROVE TypeInv'
    OBVIOUS
  <1> USE DEF TypeInv, TypeOK
  <1>1. ASSUME NEW g \in Mgr, CreateModule(g)
        PROVE  TypeInv'
    <2>1. NextId \in Id /\ NextId + 1 \in 0 .. NID
      BY NextIdIn
    <2>2. Mailed(inbox')
      <3>1. [op |-> "create", kind |-> g[2], id |-> NextId] \in Mail(g[1]) /\ g[1] \in Host
        BY <2>1, Mails
      <3> QED BY <1>1, <3>1, Posts DEF CreateModule
    <2>3. mListIDArray' \in [Id -> Mgr \union {NULL}]
      BY <1>1, <2>1 DEF CreateModule
    <2> QED BY <1>1, <2>1, <2>2, <2>3 DEF CreateModule, Known
  <1>2. ASSUME NEW id \in Id, DeleteModule(id)
        PROVE  TypeInv'
    <2>1. mListIDArray[id] \in Mgr
      BY <1>2 DEF DeleteModule
    <2>2. Mailed(inbox')
      <3> DEFINE g == mListIDArray[id]
      <3>1. [op |-> "delete", kind |-> g[2], id |-> id] \in Mail(g[1]) /\ g[1] \in Host
        BY <2>1, Mails
      <3> QED BY <1>2, <3>1, Posts DEF DeleteModule
    <2> QED BY <1>2, <2>2 DEF DeleteModule, coordinator, Known
  <1>3. ASSUME NEW id1 \in Id, NEW id2 \in Id, NEW op \in {"add", "remove"}, RouteCheck(op, id1, id2)
        PROVE  TypeInv'
    BY <1>3 DEF RouteCheck, Known, history
  <1>4. CASE RouteSend
    <2>1. CASE Known(call.from) /\ Known(call.to)
      <3>1. call.from \in Id /\ call.to \in Id /\ call.op \in {"add", "remove"}
        BY <1>4 DEF RouteSend
      <3>2. mtknMap[call.from] \in Token /\ mtknMap[call.from].at[1] # CoHost /\ mtknMap[call.to] \in Token
        BY <2>1, <3>1
      <3>3. mtknMap[call.from].at \in Place /\ mtknMap[call.from].at[1] \in Host /\ Target(call.to) \in Place \X Id
        BY <3>1, <3>2 DEF Token, Target, Place
      <3>4. Mailed(inbox')
        <4> DEFINE at == mtknMap[call.from].at
                   m  == [op |-> call.op, kind |-> at[2], id |-> call.from, dest |-> Target(call.to)]
        <4>1. m \in Mail(at[1])
          BY <3>1, <3>2, <3>3, Mails
        <4>2. inbox' = Post(inbox, at[1], m)
          BY <1>4, <2>1 DEF RouteSend, RouteTo
        <4> HIDE DEF m
        <4> QED BY <3>3, <4>1, <4>2, Posts
      <3> QED BY <1>4, <2>1, <3>4 DEF RouteSend, Known
    <2>2. CASE ~ (Known(call.from) /\ Known(call.to))
      BY <1>4, <2>2 DEF RouteSend, Known
    <2> QED BY <2>1, <2>2
  <1> QED BY <1>1, <1>2, <1>3, <1>4 DEF Application

LEMMA CoordinateTypes == TypeInv /\ Coordinate => TypeInv'
  <1> SUFFICES ASSUME TypeInv, Coordinate PROVE TypeInv'
    OBVIOUS
  <1> DEFINE m == Head(inbox[CoHost])
             q == [inbox EXCEPT ![CoHost] = Tail(@)]
  <1> USE DEF TypeInv, TypeOK
  <1>1. /\ inbox[CoHost] # <<>> /\ CoHost \in Host
        /\ UNCHANGED <<nodes, calls, restarts, tID, mListIDArray, call>>
    BY Mails DEF Coordinate, setMtkn, deleteMtkn
  <1>2. m.id \in Id /\ m.kind \in Kind /\ m.from \in Host
    BY <1>1, HeadOf
  <1>3. Mailed(q)
    BY <1>1, Pops
  <1>4. PICK addr \in Senders : setMtkn(addr) \/ deleteMtkn(addr)
    BY DEF Coordinate
  <1>5. addr \in Host \ {CoHost} /\ <<addr, m.kind>> \in Place
    BY <1>2, <1>4, SendersOf DEF Place
  <1>6. disturbed' \subseteq Id
    BY <1>2, <1>4 DEF setMtkn, deleteMtkn, Misattributed
  <1>7. Listed(m.id) \subseteq Mgr
    BY <1>2 DEF Listed
  <1> HIDE DEF m, q
  <1>8. CASE setMtkn(addr)
    <2>1. CASE UNCHANGED <<mtknMap, doomed>> /\ inbox' = q
      <3>1. crash' \in {"no", "connect", "info"}
        BY <1>8 DEF setMtkn
      <3> QED BY <1>1, <1>3, <1>6, <2>1, <3>1 DEF Known
    <2>2. CASE /\ \E g \in Listed(m.id) : inbox' = Post(q, g[1], [op |-> "delete", kind |-> g[2], id |-> m.id])
               /\ doomed' = doomed \union {m.id}
               /\ UNCHANGED <<mtknMap, crash>>
      <3>1. Mailed(inbox')
        <4>1. PICK g \in Mgr : inbox' = Post(q, g[1], [op |-> "delete", kind |-> g[2], id |-> m.id])
          BY <1>7, <2>2
        <4>2. [op |-> "delete", kind |-> g[2], id |-> m.id] \in Mail(g[1]) /\ g[1] \in Host
          BY <1>2, Mails
        <4> QED BY <1>3, <4>1, <4>2, Posts
      <3> QED BY <1>1, <1>2, <1>6, <2>2, <3>1 DEF Known
    <2>3. CASE /\ \E g \in Listed(m.id) : mtknMap' = [mtknMap EXCEPT ![m.id] = [at |-> <<addr, m.kind>>, info |-> g]]
               /\ inbox' = q /\ UNCHANGED <<crash, doomed>>
      <3>1. PICK g \in Mgr : mtknMap' = [mtknMap EXCEPT ![m.id] = [at |-> <<addr, m.kind>>, info |-> g]]
        BY <1>7, <2>3
      <3>2. [at |-> <<addr, m.kind>>, info |-> g] \in Token
        BY <1>5 DEF Token
      <3>3. mtknMap' \in [Id -> Token \union {NULL}]
        BY <3>1, <3>2
      <3>4. \A id \in Id : mtknMap'[id] # NULL => mtknMap'[id] \in Token /\ mtknMap'[id].at[1] # CoHost
        BY <1>2, <1>5, <3>1, <3>2 DEF Known
      <3> QED BY <1>1, <1>3, <1>6, <2>3, <3>3, <3>4 DEF Known
    <2> QED BY <1>8, <2>1, <2>2, <2>3 DEF setMtkn, m, q
  <1>9. CASE deleteMtkn(addr)
    <2>1. inbox' = q /\ UNCHANGED <<crash, doomed>>
      BY <1>9 DEF deleteMtkn, q
    <2>2. mtknMap' = mtknMap \/ mtknMap' = [mtknMap EXCEPT ![m.id] = NULL]
      BY <1>9 DEF deleteMtkn, m
    <2>3. mtknMap' \in [Id -> Token \union {NULL}]
      BY <2>2
    <2>4. \A id \in Id : mtknMap'[id] # NULL => mtknMap'[id] \in Token /\ mtknMap'[id].at[1] # CoHost
      BY <1>2, <2>2 DEF Known
    <2> QED BY <1>1, <1>3, <1>6, <2>1, <2>3, <2>4 DEF Known
  <1> QED BY <1>4, <1>8, <1>9

(* What a machine makes of the first message; x is the inboxes after it. *)
LEMMA Managed ==
    ASSUME TypeInv, NEW h \in Host \ {CoHost}, Manage(h)
    PROVE  LET m == Head(inbox[h])
               n == <<<<h, m.kind>>, m.id>>
               q == [inbox EXCEPT ![h] = Tail(@)]
               report(op) == [op |-> op, kind |-> m.kind, id |-> m.id, from |-> h]
           IN /\ inbox[h] # <<>> /\ Mailed(q) /\ UNCHANGED <<coordinator, calls, restarts, history>>
              /\ \A op \in {"set", "unset"} : report(op) \in Mail(CoHost)
              /\ \/ /\ m.op = "create" /\ n \notin DOMAIN nodes /\ n \in Node
                    /\ nodes' = [x \in DOMAIN nodes \union {n} |-> IF x = n THEN {} ELSE nodes[x]]
                    /\ inbox' = Post(q, CoHost, report("set"))
                 \/ /\ m.op = "delete" /\ n \in DOMAIN nodes
                    /\ nodes' = [x \in DOMAIN nodes \ {n} |-> nodes[x]]
                    /\ inbox' = Post(q, CoHost, report("unset"))
                 \/ /\ m.op \in {"add", "remove"} /\ n \in DOMAIN nodes /\ m.dest \in Place \X Id
                    /\ nodes' = [nodes EXCEPT ![n] = IF m.op = "add" THEN @ \union {m.dest} ELSE @ \ {m.dest}]
                    /\ inbox' = q
                 \/ /\ m.op = "create" <=> n \in DOMAIN nodes
                    /\ inbox' = q /\ nodes' = nodes
  <1> DEFINE m == Head(inbox[h])
             n == <<<<h, m.kind>>, m.id>>
             q == [inbox EXCEPT ![h] = Tail(@)]
             report(op) == [op |-> op, kind |-> m.kind, id |-> m.id, from |-> h]
  <1>1. inbox[h] # <<>> /\ Mailed(inbox) /\ UNCHANGED <<coordinator, calls, restarts, history>>
    BY DEF Manage, TypeInv
  <1>2. Mailed(q)
    BY <1>1, Pops
  <1>3. /\ m.kind \in Kind /\ m.id \in Id
        /\ m.op = "create" => n \in Node
        /\ m.op \in {"add", "remove"} => m.dest \in Place \X Id
    BY <1>1, HeadOf DEF Node
  <1>4. \A op \in {"set", "unset"} : report(op) \in Mail(CoHost)
    BY <1>3, Mails
  <1>5. CASE Create(h, m, n)
    BY <1>1, <1>2, <1>3, <1>4, <1>5 DEF Create, Report
  <1>6. CASE Delete(h, m, n)
    BY <1>1, <1>2, <1>3, <1>4, <1>6 DEF Delete, Report, Without
  <1>7. CASE Reroute(h, m, n)
    BY <1>1, <1>2, <1>3, <1>4, <1>7 DEF Reroute
  <1>8. CASE Ignore(h, m, n)
    BY <1>1, <1>2, <1>3, <1>4, <1>8 DEF Ignore
  <1> QED BY <1>5, <1>6, <1>7, <1>8 DEF Manage

LEMMA ManageTypes == ASSUME TypeInv, NEW h \in Host \ {CoHost}, Manage(h) PROVE TypeInv'
  <1> USE DEF TypeInv, TypeOK
  <1> DEFINE m == Head(inbox[h])
             n == <<<<h, m.kind>>, m.id>>
             q == [inbox EXCEPT ![h] = Tail(@)]
             report(op) == [op |-> op, kind |-> m.kind, id |-> m.id, from |-> h]
  <1>1. /\ Mailed(q) /\ UNCHANGED <<coordinator, calls, restarts, history>>
        /\ \A op \in {"set", "unset"} : report(op) \in Mail(CoHost)
    BY Managed
  <1>2. CoHost \in Host
    BY Mails
  <1> HIDE DEF m, q, report, n
  <1>3. /\ nodes' \in [DOMAIN nodes' -> SUBSET (Place \X Id)] /\ DOMAIN nodes' \subseteq Node
        /\ Mailed(inbox')
    <2>1. CASE /\ n \in Node /\ inbox' = Post(q, CoHost, report("set"))
               /\ nodes' = [x \in DOMAIN nodes \union {n} |-> IF x = n THEN {} ELSE nodes[x]]
      BY <1>1, <1>2, <2>1, Posts
    <2>2. CASE /\ inbox' = Post(q, CoHost, report("unset"))
               /\ nodes' = [x \in DOMAIN nodes \ {n} |-> nodes[x]]
      BY <1>1, <1>2, <2>2, Posts
    <2>3. CASE /\ inbox' = q /\ m.dest \in Place \X Id /\ n \in DOMAIN nodes
               /\ nodes' = [nodes EXCEPT ![n] = IF m.op = "add" THEN @ \union {m.dest} ELSE @ \ {m.dest}]
      BY <1>1, <2>3
    <2>4. CASE inbox' = q /\ nodes' = nodes
      BY <1>1, <2>4
    <2> QED BY <2>1, <2>2, <2>3, <2>4, Managed DEF m, q, n, report
  <1> QED BY <1>1, <1>3 DEF coordinator, history, Known

LEMMA NetworkTypes ==
    ASSUME TypeInv, \/ \E h \in Host : Lose(h)
                    \/ \E h \in Host \ {CoHost} : RestartManagers(h)
                    \/ RestartCoordinator
    PROVE  TypeInv'
  <1> USE DEF TypeInv, TypeOK
  <1>1. ASSUME NEW h \in Host, Lose(h) PROVE TypeInv'
    <2>1. inbox[h] # <<>>
      BY <1>1 DEF Lose
    <2>2. Mailed(inbox')
      <3> DEFINE q == [inbox EXCEPT ![h] = Tail(@)]
      <3>1. Mailed(q)
        BY <2>1, Pops
      <3> QED BY <1>1, <3>1 DEF Lose
    <2>3. Head(inbox[h]).id \in Id
      BY <2>1, HeadOf
    <2> QED BY <1>1, <2>2, <2>3 DEF Lose, coordinator, Known
  <1>2. ASSUME NEW h \in Host, inbox' = [inbox EXCEPT ![h] = <<>>]
        PROVE  Mailed(inbox')
    BY <1>2 DEF Mailed
  <1>3. \A h \in Host : \A i \in 1 .. Len(inbox[h]) : inbox[h][i].id \in Id
    <2> TAKE h \in Host
    <2>1. \A i \in 1 .. Len(inbox[h]) : inbox[h][i] \in Mail(h)
      BY Kinds
    <2>2. \A x \in Mail(h) : x.id \in Id
      BY DEF Mail, Order, Notice
    <2> QED BY <2>1, <2>2
  <1>4. ASSUME NEW h \in Host \ {CoHost}, RestartManagers(h) PROVE TypeInv'
    <2>1. disturbed' \subseteq Id
      BY <1>3, <1>4 DEF RestartManagers, Node
    <2>2. nodes' \in [DOMAIN nodes' -> SUBSET (Place \X Id)] /\ DOMAIN nodes' \subseteq Node
      BY <1>4 DEF RestartManagers
    <2>3. Mailed(inbox')
      BY <1>2, <1>4 DEF RestartManagers
    <2>4. restarts' \in Nat /\ UNCHANGED <<coordinator, doomed>>
      BY <1>4 DEF RestartManagers, Restarting
    <2>5. TypeOK'
      BY <2>1, <2>2, <2>4 DEF coordinator
    <2> QED BY <2>2, <2>3, <2>4, <2>5 DEF coordinator, Known
  <1>5. CASE RestartCoordinator
    <2>1. Mailed(inbox')
      BY <1>2, <1>5, Mails DEF RestartCoordinator
    <2>2. NID \in Nat
      BY NetAssumption
    <2>3. \A id \in Id : ~ Known(id)'
      BY <1>5 DEF RestartCoordinator, Known
    <2>4. tID' \in 0 .. NID /\ call' = NULL /\ crash' = "no" /\ nodes' = nodes
          /\ mListIDArray' \in [Id -> Mgr \union {NULL}] /\ mtknMap' \in [Id -> Token \union {NULL}]
      BY <1>5, <2>2 DEF RestartCoordinator
    <2>5. disturbed' \subseteq Id /\ doomed' \subseteq Id /\ restarts' \in Nat
      BY <1>5 DEF RestartCoordinator, Restarting
    <2>6. TypeOK'
      BY <2>4, <2>5
    <2>7. nodes' \in [DOMAIN nodes' -> SUBSET (Place \X Id)]
      BY <2>4
    <2> QED BY <2>1, <2>3, <2>5, <2>6, <2>7
  <1> QED BY <1>1, <1>4, <1>5

-----------------------------------------------------------------------------
(* The life of an id, action by action *)

Lives == \A id \in Id \ disturbed : IdInv(id)

LEMMA Hosts ==
    ASSUME TypeInv
    PROVE  \A n \in DOMAIN nodes : n = <<n[1], n[2]>> /\ n[1] \in Mgr /\ n[2] \in Id /\ n[1][1] \in Host \ {CoHost}
  <1>1. \A n \in Node : n = <<n[1], n[2]>> /\ n[1] \in Mgr /\ n[2] \in Id
    BY DEF Node
  <1> QED BY <1>1, Mails DEF TypeInv, TypeOK

(* Nothing is left of an id that is not in use. *)
LEMMA Unused ==
    ASSUME TypeInv, NEW id \in Id, ~ InUse(id)
    PROVE  /\ ~ Known(id) /\ ~ Exists(id)
           /\ \A h \in Host : \A i \in 1 .. Len(inbox[h]) : inbox[h][i].id # id
           /\ \A op : ~ Has(id, op)
           /\ call # NULL => id \notin {call.from, call.to}
  <1>1. \A h \in Host : \A i \in 1 .. Len(inbox[h]) : inbox[h][i] \in Messages
    BY DEF Messages
  <1>2. \A h \in Host : \A i \in 1 .. Len(inbox[h]) : inbox[h][i].id # id
    BY <1>1 DEF InUse
  <1>3. \A op : ~ Has(id, op)
    BY <1>2 DEF Has, HasIn, Holds, About
  <1> QED BY <1>2, <1>3 DEF InUse, Known, Exists

LEMMA CreateLives ==
    ASSUME TypeInv, Lives, NEW g \in Mgr, CreateModule(g), NEW id \in Id \ disturbed'
    PROVE  IdInv(id)'
  <1> DEFINE x == NextId
             m == [op |-> "create", kind |-> g[2], id |-> x]
  <1>1. m \in Mail(g[1]) /\ g[1] \in Host /\ g[1] # CoHost /\ g = <<g[1], m.kind>> /\ x \in Id
        /\ m.id = x /\ m.op = "create" /\ g # NULL
    BY NextIdIn, Mails, NullAssumption
  <1>2. /\ inbox' = Post(inbox, g[1], m) /\ Mailed(inbox)
        /\ mListIDArray' = [mListIDArray EXCEPT ![x] = g] /\ mListIDArray \in [Id -> Mgr \union {NULL}]
        /\ UNCHANGED <<mtknMap, call, crash, nodes>>
        /\ wanted' = {w \in wanted : w[1] # x}
        /\ InUse(x) => disturbed' = disturbed \union {x} /\ doomed' = doomed
        /\ ~ InUse(x) => doomed' = doomed \ {x} /\ disturbed' = disturbed
    BY DEF CreateModule, TypeInv, TypeOK
  <1> HIDE DEF x, m
  <1>3. CASE id # x
    <2>1. IdInv(id)
      BY <1>2 DEF Lives
    <2>2. \A h \in Host : SameFor(inbox[h], inbox'[h], id)
      BY <1>1, <1>2, <1>3, PostsAway
    <2>3. mListIDArray'[id] = mListIDArray[id] /\ (id \in doomed => id \in doomed')
      BY <1>2, <1>3
    <2>4. \A d \in Place \X Id : <<id, d>> \in wanted' <=> <<id, d>> \in wanted
      BY <1>2, <1>3
    <2> QED BY <1>2, <2>1, <2>2, <2>3, <2>4, Hosts, Untouched
  <1>4. CASE id = x
    <2>1. ~ InUse(id)
      BY <1>2, <1>4
    <2>2. /\ ~ Known(id) /\ ~ Exists(id) /\ \A op : ~ Has(id, op)
          /\ \A h \in Host : \A i \in 1 .. Len(inbox[h]) : inbox[h][i].id # id
      BY <2>1, Unused
    <2>3. m.id = id /\ m.op = "create"
      BY <1>1, <1>4
    <2>4. \A op : HasIn(inbox', id, op) <=> op = "create"
      <3>1. \A op : HasIn(inbox', id, op) <=> About(m, id, op) \/ HasIn(inbox, id, op)
        BY <1>1, <1>2, Posts
      <3> QED BY <2>2, <2>3, <3>1 DEF Has, About
    <2>5. ASSUME NEW h \in Host, NEW i \in 1 .. Len(inbox'[h]), inbox'[h][i].id = id
          PROVE  h = g[1] /\ inbox'[h][i] = m
      <3>1. (h = g[1] /\ inbox'[h][i] = m) \/ \E j \in 1 .. Len(inbox[h]) : inbox[h][j] = inbox'[h][i]
        BY <1>1, <1>2, Posts
      <3> QED BY <2>2, <2>5, <3>1
    <2>6. mListIDArray'[id] = g
      BY <1>1, <1>2, <1>4
    <2>7. ~ Known(id)' /\ ~ Exists(id)'
      BY <1>2, <2>2 DEF Known, Exists
    <2>8. Addressed(id)'
      <3>1. ASSUME NEW h \in Host, NEW i \in 1 .. Len(inbox'[h]), inbox'[h][i].id = id
            PROVE  /\ mListIDArray'[id] # NULL
                   /\ mListIDArray'[id] = IF h = CoHost THEN <<inbox'[h][i].from, inbox'[h][i].kind>>
                                          ELSE <<h, inbox'[h][i].kind>>
                   /\ inbox'[h][i].op \in {"delete", "unset"} => id \in doomed'
        <4>1. h = g[1] /\ inbox'[h][i] = m
          BY <2>5, <3>1
        <4> QED BY <1>1, <2>6, <4>1
      <3> QED BY <2>7, <3>1 DEF Addressed, Exists
    <2>9. Life(id)'
      <3>1. \A h \in Host : Once(inbox[h], id) /\ InOrder(inbox[h], id)
        BY <2>2 DEF Once, InOrder, About
      <3>2. ~ Holds(inbox[g[1]], id, "create") /\ ~ About(m, id, "set")
        BY <1>1, <2>2, <2>3 DEF Has, HasIn, About
      <3>3. \A h \in Host : Once(inbox'[h], id) /\ InOrder(inbox'[h], id)
        BY <1>1, <1>2, <2>3, <3>1, <3>2, Posts
      <3> QED BY <2>4, <2>7, <3>3 DEF Life, Has
    <2>10. Orders(id)'
      <3>1. \A d \in Place \X Id : <<id, d>> \notin wanted'
        BY <1>2, <1>4
      <3> QED BY <2>4, <2>7, <3>1 DEF Orders, Has, Exists
    <2> QED BY <2>8, <2>9, <2>10 DEF IdInv
  <1> QED BY <1>3, <1>4

LEMMA DeleteLives ==
    ASSUME TypeInv, Lives, NEW x \in Id, DeleteModule(x), NEW id \in Id \ disturbed'
    PROVE  IdInv(id)'
  <1> DEFINE g == mListIDArray[x]
             m == [op |-> "delete", kind |-> g[2], id |-> x]
  <1>1. g \in Mgr /\ g # NULL
    BY DEF DeleteModule, TypeInv, TypeOK
  <1>2. m \in Mail(g[1]) /\ g[1] \in Host /\ g[1] # CoHost /\ g = <<g[1], m.kind>>
        /\ m.id = x /\ m.op = "delete"
    BY <1>1, Mails
  <1>3. /\ inbox' = Post(inbox, g[1], m) /\ Mailed(inbox)
        /\ UNCHANGED <<mListIDArray, mtknMap, nodes, wanted, disturbed>>
        /\ doomed' = doomed \union {x}
    BY DEF DeleteModule, TypeInv, coordinator
  <1>4. IdInv(id)
    BY <1>3 DEF Lives
  <1> HIDE DEF m
  <1>5. CASE id # x
    <2>1. \A h \in Host : SameFor(inbox[h], inbox'[h], id)
      BY <1>2, <1>3, <1>5, PostsAway
    <2> QED BY <1>3, <1>4, <2>1, Hosts, Untouched
  <1>6. CASE id = x
    <2>1. Known(x)' <=> Known(x)
      BY <1>3 DEF Known
    <2>2. Exists(x)' <=> Exists(x)
      BY <1>3 DEF Exists
    <2>3. \A op : HasIn(inbox', x, op) <=> HasIn(inbox, x, op) \/ op = "delete"
      BY <1>2, <1>3, Posts DEF About
    <2>4. Addressed(x)'
      <3>1. ASSUME NEW h \in Host, NEW i \in 1 .. Len(inbox'[h]), inbox'[h][i].id = x
            PROVE  /\ mListIDArray[x] # NULL
                   /\ mListIDArray[x] = IF h = CoHost THEN <<inbox'[h][i].from, inbox'[h][i].kind>>
                                         ELSE <<h, inbox'[h][i].kind>>
                   /\ inbox'[h][i].op \in {"delete", "unset"} => x \in doomed'
        <4>1. CASE h = g[1] /\ inbox'[h][i] = m
          BY <1>1, <1>2, <1>3, <4>1
        <4>2. CASE \E j \in 1 .. Len(inbox[h]) : inbox[h][j] = inbox'[h][i]
          BY <1>3, <1>4, <1>6, <3>1, <4>2 DEF IdInv, Addressed
        <4> QED BY <1>2, <1>3, <4>1, <4>2, Posts
      <3> QED BY <1>3, <1>4, <1>6, <2>1, <3>1 DEF IdInv, Addressed
    <2>5. Life(x)'
      <3>1. \A h \in Host : Once(inbox'[h], x) /\ InOrder(inbox'[h], x)
        <4>1. ~ About(m, x, "set") /\ m.op \notin {"create", "set", "unset"}
          BY <1>2 DEF About
        <4> QED BY <1>2, <1>3, <1>4, <1>6, <4>1, Posts DEF IdInv, Life
      <3> QED BY <1>4, <1>6, <2>1, <2>2, <2>3, <3>1 DEF IdInv, Life, Has
    <2>6. Orders(x)'
      <3>1. ASSUME NEW h \in Host, NEW d, NEW routes
            PROVE  Becomes(inbox'[h], x, d, routes) <=> Becomes(inbox[h], x, d, routes)
        <4>1. ~ Routing(m, x, d) /\ inbox[g[1]] \in Seq(Mail(g[1]))
          BY <1>2, <1>3 DEF Routing, Mailed
        <4>2. Becomes(Append(inbox[g[1]], m), x, d, routes) <=> Becomes(inbox[g[1]], x, d, routes)
          BY <1>2, <4>1, AppendBecomes
        <4>3. inbox'[g[1]] = Append(inbox[g[1]], m) /\ (h # g[1] => inbox'[h] = inbox[h])
          BY <1>2, <1>3, Posts
        <4> QED BY <4>2, <4>3
      <3>2. \A n \in DOMAIN nodes : n[1][1] \in Host
        BY Hosts
      <3> QED BY <1>3, <1>4, <1>6, <2>1, <2>3, <3>1, <3>2 DEF IdInv, Orders, Has
    <2> QED BY <1>6, <2>4, <2>5, <2>6 DEF IdInv
  <1> QED BY <1>5, <1>6

LEMMA RouteLives ==
    ASSUME TypeInv, Lives, NEW id \in Id \ disturbed',
           \/ RouteSend
           \/ \E id1, id2 \in Id : \E op \in {"add", "remove"} : RouteCheck(op, id1, id2)
    PROVE  IdInv(id)'
  <1>1. UNCHANGED <<mListIDArray, mtknMap, nodes, disturbed, doomed>>
    BY DEF RouteSend, RouteCheck, history
  <1>2. IdInv(id)
    BY <1>1 DEF Lives
  <1>3. CASE UNCHANGED <<inbox, wanted>>
    <2>1. \A h \in Host : SameFor(inbox[h], inbox'[h], id)
      BY <1>3, SameItself
    <2> QED BY <1>1, <1>2, <1>3, <2>1, Hosts, Untouched
  <1>4. CASE RouteSend /\ Known(call.from) /\ Known(call.to)
    <2> DEFINE x  == call.from
               at == mtknMap[x].at
               d0 == Target(call.to)
               m  == [op |-> call.op, kind |-> at[2], id |-> x, dest |-> d0]
    <2>1. /\ x \in Id /\ call.to \in Id /\ call.op \in {"add", "remove"} /\ Mailed(inbox)
          /\ mtknMap[x] \in Token /\ at[1] # CoHost /\ mtknMap[call.to] \in Token
      BY <1>4 DEF RouteSend, TypeInv, TypeOK
    <2>2. at \in Place /\ at[1] \in Host /\ d0 \in Place \X Id
      BY <2>1 DEF Token, Target, Place
    <2>3. /\ inbox' = Post(inbox, at[1], m)
          /\ wanted' = IF call.op = "add" THEN wanted \union {<<x, d0>>} ELSE wanted \ {<<x, d0>>}
      BY <1>4 DEF RouteSend, RouteTo
    <2>4. m \in Mail(at[1])
      BY <2>1, <2>2, Mails
    <2>5. m.id = x /\ m.op = call.op /\ m.dest = d0 /\ m.kind = at[2]
      OBVIOUS
    <2>6. Known(x)
      BY <1>4
    <2> HIDE DEF m, d0
    <2>7. CASE id # x
      <3>1. \A h \in Host : SameFor(inbox[h], inbox'[h], id)
        BY <2>1, <2>2, <2>3, <2>4, <2>5, <2>7, PostsAway
      <3>2. \A d \in Place \X Id : <<id, d>> \in wanted' <=> <<id, d>> \in wanted
        BY <2>3, <2>7
      <3> QED BY <1>1, <1>2, <3>1, <3>2, Hosts, Untouched
    <2>8. CASE id = x
      <3>1. /\ mListIDArray[id] # NULL /\ at = mListIDArray[id] /\ at = <<at[1], at[2]>>
            /\ ~ Has(id, "create") /\ ~ Has(id, "set")
        BY <1>2, <2>2, <2>6, <2>8 DEF IdInv, Addressed, Life, Place
      <3> HIDE DEF x, at
      <3>2. Known(id)' <=> Known(id)
        BY <1>1 DEF Known
      <3>3. Exists(id)' <=> Exists(id)
        BY <1>1 DEF Exists
      <3>4. \A op : HasIn(inbox', id, op) <=> About(m, id, op) \/ HasIn(inbox, id, op)
        BY <2>1, <2>2, <2>3, <2>4, Posts
      <3>5. \A op \in {"create", "set", "unset"} : HasIn(inbox', id, op) <=> Has(id, op)
        BY <2>1, <2>5, <3>4 DEF Has, About
      <3>6. Addressed(id)'
        <4>1. ASSUME NEW h \in Host, NEW i \in 1 .. Len(inbox'[h]), inbox'[h][i].id = id
              PROVE  /\ mListIDArray[id] # NULL
                     /\ mListIDArray[id] = IF h = CoHost THEN <<inbox'[h][i].from, inbox'[h][i].kind>>
                                           ELSE <<h, inbox'[h][i].kind>>
                     /\ inbox'[h][i].op \in {"delete", "unset"} => id \in doomed
          <5>1. (h = at[1] /\ inbox'[h][i] = m) \/ \E j \in 1 .. Len(inbox[h]) : inbox[h][j] = inbox'[h][i]
            BY <2>1, <2>2, <2>3, <2>4, Posts
          <5>2. CASE h = at[1] /\ inbox'[h][i] = m
            BY <2>1, <2>5, <3>1, <5>2
          <5>3. CASE \E j \in 1 .. Len(inbox[h]) : inbox[h][j] = inbox'[h][i]
            BY <1>2, <4>1, <5>3 DEF IdInv, Addressed
          <5> QED BY <5>1, <5>2, <5>3
        <4> QED BY <1>1, <1>2, <3>2, <4>1 DEF IdInv, Addressed
      <3>7. Life(id)'
        <4>1. \A h \in Host : Once(inbox'[h], id) /\ InOrder(inbox'[h], id)
          <5>1. ~ About(m, id, "set") /\ m.op \notin {"create", "set", "unset"}
            BY <2>1, <2>5 DEF About
          <5> QED BY <1>2, <2>1, <2>2, <2>3, <2>4, <5>1, Posts DEF IdInv, Life
        <4> QED BY <1>2, <3>2, <3>3, <3>5, <4>1 DEF IdInv, Life, Has
      <3>8. Orders(id)'
        <4>1. ASSUME NEW n \in DOMAIN nodes, n[2] = id, NEW d \in Place \X Id
              PROVE  <<id, d>> \in wanted' <=> Becomes(inbox'[n[1][1]], id, d, nodes[n])
          <5>1. n[1][1] = at[1]
            BY <1>2, <3>1, <4>1 DEF IdInv, Addressed
          <5>2. inbox'[at[1]] = Append(inbox[at[1]], m) /\ inbox[at[1]] \in Seq(Mail(at[1]))
            BY <2>1, <2>2, <2>3, <2>4, Posts DEF Mailed
          <5>3. Becomes(inbox'[at[1]], id, d, nodes[n])
                  <=> IF Routing(m, id, d) THEN m.op = "add" ELSE Becomes(inbox[at[1]], id, d, nodes[n])
            BY <2>4, <5>2, AppendBecomes
          <5>4. Routing(m, id, d) <=> d = d0
            BY <2>1, <2>5, <2>8 DEF Routing
          <5>5. <<id, d>> \in wanted <=> Becomes(inbox[at[1]], id, d, nodes[n])
            BY <1>2, <2>6, <2>8, <4>1, <5>1 DEF IdInv, Orders
          <5> QED BY <2>1, <2>3, <2>5, <2>8, <5>1, <5>3, <5>4, <5>5
        <4>2. ~ HasIn(inbox', id, "create") /\ ~ HasIn(inbox', id, "set")
          BY <3>1, <3>5
        <4> QED BY <1>1, <4>1, <4>2 DEF Orders, Has
      <3> QED BY <3>6, <3>7, <3>8 DEF IdInv
    <2> QED BY <2>7, <2>8
  <1> QED BY <1>3, <1>4 DEF RouteSend, RouteCheck, history

(* The first report of the coordinator's inbox, and what is left behind it. *)
LEMMA Reported ==
    ASSUME TypeInv, inbox[CoHost] # <<>>, NEW q, q = [inbox EXCEPT ![CoHost] = Tail(@)],
           NEW id \in Id, Life(id), Addressed(id), Head(inbox[CoHost]).id = id
    PROVE  LET m == Head(inbox[CoHost]) IN
           /\ mListIDArray[id] # NULL /\ mListIDArray[id] = <<m.from, m.kind>>
           /\ m.op = "unset" => id \in doomed
           /\ \A op : op # m.op => (HasIn(q, id, op) <=> Has(id, op))
           /\ Has(id, m.op) /\ ~ HasIn(q, id, m.op)
           /\ m.op = "unset" => ~ Has(id, "set")
           /\ \A h \in Host : Once(q[h], id) /\ InOrder(q[h], id)
  <1> DEFINE m == Head(inbox[CoHost])
  <1>1. CoHost \in Host /\ Mailed(inbox) /\ m.id = id
    BY Mails DEF TypeInv
  <1>2. m.op \in {"set", "unset"} /\ m = inbox[CoHost][1] /\ 1 \in 1 .. Len(inbox[CoHost])
    BY <1>1, HeadOf
  <1>3. /\ mListIDArray[id] # NULL /\ mListIDArray[id] = <<m.from, m.kind>>
        /\ m.op = "unset" => id \in doomed
    BY <1>1, <1>2 DEF Addressed
  <1>4. inbox[CoHost] \in Seq(Mail(CoHost)) /\ q[CoHost] = Tail(inbox[CoHost])
        /\ \A h \in Host \ {CoHost} : q[h] = inbox[h]
    BY <1>1 DEF Mailed
  <1>5. \A op : HasIn(inbox, id, op) <=> About(m, id, op) \/ HasIn(q, id, op)
    <2> TAKE op
    <2>1. Holds(inbox[CoHost], id, op) <=> About(m, id, op) \/ Holds(q[CoHost], id, op)
      BY <1>4, TailHolds
    <2> QED BY <1>1, <1>4, <2>1 DEF HasIn
  <1>6. Once(inbox[CoHost], id) /\ InOrder(inbox[CoHost], id)
    BY <1>1 DEF Life
  <1>7. About(m, id, m.op)
    BY <1>1 DEF About
  <1>8. ~ Holds(q[CoHost], id, m.op) /\ (m.op = "unset" => ~ Holds(q[CoHost], id, "set"))
    BY <1>2, <1>4, <1>6, <1>7, TailOnce
  <1>9. \A h \in Host \ {CoHost} : ~ Holds(q[h], id, "set") /\ ~ Holds(q[h], id, "unset")
    BY <1>1, <1>4, Kinds
  <1>10. ~ HasIn(q, id, m.op) /\ (m.op = "unset" => ~ HasIn(q, id, "set"))
    BY <1>2, <1>8, <1>9 DEF HasIn
  <1>11. \A h \in Host : Once(q[h], id) /\ InOrder(q[h], id)
    BY <1>4, TailOnce DEF Life
  <1>12. \A op : op # m.op => (HasIn(q, id, op) <=> Has(id, op))
    BY <1>5 DEF About, Has
  <1>13. Has(id, m.op)
    BY <1>5, <1>7 DEF Has
  <1> QED BY <1>3, <1>10, <1>11, <1>12, <1>13

(* What is left of the mail is addressed as it was. *)
LEMMA AddressedLess ==
    ASSUME TypeInv, NEW h \in Host, inbox[h] # <<>>, inbox' = [inbox EXCEPT ![h] = Tail(@)],
           NEW id \in Id, Addressed(id), mListIDArray' = mListIDArray, nodes' = nodes,
           id \in doomed => id \in doomed',
           mtknMap'[id] # NULL => mtknMap'[id] = [at |-> mListIDArray[id], info |-> mListIDArray[id]]
                                  /\ mListIDArray[id] # NULL
    PROVE  Addressed(id)'
  <1>1. ASSUME NEW x \in Host, NEW i \in 1 .. Len(inbox'[x]), inbox'[x][i].id = id
        PROVE  /\ mListIDArray[id] # NULL
               /\ mListIDArray[id] = IF x = CoHost THEN <<inbox'[x][i].from, inbox'[x][i].kind>>
                                     ELSE <<x, inbox'[x][i].kind>>
               /\ inbox'[x][i].op \in {"delete", "unset"} => id \in doomed'
    <2>1. Mailed(inbox)
      BY DEF TypeInv
    <2>2. \A y \in Host : \A j \in 1 .. Len(inbox'[y]) : \E k \in 1 .. Len(inbox[y]) : inbox[y][k] = inbox'[y][j]
      BY <2>1, Pops
    <2>3. PICK k \in 1 .. Len(inbox[x]) : inbox[x][k] = inbox'[x][i]
      BY <2>2
    <2> QED BY <1>1, <2>3 DEF Addressed
  <1> QED BY <1>1 DEF Addressed, Known

(* setMtkn and deleteMtkn for another id. *)
LEMMA CoordinateAway ==
    ASSUME TypeInv, Lives, Coordinate, NEW id \in Id \ disturbed', Head(inbox[CoHost]).id # id
    PROVE  IdInv(id)'
  <1> DEFINE m == Head(inbox[CoHost])
             q == [inbox EXCEPT ![CoHost] = Tail(@)]
  <1>1. inbox[CoHost] # <<>> /\ Mailed(inbox) /\ CoHost \in Host /\ m.id # id
        /\ mtknMap \in [Id -> Token \union {NULL}] /\ mListIDArray \in [Id -> Mgr \union {NULL}]
    BY Mails DEF TypeInv, TypeOK, Coordinate
  <1>2. m.id \in Id /\ m.kind \in Kind
    BY <1>1, HeadOf
  <1>3. Mailed(q)
    BY <1>1, Pops
  <1>4. \A h \in Host : SameFor(inbox[h], q[h], id)
    BY <1>1, PopsAway
  <1>5. UNCHANGED <<nodes, mListIDArray, wanted>> /\ disturbed \subseteq disturbed' /\ doomed \subseteq doomed'
    BY DEF Coordinate, setMtkn, deleteMtkn, Misattributed
  <1>6. IdInv(id)
    BY <1>5 DEF Lives
  <1>7. mtknMap'[id] = mtknMap[id]
    BY <1>1, <1>2 DEF Coordinate, setMtkn, deleteMtkn
  <1>8. \/ inbox' = q
        \/ \E g \in Mgr : inbox' = Post(q, g[1], [op |-> "delete", kind |-> g[2], id |-> m.id])
    <2>1. \A g \in Listed(m.id) : g \in Mgr
      BY <1>1, <1>2 DEF Listed
    <2> HIDE DEF q
    <2>2. q = [inbox EXCEPT ![CoHost] = Tail(@)]
      BY DEF q
    <2> QED BY <2>1, <2>2 DEF Coordinate, setMtkn, deleteMtkn
  <1> HIDE DEF q
  <1>9. \A h \in Host : SameFor(inbox[h], inbox'[h], id)
    <2>1. CASE inbox' = q
      BY <1>4, <2>1
    <2>2. ASSUME NEW g \in Mgr, inbox' = Post(q, g[1], [op |-> "delete", kind |-> g[2], id |-> m.id])
          PROVE  \A h \in Host : SameFor(inbox[h], inbox'[h], id)
      <3> DEFINE r == [op |-> "delete", kind |-> g[2], id |-> m.id]
      <3>1. r \in Mail(g[1]) /\ g[1] \in Host /\ r.id # id
        BY <1>1, <1>2, Mails
      <3>2. inbox' = Post(q, g[1], r)
        BY <2>2
      <3> HIDE DEF r
      <3>3. \A h \in Host : SameFor(q[h], inbox'[h], id)
        BY <1>3, <3>1, <3>2, PostsAway
      <3> QED BY <1>4, <3>3, SameTwice
    <2> QED BY <1>8, <2>1, <2>2
  <1> QED BY <1>5, <1>6, <1>7, <1>9, Hosts, Untouched

LEMMA SetLives ==
    ASSUME TypeInv, Lives, NEW addr, setMtkn(addr), Coordinate, NEW id \in Id \ disturbed',
           Head(inbox[CoHost]).id = id
    PROVE  IdInv(id)'
  <1> DEFINE m == Head(inbox[CoHost])
             g == mListIDArray[id]
  <1>1. inbox[CoHost] # <<>> /\ Mailed(inbox) /\ CoHost \in Host /\ m.id = id /\ m.op = "set"
        /\ mtknMap \in [Id -> Token \union {NULL}] /\ mListIDArray \in [Id -> Mgr \union {NULL}]
    BY Mails DEF TypeInv, TypeOK, Coordinate, setMtkn
  <1>2. UNCHANGED <<nodes, mListIDArray, wanted>> /\ disturbed \subseteq disturbed' /\ addr = m.from
    BY <1>1 DEF Coordinate, setMtkn, Misattributed
  <1>3. IdInv(id)
    BY <1>2 DEF Lives
  <1> DEFINE q == [inbox EXCEPT ![CoHost] = Tail(@)]
  <1>4. /\ g # NULL /\ g = <<m.from, m.kind>>
        /\ \A op : op # "set" => (HasIn(q, id, op) <=> Has(id, op))
        /\ Has(id, "set") /\ ~ HasIn(q, id, "set")
        /\ \A h \in Host : Once(q[h], id) /\ InOrder(q[h], id)
    BY <1>1, <1>3, Reported DEF IdInv
  <1>5. ~ Known(id) /\ ~ Has(id, "create") /\ ~ Has(id, "add") /\ ~ Has(id, "remove")
        /\ (\A n \in DOMAIN nodes : n[2] = id => nodes[n] = {})
        /\ (\A d \in Place \X Id : <<id, d>> \notin wanted)
    BY <1>3, <1>4 DEF IdInv, Life, Orders
  <1>6. /\ mtknMap' = [mtknMap EXCEPT ![id] = [at |-> g, info |-> g]]
        /\ inbox' = q /\ doomed' = doomed
    BY <1>1, <1>2, <1>4, <1>5 DEF setMtkn, Listed
  <1>7. [at |-> g, info |-> g] # NULL /\ mtknMap'[id] = [at |-> g, info |-> g]
    <2>1. g \in Mgr /\ g \in Place
      BY <1>1, <1>4, Mails
    <2>2. [at |-> g, info |-> g] \in Token
      BY <2>1 DEF Token
    <2> QED BY <1>1, <1>6, <2>2, NullAssumption
  <1>8. Known(id)'
    BY <1>7 DEF Known
  <1>9. Exists(id)' <=> Exists(id)
    BY <1>2 DEF Exists
  <1>10. Addressed(id)'
    BY <1>1, <1>2, <1>3, <1>4, <1>6, <1>7, AddressedLess DEF IdInv
  <1> HIDE DEF q, g
  <1>11. Life(id)'
    <2>1. Exists(id) \/ Has(id, "unset")
      BY <1>3, <1>4 DEF IdInv, Life
    <2>2. Has(id, "unset") => ~ Exists(id)
      BY <1>3 DEF IdInv, Life
    <2> QED BY <1>4, <1>5, <1>6, <1>8, <1>9, <2>1, <2>2 DEF Life, Has
  <1>12. Orders(id)'
    <2>1. ~ HasIn(inbox', id, "create") /\ ~ HasIn(inbox', id, "set")
          /\ ~ HasIn(inbox', id, "add") /\ ~ HasIn(inbox', id, "remove")
      BY <1>4, <1>5, <1>6
    <2>2. ASSUME NEW n \in DOMAIN nodes, n[2] = id, NEW d \in Place \X Id
          PROVE  <<id, d>> \in wanted <=> Becomes(inbox'[n[1][1]], id, d, nodes[n])
      <3>1. n[1][1] \in Host
        BY Hosts
      <3>2. \A i \in 1 .. Len(inbox'[n[1][1]]) : ~ Routing(inbox'[n[1][1]][i], id, d)
        BY <2>1, <3>1 DEF HasIn, Holds, About, Routing
      <3>3. ~ Becomes(inbox'[n[1][1]], id, d, {})
        BY <3>2 DEF Becomes
      <3> QED BY <1>5, <2>2, <3>3
    <2> QED BY <1>2, <2>1, <2>2 DEF Orders, Has
  <1> QED BY <1>10, <1>11, <1>12 DEF IdInv

LEMMA UnsetLives ==
    ASSUME TypeInv, Lives, NEW addr, deleteMtkn(addr), Coordinate, NEW id \in Id \ disturbed',
           Head(inbox[CoHost]).id = id
    PROVE  IdInv(id)'
  <1> DEFINE m == Head(inbox[CoHost])
             g == mListIDArray[id]
             q == [inbox EXCEPT ![CoHost] = Tail(@)]
  <1>1. inbox[CoHost] # <<>> /\ Mailed(inbox) /\ CoHost \in Host /\ m.id = id /\ m.op = "unset"
        /\ mtknMap \in [Id -> Token \union {NULL}] /\ mListIDArray \in [Id -> Mgr \union {NULL}]
    BY Mails DEF TypeInv, TypeOK, Coordinate, deleteMtkn
  <1>2. UNCHANGED <<nodes, mListIDArray, wanted, doomed>> /\ disturbed \subseteq disturbed' /\ addr = m.from
        /\ inbox' = q
    BY <1>1 DEF Coordinate, deleteMtkn, Misattributed
  <1>3. IdInv(id)
    BY <1>2 DEF Lives
  <1>4. /\ g # NULL /\ g = <<m.from, m.kind>>
        /\ \A op : op # "unset" => (HasIn(q, id, op) <=> Has(id, op))
        /\ Has(id, "unset") /\ ~ HasIn(q, id, "unset") /\ ~ Has(id, "set")
        /\ \A h \in Host : Once(q[h], id) /\ InOrder(q[h], id)
    BY <1>1, <1>3, Reported DEF IdInv
  <1>5. ~ Exists(id) /\ ~ Has(id, "create")
    BY <1>3, <1>4 DEF IdInv, Life
  <1>6. ~ Known(id)'
    <2>1. Known(id) => mtknMap[id].at = <<addr, m.kind>>
      BY <1>2, <1>3, <1>4 DEF IdInv, Addressed
    <2>2. mtknMap' = IF Known(id) /\ mtknMap[id].at = <<addr, m.kind>> THEN [mtknMap EXCEPT ![id] = NULL] ELSE mtknMap
      BY <1>1 DEF deleteMtkn
    <2>3. mtknMap'[id] = NULL
      BY <1>1, <2>1, <2>2 DEF Known
    <2> QED BY <2>3 DEF Known
  <1>7. ~ Exists(id)'
    BY <1>2, <1>5 DEF Exists
  <1>8. Addressed(id)'
    BY <1>1, <1>2, <1>3, <1>6, AddressedLess DEF IdInv, Known
  <1> HIDE DEF q, g
  <1>9. Life(id)'
    BY <1>2, <1>4, <1>5, <1>6, <1>7 DEF Life, Has
  <1>10. Orders(id)'
    BY <1>2, <1>4, <1>5, <1>6 DEF Orders, Has
  <1> QED BY <1>8, <1>9, <1>10 DEF IdInv

(* h handles the order m about id: where the module is, and what the       *)
(* inboxes q that are left still hold.                                     *)
Left(q, h, m, id) ==
    /\ mListIDArray[id] # NULL /\ mListIDArray[id] = <<h, m.kind>>
    /\ m.op = "delete" => id \in doomed
    /\ m.op \in {"create", "delete", "add", "remove"}
    /\ \A op : op # m.op => (HasIn(q, id, op) <=> Has(id, op))
    /\ Has(id, m.op) /\ (m.op = "create" => ~ HasIn(q, id, "create"))
    /\ \A x \in Host : Once(q[x], id) /\ InOrder(q[x], id)
    /\ \A x \in Host : \A i \in 1 .. Len(q[x]) : \E j \in 1 .. Len(inbox[x]) : inbox[x][j] = q[x][i]
    /\ \A x \in DOMAIN nodes : x[2] = id => x = <<<<h, m.kind>>, id>>

LEMMA Taken ==
    ASSUME TypeInv, NEW h \in Host \ {CoHost}, inbox[h] # <<>>, NEW q, q = [inbox EXCEPT ![h] = Tail(@)],
           NEW id \in Id, Life(id), Addressed(id), Head(inbox[h]).id = id
    PROVE  Left(q, h, Head(inbox[h]), id)
  <1> DEFINE m == Head(inbox[h])
  <1>1. Mailed(inbox) /\ m.id = id
    BY DEF TypeInv
  <1>2. /\ m.op \in {"create", "delete", "add", "remove"}
        /\ m = inbox[h][1] /\ 1 \in 1 .. Len(inbox[h])
    BY <1>1, HeadOf
  <1>3. /\ mListIDArray[id] # NULL /\ mListIDArray[id] = <<h, m.kind>>
        /\ m.op = "delete" => id \in doomed
    BY <1>1, <1>2 DEF Addressed
  <1>4. inbox[h] \in Seq(Mail(h)) /\ q[h] = Tail(inbox[h])
        /\ \A x \in Host \ {h} : q[x] = inbox[x]
    BY <1>1 DEF Mailed
  <1>5. \A op : HasIn(inbox, id, op) <=> About(m, id, op) \/ HasIn(q, id, op)
    <2> TAKE op
    <2>1. Holds(inbox[h], id, op) <=> About(m, id, op) \/ Holds(q[h], id, op)
      BY <1>4, TailHolds
    <2> QED BY <1>1, <1>4, <2>1 DEF HasIn
  <1>6. \A op : op # m.op => (HasIn(q, id, op) <=> Has(id, op))
    BY <1>5 DEF About, Has
  <1>7. About(m, id, m.op)
    BY <1>1 DEF About
  <1>8. Has(id, m.op)
    BY <1>5, <1>7 DEF Has
  <1>9. ASSUME m.op = "create" PROVE ~ HasIn(q, id, "create")
    <2>1. Once(inbox[h], id)
      BY DEF Life
    <2>2. ~ Holds(q[h], id, "create")
      BY <1>4, <1>7, <1>9, <2>1, TailOnce
    <2>3. \A x \in Host \ {h} : ~ Holds(q[x], id, "create")
      <3>1. ASSUME NEW x \in Host \ {h}, NEW i \in 1 .. Len(inbox[x]), About(inbox[x][i], id, "create")
            PROVE  FALSE
        <4>1. x # CoHost
          BY <1>1, <3>1, Kinds DEF Holds
        <4>2. mListIDArray[id] = <<x, inbox[x][i].kind>>
          BY <3>1, <4>1 DEF Addressed, About
        <4> QED BY <1>3, <4>2
      <3> QED BY <1>4, <3>1 DEF Holds
    <2> QED BY <2>2, <2>3 DEF HasIn
  <1>10. \A x \in Host : Once(q[x], id) /\ InOrder(q[x], id)
    <2>1. \A x \in Host : Once(inbox[x], id) /\ InOrder(inbox[x], id)
      BY DEF Life
    <2>2. Once(q[h], id) /\ InOrder(q[h], id)
      BY <1>4, <2>1, TailOnce
    <2> QED BY <1>4, <2>1, <2>2
  <1>11. \A x \in Host : \A i \in 1 .. Len(q[x]) : \E j \in 1 .. Len(inbox[x]) : inbox[x][j] = q[x][i]
    <2>1. \A i \in 1 .. Len(q[h]) : \E j \in 1 .. Len(inbox[h]) : inbox[h][j] = q[h][i]
      BY <1>4, TailOf
    <2> QED BY <1>4, <2>1
  <1>12. \A x \in DOMAIN nodes : x[2] = id => x = <<<<h, m.kind>>, id>>
    BY <1>3, Hosts DEF Addressed
  <1> QED BY <1>2, <1>3, <1>6, <1>8, <1>9, <1>10, <1>11, <1>12 DEF Left

(* A route matters only as one of them. *)
LEMMA BecomesAlone ==
    ASSUME NEW q, NEW id, NEW d, NEW r, NEW s, d \in r <=> d \in s
    PROVE  Becomes(q, id, d, r) <=> Becomes(q, id, d, s)
  BY DEF Becomes

LEMMA ManageAway ==
    ASSUME TypeInv, Lives, NEW h \in Host \ {CoHost}, Manage(h), NEW id \in Id \ disturbed',
           Head(inbox[h]).id # id
    PROVE  IdInv(id)'
  <1> DEFINE m == Head(inbox[h])
             n == <<<<h, m.kind>>, m.id>>
             q == [inbox EXCEPT ![h] = Tail(@)]
             report(op) == [op |-> op, kind |-> m.kind, id |-> m.id, from |-> h]
  <1>1. /\ inbox[h] # <<>> /\ Mailed(q) /\ UNCHANGED <<coordinator, calls, restarts, history>>
        /\ \A op \in {"set", "unset"} : report(op) \in Mail(CoHost)
    BY Managed
  <1>2. m.id # id /\ Mailed(inbox) /\ CoHost \in Host /\ n[2] # id /\ \A op : report(op).id # id
    BY Mails DEF TypeInv
  <1>3. \A x \in Host : SameFor(inbox[x], q[x], id)
    BY <1>1, <1>2, PopsAway
  <1>4. q = [inbox EXCEPT ![h] = Tail(@)]
    OBVIOUS
  <1>5. \/ inbox' = q
        \/ \E op \in {"set", "unset"} : inbox' = Post(q, CoHost, report(op))
    BY <1>4, Managed
  <1>6. \A x : x[2] = id => /\ x \in DOMAIN nodes' <=> x \in DOMAIN nodes
                            /\ x \in DOMAIN nodes => nodes'[x] = nodes[x]
    <2>1. nodes \in [DOMAIN nodes -> SUBSET (Place \X Id)]
      BY DEF TypeInv
    <2> HIDE DEF n, m, q, report
    <2>2. \/ nodes' = [x \in DOMAIN nodes \union {n} |-> IF x = n THEN {} ELSE nodes[x]]
          \/ nodes' = [x \in DOMAIN nodes \ {n} |-> nodes[x]]
          \/ \E s : nodes' = [nodes EXCEPT ![n] = s]
          \/ nodes' = nodes
      <3>1. (nodes' = [nodes EXCEPT ![n] = IF m.op = "add" THEN @ \union {m.dest} ELSE @ \ {m.dest}])
              => \E s : nodes' = [nodes EXCEPT ![n] = s]
        OBVIOUS
      <3> QED BY <3>1, Managed DEF n, m, q, report
    <2> QED BY <1>2, <2>1, <2>2
  <1> HIDE DEF q, report, n
  <1>7. \A x \in Host : SameFor(inbox[x], inbox'[x], id)
    <2>1. CASE inbox' = q
      BY <1>3, <2>1
    <2>2. ASSUME NEW op \in {"set", "unset"}, inbox' = Post(q, CoHost, report(op))
          PROVE  \A x \in Host : SameFor(inbox[x], inbox'[x], id)
      <3>1. \A x \in Host : SameFor(q[x], inbox'[x], id)
        BY <1>1, <1>2, <2>2, PostsAway
      <3> QED BY <1>3, <3>1, SameTwice
    <2> QED BY <1>5, <2>1, <2>2
  <1>8. IdInv(id)
    BY <1>1 DEF Lives, history
  <1> QED BY <1>1, <1>6, <1>7, <1>8, Hosts, Untouched DEF coordinator, history

(* A machine handles an order about id. *)
LEMMA ManageHere ==
    ASSUME TypeInv, Lives, NEW h \in Host \ {CoHost}, Manage(h), NEW id \in Id \ disturbed',
           Head(inbox[h]).id = id
    PROVE  IdInv(id)'
  <1> DEFINE m == Head(inbox[h])
             n == <<<<h, m.kind>>, m.id>>
             q == [inbox EXCEPT ![h] = Tail(@)]
             report(op) == [op |-> op, kind |-> m.kind, id |-> m.id, from |-> h]
  <1>1. /\ inbox[h] # <<>> /\ Mailed(q) /\ UNCHANGED <<coordinator, calls, restarts, history>>
        /\ \A op \in {"set", "unset"} : report(op) \in Mail(CoHost)
    BY Managed
  <1>2. UNCHANGED <<mListIDArray, mtknMap, disturbed, doomed, wanted>>
    BY <1>1 DEF coordinator, history
  <1>3. CoHost \in Host /\ Mailed(inbox) /\ nodes \in [DOMAIN nodes -> SUBSET (Place \X Id)]
    BY Mails DEF TypeInv
  <1>4. Addressed(id) /\ Life(id) /\ Orders(id)
    BY <1>2 DEF Lives, IdInv
  <1>5. Known(id)' <=> Known(id)
    BY <1>2 DEF Known
  <1>6. /\ mListIDArray[id] # NULL /\ mListIDArray[id] = <<h, m.kind>>
        /\ m.op = "delete" => id \in doomed
        /\ m.op \in {"create", "delete", "add", "remove"}
        /\ \A op : op # m.op => (HasIn(q, id, op) <=> Has(id, op))
        /\ Has(id, m.op) /\ (m.op = "create" => ~ HasIn(q, id, "create"))
        /\ \A x \in Host : Once(q[x], id) /\ InOrder(q[x], id)
        /\ \A x \in Host : \A i \in 1 .. Len(q[x]) : \E j \in 1 .. Len(inbox[x]) : inbox[x][j] = q[x][i]
        /\ \A x \in DOMAIN nodes : x[2] = id => x = n
    <2>1. m.id = id /\ n = <<<<h, m.kind>>, id>>
      OBVIOUS
    <2>2. Left(q, h, m, id)
      BY <1>1, <1>4, Taken
    <2> QED BY <2>1, <2>2 DEF Left
  <1>7. \A op : /\ report(op).id = id /\ report(op).op = op
                /\ report(op).from = h /\ report(op).kind = m.kind
    OBVIOUS
  <1>8. n[1] = <<h, m.kind>> /\ n[2] = id
    OBVIOUS
  <1>9. q[h] = Tail(inbox[h]) /\ inbox[h] \in Seq(Mail(h))
    BY <1>3 DEF Mailed
  <1>10. \/ /\ m.op = "create" /\ n \notin DOMAIN nodes
            /\ nodes' = [x \in DOMAIN nodes \union {n} |-> IF x = n THEN {} ELSE nodes[x]]
            /\ inbox' = Post(q, CoHost, report("set"))
         \/ /\ m.op = "delete" /\ n \in DOMAIN nodes
            /\ nodes' = [x \in DOMAIN nodes \ {n} |-> nodes[x]]
            /\ inbox' = Post(q, CoHost, report("unset"))
         \/ /\ m.op \in {"add", "remove"} /\ n \in DOMAIN nodes /\ m.dest \in Place \X Id
            /\ nodes' = [nodes EXCEPT ![n] = IF m.op = "add" THEN @ \union {m.dest} ELSE @ \ {m.dest}]
            /\ inbox' = q
         \/ /\ m.op = "create" <=> n \in DOMAIN nodes
            /\ inbox' = q /\ nodes' = nodes
    BY Managed
  <1> HIDE DEF q, report, n
  <1>11. ASSUME NEW op \in {"set", "unset"}, inbox' = Post(q, CoHost, report(op))
         PROVE  /\ \A x \in Host : \A i \in 1 .. Len(inbox'[x]) :
                      (x = CoHost /\ inbox'[x][i] = report(op)) \/ \E j \in 1 .. Len(inbox[x]) : inbox[x][j] = inbox'[x][i]
                /\ \A o : HasIn(inbox', id, o) <=> o = op \/ HasIn(q, id, o)
                /\ (\A x \in Host : ~ Holds(q[x], id, "unset")) /\ (op = "set" => \A x \in Host : ~ Holds(q[x], id, "set"))
                      => \A x \in Host : Once(inbox'[x], id) /\ InOrder(inbox'[x], id)
    <2>1. /\ \A x \in Host : \A i \in 1 .. Len(inbox'[x]) :
                      (x = CoHost /\ inbox'[x][i] = report(op)) \/ \E j \in 1 .. Len(q[x]) : q[x][j] = inbox'[x][i]
          /\ \A o : HasIn(inbox', id, o) <=> About(report(op), id, o) \/ HasIn(q, id, o)
          /\ \A x \in Host :
                 /\ Once(q[x], id) /\ (~ Holds(q[CoHost], id, op)) => Once(inbox'[x], id)
                 /\ InOrder(q[x], id) /\ (op = "set" => ~ Holds(q[CoHost], id, "unset"))
                       => InOrder(inbox'[x], id)
      <3> DEFINE r == report(op)
      <3>1. r \in Mail(CoHost) /\ inbox' = Post(q, CoHost, r) /\ r.id = id /\ r.op = op
        BY <1>1, <1>7, <1>11
      <3>2. About(r, id, "set") <=> op = "set"
        BY <3>1 DEF About
      <3> HIDE DEF r
      <3>3. \A x \in Host : \A i \in 1 .. Len(inbox'[x]) :
                      (x = CoHost /\ inbox'[x][i] = r) \/ \E j \in 1 .. Len(q[x]) : q[x][j] = inbox'[x][i]
        BY <1>1, <1>3, <3>1, Posts
      <3>4. \A o : HasIn(inbox', id, o) <=> About(r, id, o) \/ HasIn(q, id, o)
        BY <1>1, <1>3, <3>1, Posts
      <3>5. \A x \in Host :
                 /\ Once(q[x], id) /\ (~ Holds(q[CoHost], id, op)) => Once(inbox'[x], id)
                 /\ InOrder(q[x], id) /\ (op = "set" => ~ Holds(q[CoHost], id, "unset"))
                       => InOrder(inbox'[x], id)
        BY <1>1, <1>3, <3>1, <3>2, Posts
      <3> QED BY <3>3, <3>4, <3>5 DEF r
    <2>2. \A o : About(report(op), id, o) <=> o = op
      BY <1>7 DEF About
    <2>3. \A x \in Host : \A i \in 1 .. Len(inbox'[x]) :
             (x = CoHost /\ inbox'[x][i] = report(op)) \/ \E j \in 1 .. Len(inbox[x]) : inbox[x][j] = inbox'[x][i]
      BY <1>6, <2>1
    <2>4. \A o : HasIn(inbox', id, o) <=> o = op \/ HasIn(q, id, o)
      BY <2>1, <2>2
    <2>5. ASSUME \A x \in Host : ~ Holds(q[x], id, "unset"), op = "set" => \A x \in Host : ~ Holds(q[x], id, "set")
          PROVE  \A x \in Host : Once(inbox'[x], id) /\ InOrder(inbox'[x], id)
      <3>1. ~ Holds(q[CoHost], id, op)
        BY <1>3, <2>5
      <3> QED BY <1>3, <1>6, <2>1, <2>5, <3>1
    <2> QED BY <2>3, <2>4, <2>5
  <1>12. CASE /\ m.op = "create" /\ n \notin DOMAIN nodes
              /\ nodes' = [x \in DOMAIN nodes \union {n} |-> IF x = n THEN {} ELSE nodes[x]]
              /\ inbox' = Post(q, CoHost, report("set"))
    <2>1. ~ Exists(id) /\ ~ Known(id) /\ ~ Has(id, "set") /\ ~ Has(id, "unset") /\ ~ Has(id, "add") /\ ~ Has(id, "remove")
          /\ \A d \in Place \X Id : <<id, d>> \notin wanted
      BY <1>4, <1>6, <1>12 DEF Life, Orders
    <2>2. /\ HasIn(inbox', id, "set") /\ ~ HasIn(inbox', id, "create") /\ ~ HasIn(inbox', id, "unset")
          /\ ~ HasIn(inbox', id, "add") /\ ~ HasIn(inbox', id, "remove")
      BY <1>6, <1>11, <1>12, <2>1
    <2>3. \A x \in Host : ~ Holds(q[x], id, "set") /\ ~ Holds(q[x], id, "unset")
      BY <1>6, <1>12, <2>1 DEF HasIn
    <2>4. \A x \in Host : Once(inbox'[x], id) /\ InOrder(inbox'[x], id)
      BY <1>11, <1>12, <2>3
    <2>5. n \in DOMAIN nodes' /\ nodes'[n] = {} /\ \A x \in DOMAIN nodes' : x[2] = id => x = n
      BY <1>6, <1>12
    <2>6. Exists(id)'
      BY <1>8, <2>5 DEF Exists
    <2>7. Addressed(id)'
      <3>1. ASSUME NEW x \in Host, NEW i \in 1 .. Len(inbox'[x]), inbox'[x][i].id = id
            PROVE  /\ mListIDArray[id] # NULL
                   /\ mListIDArray[id] = IF x = CoHost THEN <<inbox'[x][i].from, inbox'[x][i].kind>>
                                         ELSE <<x, inbox'[x][i].kind>>
                   /\ inbox'[x][i].op \in {"delete", "unset"} => id \in doomed
        <4>1. CASE x = CoHost /\ inbox'[x][i] = report("set")
          BY <1>6, <1>7, <4>1
        <4>2. CASE \E j \in 1 .. Len(inbox[x]) : inbox[x][j] = inbox'[x][i]
          BY <1>4, <3>1, <4>2 DEF Addressed
        <4> QED BY <1>11, <1>12, <4>1, <4>2
      <3> QED BY <1>2, <1>5, <1>6, <1>8, <2>1, <2>5, <3>1 DEF Addressed
    <2>8. Life(id)'
      BY <1>5, <2>1, <2>2, <2>4, <2>6 DEF Life, Has
    <2>9. Orders(id)'
      BY <1>2, <1>5, <2>1, <2>2, <2>5 DEF Orders, Has
    <2> QED BY <2>7, <2>8, <2>9 DEF IdInv
  <1>13. CASE /\ m.op = "delete" /\ n \in DOMAIN nodes
              /\ nodes' = [x \in DOMAIN nodes \ {n} |-> nodes[x]]
              /\ inbox' = Post(q, CoHost, report("unset"))
    <2>1. Exists(id)
      BY <1>8, <1>13 DEF Exists
    <2>2. ~ Has(id, "create") /\ ~ Has(id, "unset") /\ (Has(id, "set") => ~ Known(id)) /\ (Known(id) \/ Has(id, "set"))
      BY <1>4, <2>1 DEF Life
    <2>3. /\ ~ HasIn(inbox', id, "create") /\ HasIn(inbox', id, "unset")
          /\ HasIn(inbox', id, "set") <=> Has(id, "set")
          /\ HasIn(inbox', id, "add") <=> Has(id, "add")
          /\ HasIn(inbox', id, "remove") <=> Has(id, "remove")
      BY <1>6, <1>11, <1>13, <2>2
    <2>4. \A x \in Host : ~ Holds(q[x], id, "unset")
      BY <1>6, <1>13, <2>2 DEF HasIn
    <2>5. \A x \in Host : Once(inbox'[x], id) /\ InOrder(inbox'[x], id)
      BY <1>11, <1>13, <2>4
    <2>6. \A x \in DOMAIN nodes' : x[2] # id
      BY <1>6, <1>13
    <2>7. ~ Exists(id)'
      BY <2>6 DEF Exists
    <2>8. Addressed(id)'
      <3>1. ASSUME NEW x \in Host, NEW i \in 1 .. Len(inbox'[x]), inbox'[x][i].id = id
            PROVE  /\ mListIDArray[id] # NULL
                   /\ mListIDArray[id] = IF x = CoHost THEN <<inbox'[x][i].from, inbox'[x][i].kind>>
                                         ELSE <<x, inbox'[x][i].kind>>
                   /\ inbox'[x][i].op \in {"delete", "unset"} => id \in doomed
        <4>1. CASE x = CoHost /\ inbox'[x][i] = report("unset")
          BY <1>6, <1>7, <1>13, <4>1
        <4>2. CASE \E j \in 1 .. Len(inbox[x]) : inbox[x][j] = inbox'[x][i]
          BY <1>4, <3>1, <4>2 DEF Addressed
        <4> QED BY <1>11, <1>13, <4>1, <4>2
      <3> QED BY <1>2, <1>4, <1>5, <2>6, <3>1 DEF Addressed
    <2>9. Life(id)'
      BY <1>5, <2>2, <2>3, <2>5, <2>7 DEF Life, Has
    <2>10. Orders(id)'
      BY <1>2, <1>4, <1>5, <2>2, <2>3, <2>6 DEF Orders, Has
    <2> QED BY <2>8, <2>9, <2>10 DEF IdInv
  <1>14. ASSUME inbox' = q, DOMAIN nodes' = DOMAIN nodes, m.op # "create"
         PROVE  /\ Addressed(id)' /\ Life(id)'
                /\ Has(id, "create") \/ Has(id, "set") => ~ HasIn(inbox', id, "add") /\ ~ HasIn(inbox', id, "remove")
                /\ \A op \in {"create", "set", "unset"} : HasIn(inbox', id, op) <=> Has(id, op)
    <2>1. \A op \in {"create", "set", "unset"} : HasIn(inbox', id, op) <=> Has(id, op)
      BY <1>6, <1>14
    <2>2. Exists(id)' <=> Exists(id)
      BY <1>14 DEF Exists
    <2>3. Life(id)'
      BY <1>4, <1>5, <1>6, <1>14, <2>1, <2>2 DEF Life, Has
    <2>4. Addressed(id)'
      <3>1. ASSUME NEW x \in Host, NEW i \in 1 .. Len(inbox'[x]), inbox'[x][i].id = id
            PROVE  /\ mListIDArray[id] # NULL
                   /\ mListIDArray[id] = IF x = CoHost THEN <<inbox'[x][i].from, inbox'[x][i].kind>>
                                         ELSE <<x, inbox'[x][i].kind>>
                   /\ inbox'[x][i].op \in {"delete", "unset"} => id \in doomed
        <4>1. PICK j \in 1 .. Len(inbox[x]) : inbox[x][j] = inbox'[x][i]
          BY <1>6, <1>14
        <4> QED BY <1>4, <3>1, <4>1 DEF Addressed
      <3> QED BY <1>2, <1>4, <1>5, <1>14, <3>1 DEF Addressed
    <2>5. \A op : HasIn(inbox', id, op) => Has(id, op)
      BY <1>6, <1>14
    <2> QED BY <1>4, <2>1, <2>3, <2>4, <2>5 DEF Orders
  <1>15. CASE /\ m.op \in {"add", "remove"} /\ n \in DOMAIN nodes /\ m.dest \in Place \X Id
              /\ nodes' = [nodes EXCEPT ![n] = IF m.op = "add" THEN @ \union {m.dest} ELSE @ \ {m.dest}]
              /\ inbox' = q
    <2>1. /\ Addressed(id)' /\ Life(id)'
          /\ \A op \in {"create", "set", "unset"} : HasIn(inbox', id, op) <=> Has(id, op)
      BY <1>14, <1>15
    <2>2. ~ Has(id, "create") /\ ~ Has(id, "set")
      BY <1>4, <1>6, <1>15 DEF Orders
    <2>3. ASSUME Known(id), NEW d \in Place \X Id
          PROVE  <<id, d>> \in wanted <=> Becomes(inbox'[h], id, d, nodes'[n])
      <3>1. <<id, d>> \in wanted <=> Becomes(inbox[h], id, d, nodes[n])
        BY <1>4, <1>8, <1>15, <2>3 DEF Orders
      <3>2. Becomes(inbox[h], id, d, nodes[n]) <=> Becomes(q[h], id, d, Applied(m, id, d, nodes[n]))
        BY <1>1, <1>9, TailBecomes
      <3>3. nodes'[n] = IF m.op = "add" THEN nodes[n] \union {m.dest} ELSE nodes[n] \ {m.dest}
        BY <1>3, <1>15
      <3>4. Routing(m, id, d) <=> m.dest = d
        BY <1>15 DEF Routing
      <3>5. d \in Applied(m, id, d, nodes[n]) <=> d \in nodes'[n]
        BY <1>15, <3>3, <3>4 DEF Applied
      <3>6. Becomes(q[h], id, d, Applied(m, id, d, nodes[n])) <=> Becomes(q[h], id, d, nodes'[n])
        BY <3>5, BecomesAlone
      <3> QED BY <1>15, <3>1, <3>2, <3>6
    <2>4. \A x \in DOMAIN nodes' : x[2] = id => x = n /\ x[1][1] = h
      BY <1>6, <1>8, <1>15
    <2>5. Orders(id)'
      BY <1>2, <1>5, <2>1, <2>2, <2>3, <2>4 DEF Orders, Has
    <2> QED BY <2>1, <2>5 DEF IdInv
  <1>16. CASE /\ m.op = "create" <=> n \in DOMAIN nodes
              /\ inbox' = q /\ nodes' = nodes
    <2>1. m.op # "create" /\ \A x \in DOMAIN nodes : x[2] # id
      BY <1>4, <1>6, <1>8, <1>16 DEF Life, Exists
    <2>2. /\ Addressed(id)' /\ Life(id)'
          /\ Has(id, "create") \/ Has(id, "set") => ~ HasIn(inbox', id, "add") /\ ~ HasIn(inbox', id, "remove")
          /\ \A op \in {"create", "set", "unset"} : HasIn(inbox', id, op) <=> Has(id, op)
      BY <1>14, <1>16, <2>1
    <2>3. Orders(id)'
      BY <1>2, <1>4, <1>16, <2>1, <2>2 DEF Orders, Has
    <2> QED BY <2>2, <2>3 DEF IdInv
  <1> QED BY <1>10, <1>12, <1>13, <1>15, <1>16

LEMMA NetworkLives ==
    ASSUME TypeInv, Lives, NEW id \in Id \ disturbed',
           \/ \E h \in Host : Lose(h)
           \/ \E h \in Host \ {CoHost} : RestartManagers(h)
           \/ RestartCoordinator
    PROVE  IdInv(id)'
  <1>1. Mailed(inbox) /\ nodes \in [DOMAIN nodes -> SUBSET (Place \X Id)]
    BY DEF TypeInv
  <1>2. ASSUME NEW h \in Host, Lose(h) PROVE IdInv(id)'
    <2>1. inbox[h] # <<>> /\ inbox' = [inbox EXCEPT ![h] = Tail(@)] /\ Head(inbox[h]).id # id
          /\ id \notin disturbed
          /\ UNCHANGED <<coordinator, nodes, doomed, wanted>>
      BY <1>2 DEF Lose
    <2>2. \A x \in Host : SameFor(inbox[x], inbox'[x], id)
      BY <1>1, <2>1, PopsAway
    <2> QED BY <2>1, <2>2, Hosts, Untouched DEF Lives, coordinator
  <1>3. ASSUME NEW h \in Host \ {CoHost}, RestartManagers(h) PROVE IdInv(id)'
    <2> DEFINE gone == {n \in DOMAIN nodes : n[1][1] = h}
    <2>1. /\ nodes' = [n \in DOMAIN nodes \ gone |-> nodes[n]] /\ inbox' = [inbox EXCEPT ![h] = <<>>]
          /\ UNCHANGED <<coordinator, doomed, wanted>>
          /\ id \notin disturbed /\ \A n \in gone : n[2] # id
          /\ \A i \in 1 .. Len(inbox[h]) : inbox[h][i].id # id
      BY <1>3 DEF RestartManagers
    <2>2. inbox[h] \in Seq(Mail(h)) /\ inbox'[h] = <<>> /\ \A x \in Host \ {h} : inbox'[x] = inbox[x]
      BY <1>1, <2>1 DEF Mailed
    <2>3. SameFor(inbox[h], inbox'[h], id)
      BY <2>1, <2>2, SameEmptied
    <2>4. \A x \in Host : SameFor(inbox[x], inbox'[x], id)
      BY <2>2, <2>3, SameItself
    <2>5. \A n : n[2] = id => /\ n \in DOMAIN nodes' <=> n \in DOMAIN nodes
                              /\ n \in DOMAIN nodes => nodes'[n] = nodes[n]
      BY <2>1
    <2> QED BY <2>1, <2>4, <2>5, Hosts, Untouched DEF Lives, coordinator
  <1>4. ASSUME RestartCoordinator PROVE IdInv(id)'
    <2>1. /\ ~ InUse(id) /\ nodes' = nodes /\ inbox' = [inbox EXCEPT ![CoHost] = <<>>]
          /\ mtknMap'[id] = NULL
      BY <1>4 DEF RestartCoordinator
    <2>2. ~ Exists(id) /\ \A h \in Host : \A i \in 1 .. Len(inbox[h]) : inbox[h][i].id # id
      BY <2>1, Unused
    <2>3. \A h \in Host : \A i \in 1 .. Len(inbox'[h]) : inbox'[h][i].id # id
      <3>1. inbox'[CoHost] = <<>> /\ \A h \in Host \ {CoHost} : inbox'[h] = inbox[h]
        BY <1>1, <2>1, Mails DEF Mailed
      <3>2. \A i \in 1 .. Len(<<>>) : FALSE
        OBVIOUS
      <3> QED BY <2>2, <3>1, <3>2
    <2>4. \A h \in Host : \A op : ~ Holds(inbox'[h], id, op)
      BY <2>3 DEF Holds, About
    <2>5. \A op : ~ HasIn(inbox', id, op)
      BY <2>4 DEF HasIn
    <2>6. ~ Known(id)' /\ ~ Exists(id)'
      BY <2>1, <2>2 DEF Known, Exists
    <2>7. Addressed(id)'
      BY <2>3, <2>6 DEF Addressed, Exists
    <2>8. Life(id)'
      <3>1. \A h \in Host : Once(inbox'[h], id) /\ InOrder(inbox'[h], id)
        BY <2>3 DEF Once, InOrder, About
      <3> QED BY <2>5, <2>6, <3>1 DEF Life, Has
    <2>9. Orders(id)'
      BY <2>5, <2>6 DEF Orders, Has
    <2> QED BY <2>7, <2>8, <2>9 DEF IdInv
  <1> QED BY <1>2, <1>3, <1>4

-----------------------------------------------------------------------------
(* The calls of the application and the crashes. *)

MailAbout(q, id) == \E h \in Host : \E i \in 1 .. Len(q[h]) : q[h][i].id = id

LEMMA MailHead ==
    ASSUME NEW q, Mailed(q), NEW h \in Host, q[h] # <<>>
    PROVE  MailAbout(q, Head(q[h]).id)
  <1>1. q[h] \in Seq(Mail(h))
    BY DEF Mailed
  <1>2. Head(q[h]) = q[h][1] /\ 1 \in 1 .. Len(q[h])
    BY <1>1, TailOf
  <1> QED BY <1>2 DEF MailAbout

LEMMA MailTail ==
    ASSUME NEW q, Mailed(q), NEW h \in Host, q[h] # <<>>, NEW r, r = [q EXCEPT ![h] = Tail(@)],
           NEW x, MailAbout(r, x)
    PROVE  MailAbout(q, x)
  <1>1. q[h] \in Seq(Mail(h)) /\ r[h] = Tail(q[h]) /\ \A y \in Host \ {h} : r[y] = q[y]
    BY DEF Mailed
  <1>2. \A i \in 1 .. Len(Tail(q[h])) : \E j \in 1 .. Len(q[h]) : q[h][j] = Tail(q[h])[i]
    BY <1>1, TailOf
  <1>3. \A y \in Host : \A i \in 1 .. Len(r[y]) : \E j \in 1 .. Len(q[y]) : q[y][j] = r[y][i]
    BY <1>1, <1>2
  <1>4. PICK y \in Host : \E i \in 1 .. Len(r[y]) : r[y][i].id = x
    BY DEF MailAbout
  <1>5. PICK i \in 1 .. Len(r[y]) : r[y][i].id = x
    BY <1>4
  <1>6. PICK j \in 1 .. Len(q[y]) : q[y][j] = r[y][i]
    BY <1>3
  <1> QED BY <1>5, <1>6 DEF MailAbout

LEMMA MailPosted ==
    ASSUME NEW q, Mailed(q), NEW h \in Host, NEW m \in Mail(h), NEW r, r = Post(q, h, m)
    PROVE  \A x : MailAbout(r, x) => MailAbout(q, x) \/ x = m.id
  <1>1. \A x \in Host : \A i \in 1 .. Len(r[x]) :
                 (x = h /\ r[x][i] = m) \/ \E j \in 1 .. Len(q[x]) : q[x][j] = r[x][i]
    BY Posts
  <1> QED BY <1>1 DEF MailAbout

(* Only a new id gets a manager, and only that one may be mentioned anew. *)
LEMMA MentionStep ==
    ASSUME TypeInv, CallInv, restarts' = restarts,
           NEW k \in Id, restarts = 0 => mListIDArray'[k] # NULL,
           \A x \in Id : mListIDArray'[x] = mListIDArray[x] \/ x = k,
           \A x \in Id : Known(x)' => Known(x) \/ x = k,
           \A x \in Id : Exists(x)' => Exists(x) \/ x = k,
           \A x \in Id : MailAbout(inbox', x) => MailAbout(inbox, x) \/ x = k
    PROVE  restarts' = 0 => \A x \in Id : Mentioned(x)' => mListIDArray'[x] # NULL
  <1>1. \A x \in Id : Mentioned(x)' => Mentioned(x) \/ x = k
    BY DEF Mentioned, MailAbout
  <1> QED BY <1>1 DEF CallInv

(* As long as no token is taken away of an id that was not ordered to go,  *)
(* the call that was checked finds its tokens or is explained.             *)
LEMMA CallStep ==
    ASSUME TypeInv, CallInv, call' = call, crash' \in {crash, "info"},
           crash' = "info" => restarts' > 0,
           \A x \in Id : Known(x) => Known(x)' \/ x \in doomed' \union disturbed',
           doomed \subseteq doomed', disturbed \subseteq disturbed',
           restarts' = 0 => \A x \in Id : Mentioned(x)' => mListIDArray'[x] # NULL
    PROVE  CallInv'
  <1>1. call # NULL => call.from \in Id /\ call.to \in Id
    BY DEF TypeInv, TypeOK
  <1>2. call' # NULL => \A x \in {call'.from, call'.to} : Known(x)' \/ x \in doomed' \union disturbed'
    BY <1>1 DEF CallInv
  <1>3. CrashExplained'
    BY DEF CallInv, CrashExplained
  <1>4. crash' = "connect" => call' # NULL
    BY DEF CallInv
  <1> QED BY <1>2, <1>3, <1>4 DEF CallInv

LEMMA CreateCalls ==
    ASSUME TypeInv, CallInv, NEW g \in Mgr, CreateModule(g)
    PROVE  CallInv'
  <1> DEFINE k == NextId
             m == [op |-> "create", kind |-> g[2], id |-> k]
  <1>1. m \in Mail(g[1]) /\ g[1] \in Host /\ k \in Id /\ m.id = k /\ g # NULL
    BY NextIdIn, Mails, NullAssumption
  <1>2. /\ inbox' = Post(inbox, g[1], m) /\ Mailed(inbox)
        /\ mListIDArray' = [mListIDArray EXCEPT ![k] = g] /\ mListIDArray \in [Id -> Mgr \union {NULL}]
        /\ UNCHANGED <<mtknMap, call, crash, nodes, restarts>> /\ call = NULL /\ crash = "no"
    BY DEF CreateModule, Calling, TypeInv, TypeOK
  <1> HIDE DEF k, m
  <1>3. \A x : MailAbout(inbox', x) => MailAbout(inbox, x) \/ x = k
    BY <1>1, <1>2, MailPosted
  <1>4. restarts' = 0 => \A x \in Id : Mentioned(x)' => mListIDArray'[x] # NULL
    BY <1>1, <1>2, <1>3, MentionStep DEF Known, Exists
  <1> QED BY <1>2, <1>4 DEF CallInv, CrashExplained

LEMMA DeleteCalls ==
    ASSUME TypeInv, CallInv, NEW k \in Id, DeleteModule(k)
    PROVE  CallInv'
  <1> DEFINE g == mListIDArray[k]
             m == [op |-> "delete", kind |-> g[2], id |-> k]
  <1>1. g \in Mgr /\ g # NULL
    BY DEF DeleteModule, TypeInv, TypeOK
  <1>2. m \in Mail(g[1]) /\ g[1] \in Host /\ m.id = k
    BY <1>1, Mails
  <1>3. /\ inbox' = Post(inbox, g[1], m) /\ Mailed(inbox)
        /\ UNCHANGED <<mListIDArray, mtknMap, call, crash, nodes, restarts, disturbed>>
        /\ doomed' = doomed \union {k} /\ call = NULL /\ crash = "no"
    BY DEF DeleteModule, Calling, TypeInv, coordinator
  <1> HIDE DEF m
  <1>4. \A x : MailAbout(inbox', x) => MailAbout(inbox, x) \/ x = k
    BY <1>2, <1>3, MailPosted
  <1>5. restarts' = 0 => \A x \in Id : Mentioned(x)' => mListIDArray'[x] # NULL
    BY <1>1, <1>3, <1>4, MentionStep DEF Known, Exists
  <1> QED BY <1>3, <1>5 DEF CallInv, CrashExplained

LEMMA RouteCalls ==
    ASSUME TypeInv, CallInv,
           \/ RouteSend
           \/ \E id1, id2 \in Id : \E op \in {"add", "remove"} : RouteCheck(op, id1, id2)
    PROVE  CallInv'
  <1>1. ASSUME NEW id1 \in Id, NEW id2 \in Id, NEW op \in {"add", "remove"}, RouteCheck(op, id1, id2)
        PROVE  CallInv'
    <2>1. /\ UNCHANGED <<mListIDArray, mtknMap, crash, nodes, inbox, restarts>> /\ crash = "no"
          /\ call'.from = id1 /\ call'.to = id2 /\ Known(id1) /\ Known(id2)
      BY <1>1 DEF RouteCheck, Calling
    <2>2. \A x \in Id : Mentioned(x)' <=> Mentioned(x)
      BY <2>1 DEF Mentioned, Known, Exists
    <2>3. Known(id1)' /\ Known(id2)'
      BY <2>1 DEF Known
    <2>4. \A x \in {call'.from, call'.to} : Known(x)'
      BY <2>1, <2>3
    <2>5. CrashExplained'
      BY <2>1 DEF CrashExplained
    <2> QED BY <2>1, <2>2, <2>4, <2>5 DEF CallInv
  <1>2. CASE RouteSend
    <2>1. UNCHANGED <<mListIDArray, mtknMap, nodes, restarts, disturbed, doomed>> /\ crash = "no" /\ call # NULL
      BY <1>2 DEF RouteSend
    <2>2. CASE Known(call.from) /\ Known(call.to)
      <3> DEFINE x  == call.from
                 at == mtknMap[x].at
                 m  == [op |-> call.op, kind |-> at[2], id |-> x, dest |-> Target(call.to)]
      <3>1. /\ x \in Id /\ call.to \in Id /\ call.op \in {"add", "remove"} /\ Mailed(inbox)
            /\ mtknMap[x] \in Token /\ at[1] # CoHost /\ mtknMap[call.to] \in Token
        BY <2>1, <2>2 DEF TypeInv, TypeOK
      <3>2. at \in Place /\ at[1] \in Host /\ Target(call.to) \in Place \X Id
        BY <3>1 DEF Token, Target, Place
      <3>3. inbox' = Post(inbox, at[1], m) /\ call' = NULL /\ crash' = crash
        BY <1>2, <2>2 DEF RouteSend, RouteTo
      <3>4. m \in Mail(at[1]) /\ m.id = x
        BY <3>1, <3>2, Mails
      <3>5. Mentioned(x)
        BY <2>2 DEF Mentioned
      <3> HIDE DEF m, x, at
      <3>6. \A y : MailAbout(inbox', y) => MailAbout(inbox, y) \/ y = x
        BY <3>1, <3>2, <3>3, <3>4, MailPosted
      <3>7. restarts = 0 => mListIDArray'[x] # NULL
        BY <2>1, <3>1, <3>5 DEF CallInv
      <3>8. restarts' = 0 => \A y \in Id : Mentioned(y)' => mListIDArray'[y] # NULL
        BY <2>1, <3>1, <3>6, <3>7, MentionStep DEF Known, Exists
      <3> QED BY <2>1, <3>3, <3>8 DEF CallInv, CrashExplained
    <2>3. CASE ~ (Known(call.from) /\ Known(call.to))
      <3>1. UNCHANGED <<inbox, call>> /\ crash' = "connect"
        BY <1>2, <2>3 DEF RouteSend
      <3>2. {call.from, call.to} \intersect (doomed \union disturbed) # {}
        BY <2>1, <2>3 DEF CallInv
      <3>3. \A y \in Id : Mentioned(y)' <=> Mentioned(y)
        BY <2>1, <3>1 DEF Mentioned, Known, Exists
      <3>4. \A x \in {call.from, call.to} : Known(x)' <=> Known(x)
        BY <2>1 DEF Known
      <3>5. CrashExplained'
        BY <2>1, <3>1, <3>2 DEF CrashExplained
      <3>6. call' # NULL => \A x \in {call'.from, call'.to} : Known(x)' \/ x \in doomed' \union disturbed'
        BY <2>1, <3>1, <3>4 DEF CallInv
      <3> QED BY <2>1, <3>1, <3>3, <3>5, <3>6 DEF CallInv
    <2> QED BY <2>2, <2>3
  <1> QED BY <1>1, <1>2

LEMMA CoordinateCalls ==
    ASSUME TypeInv, CallInv, Lives, Coordinate
    PROVE  CallInv'
  <1> DEFINE m == Head(inbox[CoHost])
             q == [inbox EXCEPT ![CoHost] = Tail(@)]
  <1>1. inbox[CoHost] # <<>> /\ Mailed(inbox) /\ CoHost \in Host /\ crash = "no" /\ restarts \in Nat
        /\ mtknMap \in [Id -> Token \union {NULL}] /\ mListIDArray \in [Id -> Mgr \union {NULL}]
    BY Mails DEF TypeInv, TypeOK, Coordinate
  <1>2. m.id \in Id /\ m.kind \in Kind /\ m = inbox[CoHost][1] /\ 1 \in 1 .. Len(inbox[CoHost])
    BY <1>1, HeadOf
  <1>3. Mailed(q) /\ MailAbout(inbox, m.id) /\ \A x : MailAbout(q, x) => MailAbout(inbox, x)
    <2>1. Mailed(q)
      BY <1>1, Pops
    <2>2. MailAbout(inbox, m.id)
      BY <1>1, MailHead
    <2>3. \A x : MailAbout(q, x) => MailAbout(inbox, x)
      BY <1>1, MailTail
    <2> QED BY <2>1, <2>2, <2>3
  <1>4. /\ UNCHANGED <<nodes, mListIDArray, call, restarts>>
        /\ disturbed \subseteq disturbed' /\ doomed \subseteq doomed'
        /\ crash' \in {"no", "info"} /\ (crash' = "info" => mListIDArray[m.id] = NULL)
    BY <1>1 DEF Coordinate, setMtkn, deleteMtkn, Misattributed
  <1>5. restarts = 0 => mListIDArray[m.id] # NULL
    <2>1. Mentioned(m.id)
      BY <1>3 DEF Mentioned, MailAbout
    <2> QED BY <1>2, <2>1 DEF CallInv
  <1>6. \/ inbox' = q
        \/ \E g \in Mgr : inbox' = Post(q, g[1], [op |-> "delete", kind |-> g[2], id |-> m.id])
    <2>1. \A g \in Listed(m.id) : g \in Mgr
      BY <1>1, <1>2 DEF Listed
    <2>2. q = [inbox EXCEPT ![CoHost] = Tail(@)]
      OBVIOUS
    <2> HIDE DEF q
    <2> QED BY <2>1, <2>2 DEF Coordinate, setMtkn, deleteMtkn
  <1>7. \A x \in Id : x # m.id => mtknMap'[x] = mtknMap[x]
    BY <1>1, <1>2 DEF Coordinate, setMtkn, deleteMtkn
  <1>8. Known(m.id) => mtknMap'[m.id] # NULL \/ m.id \in doomed' \union disturbed'
    <2> DEFINE k == m.id
    <2>1. ASSUME NEW addr, setMtkn(addr) PROVE Known(k) => mtknMap' = mtknMap
      BY <2>1 DEF setMtkn
    <2>2. ASSUME NEW addr, deleteMtkn(addr), k \notin disturbed PROVE k \in doomed
      <3>1. m.op = "unset"
        BY <2>2 DEF deleteMtkn
      <3>2. Addressed(k)
        BY <1>2, <2>2 DEF Lives, IdInv
      <3> QED BY <1>1, <1>2, <3>1, <3>2 DEF Addressed
    <2> HIDE DEF k
    <2> QED BY <1>4, <2>1, <2>2 DEF Coordinate, Known, k
  <1> HIDE DEF q
  <1>9. \A x : MailAbout(inbox', x) => MailAbout(inbox, x) \/ x = m.id
    <2>1. CASE inbox' = q
      BY <1>3, <2>1
    <2>2. ASSUME NEW g \in Mgr, inbox' = Post(q, g[1], [op |-> "delete", kind |-> g[2], id |-> m.id])
          PROVE  \A x : MailAbout(inbox', x) => MailAbout(inbox, x) \/ x = m.id
      <3> DEFINE r == [op |-> "delete", kind |-> g[2], id |-> m.id]
      <3>1. r \in Mail(g[1]) /\ g[1] \in Host /\ r.id = m.id
        BY <1>2, Mails
      <3>2. inbox' = Post(q, g[1], r)
        BY <2>2
      <3> HIDE DEF r
      <3>3. \A x : MailAbout(inbox', x) => MailAbout(q, x) \/ x = r.id
        BY <1>3, <3>1, <3>2, MailPosted
      <3> QED BY <1>3, <3>1, <3>3
    <2> QED BY <1>6, <2>1, <2>2
  <1> DEFINE k == m.id
  <1>10. /\ k \in Id /\ (restarts = 0 => mListIDArray'[k] # NULL)
         /\ \A x \in Id : MailAbout(inbox', x) => MailAbout(inbox, x) \/ x = k
         /\ \A x \in Id : x # k => (Known(x)' <=> Known(x))
    BY <1>2, <1>4, <1>5, <1>7, <1>9 DEF Known
  <1>11. Known(k) => mtknMap'[k] # NULL \/ k \in doomed' \union disturbed'
    BY <1>8
  <1>12. crash' = "info" => restarts' > 0
    BY <1>1, <1>4, <1>5
  <1> HIDE DEF k
  <1>13. restarts' = 0 => \A x \in Id : Mentioned(x)' => mListIDArray'[x] # NULL
    BY <1>4, <1>10, MentionStep DEF Exists
  <1>14. \A x \in Id : Known(x) => Known(x)' \/ x \in doomed' \union disturbed'
    BY <1>10, <1>11 DEF Known
  <1> QED BY <1>1, <1>4, <1>12, <1>13, <1>14, CallStep

LEMMA ManageCalls ==
    ASSUME TypeInv, CallInv, NEW h \in Host \ {CoHost}, Manage(h)
    PROVE  CallInv'
  <1> DEFINE m == Head(inbox[h])
             n == <<<<h, m.kind>>, m.id>>
             q == [inbox EXCEPT ![h] = Tail(@)]
             report(op) == [op |-> op, kind |-> m.kind, id |-> m.id, from |-> h]
  <1>1. /\ inbox[h] # <<>> /\ Mailed(q) /\ UNCHANGED <<coordinator, calls, restarts, history>>
        /\ \A op \in {"set", "unset"} : report(op) \in Mail(CoHost)
    BY Managed
  <1>2. Mailed(inbox) /\ CoHost \in Host /\ (\A op : report(op).id = m.id) /\ n[2] = m.id
    BY Mails DEF TypeInv
  <1>3. m.id \in Id
    BY <1>1, <1>2, HeadOf
  <1>4. MailAbout(inbox, m.id) /\ \A x : MailAbout(q, x) => MailAbout(inbox, x)
    BY <1>1, <1>2, MailHead, MailTail
  <1>5. q = [inbox EXCEPT ![h] = Tail(@)]
    OBVIOUS
  <1>6. \/ inbox' = q
        \/ \E op \in {"set", "unset"} : inbox' = Post(q, CoHost, report(op))
    BY <1>5, Managed
  <1>7. DOMAIN nodes' \subseteq DOMAIN nodes \union {n}
    BY Managed
  <1> HIDE DEF q, report, n
  <1>8. \A x \in Id : MailAbout(inbox', x) => MailAbout(inbox, x) \/ x = m.id
    <2>1. CASE inbox' = q
      BY <1>4, <2>1
    <2>2. ASSUME NEW op \in {"set", "unset"}, inbox' = Post(q, CoHost, report(op))
          PROVE  \A x : MailAbout(inbox', x) => MailAbout(inbox, x) \/ x = m.id
      <3>1. \A x : MailAbout(inbox', x) => MailAbout(q, x) \/ x = report(op).id
        BY <1>1, <1>2, <2>2, MailPosted
      <3> QED BY <1>2, <1>4, <3>1
    <2> QED BY <1>6, <2>1, <2>2
  <1>9. restarts = 0 => mListIDArray[m.id] # NULL
    <2>1. Mentioned(m.id)
      BY <1>4 DEF Mentioned, MailAbout
    <2> QED BY <1>3, <2>1 DEF CallInv
  <1> DEFINE k == m.id
  <1>10. /\ k \in Id /\ (restarts = 0 => mListIDArray'[k] # NULL)
         /\ \A x \in Id : MailAbout(inbox', x) => MailAbout(inbox, x) \/ x = k
         /\ \A x \in DOMAIN nodes' : x \in DOMAIN nodes \/ x[2] = k
    BY <1>1, <1>2, <1>3, <1>7, <1>8, <1>9 DEF coordinator
  <1> HIDE DEF k
  <1>11. /\ \A x \in Id : Exists(x)' => Exists(x) \/ x = k
         /\ \A x \in Id : Known(x)' <=> Known(x)
    BY <1>1, <1>10 DEF Exists, Known, coordinator
  <1>12. restarts' = 0 => \A x \in Id : Mentioned(x)' => mListIDArray'[x] # NULL
    BY <1>1, <1>10, <1>11, MentionStep DEF coordinator
  <1>13. CrashExplained'
    BY <1>1 DEF CallInv, CrashExplained, coordinator, history
  <1>14. call # NULL => call.from \in Id /\ call.to \in Id
    BY DEF TypeInv, TypeOK
  <1>15. call' = call /\ crash' = crash /\ disturbed' = disturbed /\ doomed' = doomed
    BY <1>1 DEF coordinator, history
  <1>16. call' # NULL => \A x \in {call'.from, call'.to} : Known(x)' \/ x \in doomed' \union disturbed'
    BY <1>11, <1>14, <1>15 DEF CallInv
  <1> QED BY <1>12, <1>13, <1>15, <1>16 DEF CallInv

LEMMA NetworkCalls ==
    ASSUME TypeInv, CallInv,
           \/ \E h \in Host : Lose(h)
           \/ \E h \in Host \ {CoHost} : RestartManagers(h)
           \/ RestartCoordinator
    PROVE  CallInv'
  <1>1. ASSUME NEW h \in Host, Lose(h) PROVE CallInv'
    <2> DEFINE k == Head(inbox[h]).id
    <2>1. /\ inbox[h] # <<>> /\ inbox' = [inbox EXCEPT ![h] = Tail(@)] /\ Mailed(inbox)
          /\ UNCHANGED <<coordinator, nodes, restarts, doomed>> /\ disturbed \subseteq disturbed'
      BY <1>1 DEF Lose, TypeInv
    <2>2. MailAbout(inbox, k) /\ \A x : MailAbout(inbox', x) => MailAbout(inbox, x)
      BY <2>1, MailHead, MailTail
    <2>3. k \in Id
      BY <2>1, HeadOf
    <2> HIDE DEF k
    <2>4. Mentioned(k)
      BY <2>2 DEF Mentioned, MailAbout
    <2>5. restarts = 0 => mListIDArray'[k] # NULL
      BY <2>1, <2>3, <2>4 DEF CallInv, coordinator
    <2>6. \A x \in Id : (Known(x)' <=> Known(x)) /\ (Exists(x)' <=> Exists(x))
      BY <2>1 DEF Known, Exists, coordinator
    <2>7. restarts' = 0 => \A x \in Id : Mentioned(x)' => mListIDArray'[x] # NULL
      BY <2>1, <2>2, <2>3, <2>5, <2>6, MentionStep DEF coordinator
    <2>8. call' = call /\ crash' = crash
      BY <2>1 DEF coordinator
    <2>9. CrashExplained'
      BY <2>1, <2>8 DEF CallInv, CrashExplained
    <2>10. call # NULL => call.from \in Id /\ call.to \in Id
      BY DEF TypeInv, TypeOK
    <2>11. call' # NULL => \A x \in {call'.from, call'.to} : Known(x)' \/ x \in doomed' \union disturbed'
      BY <2>1, <2>6, <2>8, <2>10 DEF CallInv
    <2> QED BY <2>7, <2>8, <2>9, <2>11 DEF CallInv
  <1>2. ASSUME NEW h \in Host \ {CoHost}, RestartManagers(h) PROVE CallInv'
    <2>1. /\ UNCHANGED <<coordinator, doomed>> /\ disturbed \subseteq disturbed' /\ restarts' = restarts + 1
          /\ restarts \in Nat
      BY <1>2 DEF RestartManagers, Restarting, TypeInv
    <2>2. restarts' > 0 /\ restarts' # 0 /\ call' = call /\ crash' = crash
      BY <2>1 DEF coordinator
    <2>3. CrashExplained'
      BY <2>1, <2>2 DEF CallInv, CrashExplained
    <2>4. \A x : Known(x)' <=> Known(x)
      BY <2>1 DEF Known, coordinator
    <2>5. call' # NULL => \A x \in {call'.from, call'.to} : Known(x)' \/ x \in doomed' \union disturbed'
      BY <2>1, <2>2, <2>4 DEF CallInv
    <2> QED BY <2>2, <2>3, <2>5 DEF CallInv
  <1>3. CASE RestartCoordinator
    <2>1. call' = NULL /\ crash' = "no" /\ restarts' = restarts + 1 /\ restarts \in Nat
      BY <1>3 DEF RestartCoordinator, Restarting, TypeInv
    <2>2. restarts' # 0
      BY <2>1
    <2> QED BY <2>1, <2>2 DEF CallInv, CrashExplained
  <1> QED BY <1>1, <1>2, <1>3

-----------------------------------------------------------------------------
(* The invariant *)

LEMMA InitInv == Init => IInv
  <1> SUFFICES ASSUME Init PROVE IInv
    OBVIOUS
  <1>1. \A h \in Host : inbox[h] = <<>> /\ Len(inbox[h]) = 0
    BY DEF Init
  <1>2. \A h \in Host : \A i \in 1 .. Len(inbox[h]) : FALSE
    BY <1>1
  <1>3. TypeInv
    <2>1. 0 \in 0 .. NID
      BY NetAssumption
    <2>2. TypeOK
      BY <2>1 DEF Init, TypeOK
    <2>3. Mailed(inbox)
      BY DEF Mailed, Init
    <2>4. nodes \in [DOMAIN nodes -> SUBSET (Place \X Id)]
      BY DEF Init
    <2> QED BY <2>2, <2>3, <2>4 DEF TypeInv, Init, Known
  <1>4. \A id \in Id : ~ Known(id) /\ ~ Exists(id)
    BY DEF Init, Known, Exists
  <1>5. CallInv
    BY <1>2, <1>4 DEF CallInv, CrashExplained, Mentioned, Init
  <1>6. ASSUME NEW id \in Id PROVE IdInv(id)
    <2>1. \A op : ~ Has(id, op)
      BY <1>2 DEF Has, HasIn, Holds
    <2>2. Addressed(id)
      BY <1>2, <1>4 DEF Addressed, Exists
    <2>3. Life(id)
      BY <1>2, <1>4, <2>1 DEF Life, Once, InOrder
    <2>4. Orders(id)
      BY <1>4, <2>1 DEF Orders
    <2> QED BY <2>2, <2>3, <2>4 DEF IdInv
  <1> QED BY <1>3, <1>5, <1>6 DEF IInv

LEMMA StepInv == IInv /\ [Next]_vars => IInv'
  <1> SUFFICES ASSUME IInv, [Next]_vars PROVE IInv'
    OBVIOUS
  <1>1. TypeInv /\ CallInv /\ Lives
    BY DEF IInv, Lives
  <1>2. ASSUME TypeInv', CallInv', \A id \in Id \ disturbed' : IdInv(id)' PROVE IInv'
    BY <1>2 DEF IInv
  <1>3. ASSUME NEW g \in Mgr, CreateModule(g) PROVE IInv'
    BY <1>1, <1>2, <1>3, ApplicationTypes, CreateCalls, CreateLives DEF Application
  <1>4. ASSUME NEW k \in Id, DeleteModule(k) PROVE IInv'
    BY <1>1, <1>2, <1>4, ApplicationTypes, DeleteCalls, DeleteLives DEF Application
  <1>5. ASSUME NEW id1 \in Id, NEW id2 \in Id, id1 # id2, NEW op \in {"add", "remove"}, RouteCheck(op, id1, id2)
        PROVE IInv'
    BY <1>1, <1>2, <1>5, ApplicationTypes, RouteCalls, RouteLives DEF Application
  <1>6. CASE RouteSend
    BY <1>1, <1>2, <1>6, ApplicationTypes, RouteCalls, RouteLives DEF Application
  <1>7. CASE Coordinate
    <2>1. TypeInv'
      BY <1>1, <1>7, CoordinateTypes
    <2>2. ASSUME NEW id \in Id \ disturbed' PROVE IdInv(id)'
      <3>1. CASE Head(inbox[CoHost]).id # id
        BY <1>1, <1>7, <3>1, CoordinateAway
      <3>2. CASE Head(inbox[CoHost]).id = id
        <4>1. PICK addr \in Senders : setMtkn(addr) \/ deleteMtkn(addr)
          BY <1>7 DEF Coordinate
        <4> QED BY <1>1, <1>7, <3>2, <4>1, SetLives, UnsetLives
      <3> QED BY <3>1, <3>2
    <2> QED BY <1>1, <1>2, <1>7, <2>1, <2>2, CoordinateCalls
  <1>8. ASSUME NEW h \in Host \ {CoHost}, Manage(h) PROVE IInv'
    BY <1>1, <1>2, <1>8, ManageTypes, ManageCalls, ManageAway, ManageHere
  <1>9. CASE \/ \E h \in Host : Lose(h)
             \/ \E h \in Host \ {CoHost} : RestartManagers(h)
             \/ RestartCoordinator
    BY <1>1, <1>2, <1>9, NetworkTypes, NetworkCalls, NetworkLives
  <1>10. CASE UNCHANGED vars
    BY <1>10 DEF IInv, vars, coordinator, history, TypeInv, TypeOK, CallInv, CrashExplained, IdInv,
                 Addressed, Life, Orders, Known, Exists, Has, Mentioned
  <1> QED BY <1>3, <1>4, <1>5, <1>6, <1>7, <1>8, <1>9, <1>10 DEF Next, Application

(* What is inductive about the modules of a network: a module has one life *)
(* at a time as long as nothing disturbs its id.                           *)
THEOREM Invariant == Spec => []IInv
  <1>1. Init => IInv
    BY InitInv
  <1>2. IInv /\ [Next]_vars => IInv'
    BY StepInv
  <1> QED BY <1>1, <1>2, PTL DEF Spec

-----------------------------------------------------------------------------
(* What it implies *)

LEMMA Nodes1 == ASSUME IInv PROVE NodesAgree
  <1>1. Mailed(inbox) /\ CoHost \in Host
    BY Mails DEF IInv, TypeInv
  <1>2. ASSUME NEW id \in Id \ disturbed
        PROVE  LET g       == mListIDArray[id]
                   reports == Pending(CoHost, id, {"set", "unset"})
                   exists  == <<g, id>> \in DOMAIN nodes
               IN
               /\ Known(id) => mtknMap[id] = [at |-> g, info |-> g]
               /\ \A n \in DOMAIN nodes : n[2] = id => n[1] = g
               /\ reports = {} => (exists <=> Known(id))
               /\ \A i \in reports :
                     IsLast(i, reports) => (exists <=> inbox[CoHost][i].op = "set")
    <2> DEFINE g       == mListIDArray[id]
               reports == Pending(CoHost, id, {"set", "unset"})
               exists  == <<g, id>> \in DOMAIN nodes
    <2>1. Addressed(id) /\ Life(id)
      BY DEF IInv, IdInv
    <2>2. /\ Known(id) => mtknMap[id] = [at |-> g, info |-> g]
          /\ \A n \in DOMAIN nodes : n[2] = id => n[1] = g
      BY <2>1 DEF Addressed
    <2>3. exists <=> Exists(id)
      <3>1. \A n \in DOMAIN nodes : n = <<n[1], n[2]>>
        BY Hosts DEF IInv
      <3>2. <<g, id>>[2] = id
        OBVIOUS
      <3> QED BY <2>2, <3>1, <3>2 DEF Exists
    <2>4. \A i \in 1 .. Len(inbox[CoHost]) : i \in Nat
      OBVIOUS
    <2>5. /\ \A i \in reports : /\ i \in 1 .. Len(inbox[CoHost]) /\ inbox[CoHost][i].id = id
                                /\ inbox[CoHost][i].op \in {"set", "unset"}
          /\ \A i \in 1 .. Len(inbox[CoHost]) : \A op \in {"set", "unset"} :
                About(inbox[CoHost][i], id, op) => i \in reports
      BY DEF Pending, About
    <2>6. \A op \in {"set", "unset"} : Has(id, op) <=> Holds(inbox[CoHost], id, op)
      BY <1>1, Kinds DEF Has, HasIn
    <2> HIDE DEF reports, exists, g
    <2>7. ASSUME reports = {} PROVE Exists(id) <=> Known(id)
      <3>1. ~ Has(id, "set") /\ ~ Has(id, "unset")
        BY <2>5, <2>6, <2>7 DEF Holds
      <3> QED BY <2>1, <3>1 DEF Life
    <2>8. ASSUME NEW i \in reports, IsLast(i, reports)
          PROVE  Exists(id) <=> inbox[CoHost][i].op = "set"
      <3>1. CASE inbox[CoHost][i].op = "unset"
        <4>1. Has(id, "unset")
          BY <2>5, <2>6, <3>1 DEF Holds, About
        <4> QED BY <2>1, <3>1, <4>1 DEF Life
      <3>2. CASE inbox[CoHost][i].op = "set"
        <4>1. Has(id, "set")
          BY <2>5, <2>6, <3>2 DEF Holds, About
        <4>2. ~ Has(id, "unset")
          <5>1. ASSUME NEW j \in 1 .. Len(inbox[CoHost]), About(inbox[CoHost][j], id, "unset") PROVE FALSE
            <6>1. i < j
              BY <1>1, <2>1, <2>5, <3>2, <5>1 DEF Life, InOrder, About
            <6>2. j <= i
              BY <2>5, <2>8, <5>1 DEF IsLast
            <6>3. i \in Nat /\ j \in Nat
              BY <2>4, <2>5
            <6> QED BY <6>1, <6>2, <6>3
          <5> QED BY <2>6, <5>1 DEF Holds
        <4> QED BY <2>1, <3>2, <4>1, <4>2 DEF Life
      <3> QED BY <2>5, <3>1, <3>2
    <2> QED BY <2>2, <2>3, <2>7, <2>8 DEF g, reports, exists
  <1> QED BY <1>2 DEF NodesAgree

LEMMA Nodes2 == ASSUME IInv PROVE RoutesAgree
  <1>1. ASSUME NEW n \in DOMAIN nodes, n[2] \notin disturbed, Known(n[2]), NEW d \in Place \X Id
        PROVE  LET h      == n[1][1]
                   orders == {i \in Pending(h, n[2], {"add", "remove"}) : inbox[h][i].dest = d}
               IN <<n[2], d>> \in wanted <=>
                     \/ orders = {} /\ d \in nodes[n]
                     \/ \E i \in orders : IsLast(i, orders) /\ inbox[h][i].op = "add"
    <2> DEFINE id     == n[2]
               q      == inbox[n[1][1]]
               orders == {i \in Pending(n[1][1], n[2], {"add", "remove"}) : q[i].dest = d}
    <2>1. n[2] \in Id /\ n[1][1] \in Host
      BY Hosts DEF IInv
    <2>2. <<id, d>> \in wanted <=> Becomes(q, id, d, nodes[n])
      BY <1>1, <2>1 DEF IInv, IdInv, Orders
    <2>3. Len(q) \in Nat
      BY <2>1 DEF IInv, TypeInv, Mailed
    <2>4. \A i : i \in orders <=> i \in 1 .. Len(q) /\ Routing(q[i], id, d)
      BY DEF Pending, Routing
    <2> HIDE DEF id, q, orders
    <2>5. orders = {} <=> \A i \in 1 .. Len(q) : ~ Routing(q[i], id, d)
      BY <2>4
    <2>6. ASSUME NEW i \in orders
          PROVE  IsLast(i, orders) <=> \A j \in i + 1 .. Len(q) : ~ Routing(q[j], id, d)
      <3>1. i \in 1 .. Len(q)
        BY <2>4
      <3>2. \A j \in 1 .. Len(q) : (j <= i) <=> j \notin i + 1 .. Len(q)
        BY <2>3, <3>1
      <3>3. \A j \in i + 1 .. Len(q) : j \in 1 .. Len(q)
        BY <2>3, <3>1
      <3> HIDE DEF IsLast
      <3> QED BY <2>4, <3>2, <3>3 DEF IsLast
    <2>7. Becomes(q, id, d, nodes[n]) <=>
             \/ orders = {} /\ d \in nodes[n]
             \/ \E i \in orders : IsLast(i, orders) /\ q[i].op = "add"
      BY <2>4, <2>5, <2>6 DEF Becomes
    <2> QED BY <2>2, <2>7 DEF id, q, orders
  <1> QED BY <1>1 DEF RoutesAgree

(* For a module that nothing disturbed, its token, the manager that was    *)
(* asked for it, the module and its routes fit each other in every state,  *)
(* up to the messages under way (Coordinator::createModule, setMtkn,       *)
(* deleteMtkn, addConnection, disconnect; ModuleManager::module;           *)
(* Module::addRoute, deleteRoute).                                         *)
THEOREM Nodes == Spec => []NodesInv
  <1>1. IInv => NodesInv
    BY Nodes1, Nodes2 DEF NodesInv, IInv, TypeInv
  <1> QED BY <1>1, Invariant, PTL

(* Coordinator::addConnection and disconnect follow a null pointer only    *)
(* for a module that is being deleted or was disturbed, and setMtkn only   *)
(* after a restart.                                                        *)
THEOREM Crashes == Spec => []CrashExplained
  <1>1. IInv => CrashExplained
    BY DEF IInv, CallInv
  <1> QED BY <1>1, Invariant, PTL
=============================================================================
