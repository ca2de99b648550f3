-------------------------- MODULE AudioPath_proofs --------------------------
(***************************************************************************)
(* Proofs about what a module's sound goes through, for all values of the  *)
(* constants: the beats that ask for it (Timer.tla), the table of where it *)
(* is sent (RoutingTable.tla) and the buffer where it arrives              *)
(* (StreamingBuffer.tla).  The three share no name: each has its own       *)
(* specification, state and assumptions.                                   *)
(*                                                                         *)
(* The timer.  OnBeat speaks of the states between operations and beats;   *)
(* the invariant behind it speaks of the vectors as they will be when the  *)
(* operation that goes on has ended.  Only the first statement of an       *)
(* operation changes these; all others leave them as they are.             *)
(***************************************************************************)
EXTENDS Timer, StreamingBuffer, RoutingTable, FiniteSetTheorems, FunctionTheorems, SequenceTheorems, TLAPS

(* What a vector will be when op has ended; done: op has changed it.       *)
Later(v, done, x) ==
    IF op = NULL \/ done THEN v
    ELSE IF op.kind = "set" THEN Append(v, x) ELSE Erase(v, op.at)

Callbacks == Later(dataCallback, op.step > 1, op.c)
Owners    == Later(d_ud, op.step > 2, op.c)
Periods == Later(dataInterval, op.step > 3, Interval[op.c])
Counters  == Later(dtmp, FALSE, 0)

N == Len(Counters)

Lengths == Len(Callbacks) = N /\ Len(Owners) = N /\ Len(Periods) = N

Distinct == \A j, k \in 1 .. N : Owners[j] = Owners[k] => j = k

(* The beat has counted entry k. *)
Counted(k) == \/ rpc \in {"test", "count", "subtract", "call"} /\ k < i
              \/ rpc \in {"subtract", "call"} /\ k = i

Paid(k) == calls[Owners[k]] + (IF rpc = "call" /\ k = i THEN 1 ELSE 0)
Past(k) == ticks[Owners[k]] + (IF Counted(k) THEN 1 ELSE 0)
Due(k)  == IF rpc = "subtract" /\ k = i THEN Interval[Owners[k]] ELSE 0
Room(k) == IF rpc = "subtract" /\ k = i THEN numPackets ELSE Interval[Owners[k]]

Balanced(k) ==
    /\ Counters[k] \in Int
    /\ Periods[k] = Interval[Owners[k]]
    /\ Paid(k) * Interval[Owners[k]] + Counters[k] = Past(k) * numPackets
    /\ Due(k) <= Counters[k] /\ Counters[k] < Due(k) + Room(k)

Place ==
    /\ rpc = "test" => i <= N + 1
    /\ rpc \in {"count", "subtract", "call"} => i <= N
    /\ rpc = "subtract" => dI = Interval[Owners[i]]
    /\ op # NULL /\ op.kind = "remove" =>
          /\ op.at \in 1 .. Len(dtmp)
          /\ rpc = "idle" \/ (rpc = "test" /\ i = 1)

Good == /\ ~ broken
        /\ Lengths /\ Distinct /\ Place
        /\ \A k \in 1 .. N : Balanced(k)

IInv == TypeOK /\ (raced \/ Good)

-----------------------------------------------------------------------------
(* What std::vector::erase leaves. *)
LEMMA EraseProperties ==
    ASSUME NEW S, NEW s \in Seq(S), NEW k \in Nat
    PROVE  /\ Erase(s, k) \in Seq(S)
           /\ Len(s) > 0 => Len(Erase(s, k)) = Len(s) - 1
           /\ \A j \in 1 .. Len(s) - 1 :
                 Erase(s, k)[j] = IF j < k THEN s[j] ELSE s[j + 1]
<1>1. Len(s) \in Nat /\ DOMAIN s = 1 .. Len(s) /\ \A j \in 1 .. Len(s) : s[j] \in S
  BY LenProperties, ElementOfSeq
<1>2. CASE Len(s) = 0
  <2>1. Erase(s, k) = [j \in {} |-> IF j < k THEN s[j] ELSE s[j + 1]]
    BY <1>2 DEF Erase
  <2>2. Erase(s, k) \in [1 .. 0 -> S]
    BY <2>1
  <2>3. Erase(s, k) \in Seq(S)
    BY <2>2, SeqDef
  <2>4. 1 .. Len(s) - 1 = {}
    BY <1>2
  <2> QED BY <1>2, <2>3, <2>4
<1>3. CASE Len(s) > 0
  <2>1. Erase(s, k) \in [1 .. Len(s) - 1 -> S]
    BY <1>1, <1>3 DEF Erase
  <2>2. Len(s) - 1 \in Nat
    BY <1>1, <1>3
  <2>3. Erase(s, k) \in Seq(S)
    BY <2>1, <2>2, SeqDef
  <2>4. Len(Erase(s, k)) = Len(s) - 1
    BY <2>1, <2>2, <2>3, LenProperties
  <2> QED BY <2>3, <2>4 DEF Erase
<1>4. Len(s) = 0 \/ Len(s) > 0
  BY <1>1
<1> QED BY <1>2, <1>3, <1>4

(* A change of a counter, inside the vector or not. *)
LEMMA ChangeProperties ==
    ASSUME NEW S, NEW s \in Seq(S), NEW k \in Nat, NEW e \in S
    PROVE  /\ [s EXCEPT ![k] = e] \in Seq(S)
           /\ Len([s EXCEPT ![k] = e]) = Len(s)
           /\ \A j \in 1 .. Len(s) :
                 [s EXCEPT ![k] = e][j] = IF j = k THEN e ELSE s[j]
<1>1. Len(s) \in Nat /\ s \in [1 .. Len(s) -> S]
  BY LenProperties
<1>2. [s EXCEPT ![k] = e] \in [1 .. Len(s) -> S]
  BY <1>1
<1>3. [s EXCEPT ![k] = e] \in Seq(S)
  BY <1>1, <1>2, SeqDef
<1>4. Len([s EXCEPT ![k] = e]) = Len(s)
  BY <1>1, <1>2, <1>3, LenProperties
<1> QED BY <1>1, <1>3, <1>4

-----------------------------------------------------------------------------
(* Type correctness, whether the threads met or not. *)
LEMMA InitType == Init => TypeOK
<1>1. /\ <<>> \in Seq(Client) /\ <<>> \in Seq(Nat)
      /\ <<>> \in Seq(Int \union {NULL})
  BY EmptySeq
<1>2. ASSUME Init
      PROVE  /\ op = NULL /\ rpc = "idle" /\ i \in Nat \ {0} /\ dI \in Nat
             /\ beats \in 0 .. MaxBeats
             /\ ticks \in [Client -> Nat] /\ calls \in [Client -> Nat]
  BY <1>2, TimerAssumption DEF Init
<1>3. ASSUME Init
      PROVE  /\ dataCallback = <<>> /\ d_ud = <<>>
             /\ dataInterval = <<>> /\ dtmp = <<>>
  BY <1>3 DEF Init
<1>4. ASSUME Init PROVE broken \in BOOLEAN /\ raced \in BOOLEAN
  BY <1>4 DEF Init
<1> QED BY <1>1, <1>2, <1>3, <1>4 DEF TypeOK

(* A statement of the TCP thread is followed by the next one. *)
LEMMA StepType ==
    ASSUME TypeOK, NEW kind, NEW s \in 1 .. 4, Doing(kind, s), Step
    PROVE  op'.c = op.c /\ op.c \in Client /\ op.at \in Nat
           /\ op' \in Operation \union {NULL}
<1>1. op \in Operation /\ op.step = s
  BY DEF TypeOK, Doing
<1>2. op' = [op EXCEPT !.step = s + 1] /\ s + 1 \in 1 .. 5
  BY <1>1 DEF Step
<1> QED BY <1>1, <1>2 DEF Operation

(* Every step keeps the types. *)
LEMMA NextType ==
    ASSUME TypeOK, [Next]_vars
    PROVE  TypeOK'
<1> DEFINE Cell == Int \union {NULL}
<1>a. /\ \A s \in Seq(Client), e \in Client : Append(s, e) \in Seq(Client)
      /\ \A s \in Seq(Nat), e \in Nat : Append(s, e) \in Seq(Nat)
      /\ \A s \in Seq(Cell), e \in Cell : Append(s, e) \in Seq(Cell)
  BY AppendProperties
<1>b. /\ \A s \in Seq(Client), k \in Nat : Erase(s, k) \in Seq(Client)
      /\ \A s \in Seq(Nat), k \in Nat : Erase(s, k) \in Seq(Nat)
      /\ \A s \in Seq(Cell), k \in Nat : Erase(s, k) \in Seq(Cell)
  BY EraseProperties
<1>c. \A s \in Seq(Cell), k \in Nat, e \in Cell : [s EXCEPT ![k] = e] \in Seq(Cell)
  BY ChangeProperties
<1>d. /\ \A s \in Seq(Client), k \in Nat : k \in 1 .. Len(s) => s[k] \in Client
      /\ \A s \in Seq(Nat), k \in Nat : k \in 1 .. Len(s) => s[k] \in Nat
      /\ \A s \in Seq(Cell), k \in Nat : k \in 1 .. Len(s) => s[k] \in Cell
  BY ElementOfSeq
<1>e. /\ Len(dataCallback) \in Nat /\ Len(d_ud) \in Nat
      /\ Len(dataInterval) \in Nat /\ Len(dtmp) \in Nat
  BY LenProperties DEF TypeOK
<1>1. CASE UNCHANGED vars
  BY <1>1 DEF vars, TypeOK, vectors, render
<1>2. ASSUME NEW c \in Client, StartSet(c) PROVE TypeOK'
  BY <1>2, TimerAssumption DEF StartSet, Operation, TypeOK, vectors, render
<1>3. CASE PushCallback
  <2>1. Doing("set", 1) /\ Step
    BY <1>3 DEF PushCallback
  <2> QED BY <1>3, <1>a, <2>1, StepType DEF PushCallback, TypeOK, render
<1>4. CASE PushUserData
  <2>1. Doing("set", 2) /\ Step
    BY <1>4 DEF PushUserData
  <2> QED BY <1>4, <1>a, <2>1, StepType DEF PushUserData, TypeOK, render
<1>5. CASE PushInterval
  <2>1. Doing("set", 3) /\ Step
    BY <1>5 DEF PushInterval
  <2>2. Interval[op.c] \in Nat
    BY <2>1, StepType, TimerAssumption
  <2> QED BY <1>5, <1>a, <2>1, <2>2, StepType DEF PushInterval, TypeOK, render
<1>6. CASE PushCounter
  BY <1>6, <1>a DEF PushCounter, TypeOK, render
<1>7. ASSUME NEW c \in Client, StartRemove(c) PROVE TypeOK'
  <2>1. op' \in Operation
    BY <1>7, <1>e DEF StartRemove, Operation
  <2> QED BY <1>7, <2>1 DEF StartRemove, TypeOK, vectors, render
<1>8. CASE EraseCallback
  <2>1. Doing("remove", 1) /\ Step
    BY <1>8 DEF EraseCallback
  <2>2. op.at \in Nat
    BY <2>1, StepType
  <2>3. op' \in Operation \union {NULL}
    BY <2>1, StepType
  <2> QED BY <1>8, <1>b, <2>2, <2>3 DEF EraseCallback, TypeOK, render
<1>9. CASE EraseUserData
  <2>1. Doing("remove", 2) /\ Step
    BY <1>9 DEF EraseUserData
  <2>2. op.at \in Nat
    BY <2>1, StepType
  <2>3. op' \in Operation \union {NULL}
    BY <2>1, StepType
  <2> QED BY <1>9, <1>b, <2>2, <2>3 DEF EraseUserData, TypeOK, render
<1>10. CASE EraseInterval
  <2>1. Doing("remove", 3) /\ Step
    BY <1>10 DEF EraseInterval
  <2>2. op.at \in Nat
    BY <2>1, StepType
  <2>3. op' \in Operation \union {NULL}
    BY <2>1, StepType
  <2> QED BY <1>10, <1>b, <2>2, <2>3 DEF EraseInterval, TypeOK, render
<1>11. CASE FreeCounter
  <2>1. Doing("remove", 4) /\ Step
    BY <1>11 DEF FreeCounter
  <2>2. op.at \in Nat
    BY <2>1, StepType
  <2>3. op' \in Operation \union {NULL}
    BY <2>1, StepType
  <2>4. dtmp' \in Seq(Cell)
    BY <1>11, <1>c, <2>2 DEF FreeCounter, TypeOK
  <2> QED BY <1>11, <2>3, <2>4 DEF FreeCounter, TypeOK, render
<1>12. CASE EraseCounter
  <2>1. op.at \in Nat
    BY <1>12 DEF EraseCounter, Doing, Operation, TypeOK
  <2> QED BY <1>12, <1>b, <2>1 DEF EraseCounter, TypeOK, render
<1>13. CASE Beat
  BY <1>13, TimerAssumption DEF Beat, TypeOK, vectors
<1>14. CASE Test
  <2>1. ticks' \in [Client -> Nat]
    <3>1. CASE ticks' = ticks
      BY <3>1 DEF TypeOK
    <3>2. CASE ticks' = [c \in Client |-> IF Registered(c) THEN ticks[c] + 1 ELSE ticks[c]]
      <4>1. \A c \in Client : ticks[c] \in Nat /\ ticks[c] + 1 \in Nat
        BY DEF TypeOK
      <4> HIDE DEF Registered
      <4> QED BY <3>2, <4>1
    <3> QED BY <1>14, <3>1, <3>2 DEF Test
  <2>2. rpc' \in {"idle", "count"}
    BY <1>14 DEF Test
  <2>3. raced' \in BOOLEAN
    BY <1>14 DEF Test, Meets, TypeOK
  <2> QED BY <1>14, <2>1, <2>2, <2>3 DEF Test, TypeOK, vectors
<1>15. CASE Count
  <2>1. i \in 1 .. Len(dtmp) /\ i \in 1 .. Len(dataInterval)
    BY <1>15, <1>e DEF Count, Counter, TypeOK
  <2>2. dtmp[i] \in Int
    BY <1>15, <1>d, <2>1 DEF Count, Counter, TypeOK
  <2>3. dtmp' = [dtmp EXCEPT ![i] = dtmp[i] + numPackets]
    BY <1>15 DEF Count
  <2>e. dtmp[i] + numPackets \in Cell
    BY <2>2, TimerAssumption
  <2>4. dtmp' \in Seq(Cell)
    BY <2>3, <2>e, ChangeProperties DEF TypeOK
  <2>5. dI' \in Nat
    BY <1>15, <1>d, <2>1 DEF Count, TypeOK
  <2> QED BY <1>15, <2>4, <2>5 DEF Count, Meets, TypeOK
<1>16. CASE Subtract
  <2>1. i \in 1 .. Len(dtmp)
    BY <1>16, <1>e DEF Subtract, Counter, TypeOK
  <2>2. dtmp[i] \in Int
    BY <1>16, <1>d, <2>1 DEF Subtract, Counter, TypeOK
  <2>3. dtmp' = [dtmp EXCEPT ![i] = dtmp[i] - dI]
    BY <1>16 DEF Subtract
  <2>e. dtmp[i] - dI \in Cell
    BY <2>2 DEF TypeOK
  <2>4. dtmp' \in Seq(Cell)
    BY <2>3, <2>e, ChangeProperties DEF TypeOK
  <2> QED BY <1>16, <2>4 DEF Subtract, Meets, TypeOK
<1>17. CASE Call
  <2>1. d_ud[i] \in Client
    <3>1. i \in 1 .. Len(d_ud)
      BY <1>17, <1>e DEF Call, TypeOK
    <3>2. d_ud \in Seq(Client)
      BY DEF TypeOK
    <3> QED BY <3>1, <3>2, ElementOfSeq
  <2>2. calls' \in [Client -> Nat]
    <3>1. calls \in [Client -> Nat] /\ calls[d_ud[i]] + 1 \in Nat
      BY <2>1 DEF TypeOK
    <3>2. calls' = [calls EXCEPT ![d_ud[i]] = calls[d_ud[i]] + 1]
      BY <1>17 DEF Call
    <3>3. \A f \in [Client -> Nat], c \in Client, n \in Nat :
             [f EXCEPT ![c] = n] \in [Client -> Nat]
      OBVIOUS
    <3> QED BY <2>1, <3>1, <3>2, <3>3
  <2>3. rpc' = "test" /\ i' = i + 1 /\ raced' \in BOOLEAN
    BY <1>17 DEF Call, Meets, TypeOK
  <2>4. UNCHANGED <<dataCallback, d_ud, dataInterval, dtmp, op, dI, beats, broken, ticks>>
    BY <1>17 DEF Call, vectors
  <2> QED BY <2>2, <2>3, <2>4 DEF TypeOK
<1>18. CASE Break
  BY <1>18 DEF Break, Meets, TypeOK, vectors
<1> QED
  BY <1>1, <1>2, <1>3, <1>4, <1>5, <1>6, <1>7, <1>8, <1>9, <1>10, <1>11,
     <1>12, <1>13, <1>14, <1>15, <1>16, <1>17, <1>18 DEF Next, TCP, Render

(* The vectors, the operation and the timer thread keep their types.       *)
THEOREM TypeCorrect == Spec => []TypeOK
<1>1. TypeOK /\ [Next]_vars => TypeOK'
  BY NextType
<1> QED BY InitType, <1>1, PTL DEF Spec

-----------------------------------------------------------------------------
(* Between operations the vectors are what they will be. *)
LEMMA Quiet ==
    ASSUME op = NULL
    PROVE  /\ Callbacks = dataCallback /\ Owners = d_ud
           /\ Periods = dataInterval /\ Counters = dtmp
  BY DEF Callbacks, Owners, Periods, Counters, Later

(* A step that leaves the vectors as they will be, and the thread where it *)
(* is, keeps them good.                                                    *)
LEMMA Frame ==
    ASSUME Good, Place',
           UNCHANGED <<Callbacks, Owners, Periods, Counters,
                       rpc, i, broken, ticks, calls>>
    PROVE  Good'
<1>1. N' = N
  BY DEF N
<1>2. \A k : Balanced(k) => Balanced(k)'
  BY DEF Balanced, Paid, Past, Due, Room, Counted
<1>3. Lengths' /\ Distinct'
  BY <1>1 DEF Good, Lengths, Distinct
<1> QED BY <1>1, <1>2, <1>3 DEF Good

(* Each statement of an operation brings one vector to what it will be.    *)
LEMMA OperationGoesOn ==
    ASSUME TypeOK, Good,
           \/ PushCallback \/ PushUserData \/ PushInterval \/ PushCounter
           \/ EraseCallback \/ EraseUserData \/ EraseInterval \/ EraseCounter
    PROVE  UNCHANGED <<Callbacks, Owners, Periods, Counters,
                       rpc, i, dI, broken, ticks, calls>>
<1> USE DEF Callbacks, Owners, Periods, Counters, Later, render
<1>a. ASSUME NEW kind \in {"set", "remove"}, NEW s \in 1 .. 4, Doing(kind, s), Step
      PROVE  /\ op # NULL /\ op.kind = kind /\ op.step = s
             /\ op' # NULL /\ op'.kind = kind /\ op'.step = s + 1
             /\ op'.c = op.c /\ op'.at = op.at
  <2>1. op \in Operation /\ op.kind = kind /\ op.step = s
    BY <1>a DEF TypeOK, Doing
  <2>2. op' = [op EXCEPT !.step = s + 1] /\ s + 1 \in 1 .. 5
    BY <1>a, <2>1 DEF Step
  <2>3. op' \in Operation
    BY <2>1, <2>2 DEF Operation
  <2> QED BY <2>1, <2>2, <2>3, TimerAssumption DEF Operation
<1>1. CASE PushCallback
  <2>1. Doing("set", 1) /\ Step
    BY <1>1 DEF PushCallback
  <2> QED BY <1>1, <1>a, <2>1 DEF PushCallback
<1>2. CASE PushUserData
  <2>1. Doing("set", 2) /\ Step
    BY <1>2 DEF PushUserData
  <2> QED BY <1>2, <1>a, <2>1 DEF PushUserData
<1>3. CASE PushInterval
  <2>1. Doing("set", 3) /\ Step
    BY <1>3 DEF PushInterval
  <2> QED BY <1>3, <1>a, <2>1 DEF PushInterval
<1>4. CASE PushCounter
  BY <1>4 DEF PushCounter, Doing
<1>5. CASE EraseCallback
  <2>1. Doing("remove", 1) /\ Step
    BY <1>5 DEF EraseCallback
  <2> QED BY <1>5, <1>a, <2>1 DEF EraseCallback
<1>6. CASE EraseUserData
  <2>1. Doing("remove", 2) /\ Step
    BY <1>6 DEF EraseUserData
  <2> QED BY <1>6, <1>a, <2>1 DEF EraseUserData
<1>7. CASE EraseInterval
  <2>1. Doing("remove", 3) /\ Step
    BY <1>7 DEF EraseInterval
  <2> QED BY <1>7, <1>a, <2>1 DEF EraseInterval
<1>8. CASE EraseCounter
  BY <1>8 DEF EraseCounter, Doing
<1> QED BY <1>1, <1>2, <1>3, <1>4, <1>5, <1>6, <1>7, <1>8

(* The counter that is freed will not be there.                            *)
LEMMA FreeingGoesOn ==
    ASSUME TypeOK, Good, FreeCounter
    PROVE  UNCHANGED <<Callbacks, Owners, Periods, Counters,
                       rpc, i, dI, broken, ticks, calls>>
           /\ op.at \in 1 .. Len(dtmp) /\ op'.at = op.at
           /\ op' # NULL /\ op'.kind = "remove" /\ Len(dtmp') = Len(dtmp)
<1>1. op \in Operation /\ op # NULL /\ op.kind = "remove" /\ op.step = 4
  BY DEF TypeOK, FreeCounter, Doing
<1>2. op' = [op EXCEPT !.step = 5]
  BY <1>1 DEF FreeCounter, Step
<1>3. op' \in Operation /\ op' # NULL /\ op'.kind = "remove" /\ op'.step = 5
      /\ op'.at = op.at /\ op'.c = op.c
  BY <1>1, <1>2, TimerAssumption DEF Operation
<1>4. op.at \in 1 .. Len(dtmp) /\ Len(dtmp) \in Nat
  BY <1>1, LenProperties DEF Good, Place, TypeOK
<1>5. /\ dtmp' = [dtmp EXCEPT ![op.at] = NULL]
      /\ Len(dtmp') = Len(dtmp)
      /\ \A j \in 1 .. Len(dtmp) : j # op.at => dtmp'[j] = dtmp[j]
  <2>1. dtmp \in Seq(Int \union {NULL}) /\ dtmp' = [dtmp EXCEPT ![op.at] = NULL]
    BY DEF FreeCounter, TypeOK
  <2> QED BY <1>4, <2>1, ChangeProperties
<1>6. Erase(dtmp', op.at) = Erase(dtmp, op.at)
  BY <1>4, <1>5 DEF Erase
<1>7. Counters' = Counters
  BY <1>1, <1>3, <1>6 DEF Counters, Later
<1>8. UNCHANGED <<Callbacks, Owners, Periods>>
  BY <1>1, <1>3 DEF Callbacks, Owners, Periods, Later, FreeCounter
<1> QED BY <1>1, <1>3, <1>4, <1>5, <1>7, <1>8 DEF FreeCounter, render

(* Where the threads are while an operation goes on.                       *)
LEMMA PlaceGoesOn ==
    ASSUME TypeOK, Good,
           \/ PushCallback \/ PushUserData \/ PushInterval \/ PushCounter
           \/ EraseCallback \/ EraseUserData \/ EraseInterval
           \/ FreeCounter \/ EraseCounter
    PROVE  Place'
<1>1. UNCHANGED <<Owners, Counters, rpc, i, dI>>
  BY OperationGoesOn, FreeingGoesOn
<1>2. N' = N
  BY <1>1 DEF N
<1>3. /\ (rpc = "test" => i <= N + 1)'
      /\ (rpc \in {"count", "subtract", "call"} => i <= N)'
      /\ (rpc = "subtract" => dI = Interval[Owners[i]])'
  BY <1>1, <1>2 DEF Good, Place
<1>4. ASSUME op' # NULL, op'.kind = "remove"
      PROVE  /\ op.at' \in 1 .. Len(dtmp')
             /\ rpc' = "idle" \/ (rpc' = "test" /\ i' = 1)
  <2>1. CASE FreeCounter
    <3>1. op # NULL /\ op.kind = "remove"
      BY <2>1 DEF FreeCounter, Doing
    <3> QED BY <1>1, <2>1, <3>1, FreeingGoesOn DEF Good, Place
  <2>2. CASE ~ FreeCounter
    <3>1. op # NULL /\ op \in Operation /\ op.step \in 1 .. 5
      BY <2>2 DEF TypeOK, Operation, Doing, PushCallback, PushUserData, PushInterval,
         PushCounter, EraseCallback, EraseUserData, EraseInterval, EraseCounter
    <3>2. Step /\ dtmp' = dtmp
      BY <1>4, <2>2 DEF PushCallback, PushUserData, PushInterval,
         PushCounter, EraseCallback, EraseUserData, EraseInterval, EraseCounter
    <3>3. op'.kind = op.kind /\ op'.at = op.at
      BY <3>1, <3>2 DEF Step, Operation
    <3> QED BY <1>1, <1>4, <3>1, <3>2, <3>3 DEF Good, Place
  <2> QED BY <2>1, <2>2
<1> QED BY <1>3, <1>4 DEF Place

-----------------------------------------------------------------------------
(* Between operations, entry by entry. *)
LEMMA Entries ==
    ASSUME TypeOK, Good, op = NULL
    PROVE  /\ N \in Nat /\ N = Len(dtmp)
           /\ Len(dataCallback) = N /\ Len(d_ud) = N /\ Len(dataInterval) = N
           /\ \A k \in 1 .. N :
                 /\ d_ud[k] \in Client /\ dtmp[k] \in Int
                 /\ dataInterval[k] = Interval[d_ud[k]]
                 /\ Interval[d_ud[k]] \in Nat /\ Interval[d_ud[k]] >= numPackets
                 /\ calls[d_ud[k]] \in Nat /\ ticks[d_ud[k]] \in Nat
                 /\ Balanced(k)
           /\ \A j, k \in 1 .. N : d_ud[j] = d_ud[k] => j = k
<1>1. N = Len(dtmp) /\ N \in Nat
  BY Quiet, LenProperties DEF N, TypeOK
<1>2. Len(dataCallback) = N /\ Len(d_ud) = N /\ Len(dataInterval) = N
  BY Quiet DEF Good, Lengths
<1>3. ASSUME NEW k \in 1 .. N PROVE d_ud[k] \in Client
  BY <1>2, ElementOfSeq DEF TypeOK
<1>4. \A k \in 1 .. N : dtmp[k] \in Int /\ dataInterval[k] = Interval[d_ud[k]]
  BY Quiet DEF Good, Balanced
<1>5. \A j, k \in 1 .. N : d_ud[j] = d_ud[k] => j = k
  BY Quiet DEF Good, Distinct
<1> QED BY <1>1, <1>2, <1>3, <1>4, <1>5, TimerAssumption DEF Good, TypeOK

(* The counters are a sequence in every stage of an operation. *)
LEMMA CountersLength ==
    ASSUME TypeOK PROVE N \in Nat
<1>1. Append(dtmp, 0) \in Seq(Int \union {NULL})
  BY AppendProperties DEF TypeOK
<1>2. op # NULL => Erase(dtmp, op.at) \in Seq(Int \union {NULL})
  BY EraseProperties DEF TypeOK, Operation
<1>3. Counters \in Seq(Int \union {NULL})
  BY <1>1, <1>2 DEF Counters, Later, TypeOK
<1> QED BY <1>3, LenProperties DEF N

(* A new client owes nothing.                                              *)
LEMMA SetStarts ==
    ASSUME TypeOK, Good, NEW c \in Client, StartSet(c)
    PROVE  Good'
<1>0. op = NULL /\ UNCHANGED <<vectors, render>>
      /\ ticks' = [ticks EXCEPT ![c] = 0] /\ calls' = [calls EXCEPT ![c] = 0]
  BY DEF StartSet
<1>1. op' \in Operation /\ op'.kind = "set" /\ op'.step = 1 /\ op'.c = c /\ op' # NULL
  BY TimerAssumption DEF StartSet, Operation
<1>2. /\ Callbacks' = Append(dataCallback, c) /\ Owners' = Append(d_ud, c)
      /\ Periods' = Append(dataInterval, Interval[c]) /\ Counters' = Append(dtmp, 0)
  BY <1>0, <1>1 DEF Callbacks, Owners, Periods, Counters, Later, vectors
<1>3. Interval[c] \in Nat /\ Interval[c] >= numPackets /\ numPackets \in Nat \ {0}
  BY TimerAssumption
<1>4a. /\ Len(Callbacks') = N + 1 /\ Callbacks'[N + 1] = c
      /\ \A k \in 1 .. N : Callbacks'[k] = dataCallback[k]
  <2>1. dataCallback \in Seq(Client) /\ c \in Client /\ Len(dataCallback) = N
    BY <1>0, <1>3, Entries DEF TypeOK
  <2> QED BY <1>2, <2>1, AppendProperties
<1>5. /\ Len(Owners') = N + 1 /\ Owners'[N + 1] = c
      /\ \A k \in 1 .. N : Owners'[k] = d_ud[k]
  <2>1. d_ud \in Seq(Client) /\ c \in Client /\ Len(d_ud) = N
    BY <1>0, <1>3, Entries DEF TypeOK
  <2> QED BY <1>2, <2>1, AppendProperties
<1>6. /\ Len(Periods') = N + 1 /\ Periods'[N + 1] = Interval[c]
      /\ \A k \in 1 .. N : Periods'[k] = dataInterval[k]
  <2>1. dataInterval \in Seq(Nat) /\ Interval[c] \in Nat /\ Len(dataInterval) = N
    BY <1>0, <1>3, Entries DEF TypeOK
  <2> QED BY <1>2, <2>1, AppendProperties
<1>7. /\ Len(Counters') = N + 1 /\ Counters'[N + 1] = 0
      /\ \A k \in 1 .. N : Counters'[k] = dtmp[k]
  <2>1. dtmp \in Seq((Int \union {NULL})) /\ 0 \in (Int \union {NULL}) /\ Len(dtmp) = N
    BY <1>0, <1>3, Entries DEF TypeOK
  <2> QED BY <1>2, <2>1, AppendProperties
<1>5a. \A k \in 1 .. N : d_ud[k] # c
  BY <1>0, Entries DEF StartSet
<1>8. N' = N + 1 /\ N \in Nat
  BY <1>0, <1>7, Entries DEF N
<1>9. rpc' = rpc /\ i' = i /\ dI' = dI /\ broken' = broken
  BY <1>0 DEF render
<1>10. Place'
  <2>1. rpc = "subtract" => Owners'[i] = Owners[i]
    BY <1>0, <1>5, <1>8, Quiet DEF Good, Place, TypeOK
  <2> QED BY <1>1, <1>8, <1>9, <2>1 DEF Good, Place, TypeOK
<1>11. Distinct'
  BY <1>0, <1>5, <1>5a, <1>8, Entries DEF Distinct
<1>12. ASSUME NEW k \in 1 .. N PROVE Balanced(k)'
  <2>1. Balanced(k) /\ Owners[k] = d_ud[k] /\ Counters = dtmp /\ Periods = dataInterval
    BY <1>0, Entries, Quiet
  <2>2. ticks'[d_ud[k]] = ticks[d_ud[k]] /\ calls'[d_ud[k]] = calls[d_ud[k]]
    BY <1>0, <1>5a, Entries DEF TypeOK
  <2>3. Owners'[k] = Owners[k] /\ Counters'[k] = Counters[k] /\ Periods'[k] = Periods[k]
    BY <1>5, <1>6, <1>7, <2>1
  <2> QED BY <1>9, <2>1, <2>2, <2>3 DEF Balanced, Paid, Past, Due, Room, Counted
<1>13. ASSUME NEW k, k = N + 1 PROVE Balanced(k)'
  <2>1. ~ Counted(k)' /\ ~ (rpc' \in {"subtract", "call"} /\ k = i')
    BY <1>8, <1>9, <1>13 DEF Counted, Good, Place, TypeOK
  <2>2. ticks'[c] = 0 /\ calls'[c] = 0
    BY <1>0 DEF TypeOK
  <2>3. Counters'[k] = 0 /\ Owners'[k] = c /\ Periods'[k] = Interval[c]
    BY <1>5, <1>6, <1>7, <1>13
  <2>4. Paid(k)' = 0 /\ Past(k)' = 0
    BY <2>1, <2>2, <2>3 DEF Paid, Past
  <2>5. Due(k)' = 0 /\ Room(k)' = Interval[c]
    BY <2>1, <2>3 DEF Due, Room
  <2> QED BY <1>3, <2>3, <2>4, <2>5 DEF Balanced
<1>14. ASSUME NEW k \in 1 .. N' PROVE Balanced(k)'
  <2>1. k \in 1 .. N \/ k = N + 1
    BY <1>8
  <2> QED BY <1>12, <1>13, <2>1
<1> QED BY <1>4a, <1>5, <1>6, <1>8, <1>9, <1>10, <1>11, <1>14 DEF Good, Lengths

(* The others' entries move together.                                      *)
LEMMA RemoveStarts ==
    ASSUME TypeOK, Good, NEW c \in Client, StartRemove(c), ~ raced'
    PROVE  Good'
<1>0. op = NULL /\ UNCHANGED <<vectors, render, ticks, calls>> /\ rpc = "idle"
  BY DEF StartRemove
<1>1. PICK at \in 1 .. Len(d_ud) :
         op' = [kind |-> "remove", c |-> c, step |-> 1, at |-> at]
  BY DEF StartRemove
<1>2. N \in Nat /\ at \in 1 .. N /\ at \in Nat /\ N > 0
  BY <1>0, Entries
<1>3. op' \in Operation /\ op'.kind = "remove" /\ op'.step = 1 /\ op'.at = at /\ op' # NULL
  BY <1>1, <1>2, TimerAssumption DEF Operation
<1>4. /\ Callbacks' = Erase(dataCallback, at) /\ Owners' = Erase(d_ud, at)
      /\ Periods' = Erase(dataInterval, at) /\ Counters' = Erase(dtmp, at)
  BY <1>0, <1>3 DEF Callbacks, Owners, Periods, Counters, Later, vectors
<1> DEFINE was(k) == IF k < at THEN k ELSE k + 1
<1>5. /\ Len(Callbacks') = N - 1
       /\ \A k \in 1 .. N - 1 : Callbacks'[k] = dataCallback[was(k)]
  <2>1. dataCallback \in Seq(Client) /\ Len(dataCallback) = N
    BY <1>0, Entries DEF TypeOK
  <2> QED BY <1>2, <1>4, <2>1, EraseProperties
<1>6a. /\ Len(Owners') = N - 1
       /\ \A k \in 1 .. N - 1 : Owners'[k] = d_ud[was(k)]
  <2>1. d_ud \in Seq(Client) /\ Len(d_ud) = N
    BY <1>0, Entries DEF TypeOK
  <2> QED BY <1>2, <1>4, <2>1, EraseProperties
<1>6b. /\ Len(Periods') = N - 1
       /\ \A k \in 1 .. N - 1 : Periods'[k] = dataInterval[was(k)]
  <2>1. dataInterval \in Seq(Nat) /\ Len(dataInterval) = N
    BY <1>0, Entries DEF TypeOK
  <2> QED BY <1>2, <1>4, <2>1, EraseProperties
<1>6c. /\ Len(Counters') = N - 1
       /\ \A k \in 1 .. N - 1 : Counters'[k] = dtmp[was(k)]
  <2>1. dtmp \in Seq((Int \union {NULL})) /\ Len(dtmp) = N
    BY <1>0, Entries DEF TypeOK
  <2> QED BY <1>2, <1>4, <2>1, EraseProperties
<1>6. \A k \in 1 .. N - 1 : was(k) \in 1 .. N
  BY <1>2
<1>7. N' = N - 1
  BY <1>6c DEF N
<1>8. rpc' = "idle" /\ broken' = broken
  BY <1>0 DEF render
<1>9. Place'
  BY <1>0, <1>2, <1>3, <1>8, Entries DEF Place, vectors
<1>10. Distinct'
  <2>1. \A j, k \in 1 .. N - 1 : was(j) = was(k) => j = k
    BY <1>2
  <2> SUFFICES ASSUME NEW j \in 1 .. N - 1, NEW k \in 1 .. N - 1,
                      Owners'[j] = Owners'[k]
               PROVE  j = k
    BY <1>7 DEF Distinct
  <2>2. d_ud[was(j)] = d_ud[was(k)] /\ was(j) \in 1 .. N /\ was(k) \in 1 .. N
    BY <1>6, <1>6a
  <2>3. was(j) = was(k)
    BY <1>0, <2>2, Entries
  <2> QED BY <2>1, <2>3
<1>11. ASSUME NEW k \in 1 .. N' PROVE Balanced(k)'
  <2> DEFINE o == was(k)
  <2>1. Balanced(o) /\ Owners = d_ud /\ Counters = dtmp /\ Periods = dataInterval
    BY <1>0, <1>6, <1>7, Entries, Quiet
  <2>2. Owners'[k] = Owners[o] /\ Counters'[k] = Counters[o] /\ Periods'[k] = Periods[o]
    BY <1>6a, <1>6b, <1>6c, <1>7, <2>1
  <2> HIDE DEF o
  <2> QED BY <1>0, <1>8, <2>1, <2>2 DEF Balanced, Paid, Past, Due, Room, Counted
<1> QED BY <1>5, <1>6a, <1>6b, <1>7, <1>8, <1>9, <1>10, <1>11 DEF Good, Lengths

-----------------------------------------------------------------------------
(* One interval more. *)
LEMMA OneMore == \A a, b \in Nat : (a + 1) * b = a * b + b /\ a * b \in Nat
  OBVIOUS

(* A beat begins with nothing counted, beside an operation or not.         *)
LEMMA BeatStarts ==
    ASSUME TypeOK, Good, Beat
    PROVE  Good'
<1>1. UNCHANGED <<vectors, op, dI, broken, ticks, calls>>
      /\ rpc = "idle" /\ rpc' = "test" /\ i' = 1
  BY DEF Beat
<1>2. UNCHANGED <<Callbacks, Owners, Periods, Counters>>
  BY <1>1 DEF Callbacks, Owners, Periods, Counters, Later, vectors
<1>3. N' = N /\ N \in Nat
  BY <1>2, CountersLength DEF N
<1>4. Lengths' /\ Distinct'
  BY <1>2, <1>3 DEF Good, Lengths, Distinct
<1>5. Place'
  BY <1>1, <1>3 DEF Good, Place, vectors
<1>6. ASSUME NEW k \in 1 .. N PROVE Balanced(k)'
  <2>1. Balanced(k) /\ ~ Counted(k) /\ ~ Counted(k)'
    BY <1>1, <1>3 DEF Good, Counted
  <2>2. Paid(k)' = Paid(k) /\ Past(k)' = Past(k) /\ Due(k)' = Due(k) /\ Room(k)' = Room(k)
    BY <1>1, <1>2, <2>1 DEF Paid, Past, Due, Room
  <2> QED BY <1>2, <2>1, <2>2 DEF Balanced
<1> QED BY <1>1, <1>3, <1>4, <1>5, <1>6 DEF Good

(* The end of a beat: all have been counted, so that all their times pass. *)
LEMMA TestGoesOn ==
    ASSUME TypeOK, Good, Test, ~ raced'
    PROVE  Good'
<1>1. UNCHANGED <<vectors, op, i, dI, broken, calls>> /\ rpc = "test" /\ op = NULL
  BY DEF Test, Meets
<1>2. op' = NULL /\ UNCHANGED <<dataCallback, d_ud, dataInterval, dtmp>>
  BY <1>1 DEF vectors
<1>3. UNCHANGED <<Callbacks, Owners, Periods, Counters>> /\ Owners = d_ud
  BY <1>1, <1>2 DEF Callbacks, Owners, Periods, Counters, Later
<1>4. N' = N /\ N \in Nat /\ Len(dataCallback) = N /\ Len(d_ud) = N
  BY <1>1, <1>3, Entries DEF N
<1>5. Lengths' /\ Distinct'
  BY <1>3, <1>4 DEF Good, Lengths, Distinct
<1>6. i \in Nat \ {0} /\ i <= N + 1
  BY <1>1 DEF Good, Place, TypeOK
<1>7. CASE i # Len(dataCallback) + 1
  <2>1. rpc' = "count" /\ ticks' = ticks /\ i <= N
    BY <1>4, <1>6, <1>7 DEF Test
  <2>2. Place'
    BY <1>1, <1>2, <1>4, <2>1 DEF Place
  <2>3. ASSUME NEW k \in 1 .. N PROVE Balanced(k)'
    <3>1. Balanced(k) /\ (Counted(k)' <=> Counted(k))
      BY <1>1, <2>1 DEF Good, Counted
    <3>2. Paid(k)' = Paid(k) /\ Past(k)' = Past(k) /\ Due(k)' = Due(k) /\ Room(k)' = Room(k)
      BY <1>1, <1>3, <2>1, <3>1 DEF Paid, Past, Due, Room
    <3> QED BY <1>3, <3>1, <3>2 DEF Balanced
  <2> QED BY <1>1, <1>4, <1>5, <2>2, <2>3 DEF Good
<1>8. CASE i = Len(dataCallback) + 1
  <2>1. rpc' = "idle"
        /\ ticks' = [c \in Client |-> IF Registered(c) THEN ticks[c] + 1 ELSE ticks[c]]
    BY <1>8 DEF Test
  <2>2. Place'
    BY <1>2, <2>1 DEF Place
  <2>3. ASSUME NEW k \in 1 .. N PROVE Balanced(k)'
    <3>1. Balanced(k) /\ Counted(k) /\ ~ Counted(k)'
      BY <1>1, <1>4, <1>8, <2>1 DEF Good, Counted
    <3>2. ticks'[d_ud[k]] = ticks[d_ud[k]] + 1
      <4>1. Registered(d_ud[k]) /\ d_ud[k] \in Client
        BY <1>1, <1>4, Entries DEF Registered
      <4> HIDE DEF Registered
      <4> QED BY <2>1, <4>1
    <3>3. Paid(k)' = Paid(k) /\ Past(k)' = Past(k) /\ Due(k)' = Due(k) /\ Room(k)' = Room(k)
      <4>1. ticks[d_ud[k]] \in Nat /\ calls[d_ud[k]] \in Nat
        BY <1>1, Entries
      <4> QED BY <1>1, <1>3, <2>1, <3>1, <3>2, <4>1 DEF Paid, Past, Due, Room
    <3> QED BY <1>3, <3>1, <3>3 DEF Balanced
  <2> QED BY <1>1, <1>4, <1>5, <2>2, <2>3 DEF Good
<1> QED BY <1>7, <1>8

(* What a step of the beat that changes only the counter at i keeps.       *)
LEMMA OneCounter ==
    ASSUME TypeOK, Good, op = NULL, op' = NULL, i \in 1 .. N,
           NEW v \in Int, dtmp' = [dtmp EXCEPT ![i] = v],
           UNCHANGED <<dataCallback, d_ud, dataInterval>>
    PROVE  /\ N' = N /\ N \in Nat /\ Lengths' /\ Distinct'
           /\ Owners' = d_ud /\ Owners = d_ud
           /\ Periods' = dataInterval /\ Periods = dataInterval
           /\ \A k \in 1 .. N : Counters[k] = dtmp[k]
           /\ \A k \in 1 .. N : Counters'[k] = IF k = i THEN v ELSE dtmp[k]
<1>1. /\ Len(dtmp') = Len(dtmp)
      /\ \A k \in 1 .. Len(dtmp) : dtmp'[k] = IF k = i THEN v ELSE dtmp[k]
  BY ChangeProperties DEF TypeOK
<1>2. /\ Owners' = d_ud /\ Owners = d_ud
      /\ Periods' = dataInterval /\ Periods = dataInterval
      /\ Callbacks' = Callbacks /\ Counters' = dtmp' /\ Counters = dtmp
  BY DEF Callbacks, Owners, Periods, Counters, Later
<1>3. N' = N /\ N = Len(dtmp) /\ N \in Nat
  BY <1>1, <1>2, Entries DEF N
<1>4. Lengths' /\ Distinct'
  BY <1>2, <1>3 DEF Good, Lengths, Distinct
<1> QED BY <1>1, <1>2, <1>3, <1>4

(* The others' entries, behind and before the one that is counted.         *)
LEMMA CountGoesOn ==
    ASSUME TypeOK, Good, Count, ~ raced'
    PROVE  Good'
<1>1. UNCHANGED <<dataCallback, d_ud, dataInterval, op, broken, ticks, calls>>
      /\ rpc = "count" /\ op = NULL
  BY DEF Count, Meets
<1>2. i \in 1 .. N /\ i \in Nat
  BY <1>1 DEF Good, Place, TypeOK
<1> DEFINE c == d_ud[i]
           v == dtmp[i] + numPackets
<1>3. /\ c \in Client /\ Interval[c] \in Nat /\ numPackets \in Nat /\ v \in Int
      /\ ticks[c] \in Nat /\ calls[c] \in Nat
  BY <1>1, <1>2, Entries, TimerAssumption
<1>4. dtmp' = [dtmp EXCEPT ![i] = v] /\ dI' = Interval[c]
  BY <1>1, <1>2, Entries DEF Count
<1>5. dtmp'[i] = v
  BY <1>1, <1>2, <1>4, Entries, LenProperties DEF TypeOK
<1>6. /\ N' = N /\ N \in Nat /\ Lengths' /\ Distinct'
      /\ Owners' = d_ud /\ Owners = d_ud
      /\ Periods' = dataInterval /\ Periods = dataInterval
      /\ \A k \in 1 .. N : Counters[k] = dtmp[k]
      /\ \A k \in 1 .. N : Counters'[k] = IF k = i THEN v ELSE dtmp[k]
  BY <1>1, <1>2, <1>3, <1>4, OneCounter
<1>7. \/ v >= Interval[c] /\ rpc' = "subtract" /\ i' = i
      \/ v < Interval[c] /\ rpc' = "test" /\ i' = i + 1
  BY <1>3, <1>4, <1>5 DEF Count
<1>8. Place'
  BY <1>1, <1>2, <1>4, <1>6, <1>7 DEF Place
<1>9. ASSUME NEW k \in 1 .. N, k # i PROVE Balanced(k)'
  <2>1. Balanced(k) /\ (Counted(k)' <=> Counted(k))
    BY <1>1, <1>2, <1>7, <1>9 DEF Good, Counted
  <2>2. Paid(k)' = Paid(k) /\ Past(k)' = Past(k) /\ Due(k)' = Due(k) /\ Room(k)' = Room(k)
    BY <1>1, <1>6, <1>7, <1>9, <2>1 DEF Paid, Past, Due, Room
  <2> QED BY <1>6, <1>9, <2>1, <2>2 DEF Balanced
<1>10. ASSUME NEW k \in 1 .. N, k = i PROVE Balanced(k)'
  <2>1. Balanced(k) /\ ~ Counted(k) /\ Counted(k)'
    BY <1>1, <1>2, <1>7, <1>10 DEF Good, Counted
  <2>2. Paid(k) = calls[c] /\ Past(k) = ticks[c] /\ Due(k) = 0 /\ Room(k) = Interval[c]
    BY <1>1, <1>3, <1>6, <1>10, <2>1 DEF Paid, Past, Due, Room
  <2>3. Paid(k)' = calls[c] /\ Past(k)' = ticks[c] + 1
    BY <1>1, <1>3, <1>6, <1>7, <1>10, <2>1 DEF Paid, Past
  <2>4. Due(k)' <= v /\ v < Due(k)' + Room(k)'
    <3>1. 0 <= dtmp[i] /\ dtmp[i] < Interval[c] /\ dtmp[i] \in Int
      BY <1>3, <1>6, <1>10, <2>1, <2>2 DEF Balanced
    <3> QED BY <1>3, <1>6, <1>7, <1>10, <3>1 DEF Due, Room
  <2>5. calls[c] * Interval[c] + dtmp[i] = ticks[c] * numPackets
    BY <1>6, <1>10, <2>1, <2>2 DEF Balanced
  <2>6. calls[c] * Interval[c] + v = (ticks[c] + 1) * numPackets
    <3> DEFINE paid == calls[c] * Interval[c]
               past == ticks[c] * numPackets
    <3>1. (ticks[c] + 1) * numPackets = past + numPackets /\ past \in Nat /\ paid \in Nat
      BY <1>3, OneMore
    <3>2. paid + dtmp[i] = past /\ dtmp[i] \in Int
      BY <1>1, <1>2, <2>5, Entries
    <3> HIDE DEF paid, past
    <3>3. paid + v = past + numPackets
      BY <1>3, <3>1, <3>2
    <3> QED BY <3>1, <3>3 DEF paid
  <2>7. Counters'[k] = v /\ Owners'[k] = c /\ Periods'[k] = Interval[c]
    BY <1>1, <1>2, <1>6, <1>10, Entries
  <2> HIDE DEF c, v
  <2> QED BY <1>3, <2>3, <2>4, <2>6, <2>7 DEF Balanced
<1> QED BY <1>1, <1>6, <1>8, <1>9, <1>10 DEF Good

(* What is subtracted is the call that is now due.                         *)
LEMMA SubtractGoesOn ==
    ASSUME TypeOK, Good, Subtract, ~ raced'
    PROVE  Good'
<1>1. UNCHANGED <<dataCallback, d_ud, dataInterval, op, i, dI, broken, ticks, calls>>
      /\ rpc = "subtract" /\ rpc' = "call" /\ op = NULL
  BY DEF Subtract, Meets
<1>2. i \in 1 .. N /\ i \in Nat
  BY <1>1 DEF Good, Place, TypeOK
<1> DEFINE c == d_ud[i]
           v == dtmp[i] - dI
<1>3. /\ c \in Client /\ Interval[c] \in Nat /\ Interval[c] >= numPackets
      /\ numPackets \in Nat /\ ticks[c] \in Nat /\ calls[c] \in Nat
      /\ dtmp[i] \in Int /\ dI = Interval[c] /\ v \in Int
  BY <1>1, <1>2, Entries, Quiet, TimerAssumption DEF Good, Place
<1>4. dtmp' = [dtmp EXCEPT ![i] = v]
  BY DEF Subtract
<1>6. /\ N' = N /\ N \in Nat /\ Lengths' /\ Distinct'
      /\ Owners' = d_ud /\ Owners = d_ud
      /\ Periods' = dataInterval /\ Periods = dataInterval
      /\ \A k \in 1 .. N : Counters[k] = dtmp[k]
      /\ \A k \in 1 .. N : Counters'[k] = IF k = i THEN v ELSE dtmp[k]
  BY <1>1, <1>2, <1>3, <1>4, OneCounter
<1>8. Place'
  BY <1>1, <1>2, <1>6 DEF Place
<1>9. ASSUME NEW k \in 1 .. N, k # i PROVE Balanced(k)'
  <2>1. Balanced(k) /\ (Counted(k)' <=> Counted(k))
    BY <1>1, <1>2, <1>9 DEF Good, Counted
  <2>2. Paid(k)' = Paid(k) /\ Past(k)' = Past(k) /\ Due(k)' = Due(k) /\ Room(k)' = Room(k)
    BY <1>1, <1>6, <1>9, <2>1 DEF Paid, Past, Due, Room
  <2> QED BY <1>6, <1>9, <2>1, <2>2 DEF Balanced
<1>10. ASSUME NEW k \in 1 .. N, k = i PROVE Balanced(k)'
  <2>1. Balanced(k) /\ Counted(k) /\ Counted(k)'
    BY <1>1, <1>2, <1>10 DEF Good, Counted
  <2>2. /\ Paid(k) = calls[c] /\ Past(k) = ticks[c] + 1
        /\ Due(k) = Interval[c] /\ Room(k) = numPackets
    BY <1>1, <1>3, <1>6, <1>10, <2>1 DEF Paid, Past, Due, Room
  <2>3. /\ Paid(k)' = calls[c] + 1 /\ Past(k)' = ticks[c] + 1
        /\ Due(k)' = 0 /\ Room(k)' = Interval[c]
    BY <1>1, <1>3, <1>6, <1>10, <2>1 DEF Paid, Past, Due, Room
  <2>4. Due(k)' <= v /\ v < Due(k)' + Room(k)'
    <3>1. Interval[c] <= dtmp[i] /\ dtmp[i] < Interval[c] + numPackets
      BY <1>6, <1>10, <2>1, <2>2 DEF Balanced
    <3> QED BY <1>3, <2>3, <3>1
  <2>5. calls[c] * Interval[c] + dtmp[i] = (ticks[c] + 1) * numPackets
    BY <1>6, <1>10, <2>1, <2>2 DEF Balanced
  <2>6. (calls[c] + 1) * Interval[c] + v = (ticks[c] + 1) * numPackets
    <3> DEFINE paid == calls[c] * Interval[c]
               past == (ticks[c] + 1) * numPackets
    <3>1. (calls[c] + 1) * Interval[c] = paid + Interval[c] /\ paid \in Nat
      BY <1>3, OneMore
    <3>2. paid + dtmp[i] = past
      BY <2>5
    <3> HIDE DEF paid, past
    <3>3. paid + Interval[c] + v = past
      BY <1>3, <3>1, <3>2
    <3> QED BY <3>1, <3>3 DEF past
  <2>7. Counters'[k] = v /\ Owners'[k] = c /\ Periods'[k] = Interval[c]
    BY <1>1, <1>2, <1>6, <1>10, Entries
  <2> HIDE DEF c, v
  <2> QED BY <1>3, <2>3, <2>4, <2>6, <2>7 DEF Balanced
<1> QED BY <1>1, <1>6, <1>8, <1>9, <1>10 DEF Good

(* One call is one call of the entry's owner and of no one else.           *)
LEMMA CallGoesOn ==
    ASSUME TypeOK, Good, Call, ~ raced'
    PROVE  Good'
<1>1. UNCHANGED <<dataCallback, d_ud, dataInterval, dtmp, op, dI, broken, ticks>>
      /\ rpc = "call" /\ rpc' = "test" /\ i' = i + 1 /\ op = NULL
      /\ calls' = [calls EXCEPT ![d_ud[i]] = @ + 1]
  BY DEF Call, Meets, vectors
<1>2. i \in 1 .. N /\ i \in Nat
  BY <1>1 DEF Good, Place, TypeOK
<1>3. UNCHANGED <<Callbacks, Owners, Periods, Counters>> /\ Owners = d_ud
  BY <1>1 DEF Callbacks, Owners, Periods, Counters, Later
<1>4. N' = N /\ N \in Nat
  BY <1>1, <1>3, Entries DEF N
<1>5. Lengths' /\ Distinct'
  BY <1>3, <1>4 DEF Good, Lengths, Distinct
<1>6. Place'
  BY <1>1, <1>2, <1>4 DEF Place
<1>7. ASSUME NEW k \in 1 .. N PROVE Balanced(k)'
  <2>1. Balanced(k) /\ (Counted(k)' <=> Counted(k))
    BY <1>1, <1>2 DEF Good, Counted
  <2>2. calls'[d_ud[k]] = calls[d_ud[k]] + (IF k = i THEN 1 ELSE 0)
        /\ calls[d_ud[k]] \in Nat
    <3>1. /\ d_ud[k] \in Client /\ d_ud[i] \in Client
          /\ d_ud[k] = d_ud[i] => k = i
          /\ calls[d_ud[k]] \in Nat
      BY <1>1, <1>2, Entries
    <3>2. calls \in [Client -> Nat]
      BY DEF TypeOK
    <3> QED BY <1>1, <3>1, <3>2
  <2>3. Paid(k)' = Paid(k) /\ Past(k)' = Past(k) /\ Due(k)' = Due(k) /\ Room(k)' = Room(k)
    BY <1>1, <1>3, <2>1, <2>2 DEF Paid, Past, Due, Room
  <2> QED BY <1>3, <2>1, <2>3 DEF Balanced
<1> QED BY <1>1, <1>4, <1>5, <1>6, <1>7 DEF Good

(* Unless the threads met, every access is inside its vector.              *)
LEMMA NothingBreaks ==
    ASSUME TypeOK, Good, Break, ~ raced'
    PROVE  FALSE
<1>1. op = NULL /\ rpc \in {"count", "subtract", "call"}
  BY DEF Break, Meets
<1>2. i \in 1 .. N /\ i <= N
  BY <1>1 DEF Good, Place, TypeOK
<1>3. Counter
  BY <1>1, <1>2, Entries, TimerAssumption DEF Counter
<1> QED BY <1>1, <1>2, <1>3, Entries DEF Break

-----------------------------------------------------------------------------
(* There is no entry and no operation at the start. *)
LEMMA InitInv == Init => IInv
<1> SUFFICES ASSUME Init PROVE IInv
  OBVIOUS
<1>1. op = NULL /\ rpc = "idle" /\ ~ broken
  BY DEF Init
<1>2. Len(dataCallback) = 0 /\ Len(d_ud) = 0 /\ Len(dataInterval) = 0 /\ Len(dtmp) = 0
  BY EmptySeq DEF Init
<1>3. N = 0 /\ Lengths
  BY <1>1, <1>2, Quiet DEF N, Lengths
<1>4. 1 .. N = {}
  BY <1>3
<1>5. Place
  BY <1>1 DEF Place
<1> QED BY <1>1, <1>3, <1>4, <1>5, InitType DEF IInv, Good, Distinct

(* Every statement of the two threads keeps the inductive invariant. *)
LEMMA NextInv ==
    ASSUME IInv, [Next]_vars
    PROVE  IInv'
<1>1. TypeOK /\ TypeOK'
  BY NextType DEF IInv
<1>2. SUFFICES ASSUME ~ raced' PROVE Good'
  BY <1>1 DEF IInv
<1>3. raced' = raced \/ raced' = (raced \/ op # NULL)
      \/ raced' = (raced \/ rpc # "idle")
  BY Zenon DEF Next, TCP, Render, vars, render, StartSet, StartRemove,
     PushCallback, PushUserData, PushInterval, PushCounter,
     EraseCallback, EraseUserData, EraseInterval, FreeCounter, EraseCounter,
     Beat, Test, Count, Subtract, Call, Break, Meets
<1>4. Good
  BY <1>2, <1>3 DEF IInv
<1>5. CASE UNCHANGED vars
  <2>1. UNCHANGED <<dataCallback, d_ud, dataInterval, dtmp, op, rpc, i, dI, broken, ticks, calls>>
    BY <1>5 DEF vars, vectors, render
  <2>2. UNCHANGED <<Callbacks, Owners, Periods, Counters>>
    BY <2>1 DEF Callbacks, Owners, Periods, Counters, Later
  <2>3. Place'
    BY <1>4, <2>1, <2>2 DEF Good, Place, N
  <2> QED BY <1>4, <2>1, <2>2, <2>3, Frame
<1>6. ASSUME NEW c \in Client, StartSet(c) PROVE Good'
  BY <1>1, <1>4, <1>6, SetStarts
<1>7. ASSUME NEW c \in Client, StartRemove(c) PROVE Good'
  BY <1>1, <1>2, <1>4, <1>7, RemoveStarts
<1>8. CASE \/ PushCallback \/ PushUserData \/ PushInterval \/ PushCounter
           \/ EraseCallback \/ EraseUserData \/ EraseInterval \/ EraseCounter
  BY <1>1, <1>4, <1>8, OperationGoesOn, PlaceGoesOn, Frame
<1>9. CASE FreeCounter
  BY <1>1, <1>4, <1>9, FreeingGoesOn, PlaceGoesOn, Frame
<1>10. CASE Beat
  BY <1>1, <1>4, <1>10, BeatStarts
<1>11. CASE Test
  BY <1>1, <1>2, <1>4, <1>11, TestGoesOn
<1>12. CASE Count
  BY <1>1, <1>2, <1>4, <1>12, CountGoesOn
<1>13. CASE Subtract
  BY <1>1, <1>2, <1>4, <1>13, SubtractGoesOn
<1>14. CASE Call
  BY <1>1, <1>2, <1>4, <1>14, CallGoesOn
<1>15. CASE Break
  BY <1>1, <1>2, <1>4, <1>15, NothingBreaks
<1> QED
  BY <1>5, <1>6, <1>7, <1>8, <1>9, <1>10, <1>11, <1>12, <1>13, <1>14, <1>15
     DEF Next, TCP, Render

(* The inductive invariant holds in every state. *)
LEMMA InvInductive == Spec => []IInv
<1>1. IInv /\ [Next]_vars => IInv'
  BY NextInv
<1> QED BY InitInv, <1>1, PTL DEF Spec

(* Whatever is registered and removed, and when: nothing undefined is done *)
(* unless the threads meet in the vectors.                                 *)
THEOREM Defined == Spec => []DefinedUnlessRaced
<1>1. IInv => DefinedUnlessRaced
  BY DEF IInv, Good, DefinedUnlessRaced, TypeOK
<1> QED BY InvInductive, <1>1, PTL

(* Both: the types are kept in every step, raced or not, and no access is  *)
(* outside a vector or to a freed counter unless the threads meet.         *)
THEOREM Invariant == Spec => []TimerInv
<1>1. TypeOK /\ DefinedUnlessRaced => TimerInv
  BY DEF TimerInv
<1> QED BY TypeCorrect, Defined, <1>1, PTL

(* For every length of a beat and every interval that is not shorter:      *)
(* everyone is called as often as its interval fits in the time since it   *)
(* was registered.                                                         *)
THEOREM CalledOnBeat == Spec => []OnBeat
<1>1. ASSUME IInv, ~ raced, op = NULL, rpc = "idle", NEW k \in 1 .. Len(d_ud)
      PROVE  LET c == d_ud[k] IN
             /\ calls[c] * Interval[c] + dtmp[k] = ticks[c] * numPackets
             /\ 0 <= dtmp[k] /\ dtmp[k] < Interval[c]
  <2>1. Balanced(k) /\ Owners = d_ud /\ Counters = dtmp
    BY <1>1, Entries, Quiet DEF IInv
  <2>2. calls[d_ud[k]] \in Nat /\ ticks[d_ud[k]] \in Nat /\ Interval[d_ud[k]] \in Nat
    BY <1>1, Entries DEF IInv
  <2>3. Paid(k) = calls[d_ud[k]] /\ Past(k) = ticks[d_ud[k]]
        /\ Due(k) = 0 /\ Room(k) = Interval[d_ud[k]]
    BY <1>1, <2>1, <2>2 DEF Paid, Past, Due, Room, Counted
  <2> QED BY <2>1, <2>2, <2>3 DEF Balanced
<1>2. IInv => OnBeat
  BY <1>1 DEF OnBeat
<1> QED BY InvInductive, <1>2, PTL

-----------------------------------------------------------------------------
(***************************************************************************)
(* The buffer.  What pop counts down (od) never exceeds what there is to   *)
(* play (left): it is the distance of wp and rp, which is left up to a     *)
(* whole ring, and pushes only add to left.  The volumes agree because the *)
(* two threads exclude each other by isPlaying: who unmutes has seen it    *)
(* cleared, who mutes has seen it set.                                     *)
(***************************************************************************)

(* Reader and writer are apart by left, up to a ring.                      *)
Apart == wp * Unit - rp \in {left, left - Length, left + Length}

Counting == opc # "idle" /\ ~ misread => od <= left

Excluded ==
    /\ upc \in {"unmute", "start"} => ~ isPlaying
    /\ opc \in {"mute", "stop"} => isPlaying /\ oi < OutPacket
    /\ upc = "start" => vVal = vValcpy
    /\ upc = "copy" /\ isPlaying /\ opc # "stop" => vVal = uv

Copying == upc = "copy" => uv = wanted /\ (vVal = uv \/ cut)

RingInv == BufferTypeOK /\ Apart /\ Counting /\ Excluded /\ Audible /\ Copying /\ VolumeKept

-----------------------------------------------------------------------------
(* The writer's steps along the ring, in parts of a sample. *)
LEMMA Sizes ==
    /\ Length \in Nat /\ Unit \in Nat /\ Unit > 1 /\ Length >= 2 * Unit
    /\ MAX_PACKET \in Nat /\ MAX_PACKET > 1
    /\ \A w \in 0 .. MAX_PACKET - 1 :
          /\ w * Unit \in Nat /\ w * Unit <= Length - Unit
          /\ (w + 1) % MAX_PACKET \in 0 .. MAX_PACKET - 1
          /\ \/ ((w + 1) % MAX_PACKET) * Unit = w * Unit + Unit
             \/ ((w + 1) % MAX_PACKET) * Unit = w * Unit + Unit - Length
<1>1. MAX_PACKET \in Nat /\ MAX_PACKET > 1 /\ Unit \in Nat /\ Unit > 1
  BY BufferAssumption
<1>2. Length \in Nat /\ Length >= 2 * Unit
  BY <1>1 DEF Length
<1>3. ASSUME NEW w \in 0 .. MAX_PACKET - 1
      PROVE  /\ w * Unit \in Nat /\ w * Unit <= Length - Unit
             /\ (w + 1) % MAX_PACKET \in 0 .. MAX_PACKET - 1
             /\ \/ ((w + 1) % MAX_PACKET) * Unit = w * Unit + Unit
                \/ ((w + 1) % MAX_PACKET) * Unit = w * Unit + Unit - Length
  <2>1. CASE w = MAX_PACKET - 1
    <3>1. (w + 1) % MAX_PACKET = 0
      BY <1>1, <2>1
    <3>2. w * Unit = Length - Unit
      BY <1>1, <2>1 DEF Length
    <3> QED BY <1>1, <1>2, <3>1, <3>2
  <2>2. CASE w < MAX_PACKET - 1
    <3>1. (w + 1) % MAX_PACKET = w + 1
      BY <1>1, <2>2
    <3>2. (w + 1) * Unit = w * Unit + Unit /\ w * Unit \in Nat
      BY <1>1
    <3>3. (w + 1) * Unit <= Length
      BY <1>1, <2>2 DEF Length
    <3> QED BY <1>1, <1>2, <2>2, <3>1, <3>2, <3>3
  <2> QED BY <1>1, <2>1, <2>2
<1> QED BY <1>1, <1>2, <1>3

(* The reader and the writer that come round stay within a ring.           *)
LEMMA MovedRange ==
    ASSUME NEW n \in Int, n + 2 * Length > 0, n < 2 * Length
    PROVE  /\ Moved(n) \in 1 - Length .. Length - 1
           /\ Moved(n) \in {n, n - Length, n + Length}
           /\ n < Length /\ n + Length > 0 => Moved(n) = n
<1>1. Length \in Nat /\ Length > 1
  BY Sizes
<1> HIDE DEF Length
<1> QED BY <1>1 DEF Moved

(* What push and pop take for the distance is what is left, unless the     *)
(* reader is ahead.                                                        *)
LEMMA DistanceIsLeft ==
    ASSUME BufferTypeOK, Apart
    PROVE  Distance \in 0 .. Length - 1 /\ (left >= 0 => Distance = left)
<1>1. Length \in Nat /\ Length > 1 /\ wp * Unit \in Nat /\ wp * Unit < Length
  BY Sizes DEF BufferTypeOK
<1>2. rp \in 0 .. Length - 1 /\ left \in 1 - Length .. Length - 1
  BY DEF BufferTypeOK
<1> DEFINE w == wp * Unit
<1>3. w - rp \in {left, left - Length, left + Length} /\ w \in Nat /\ w < Length
  BY <1>1 DEF Apart
<1>4. Distance = IF w - rp < 0 THEN w - rp + Length ELSE w - rp
  BY DEF Distance
<1> HIDE DEF w, Length
<1> QED BY <1>1, <1>2, <1>3, <1>4

-----------------------------------------------------------------------------
(* The empty ring, silent. *)
LEMMA RingInit == BufferInit => RingInv
<1> SUFFICES ASSUME BufferInit PROVE RingInv
  OBVIOUS
<1>1. Length \in Nat /\ Length > 1 /\ Unit \in Nat /\ MAX_PACKET \in Nat /\ MAX_PACKET > 1
  BY Sizes
<1>2. wp * Unit = 0
  BY <1>1 DEF BufferInit
<1>3. BufferTypeOK
  <2>1. wp \in 0 .. MAX_PACKET - 1 /\ rp \in 0 .. Length - 1 /\ rate \in Rates /\ aim \in Rates
    BY <1>1 DEF BufferInit, Rates
  <2>2. /\ bs \in BufferSizes /\ vVal \in Volumes \union {0} /\ vValcpy \in Volumes \union {0}
        /\ uv \in Volumes /\ wanted \in Volumes
    BY BufferAssumption DEF BufferInit
  <2>3. ud \in 0 .. Length - 1 /\ ui \in 0 .. InPacket /\ oi \in 0 .. OutPacket
    BY <1>1, BufferAssumption DEF BufferInit
  <2>4. od \in 0 - Unit .. Length - 1 /\ left \in 1 - Length .. Length - 1
    BY <1>1 DEF BufferInit
  <2>5. isPlaying \in BOOLEAN /\ misread \in BOOLEAN /\ cut \in BOOLEAN
    BY DEF BufferInit
  <2>6. /\ upc \in {"idle", "fill", "test", "unmute", "start", "copy"}
        /\ opc \in {"idle", "loop", "mute", "stop"}
    BY DEF BufferInit
  <2> QED BY <2>1, <2>2, <2>3, <2>4, <2>5, <2>6 DEF BufferTypeOK
<1>4. Apart
  BY <1>1, <1>2 DEF BufferInit, Apart
<1> QED BY <1>3, <1>4 DEF BufferInit, RingInv, Counting, Excluded, Audible, Copying, VolumeKept

(* A step along the ring, in numbers. *)
LEMMA WriterStep ==
    ASSUME NEW L \in Nat, NEW U \in Nat, NEW w \in Nat, NEW v \in Nat, NEW p \in 0 .. L - 1,
           NEW n \in 1 - L .. L - 1, NEW m \in 1 - L .. L - 1, U < L, w < L, v < L,
           v = w + U \/ v = w + U - L, m \in {n + U, n + U - L, n + U + L},
           w - p \in {n, n - L, n + L}
    PROVE  v - p \in {m, m - L, m + L}
OBVIOUS

(* The reader takes k parts of a sample: as WriterStep, from the other end. *)
LEMMA ReaderStep ==
    ASSUME NEW L \in Nat, NEW w \in Nat, NEW p \in 0 .. L - 1, NEW q \in 0 .. L - 1,
           NEW n \in 1 - L .. L - 1, NEW m \in 1 - L .. L - 1, NEW k \in Nat, w < L, k < L,
           q = p + k \/ q = p + k - L, m \in {n - k, n - k - L, n - k + L},
           w - p \in {n, n - L, n + L}
    PROVE  w - q \in {m, m - L, m + L}
OBVIOUS

(* The writer's and the reader's steps keep them apart by left.            *)
LEMMA FillApart ==
    ASSUME BufferTypeOK, Apart, Fill
    PROVE  wp' \in 0 .. MAX_PACKET - 1 /\ left' \in 1 - Length .. Length - 1 /\ Apart'
           /\ (~ misread' => ~ misread /\ left' = left + Unit)
<1>1. /\ Length \in Nat /\ Length >= 2 * Unit /\ Unit \in Nat /\ Unit > 1
      /\ wp * Unit \in Nat /\ wp * Unit <= Length - Unit
      /\ wp' \in 0 .. MAX_PACKET - 1
      /\ wp' * Unit = wp * Unit + Unit \/ wp' * Unit = wp * Unit + Unit - Length
  BY Sizes DEF BufferTypeOK, Fill
<1>2. /\ left \in 1 - Length .. Length - 1 /\ rp \in 0 .. Length - 1 /\ rp' = rp
      /\ misread' = (misread \/ left + Unit >= Length) /\ left' = Moved(left + Unit)
  BY DEF BufferTypeOK, Fill
<1>3. left' \in 1 - Length .. Length - 1
      /\ left' \in {left + Unit, left + Unit - Length, left + Unit + Length}
      /\ (left + Unit < Length => left' = left + Unit)
  <2>1. PICK n \in Int : n = left + Unit
    BY <1>1, <1>2
  <2>2. n + 2 * Length > 0 /\ n < 2 * Length /\ n + Length > 0
    BY <1>1, <1>2, <2>1
  <2>3. /\ Moved(n) \in 1 - Length .. Length - 1
        /\ Moved(n) \in {n, n - Length, n + Length}
        /\ (n < Length => Moved(n) = n)
    BY <2>2, MovedRange
  <2> QED BY <1>1, <1>2, <2>1, <2>2, <2>3
<1>4. wp' * Unit \in Nat /\ wp' * Unit <= Length - Unit
  BY <1>1, Sizes
<1>5. wp' * Unit - rp \in {left', left' - Length, left' + Length}
  <2> DEFINE w == wp * Unit
             v == wp' * Unit
  <2>1. /\ w \in Nat /\ v \in Nat /\ w <= Length - Unit /\ v <= Length - Unit
        /\ v = w + Unit \/ v = w + Unit - Length
    BY <1>1, <1>4
  <2>2. w - rp \in {left, left - Length, left + Length}
    BY DEF Apart
  <2>3. Unit < Length /\ w < Length /\ v < Length
    <3> HIDE DEF w, v
    <3> QED BY <1>1, <2>1
  <2>4. v - rp \in {left', left' - Length, left' + Length}
    <3> HIDE DEF w, v
    <3> QED BY <1>1, <1>2, <1>3, <2>1, <2>2, <2>3, WriterStep
  <2> QED BY <2>4
<1>6. Apart'
  BY <1>2, <1>5 DEF Apart, Length
<1>7. ~ misread' => ~ misread /\ left' = left + Unit
  <2>1. ~ misread' => ~ misread /\ ~ (left + Unit >= Length)
    BY <1>2
  <2>2. ~ (left + Unit >= Length) => left + Unit < Length
    BY <1>1, <1>2
  <2> QED BY <1>3, <2>1, <2>2
<1> QED BY <1>1, <1>3, <1>6, <1>7

(* A sample played keeps the types and the distances. *)
LEMMA PlayApart ==
    ASSUME BufferTypeOK, Apart, Play
    PROVE  /\ rate' \in Rates /\ rp' \in 0 .. Length - 1 /\ od' \in 0 - Unit .. Length - 1
           /\ left' \in 1 - Length .. Length - 1 /\ Apart'
           /\ (od <= left => od' <= left')
<1>1. /\ Length \in Nat /\ Length >= 2 * Unit /\ Unit \in Nat /\ Unit > 1
      /\ wp * Unit \in Nat /\ wp * Unit < Length
  BY Sizes DEF BufferTypeOK
<1>2. PICK k \in Nearer : rate' = k /\ rp' = Around(rp + k) /\ od' = od - k /\ left' = Moved(left - k)
  BY DEF Play
<1>3. k \in Unit - 1 .. Unit + 1
  <2>1. rate \in Unit - 1 .. Unit + 1 /\ aim \in Unit - 1 .. Unit + 1
    BY DEF BufferTypeOK, Rates
  <2>2. k \in {rate, IF aim > rate THEN rate + 1 ELSE IF aim < rate THEN rate - 1 ELSE rate}
    BY <1>2 DEF Nearer
  <2> QED BY <1>1, <2>1, <2>2
<1>4. /\ left \in 1 - Length .. Length - 1 /\ rp \in 0 .. Length - 1 /\ wp' = wp
      /\ od \in 0 - Unit .. Length - 1 /\ od > 0
  BY DEF BufferTypeOK, Play
<1>5. rp' \in 0 .. Length - 1 /\ (rp' = rp + k \/ rp' = rp + k - Length)
  BY <1>1, <1>2, <1>3, <1>4 DEF Around
<1>6. left' \in 1 - Length .. Length - 1
      /\ left' \in {left - k, left - k - Length, left - k + Length}
      /\ (left > 0 => left' = left - k)
  <2>1. PICK n \in Int : n = left - k
    BY <1>1, <1>3, <1>4
  <2>2. /\ n + 2 * Length > 0 /\ n < 2 * Length
        /\ (left > 0 => n < Length /\ n + Length > 0)
    BY <1>1, <1>3, <1>4, <2>1
  <2>3. /\ Moved(n) \in 1 - Length .. Length - 1
        /\ Moved(n) \in {n, n - Length, n + Length}
        /\ (n < Length /\ n + Length > 0 => Moved(n) = n)
    BY <2>2, MovedRange
  <2> QED BY <1>2, <2>1, <2>2, <2>3
<1>7. wp * Unit - rp' \in {left', left' - Length, left' + Length}
  <2> DEFINE w == wp * Unit
  <2>1. w - rp \in {left, left - Length, left + Length} /\ w \in Nat /\ w < Length
    BY <1>1 DEF Apart
  <2>2. k \in Nat /\ k < Length
    BY <1>1, <1>3
  <2>3. w - rp' \in {left', left' - Length, left' + Length}
    <3> HIDE DEF w
    <3> QED BY <1>1, <1>4, <1>5, <1>6, <2>1, <2>2, ReaderStep
  <2> QED BY <2>3
<1>8. Apart'
  BY <1>4, <1>7 DEF Apart, Length
<1>9. od' \in 0 - Unit .. Length - 1
  BY <1>1, <1>2, <1>3, <1>4
<1>10. od <= left => od' <= left'
  BY <1>1, <1>2, <1>3, <1>4, <1>6
<1> QED BY <1>2, <1>3, <1>5, <1>6, <1>7, <1>8, <1>9, <1>10 DEF Rates
-----------------------------------------------------------------------------
(* Every step keeps the strengthened invariant. *)
LEMMA RingStep == RingInv /\ [BufferNext]_bufferVars => RingInv'
<1> SUFFICES ASSUME BufferTypeOK, Apart, Counting, Excluded, Audible, Copying, VolumeKept, [BufferNext]_bufferVars
             PROVE  RingInv'
  BY DEF RingInv
<1>0. /\ Length \in Nat /\ Length > 1 /\ Unit \in Nat /\ Unit > 1
      /\ InPacket \in Nat /\ OutPacket \in Nat /\ FirstVolume \in Volumes
      /\ MAX_PACKET \in Nat /\ MAX_PACKET > 1
  BY Sizes, BufferAssumption
<1>1. ASSUME PushStart PROVE RingInv'
  <2>1. BufferTypeOK'
    <3>1. Distance \in 0 .. Length - 1
      BY DistanceIsLeft
    <3> QED BY <1>0, <1>1, <3>1 DEF BufferTypeOK, PushStart, ring, volume, udp, audio, ghosts
  <2>2. Apart'
    BY <1>1 DEF Apart, Length, PushStart, ring, volume, udp, audio, ghosts
  <2>3. Counting'
    BY <1>1 DEF BufferTypeOK, Counting, PushStart, ring, volume, udp, audio, ghosts
  <2>4. Excluded' /\ Audible' /\ Copying' /\ VolumeKept'
    BY <1>1 DEF BufferTypeOK, Excluded, Audible, Copying, VolumeKept, PushStart,
           ring, volume, udp, audio, ghosts
  <2> QED BY <2>1, <2>2, <2>3, <2>4 DEF RingInv
<1>2. ASSUME Fill PROVE RingInv'
  <2>a. /\ wp' \in 0 .. MAX_PACKET - 1 /\ left' \in 1 - Length .. Length - 1 /\ Apart'
        /\ (~ misread' => ~ misread /\ left' = left + Unit)
    BY <1>2, FillApart
  <2>1. BufferTypeOK'
    <3>1. ui' \in 0 .. InPacket /\ misread' \in BOOLEAN
      BY <1>0, <1>2 DEF BufferTypeOK, Fill
    <3> QED BY <1>2, <2>a, <3>1 DEF BufferTypeOK, Fill, ring, volume, udp, audio, ghosts
  <2>2. Apart'
    BY <2>a
  <2>3. Counting'
    <3>1. opc' = opc /\ od' = od
      BY <1>2 DEF Fill, audio
    <3>2. od \in Int /\ left \in Int
      BY <1>0 DEF BufferTypeOK
    <3> QED BY <1>0, <2>a, <3>1, <3>2 DEF Counting
  <2>4. Excluded' /\ Audible' /\ Copying' /\ VolumeKept'
    BY <1>2 DEF BufferTypeOK, Excluded, Audible, Copying, VolumeKept, Fill,
           ring, volume, udp, audio, ghosts
  <2> QED BY <2>1, <2>2, <2>3, <2>4 DEF RingInv
<1>3. ASSUME TestLevel PROVE RingInv'
  <2>1. BufferTypeOK'
    BY <1>0, <1>3 DEF BufferTypeOK, TestLevel, Return, ring, volume, udp, audio, ghosts
  <2>2. Apart'
    BY <1>3 DEF Apart, Length, TestLevel, Return, ring, volume, udp, audio, ghosts
  <2>3. Counting'
    BY <1>3 DEF BufferTypeOK, Counting, TestLevel, Return, ring, volume, udp, audio, ghosts
  <2>4. Excluded' /\ Audible' /\ Copying' /\ VolumeKept'
    BY <1>3 DEF BufferTypeOK, Excluded, Audible, Copying, VolumeKept, TestLevel, Return,
           ring, volume, udp, audio, ghosts
  <2> QED BY <2>1, <2>2, <2>3, <2>4 DEF RingInv
<1>4. ASSUME muteOFF PROVE RingInv'
  <2>1. BufferTypeOK'
    BY <1>0, <1>4 DEF BufferTypeOK, muteOFF, ring, volume, udp, audio, ghosts
  <2>2. Apart'
    BY <1>4 DEF Apart, Length, muteOFF, ring, volume, udp, audio, ghosts
  <2>3. Counting'
    BY <1>4 DEF BufferTypeOK, Counting, muteOFF, ring, volume, udp, audio, ghosts
  <2>4. Excluded' /\ Audible' /\ Copying' /\ VolumeKept'
    BY <1>4 DEF BufferTypeOK, Excluded, Audible, Copying, VolumeKept, muteOFF,
           ring, volume, udp, audio, ghosts
  <2> QED BY <2>1, <2>2, <2>3, <2>4 DEF RingInv
<1>5. ASSUME StartPlaying PROVE RingInv'
  <2>1. BufferTypeOK'
    BY <1>0, <1>5 DEF BufferTypeOK, StartPlaying, Return, ring, volume, udp, audio, ghosts
  <2>2. Apart'
    BY <1>5 DEF Apart, Length, StartPlaying, Return, ring, volume, udp, audio, ghosts
  <2>3. Counting'
    BY <1>5 DEF BufferTypeOK, Counting, StartPlaying, Return, ring, volume, udp, audio, ghosts
  <2>4. Excluded' /\ Audible' /\ Copying' /\ VolumeKept'
    BY <1>5 DEF BufferTypeOK, Excluded, Audible, Copying, VolumeKept, StartPlaying, Return,
           ring, volume, udp, audio, ghosts
  <2> QED BY <2>1, <2>2, <2>3, <2>4 DEF RingInv
<1>6. ASSUME NEW v \in Volumes, SetVal(v) PROVE RingInv'
  <2>1. BufferTypeOK'
    BY <1>0, <1>6 DEF BufferTypeOK, SetVal, ring, volume, udp, audio, ghosts
  <2>2. Apart'
    BY <1>6 DEF Apart, Length, SetVal, ring, volume, udp, audio, ghosts
  <2>3. Counting'
    BY <1>6 DEF BufferTypeOK, Counting, SetVal, ring, volume, udp, audio, ghosts
  <2>4. Excluded' /\ Audible' /\ Copying' /\ VolumeKept'
    BY <1>6 DEF BufferTypeOK, Excluded, Audible, Copying, VolumeKept, SetVal,
           ring, volume, udp, audio, ghosts
  <2> QED BY <2>1, <2>2, <2>3, <2>4 DEF RingInv
<1>7. ASSUME SetCopy PROVE RingInv'
  <2>1. BufferTypeOK'
    BY <1>0, <1>7 DEF BufferTypeOK, SetCopy, Return, ring, volume, udp, audio, ghosts
  <2>2. Apart'
    BY <1>7 DEF Apart, Length, SetCopy, Return, ring, volume, udp, audio, ghosts
  <2>3. Counting'
    BY <1>7 DEF BufferTypeOK, Counting, SetCopy, Return, ring, volume, udp, audio, ghosts
  <2>4. Excluded' /\ Audible' /\ Copying' /\ VolumeKept'
    BY <1>7 DEF BufferTypeOK, Excluded, Audible, Copying, VolumeKept, SetCopy, Return,
           ring, volume, udp, audio, ghosts
  <2> QED BY <2>1, <2>2, <2>3, <2>4 DEF RingInv
<1>8. ASSUME NEW b \in BufferSizes, SetSize(b) PROVE RingInv'
  <2>1. BufferTypeOK'
    BY <1>0, <1>8 DEF BufferTypeOK, SetSize, ring, volume, udp, audio, ghosts
  <2>2. Apart'
    BY <1>8 DEF Apart, Length, SetSize, ring, volume, udp, audio, ghosts
  <2>3. Counting'
    BY <1>8 DEF BufferTypeOK, Counting, SetSize, ring, volume, udp, audio, ghosts
  <2>4. Excluded' /\ Audible' /\ Copying' /\ VolumeKept'
    BY <1>8 DEF BufferTypeOK, Excluded, Audible, Copying, VolumeKept, SetSize,
           ring, volume, udp, audio, ghosts
  <2> QED BY <2>1, <2>2, <2>3, <2>4 DEF RingInv
<1>9. ASSUME PopStart PROVE RingInv'
  <2>a. Distance \in 0 .. Length - 1 /\ (left >= 0 => Distance = left)
    BY DistanceIsLeft
  <2>1. BufferTypeOK'
    <3>1. aim' \in Rates
      BY <1>0, <1>9 DEF PopStart, Rates
    <3>2. misread' \in BOOLEAN /\ od' \in 0 - Unit .. Length - 1 /\ oi' \in 0 .. OutPacket
      BY <1>0, <1>9, <2>a DEF PopStart
    <3> QED BY <1>9, <3>1, <3>2 DEF BufferTypeOK, PopStart, ring, volume, udp, audio, ghosts
  <2>2. Apart'
    BY <1>9 DEF Apart, Length, PopStart, ring, volume, udp, audio, ghosts
  <2>3. Counting'
    <3>1. od' = Distance /\ left' = left /\ (~ misread' => ~ (left < 0))
      BY <1>9 DEF PopStart
    <3>2. left \in Int
      BY <1>0 DEF BufferTypeOK
    <3> QED BY <1>0, <2>a, <3>1, <3>2 DEF Counting
  <2>4. Excluded' /\ Audible' /\ Copying' /\ VolumeKept'
    BY <1>9 DEF BufferTypeOK, Excluded, Audible, Copying, VolumeKept, PopStart,
           ring, volume, udp, audio, ghosts
  <2> QED BY <2>1, <2>2, <2>3, <2>4 DEF RingInv
<1>10. ASSUME Play PROVE RingInv'
  <2>a. /\ rate' \in Rates /\ rp' \in 0 .. Length - 1 /\ od' \in 0 - Unit .. Length - 1
        /\ left' \in 1 - Length .. Length - 1 /\ Apart'
        /\ (od <= left => od' <= left')
    BY <1>10, PlayApart
  <2>1. BufferTypeOK'
    <3>1. oi' \in 0 .. OutPacket
      BY <1>0, <1>10 DEF BufferTypeOK, Play, InLoop
    <3> QED BY <1>10, <2>a, <3>1 DEF BufferTypeOK, Play, ring, volume, udp, audio, ghosts
  <2>2. Apart'
    BY <2>a
  <2>3. Counting'
    <3>1. opc # "idle" /\ misread' = misread
      BY <1>10 DEF Play, InLoop
    <3> QED BY <2>a, <3>1 DEF Counting
  <2>4. Excluded' /\ Audible' /\ Copying' /\ VolumeKept'
    BY <1>10 DEF BufferTypeOK, Excluded, Audible, Copying, VolumeKept, Play, InLoop,
           ring, volume, udp, audio, ghosts
  <2> QED BY <2>1, <2>2, <2>3, <2>4 DEF RingInv
<1>11. ASSUME Silence PROVE RingInv'
  <2>1. BufferTypeOK'
    BY <1>0, <1>11 DEF BufferTypeOK, Silence, InLoop, ring, volume, udp, audio, ghosts
  <2>2. Apart'
    BY <1>11 DEF Apart, Length, Silence, InLoop, ring, volume, udp, audio, ghosts
  <2>3. Counting'
    BY <1>11 DEF BufferTypeOK, Counting, Silence, InLoop, ring, volume, udp, audio, ghosts
  <2>4. Excluded' /\ Audible' /\ Copying' /\ VolumeKept'
    BY <1>11 DEF BufferTypeOK, Excluded, Audible, Copying, VolumeKept, Silence, InLoop,
           ring, volume, udp, audio, ghosts
  <2> QED BY <2>1, <2>2, <2>3, <2>4 DEF RingInv
<1>12. ASSUME RunDry PROVE RingInv'
  <2>1. BufferTypeOK'
    BY <1>0, <1>12 DEF BufferTypeOK, RunDry, InLoop, ring, volume, udp, audio, ghosts
  <2>2. Apart'
    BY <1>12 DEF Apart, Length, RunDry, InLoop, ring, volume, udp, audio, ghosts
  <2>3. Counting'
    BY <1>12 DEF BufferTypeOK, Counting, RunDry, InLoop, ring, volume, udp, audio, ghosts
  <2>4. Excluded' /\ Audible' /\ Copying' /\ VolumeKept'
    BY <1>12 DEF BufferTypeOK, Excluded, Audible, Copying, VolumeKept, RunDry, InLoop,
           ring, volume, udp, audio, ghosts
  <2> QED BY <2>1, <2>2, <2>3, <2>4 DEF RingInv
<1>13. ASSUME muteON PROVE RingInv'
  <2>1. BufferTypeOK'
    BY <1>0, <1>13 DEF BufferTypeOK, muteON, ring, volume, udp, audio, ghosts
  <2>2. Apart'
    BY <1>13 DEF Apart, Length, muteON, ring, volume, udp, audio, ghosts
  <2>3. Counting'
    BY <1>13 DEF BufferTypeOK, Counting, muteON, ring, volume, udp, audio, ghosts
  <2>4. Excluded' /\ Audible' /\ Copying' /\ VolumeKept'
    BY <1>13 DEF BufferTypeOK, Excluded, Audible, Copying, VolumeKept, muteON,
           ring, volume, udp, audio, ghosts
  <2> QED BY <2>1, <2>2, <2>3, <2>4 DEF RingInv
<1>14. ASSUME StopPlaying PROVE RingInv'
  <2>1. BufferTypeOK'
    <3>1. oi' \in 0 .. OutPacket
      BY <1>0, <1>14 DEF BufferTypeOK, Excluded, StopPlaying
    <3> QED BY <1>14, <3>1 DEF BufferTypeOK, StopPlaying, ring, volume, udp, audio, ghosts
  <2>2. Apart'
    BY <1>14 DEF Apart, Length, StopPlaying, ring, volume, udp, audio, ghosts
  <2>3. Counting'
    BY <1>14 DEF BufferTypeOK, Counting, StopPlaying, ring, volume, udp, audio, ghosts
  <2>4. Excluded' /\ Audible' /\ Copying' /\ VolumeKept'
    BY <1>14 DEF BufferTypeOK, Excluded, Audible, Copying, VolumeKept, StopPlaying,
           ring, volume, udp, audio, ghosts
  <2> QED BY <2>1, <2>2, <2>3, <2>4 DEF RingInv
<1>15. ASSUME PopEnd PROVE RingInv'
  <2>1. BufferTypeOK'
    <3>1. aim' \in Rates /\ oi' \in 0 .. OutPacket /\ od' \in 0 - Unit .. Length - 1
      BY <1>0, <1>15 DEF PopEnd, Rates
    <3> QED BY <1>15, <3>1 DEF BufferTypeOK, PopEnd, ring, volume, udp, audio, ghosts
  <2>2. Apart'
    BY <1>15 DEF Apart, Length, PopEnd, ring, volume, udp, audio, ghosts
  <2>3. Counting'
    BY <1>15 DEF BufferTypeOK, Counting, PopEnd, ring, volume, udp, audio, ghosts
  <2>4. Excluded' /\ Audible' /\ Copying' /\ VolumeKept'
    BY <1>15 DEF BufferTypeOK, Excluded, Audible, Copying, VolumeKept, PopEnd,
           ring, volume, udp, audio, ghosts
  <2> QED BY <2>1, <2>2, <2>3, <2>4 DEF RingInv
<1>16. ASSUME UNCHANGED bufferVars PROVE RingInv'
  BY <1>16 DEF RingInv, BufferTypeOK, Apart, Length, Counting, Excluded, Audible, Copying, VolumeKept, bufferVars,
            ring, volume, udp, audio, ghosts
<1> QED
  BY <1>1, <1>2, <1>3, <1>4, <1>5, <1>6, <1>7, <1>8, <1>9, <1>10, <1>11, <1>12, <1>13, <1>14,
     <1>15, <1>16 DEF BufferNext, UDP, Handler, Pop

-----------------------------------------------------------------------------
(* The inductive invariant holds in every state of the two threads.        *)
THEOREM RingInvariant == BufferSpec => []RingInv
<1>1. BufferInit => RingInv
  BY RingInit
<1>2. RingInv /\ [BufferNext]_bufferVars => RingInv'
  BY RingStep
<1> QED BY <1>1, <1>2, PTL DEF BufferSpec

(* The positions stay in the ring, the counts of the loops in their        *)
(* packets and the volumes among those there are, and what sounds sounds   *)
(* at the volume that was set, whatever the threads' order.                *)
THEOREM BufferAgrees == BufferSpec => []BufferInv
<1>1. RingInv => BufferInv
  BY DEF RingInv, BufferInv
<1> QED BY <1>1, RingInvariant, PTL

(* pop, which never looks at wp again after it has begun, plays nothing    *)
(* that is not there, for every size of ring and packet, provided it began *)
(* with a reader that was not ahead and was not lapped.                    *)
THEOREM NothingElsePlayed == BufferSpec => PlaysWhatIsThere
<1>1. RingInv /\ [BufferNext]_bufferVars => [rp' # rp => left > 0 \/ misread]_bufferVars
  <2> SUFFICES ASSUME RingInv, [BufferNext]_bufferVars, rp' # rp PROVE left > 0 \/ misread
    OBVIOUS
  <2>1. Play
    BY DEF BufferNext, UDP, Handler, Pop, PushStart, Fill, TestLevel, Return, muteOFF, StartPlaying, SetVal,
           SetCopy, SetSize, PopStart, Silence, RunDry, muteON, StopPlaying, PopEnd, bufferVars,
                  ring, volume, udp, audio, ghosts
  <2>2. opc # "idle" /\ od > 0
    BY <2>1 DEF Play, InLoop
  <2>3. od \in Int /\ left \in Int
    BY Sizes DEF RingInv, BufferTypeOK
  <2> QED BY <2>2, <2>3 DEF RingInv, Counting
<1> QED BY <1>1, RingInvariant, PTL DEF BufferSpec, PlaysWhatIsThere

(* The two threads' mutes and unmutes leave the volume where it belongs,   *)
(* for every volume and every order of their statements.                   *)
THEOREM VolumeAgrees == BufferSpec => []VolumeKept
<1>1. RingInv => VolumeKept
  BY DEF RingInv
<1> QED BY <1>1, RingInvariant, PTL

-----------------------------------------------------------------------------
(***************************************************************************)
(* The routing table.  RouteInv is inductive as it stands; it is what      *)
(* makes aNum the cardinality of the set of routes, which the refinement   *)
(* of RouteSet.tla needs.                                                  *)
(***************************************************************************)

(* The constructor leaves an empty, compact table. *)
LEMMA RouteInit == TableInit => RouteInv
  BY SizeAssumption DEF TableInit, RouteInv, TableTypeOK, Compact, NoDuplicate, Slots, Used

(* An append behind the last used slot keeps the table compact, and the    *)
(* check for a known route keeps it free of duplicates.                    *)
LEMMA SetInv ==
    ASSUME RouteInv, NEW r \in Route, setRoute(r)
    PROVE  RouteInv'
<1> USE SizeAssumption, NullAssumption DEF RouteInv, Slots, Used
<1>1. aNum \in Slots /\ aNum' = aNum + 1 /\ slot' = [slot EXCEPT ![aNum] = r]
  BY DEF setRoute, TableTypeOK
<1>2. TableTypeOK'
  BY <1>1 DEF TableTypeOK
<1>3. Compact'
  BY <1>1 DEF Compact, TableTypeOK
<1>4. NoDuplicate'
  BY <1>1 DEF NoDuplicate, TableTypeOK, setRoute, isRouting
<1> QED BY <1>2, <1>3, <1>4

(* The shift keeps the used slots in front and copies none of them twice.  *)
LEMMA DeleteInv ==
    ASSUME RouteInv, NEW r \in Route, deleteRoute(r)
    PROVE  RouteInv'
<1> USE SizeAssumption, NullAssumption DEF RouteInv, Slots, Used
<1>1. PICK s \in Used : slot' = shiftFrom(s) /\ aNum' = aNum - 1
  BY DEF deleteRoute
<1>2. TableTypeOK'
  BY <1>1 DEF TableTypeOK, shiftFrom
<1>3. Compact'
  BY <1>1 DEF Compact, TableTypeOK, shiftFrom
<1>4. NoDuplicate'
  BY <1>1 DEF NoDuplicate, TableTypeOK, shiftFrom
<1> QED BY <1>2, <1>3, <1>4

(* Moving the kept slots down in their order keeps the invariant whatever  *)
(* was released.                                                           *)
LEMMA DeleteAllInv ==
    ASSUME RouteInv, NEW p \in Pattern, deleteAllRoute(p)
    PROVE  RouteInv'
<1> USE SizeAssumption, NullAssumption DEF RouteInv, Slots, Used
<1>0. PICK gone \in SUBSET Used, n \in 0 .. aNum :
         \E at \in [0 .. n - 1 -> Used \ gone] :
            /\ IsReleased(gone, p)
            /\ Compacts(at, n, Used \ gone)
            /\ slot' = [s \in Slots |-> IF s < n THEN slot[at[s]] ELSE NoRoute]
            /\ aNum' = n
  BY DEF deleteAllRoute
<1>1. PICK at \in [0 .. n - 1 -> Used \ gone] :
         /\ Compacts(at, n, Used \ gone)
         /\ slot' = [s \in Slots |-> IF s < n THEN slot[at[s]] ELSE NoRoute]
         /\ aNum' = n
  BY <1>0
<1>2. \A s \in 0 .. n - 1 : at[s] \in Used /\ slot[at[s]] # NoRoute
  BY <1>1 DEF Compact, TableTypeOK
<1>3. TableTypeOK'
  BY <1>1, <1>2 DEF TableTypeOK
<1>4. Compact'
  BY <1>1, <1>2 DEF Compact, TableTypeOK
<1>5. NoDuplicate'
  BY <1>1, <1>2 DEF NoDuplicate, TableTypeOK, Compacts
<1> QED BY <1>3, <1>4, <1>5

(* Every operation keeps the routes compact and without duplicates. *)
LEMMA RouteNext == RouteInv /\ [TableNext]_tableVars => RouteInv'
<1> SUFFICES ASSUME RouteInv, [TableNext]_tableVars PROVE RouteInv'
  OBVIOUS
<1>1. ASSUME NEW r \in Route, setRoute(r) PROVE RouteInv'
  BY <1>1, SetInv
<1>2. ASSUME NEW r \in Route, deleteRoute(r) PROVE RouteInv'
  BY <1>2, DeleteInv
<1>3. ASSUME NEW p \in Pattern, deleteAllRoute(p) PROVE RouteInv'
  BY <1>3, DeleteAllInv
<1>4. CASE UNCHANGED tableVars
  BY <1>4 DEF tableVars, RouteInv, TableTypeOK, Compact, NoDuplicate, Used, Slots
<1> QED BY <1>1, <1>2, <1>3, <1>4 DEF TableNext

(* After every sequence of connections and disconnections the table is     *)
(* well-typed, compact and free of duplicate destinations.                 *)
THEOREM RouteSafety == TableSpec => []RouteInv
  BY RouteInit, RouteNext, PTL DEF TableSpec

-----------------------------------------------------------------------------
(* Two routes that both survive a step are met in the same order after it. *)
LEMMA SetOrder ==
    ASSUME RouteInv, NEW r \in Route, setRoute(r)
    PROVE  KeepsOrder
<1> USE SizeAssumption DEF RouteInv, Slots, Used
<1>1. \A s \in Used : \A k \in 0 .. aNum' - 1 : slot[s] = slot'[k] => k = s
  BY DEF setRoute, isRouting, TableTypeOK, NoDuplicate
<1> QED BY <1>1 DEF KeepsOrder, TableTypeOK

(* Shifting the routes behind the deleted one keeps their order. *)
LEMMA DeleteOrder ==
    ASSUME RouteInv, NEW r \in Route, deleteRoute(r)
    PROVE  KeepsOrder
<1> USE SizeAssumption DEF RouteInv, Slots, Used
<1>1. PICK x \in Used : slot' = shiftFrom(x) /\ aNum' = aNum - 1
  BY DEF deleteRoute
<1>2. \A s \in Used : \A k \in 0 .. aNum' - 1 :
         slot[s] = slot'[k] => s = IF k < x THEN k ELSE k + 1
  BY <1>1 DEF shiftFrom, TableTypeOK, NoDuplicate
<1> QED BY <1>1, <1>2 DEF KeepsOrder, TableTypeOK

(* So does deleting all that match. *)
LEMMA DeleteAllOrder ==
    ASSUME RouteInv, NEW p \in Pattern, deleteAllRoute(p)
    PROVE  KeepsOrder
<1> USE SizeAssumption DEF RouteInv, Slots, Used
<1>1. PICK gone \in SUBSET Used, n \in 0 .. aNum :
         \E at \in [0 .. n - 1 -> Used \ gone] :
            /\ IsReleased(gone, p)
            /\ Compacts(at, n, Used \ gone)
            /\ slot' = [s \in Slots |-> IF s < n THEN slot[at[s]] ELSE NoRoute]
            /\ aNum' = n
  BY DEF deleteAllRoute
<1>2. PICK at \in [0 .. n - 1 -> Used \ gone] :
         /\ Compacts(at, n, Used \ gone)
         /\ slot' = [s \in Slots |-> IF s < n THEN slot[at[s]] ELSE NoRoute]
         /\ aNum' = n
  BY <1>1
<1>3. \A s \in Used : \A k \in 0 .. n - 1 : slot[s] = slot'[k] => s = at[k]
  <2> SUFFICES ASSUME NEW s \in Used, NEW k \in 0 .. n - 1, slot[s] = slot'[k]
               PROVE  s = at[k]
    OBVIOUS
  <2>1. k \in Slots /\ at[k] \in Used
    BY <1>2 DEF TableTypeOK
  <2>2. slot[s] = slot[at[k]]
    BY <1>2, <2>1
  <2> QED BY <2>1, <2>2 DEF NoDuplicate
<1>4. \A k, l \in 0 .. n - 1 : at[k] < at[l] => k < l
  <2>1. n \in Nat /\ \A k \in 0 .. n - 1 : at[k] \in Nat
    BY <1>2 DEF TableTypeOK
  <2>2. \A k, l \in 0 .. n - 1 : k < l => at[k] < at[l]
    BY <1>2 DEF Compacts
  <2> QED BY <2>1, <2>2
<1> SUFFICES ASSUME NEW s \in Used, NEW j \in Used,
                    NEW k \in 0 .. aNum' - 1, NEW l \in 0 .. aNum' - 1,
                    slot[s] = slot'[k], slot[j] = slot'[l], s < j
             PROVE  k < l
  BY DEF KeepsOrder
<1>5. k \in 0 .. n - 1 /\ l \in 0 .. n - 1
  BY <1>2
<1>6. s = at[k] /\ j = at[l]
  BY <1>3, <1>5
<1> QED BY <1>4, <1>5, <1>6

(* No step exchanges two routes it keeps. *)
THEOREM RouteOrder == TableSpec => OrderKept
<1>1. RouteInv /\ [TableNext]_tableVars => [KeepsOrder]_tableVars
  BY SetOrder, DeleteOrder, DeleteAllOrder DEF TableNext
<1> QED BY <1>1, RouteSafety, PTL DEF TableSpec, OrderKept

-----------------------------------------------------------------------------
(* Without duplicates the slots in use are as many as the destinations.    *)
LEMMA RoutesCounted == RouteInv => IsFiniteSet(Routes) /\ Cardinality(Routes) = aNum
<1> SUFFICES ASSUME RouteInv PROVE IsFiniteSet(Routes) /\ Cardinality(Routes) = aNum
  OBVIOUS
<1> DEFINE f == [s \in 1 .. aNum |-> slot[s - 1]]
<1>1. aNum \in Nat
  BY SizeAssumption DEF RouteInv, TableTypeOK
<1>2. f \in Bijection(1 .. aNum, Routes)
  <2>1. f \in [1 .. aNum -> Routes]
    BY <1>1 DEF Routes, Used
  <2>2. \A s, j \in 1 .. aNum : f[s] = f[j] => s = j
    BY <1>1 DEF RouteInv, NoDuplicate, Used
  <2>3. \A r \in Routes : \E s \in 1 .. aNum : f[s] = r
    <3> SUFFICES ASSUME NEW k \in Used PROVE \E s \in 1 .. aNum : f[s] = slot[k]
      BY DEF Routes
    <3>1. k + 1 \in 1 .. aNum /\ f[k + 1] = slot[k]
      BY <1>1 DEF Used
    <3> QED BY <3>1
  <2> QED BY <2>1, <2>2, <2>3, Fun_IsBij
<1>3. ExistsBijection(1 .. aNum, Routes)
  BY <1>2, Fun_ExistsBij
<1>4. IsFiniteSet(1 .. aNum) /\ Cardinality(1 .. aNum) = aNum
  BY <1>1, FS_Interval
<1> QED BY <1>3, <1>4, FS_Bijection

(* An append adds the route to the set, within its bound. *)
LEMMA SetConnects ==
    ASSUME RouteInv, NEW r \in Route, setRoute(r)
    PROVE  RS!Connect(r)
<1> USE SizeAssumption DEF RouteInv, Slots, Used
<1>1. Cardinality(Routes) < MAX_ANUM
  BY RoutesCounted DEF setRoute, TableTypeOK
<1>2. Routes' = Routes \union {r}
  BY DEF setRoute, Routes, TableTypeOK
<1> QED BY <1>1, <1>2 DEF RS!Connect, RS!Cardinality, Cardinality

(* The shift loses the released route and no other. *)
LEMMA DeleteDisconnects ==
    ASSUME RouteInv, NEW r \in Route, deleteRoute(r)
    PROVE  RS!Disconnect(r)
<1> USE SizeAssumption DEF RouteInv, Slots, Used
<1>1. PICK s \in Used : slot[s] = r /\ slot' = shiftFrom(s) /\ aNum' = aNum - 1
  BY DEF deleteRoute
<1>2. \A k \in 0 .. aNum' - 1 : \E j \in Used : j # s /\ slot'[k] = slot[j]
  <2> SUFFICES ASSUME NEW k \in 0 .. aNum' - 1
              PROVE  \E j \in Used : j # s /\ slot'[k] = slot[j]
    OBVIOUS
  <2>1. CASE k < s
    BY <1>1, <2>1 DEF shiftFrom, TableTypeOK
  <2>2. CASE k >= s
    <3>1. k + 1 \in Used /\ k + 1 # s /\ slot'[k] = slot[k + 1]
      BY <1>1, <2>2 DEF shiftFrom, TableTypeOK
    <3> QED BY <3>1
  <2> QED BY <1>1, <2>1, <2>2 DEF TableTypeOK
<1>3. \A j \in Used : j # s => \E k \in 0 .. aNum' - 1 : slot'[k] = slot[j]
  <2> SUFFICES ASSUME NEW j \in Used, j # s
              PROVE  \E k \in 0 .. aNum' - 1 : slot'[k] = slot[j]
    OBVIOUS
  <2>1. CASE j < s
    BY <1>1, <2>1 DEF shiftFrom, TableTypeOK
  <2>2. CASE j > s
    <3>1. j - 1 \in 0 .. aNum' - 1 /\ slot'[j - 1] = slot[j]
      BY <1>1, <2>2 DEF shiftFrom, TableTypeOK
    <3> QED BY <3>1
  <2> QED BY <1>1, <2>1, <2>2 DEF TableTypeOK
<1>4. \A j \in Used : j # s <=> slot[j] # r
  BY <1>1 DEF NoDuplicate
<1>5. Routes' = Routes \ {r}
  BY <1>2, <1>3, <1>4 DEF Routes
<1> QED BY <1>5 DEF RS!Disconnect

(* Releasing every other route of a run removes only matching routes, and  *)
(* at least the first of them.                                             *)
LEMMA DeleteAllDisconnects ==
    ASSUME RouteInv, NEW p \in Pattern, deleteAllRoute(p)
    PROVE  RS!DisconnectAll(p)
<1> USE SizeAssumption DEF RouteInv, Slots, Used
<1>1. PICK gone \in SUBSET Used, n \in 0 .. aNum :
         \E at \in [0 .. n - 1 -> Used \ gone] :
            /\ IsReleased(gone, p)
            /\ Compacts(at, n, Used \ gone)
            /\ slot' = [s \in Slots |-> IF s < n THEN slot[at[s]] ELSE NoRoute]
            /\ aNum' = n
  BY DEF deleteAllRoute
<1>2. PICK at \in [0 .. n - 1 -> Used \ gone] :
         /\ IsReleased(gone, p)
         /\ Compacts(at, n, Used \ gone)
         /\ slot' = [s \in Slots |-> IF s < n THEN slot[at[s]] ELSE NoRoute]
         /\ aNum' = n
  BY <1>1
<1> DEFINE lost == {slot[s] : s \in gone}
           matching == Routes \intersect (Host \X Strstr[p])
<1>3. \A s \in Used : slot[s] \in Route
  BY DEF TableTypeOK, Compact
<1>4. \A s \in Used : slot[s] \in matching <=> slot[s][2] \in Strstr[p]
  BY <1>3 DEF Routes, Route
<1>5. lost \in SUBSET matching
  BY <1>2, <1>4 DEF IsReleased
<1>6. ASSUME matching # {} PROVE lost # {}
  <2>1. PICK s \in Used : slot[s] \in matching
    BY <1>6 DEF Routes
  <2>2. s \in gone \/ s - 1 \in gone
    BY <2>1, <1>2, <1>4 DEF IsReleased
  <2>3. \A j \in gone : slot[j] \in lost
    OBVIOUS
  <2> QED BY <2>2, <2>3
<1>7. Routes' = Routes \ lost
  <2>1. \A s \in Used : s \in gone <=> slot[s] \in lost
    BY DEF NoDuplicate
  <2>2. \A k \in 0 .. n - 1 : slot'[k] = slot[at[k]] /\ at[k] \in Used \ gone
    BY <1>2 DEF TableTypeOK
  <2>3. Routes' \subseteq Routes \ lost
    <3>1. Routes' = {slot'[k] : k \in 0 .. n - 1}
      BY <1>2 DEF Routes
    <3>2. ASSUME NEW k \in 0 .. n - 1 PROVE slot'[k] \in Routes \ lost
      <4>1. slot'[k] = slot[at[k]] /\ at[k] \in Used /\ at[k] \notin gone
        BY <2>2
      <4> QED BY <2>1, <4>1 DEF Routes
    <3> QED BY <3>1, <3>2
  <2>4. Routes \ lost \subseteq Routes'
    <3> SUFFICES ASSUME NEW s \in Used, slot[s] \notin lost
                PROVE  \E k \in 0 .. n - 1 : slot'[k] = slot[s]
      BY <1>2 DEF Routes
    <3>1. PICK k \in 0 .. n - 1 : at[k] = s
      BY <1>2, <2>1 DEF Compacts
    <3> QED BY <2>2, <3>1
  <2> QED BY <2>3, <2>4
<1> QED BY <1>5, <1>6, <1>7 DEF RS!DisconnectAll

(* The table implements the bounded set of destinations. *)
THEOREM RouteRefinement == TableSpec => ImplementsRouteSet
<1>1. TableInit => RS!Init
  BY DEF TableInit, RS!Init, Routes, Used
<1>2. RouteInv /\ [TableNext]_tableVars => [RS!Next]_Routes
  <2> SUFFICES ASSUME RouteInv, [TableNext]_tableVars PROVE RS!Next \/ UNCHANGED Routes
    OBVIOUS
  <2>1. ASSUME NEW r \in Route, setRoute(r) PROVE RS!Next
    BY <2>1, SetConnects DEF RS!Next
  <2>2. ASSUME NEW r \in Route, deleteRoute(r) PROVE RS!Next
    BY <2>2, DeleteDisconnects DEF RS!Next
  <2>3. ASSUME NEW p \in Pattern, deleteAllRoute(p) PROVE RS!Next
    BY <2>3, DeleteAllDisconnects DEF RS!Next
  <2>4. CASE UNCHANGED tableVars
    BY <2>4 DEF tableVars, Routes, Used
  <2> QED BY <2>1, <2>2, <2>3, <2>4 DEF TableNext
<1> QED BY <1>1, <1>2, RouteSafety, PTL DEF TableSpec, ImplementsRouteSet, RS!Spec
=============================================================================
