------------------------- MODULE ModuleTables_proofs -------------------------
(***************************************************************************)
(* Proofs about the tables that modules are connected through, for all     *)
(* values of the constants: the routing table of a module's outlet while   *)
(* two threads use it (ModuleRoutes.tla), and a coordinator's list of the  *)
(* module managers (ModuleDirectory.tla).  The two share no name: each has *)
(* its own specification, state and assumptions.                           *)
(*                                                                         *)
(* The routing table.  In the middle of an operation the two arrays hold   *)
(* neither the old table nor the new one.  What they hold is said with     *)
(* respect to the table as it was before (Slot, Num): a deletion moves a   *)
(* hole, at wi and then at wj, up through it.  The audio thread is right   *)
(* about the slots below the lowest one released (low), because no         *)
(* statement touches a slot that is both below low and below aNum.         *)
(*                                                                         *)
(* The list.  An entry that a thread is about to push is right - not       *)
(* listed yet, with the index it will have - as long as the other thread   *)
(* is not adding, too (AddingInv).  A request is answered for managers     *)
(* whose method is there (WalkInv), so that what setMInfo sets can be      *)
(* missing only for the one that main is starting.                         *)
(***************************************************************************)
EXTENDS ModuleRoutes, ModuleDirectory, FiniteSetTheorems, FunctionTheorems, SequenceTheorems, TLAPS

(* The table that RoutingTable.tla sees. *)
Slot == IF wpc = "idle" THEN AsSlots ELSE before[1]
Num  == IF wpc = "idle" THEN aNum ELSE before[2]

Shifting == wpc \in {"shiftAddr", "shiftOsc", "tailAddr", "tailOsc"}

(* The slots that own their address *)
Owned == {i \in 0 .. aNum : /\ i = aNum => wpc \in {"osc", "inc"} \/ Shifting
                            /\ i = wi => wpc \notin {"clear", "dec"}
                            /\ i = wj => ~ Shifting}

(* What the application connected, each once *)
Connected ==
    /\ Slot \in [Slots -> Dest \union {NULL}] /\ Num \in 0 .. MAX_ANUM
    /\ \A i \in 0 .. Num - 1 : Slot[i] \in Dest
    /\ \A i \in Slots : i >= Num => Slot[i] = NULL
    /\ \A i, j \in 0 .. Num - 1 : Slot[i] = Slot[j] => i = j

Ownership ==
    /\ live = {loAddr[i] : i \in Owned}
    /\ \A i, j \in Owned : loAddr[i] = loAddr[j] => i = j
    /\ \A i \in Slots : i > aNum => loAddr[i] = NULL
    /\ aNum \in Slots /\ wpc \in {"idle", "new", "free", "clear", "dec", "tailOsc"} => loAddr[aNum] = NULL

Setting ==
    wpc \in {"new", "osc", "inc"} =>
        /\ aNum = Num /\ aNum < MAX_ANUM /\ wroute \in Dest
        /\ \A i \in Used : Entry(i) = Slot[i] /\ Slot[i] # wroute
        /\ wpc # "new" => host[loAddr[aNum]] = wroute[1]
        /\ wpc = "inc" => oscAddr[aNum] = wroute[2]

Removing ==
    /\ Deleting => wi < Num /\ Slot[wi] = wroute /\ wroute \in Dest
    /\ wpc \in {"free", "clear", "dec"} =>
          aNum = Num /\ \A i \in Used : i # wi => Entry(i) = Slot[i]
    /\ Shifting =>
          /\ aNum + 1 = Num /\ wi <= wj /\ wj <= aNum
          /\ wj = aNum <=> wpc \in {"tailAddr", "tailOsc"}
          /\ \A i \in 0 .. aNum : i < wj => Entry(i) = IF i < wi THEN Slot[i] ELSE Slot[i + 1]
          /\ \A i \in 0 .. aNum : i > wj => Entry(i) = Slot[i]
    /\ wpc = "shiftOsc" => loAddr[wj] = loAddr[wj + 1]

WriterInv == TypeOK /\ Connected /\ Ownership /\ Setting /\ Removing

(* The frame under way *)
Frame ==
    spc # "idle" =>
        /\ si = Len(sent)
        /\ spc # "test" => si < MAX_ANUM
        /\ si <= aNum \/ low <= aNum
        /\ spc # "test" /\ si < low => si < aNum
        /\ spc = "send" /\ si < low => sptr = loAddr[si]
        /\ startNum <= aNum \/ low <= aNum
        /\ Deleting => low <= wi

IInv == WriterInv /\ Frame /\ PrefixDelivered

-----------------------------------------------------------------------------
(* A module begins without destinations. *)
LEMMA InitInv == Init => IInv
<1> SUFFICES ASSUME Init PROVE IInv
  OBVIOUS
<1> USE SizeAssumption DEF Init, Slots, Used
<1>1. TypeOK
  <2>1. PICK h \in Host : host = [a \in Addr |-> h]
    BY HostAssumption
  <2>2. host \in [Addr -> Host] /\ loAddr \in [Slots -> Addr \union {NULL}] /\ oscAddr \in [Slots -> Path \union {NoPath}]
    BY <2>1
  <2>3. sent \in Seq((Host \X (Path \union {NoPath})) \union {Lost})
    OBVIOUS
  <2>4. /\ aNum \in 0 .. MAX_ANUM /\ live \in SUBSET Addr /\ wpc \in WriterPcs
        /\ wroute \in Dest \union {NULL} /\ wi \in Slots /\ wj \in 0 .. MAX_ANUM
        /\ spc \in {"idle", "test", "load", "send"} /\ si \in 0 .. MAX_ANUM
        /\ sptr \in Addr \union {NULL} /\ startNum \in 0 .. MAX_ANUM /\ low \in 0 .. MAX_ANUM
    BY DEF WriterPcs
  <2>5. before \in ([Slots -> Dest \union {NULL}] \X (0 .. MAX_ANUM)) \union {NULL}
    OBVIOUS
  <2> HIDE DEF Init
  <2> QED BY <2>2, <2>3, <2>4, <2>5 DEF TypeOK
<1>2. Owned = {}
  BY DEF Owned, Shifting
<1>3. Slot = [i \in Slots |-> NULL] /\ Num = 0
  BY DEF Slot, Num, AsSlots
<1>4. Connected
  BY <1>3 DEF Connected
<1>5. Ownership
  BY <1>2 DEF Ownership
<1>6. Setting /\ Removing
  BY DEF Setting, Removing, Deleting, Shifting
<1>7. Frame /\ PrefixDelivered
  BY DEF Frame, PrefixDelivered
<1> QED BY <1>1, <1>4, <1>5, <1>6, <1>7 DEF IInv, WriterInv

-----------------------------------------------------------------------------
(* The statements of setRoute *)

LEMMA StartSetKeeps ==
    ASSUME WriterInv, NEW r \in Dest, StartSet(r)
    PROVE  WriterInv'
<1> USE SizeAssumption DEF WriterInv, StartSet, Slots, Used, table, heap, sender
<1>1. Slot' = AsSlots /\ Slot = AsSlots /\ Num' = aNum /\ Num = aNum
  BY DEF Slot, Num
<1>2. TypeOK'
  BY <1>1 DEF TypeOK, WriterPcs, Connected
<1>3. Connected'
  BY <1>1 DEF Connected
<1>4. Owned' = Owned
  BY DEF Owned, Shifting
<1>5. Ownership'
  BY <1>4 DEF Ownership
<1>6. Setting'
  <2>1. \A i \in Used : Entry(i)' = Entry(i) /\ AsSlots[i] = Entry(i)
    BY DEF Entry, AsSlots, TypeOK
  <2>2. aNum \in Nat /\ aNum < MAX_ANUM
    BY DEF TypeOK
  <2> QED BY <1>1, <2>1, <2>2 DEF Setting
<1>7. Removing'
  BY DEF Removing, Deleting, Shifting
<1> QED BY <1>2, <1>3, <1>5, <1>6, <1>7

LEMMA NewAddressKeeps ==
    ASSUME WriterInv, NewAddress
    PROVE  WriterInv'
<1> USE SizeAssumption DEF WriterInv, Slots, Used
<1>1. Slot' = Slot /\ Num' = Num
  BY DEF NewAddress, Slot, Num
<1>2. PICK a \in Addr \ live : /\ live' = live \union {a}
                              /\ host' = [host EXCEPT ![a] = wroute[1]]
                              /\ loAddr' = [loAddr EXCEPT ![aNum] = a]
  BY DEF NewAddress
<1>3. /\ aNum = Num /\ aNum \in Slots /\ wroute \in Dest /\ wroute[1] \in Host
      /\ \A i \in Used : Entry(i) = Slot[i] /\ Slot[i] # wroute
  BY DestAssumption DEF NewAddress, Setting, TypeOK
<1>4. Owned = Used /\ Owned' = Used \union {aNum}
  BY <1>3 DEF NewAddress, Owned, Shifting, TypeOK
<1>5. TypeOK'
  BY <1>2, <1>3 DEF NewAddress, TypeOK, WriterPcs, sender
<1>6. Connected'
  BY <1>1 DEF Connected
<1>7. \A i \in Used : loAddr'[i] = loAddr[i] /\ loAddr[i] \in live /\ host'[loAddr[i]] = host[loAddr[i]]
  BY <1>2, <1>3, <1>4 DEF Ownership, TypeOK
<1>8. loAddr'[aNum] = a /\ host'[a] = wroute[1]
  BY <1>2, <1>3 DEF TypeOK
<1>9. Ownership'
  <2>1. live = {loAddr'[i] : i \in Used}
    BY <1>4, <1>7 DEF Ownership
  <2>4. live' = {loAddr'[i] : i \in Owned'}
    BY <2>1, <1>2, <1>4, <1>8
  <2>2. \A i, j \in Owned' : loAddr'[i] = loAddr'[j] => i = j
    BY <1>2, <1>4, <1>7, <1>8 DEF Ownership
  <2>3. \A i \in Slots : i > aNum => loAddr'[i] = NULL
    BY <1>2, <1>3 DEF Ownership, TypeOK
  <2> QED BY <2>4, <2>2, <2>3 DEF Ownership, NewAddress
<1>10. Setting'
  BY <1>1, <1>3, <1>7, <1>8 DEF Setting, NewAddress, Entry
<1>11. Removing'
  BY DEF Removing, Deleting, Shifting, NewAddress
<1> QED BY <1>5, <1>6, <1>9, <1>10, <1>11

LEMMA CopyPathKeeps ==
    ASSUME WriterInv, CopyPath
    PROVE  WriterInv'
<1> USE SizeAssumption DEF WriterInv, Slots, Used, heap
<1>1. Slot' = Slot /\ Num' = Num
  BY DEF CopyPath, Slot, Num
<1>2. /\ aNum = Num /\ aNum \in Slots /\ wroute \in Dest /\ wroute[2] \in Path
      /\ host[loAddr[aNum]] = wroute[1]
      /\ \A i \in Used : Entry(i) = Slot[i] /\ Slot[i] # wroute
  BY DestAssumption DEF CopyPath, Setting, TypeOK
<1>3. TypeOK'
  BY <1>2 DEF CopyPath, TypeOK, WriterPcs, sender
<1>4. Connected'
  BY <1>1 DEF Connected
<1>5. Owned' = Owned
  BY DEF Owned, Shifting, CopyPath
<1>6. Ownership'
  BY <1>5 DEF Ownership, CopyPath
<1>7. oscAddr'[aNum] = wroute[2] /\ \A i \in Used : oscAddr'[i] = oscAddr[i]
  BY <1>2 DEF CopyPath, TypeOK
<1>8. Setting'
  BY <1>1, <1>2, <1>7 DEF Setting, CopyPath, Entry
<1>9. Removing'
  BY DEF Removing, Deleting, Shifting, CopyPath
<1> QED BY <1>3, <1>4, <1>6, <1>8, <1>9

LEMMA PublishKeeps ==
    ASSUME WriterInv, Publish
    PROVE  /\ WriterInv'
           /\ Slot' = [Slot EXCEPT ![Num] = wroute] /\ Num' = Num + 1 /\ Num < MAX_ANUM
           /\ wroute \in Dest /\ \A i \in 0 .. Num - 1 : Slot[i] # wroute
<1> USE SizeAssumption DEF WriterInv, Slots, Used, heap
<1>1. /\ aNum = Num /\ aNum \in Slots /\ wroute \in Dest
      /\ Entry(aNum) = wroute
      /\ \A i \in Used : Entry(i) = Slot[i] /\ Slot[i] # wroute
  BY DestAssumption DEF Publish, Setting, TypeOK, Entry
<1>2. Num' = Num + 1 /\ Slot' = [i \in Slots |-> IF i \in 0 .. Num THEN Entry(i) ELSE NULL]
  BY <1>1 DEF Publish, Return, Slot, Num, AsSlots, Entry
<1>3. Slot' = [Slot EXCEPT ![Num] = wroute]
  <2>1. \A i \in Slots : i \in 0 .. Num => Slot'[i] = IF i = Num THEN wroute ELSE Slot[i]
    BY <1>1, <1>2
  <2>2. \A i \in Slots : i \notin 0 .. Num => Slot'[i] = NULL /\ Slot[i] = NULL
    BY <1>1, <1>2 DEF Connected
  <2>3. Slot' = [i \in Slots |-> IF i = Num THEN wroute ELSE Slot[i]]
    BY <1>1, <1>2, <2>1, <2>2
  <2> QED BY <2>3 DEF Connected
<1>4. TypeOK'
  BY <1>1 DEF Publish, Return, TypeOK, WriterPcs, sender
<1>5. Connected'
  BY <1>1, <1>2, <1>3 DEF Connected
<1>6. Owned' = Owned
  BY <1>1 DEF Owned, Shifting, Publish, Return, TypeOK
<1>7. Ownership'
  BY <1>6 DEF Ownership, Publish, Return, TypeOK
<1>8. Setting' /\ Removing'
  BY DEF Setting, Removing, Deleting, Shifting, Publish, Return
<1>9. Num < MAX_ANUM /\ \A i \in 0 .. Num - 1 : Slot[i] # wroute
  BY <1>1
<1> QED BY <1>1, <1>2, <1>3, <1>4, <1>5, <1>7, <1>8, <1>9

-----------------------------------------------------------------------------
(* The statements of deleteRoute *)

LEMMA StartDeleteKeeps ==
    ASSUME WriterInv, NEW r \in Dest, StartDelete(r)
    PROVE  WriterInv'
<1> USE SizeAssumption DEF WriterInv, Slots, Used, table, heap, sender
<1>1. Slot' = AsSlots /\ Slot = AsSlots /\ Num' = aNum /\ Num = aNum
  BY DEF StartDelete, Slot, Num
<1>2. PICK x \in Used : Entry(x) = r /\ wi' = x /\ low' = IF spc = "idle" THEN low ELSE MinOf(low, x)
  BY DEF StartDelete
<1>3. TypeOK'
  BY <1>1, <1>2 DEF StartDelete, TypeOK, WriterPcs, Connected, MinOf
<1>4. Connected'
  BY <1>1 DEF Connected
<1>5. Owned' = Owned
  BY DEF StartDelete, Owned, Shifting
<1>6. Ownership'
  BY <1>5 DEF StartDelete, Ownership
<1>7. Setting'
  BY DEF StartDelete, Setting
<1>8. \A i \in Used : Entry(i)' = Entry(i) /\ AsSlots[i] = Entry(i)
  BY DEF StartDelete, Entry, AsSlots, TypeOK
<1>9. Removing'
  BY <1>1, <1>2, <1>8 DEF StartDelete, Removing, Deleting, Shifting, TypeOK
<1> QED BY <1>3, <1>4, <1>6, <1>7, <1>9

LEMMA FreeAddressKeeps ==
    ASSUME WriterInv, FreeAddress
    PROVE  WriterInv'
<1> USE SizeAssumption DEF WriterInv, Slots, Used, table, sender
<1>1. Slot' = Slot /\ Num' = Num
  BY DEF FreeAddress, Slot, Num
<1>2. TypeOK'
  BY DEF FreeAddress, TypeOK, WriterPcs
<1>3. Connected'
  BY <1>1 DEF Connected
<1>4. wi \in Used /\ aNum \in Nat /\ Owned = Used /\ Owned' = Used \ {wi}
  BY DEF FreeAddress, Removing, Deleting, Owned, Shifting, TypeOK
<1>5. live' = {loAddr[i] : i \in Owned'}
  BY <1>4 DEF FreeAddress, Ownership
<1>6. Ownership'
  BY <1>4, <1>5 DEF FreeAddress, Ownership
<1>7. Setting'
  BY DEF FreeAddress, Setting
<1>8. Removing'
  BY <1>1 DEF FreeAddress, Removing, Deleting, Shifting, Entry
<1> QED BY <1>2, <1>3, <1>6, <1>7, <1>8

LEMMA ClearPathKeeps ==
    ASSUME WriterInv, ClearPath
    PROVE  WriterInv'
<1> USE SizeAssumption DEF WriterInv, Slots, Used, heap, sender
<1>1. Slot' = Slot /\ Num' = Num
  BY DEF ClearPath, Slot, Num
<1>2. TypeOK'
  BY DEF ClearPath, TypeOK, WriterPcs
<1>3. Connected'
  BY <1>1 DEF Connected
<1>4. Owned' = Owned
  BY DEF ClearPath, Owned, Shifting
<1>5. Ownership'
  BY <1>4 DEF ClearPath, Ownership
<1>6. Setting'
  BY DEF ClearPath, Setting
<1>7. \A i \in Used : i # wi => oscAddr'[i] = oscAddr[i]
  BY DEF ClearPath, TypeOK
<1>8. Removing'
  BY <1>1, <1>7 DEF ClearPath, Removing, Deleting, Shifting, Entry
<1> QED BY <1>2, <1>3, <1>5, <1>6, <1>8

LEMMA DecrementKeeps ==
    ASSUME WriterInv, Decrement
    PROVE  WriterInv'
<1> USE SizeAssumption DEF WriterInv, Slots, Used, heap, sender
<1>1. Slot' = Slot /\ Num' = Num
  BY DEF Decrement, Slot, Num
<1>2. wi \in Used /\ aNum = Num /\ Num \in 1 .. MAX_ANUM /\ wi \in Nat
  BY DEF Decrement, Removing, Deleting, TypeOK
<1>3. TypeOK'
  BY <1>2 DEF Decrement, TypeOK, WriterPcs
<1>4. Connected'
  BY <1>1 DEF Connected
<1>5. Owned = Used \ {wi} /\ Owned' = Owned
  BY <1>2 DEF Decrement, Owned, Shifting
<1>6. \A i \in Slots : i > aNum - 1 => loAddr[i] = NULL \/ i < aNum
  BY <1>2 DEF Decrement, Ownership
<1>7. Ownership'
  BY <1>2, <1>5, <1>6 DEF Decrement, Ownership
<1>8. Setting'
  BY DEF Decrement, Setting
<1>9. Removing'
  BY <1>1, <1>2 DEF Decrement, Removing, Deleting, Shifting, Entry
<1> QED BY <1>3, <1>4, <1>7, <1>8, <1>9

LEMMA ShiftAddrKeeps ==
    ASSUME WriterInv, ShiftAddr
    PROVE  WriterInv'
<1> USE SizeAssumption DEF WriterInv, Slots, Used, heap, sender
<1>1. Slot' = Slot /\ Num' = Num
  BY DEF ShiftAddr, Slot, Num
<1>2. wi \in Slots /\ wj \in Slots /\ wj + 1 \in Slots /\ wj < aNum /\ aNum + 1 = Num /\ aNum \in Slots
  BY DEF ShiftAddr, Removing, Shifting, Connected, TypeOK
<1>3. TypeOK'
  BY <1>2 DEF ShiftAddr, TypeOK, WriterPcs
<1>4. Connected'
  BY <1>1 DEF Connected
<1>5. Owned' = Owned /\ wj \notin Owned /\ Owned \subseteq Slots
  BY <1>2 DEF ShiftAddr, Owned, Shifting
<1>6. loAddr'[wj] = loAddr[wj + 1] /\ \A i \in Slots : i # wj => loAddr'[i] = loAddr[i]
  BY <1>2 DEF ShiftAddr, TypeOK
<1>7. {loAddr'[i] : i \in Owned} = {loAddr[i] : i \in Owned}
  BY <1>5, <1>6
<1>8. Ownership'
  BY <1>2, <1>5, <1>6, <1>7 DEF ShiftAddr, Ownership
<1>9. Setting'
  BY DEF ShiftAddr, Setting
<1>10. Removing'
  BY <1>1, <1>2, <1>6 DEF ShiftAddr, Removing, Deleting, Shifting, Entry
<1> QED BY <1>3, <1>4, <1>8, <1>9, <1>10

LEMMA ShiftOscKeeps ==
    ASSUME WriterInv, ShiftOsc
    PROVE  WriterInv'
<1> USE SizeAssumption DEF WriterInv, Slots, Used, heap, sender
<1>1. Slot' = Slot /\ Num' = Num
  BY DEF ShiftOsc, Slot, Num
<1>2. /\ wi \in Slots /\ wj \in Slots /\ wj + 1 \in Slots /\ wi <= wj /\ wj < aNum
      /\ aNum + 1 = Num /\ aNum \in Slots /\ loAddr[wj] = loAddr[wj + 1]
  BY DEF ShiftOsc, Removing, Shifting, Connected, TypeOK
<1>3. TypeOK'
  BY <1>2 DEF ShiftOsc, TypeOK, WriterPcs
<1>4. Connected'
  BY <1>1 DEF Connected
<1>5. Owned = (0 .. aNum) \ {wj} /\ Owned' = (0 .. aNum) \ {wj + 1}
  BY <1>2 DEF ShiftOsc, Owned, Shifting
<1>6. {loAddr[i] : i \in Owned'} = {loAddr[i] : i \in Owned}
  <2>1. \A i \in Owned : IF i = wj + 1 THEN wj \in Owned' ELSE i \in Owned'
    BY <1>2, <1>5
  <2>2. \A i \in Owned' : IF i = wj THEN wj + 1 \in Owned ELSE i \in Owned
    BY <1>2, <1>5
  <2> QED BY <1>2, <2>1, <2>2
<1>7. Ownership'
  <2>1. \A i, j \in Owned' : loAddr[i] = loAddr[j] => i = j
    BY <1>2, <1>5 DEF Ownership
  <2>2. /\ live' = live /\ loAddr' = loAddr /\ aNum' = aNum
        /\ wpc' \in {"shiftAddr", "tailAddr"}
    BY DEF ShiftOsc
  <2>3. live' = {loAddr'[i] : i \in Owned'}
    BY <1>6, <2>2 DEF Ownership
  <2> QED BY <2>1, <2>2, <2>3 DEF Ownership
<1>8. Setting'
  BY DEF ShiftOsc, Setting
<1>9. oscAddr'[wj] = oscAddr[wj + 1] /\ \A i \in Slots : i # wj => oscAddr'[i] = oscAddr[i]
  BY <1>2 DEF ShiftOsc, TypeOK
<1>10. \A i \in 0 .. aNum : IF i = wj THEN Entry(i)' = Slot[i + 1] ELSE Entry(i)' = Entry(i)
  BY <1>2, <1>9 DEF ShiftOsc, Entry, Removing, Shifting
<1>11. Removing'
  <2>1. /\ wi < Num /\ Slot[wi] = wroute /\ wroute \in Dest
        /\ \A i \in 0 .. aNum : i < wj => Entry(i) = IF i < wi THEN Slot[i] ELSE Slot[i + 1]
        /\ \A i \in 0 .. aNum : i > wj => Entry(i) = Slot[i]
    BY DEF ShiftOsc, Removing, Deleting, Shifting
  <2>2. \A i \in 0 .. aNum : i < wj + 1 => Entry(i)' = IF i < wi THEN Slot[i] ELSE Slot[i + 1]
    BY <1>2, <1>10, <2>1
  <2>3. \A i \in 0 .. aNum : i > wj + 1 => Entry(i)' = Slot[i]
    BY <1>2, <1>10, <2>1
  <2>4. wj' = wj + 1 /\ aNum' = aNum /\ wi' = wi /\ wroute' = wroute
    BY DEF ShiftOsc
  <2>5. wpc' \in {"shiftAddr", "tailAddr"} /\ (wj' = aNum' <=> wpc' = "tailAddr")
    BY <1>2 DEF ShiftOsc
  <2> HIDE DEF Slots, Used
  <2> QED BY <1>1, <1>2, <2>1, <2>2, <2>3, <2>4, <2>5 DEF Removing, Deleting, Shifting, Slots
<1> QED BY <1>3, <1>4, <1>7, <1>8, <1>11

LEMMA TailAddrKeeps ==
    ASSUME WriterInv, TailAddr
    PROVE  WriterInv'
<1> USE SizeAssumption DEF WriterInv, Slots, Used, heap, sender
<1>1. Slot' = Slot /\ Num' = Num
  BY DEF TailAddr, Slot, Num
<1>2. wi \in Slots /\ wj = aNum /\ aNum + 1 = Num /\ aNum \in Slots
  BY DEF TailAddr, Removing, Shifting, Connected, TypeOK
<1>3. TypeOK'
  BY <1>2 DEF TailAddr, TypeOK, WriterPcs
<1>4. Connected'
  BY <1>1 DEF Connected
<1>5. Owned' = Owned /\ Owned = Used
  BY <1>2 DEF TailAddr, Owned, Shifting
<1>6. loAddr'[aNum] = NULL /\ \A i \in Slots : i # aNum => loAddr'[i] = loAddr[i]
  BY <1>2 DEF TailAddr, TypeOK
<1>7. {loAddr'[i] : i \in Owned} = {loAddr[i] : i \in Owned}
  BY <1>2, <1>5, <1>6
<1>8. Ownership'
  BY <1>2, <1>5, <1>6, <1>7 DEF TailAddr, Ownership
<1>9. Setting'
  BY DEF TailAddr, Setting
<1>10. Removing'
  BY <1>1, <1>2, <1>6 DEF TailAddr, Removing, Deleting, Shifting, Entry
<1> QED BY <1>3, <1>4, <1>8, <1>9, <1>10

(* Where the hole has come to the end, the table is one shorter. *)
LEMMA TailOscKeeps ==
    ASSUME WriterInv, TailOsc
    PROVE  /\ WriterInv'
           /\ wi \in 0 .. Num - 1 /\ Slot[wi] = wroute /\ wroute \in Dest
           /\ Num' = Num - 1
           /\ Slot' = [j \in Slots |-> IF j < wi THEN Slot[j]
                                      ELSE IF j < Num - 1 THEN Slot[j + 1] ELSE NULL]
<1> USE SizeAssumption DEF WriterInv, Slots, Used, heap, sender
<1>1. /\ wi \in 0 .. Num - 1 /\ wj = aNum /\ aNum + 1 = Num /\ aNum \in Slots
      /\ Slot[wi] = wroute /\ wroute \in Dest
      /\ \A i \in Used : Entry(i) = IF i < wi THEN Slot[i] ELSE Slot[i + 1]
  <2>1. wpc = "tailOsc" /\ Shifting /\ Deleting /\ Num \in 0 .. MAX_ANUM /\ wi \in Nat /\ aNum \in Nat
    BY DEF TailOsc, Shifting, Deleting, Connected, TypeOK
  <2>2. wj = aNum /\ aNum + 1 = Num /\ wi < Num /\ Slot[wi] = wroute /\ wroute \in Dest
    BY <2>1 DEF Removing
  <2>3. \A i \in 0 .. aNum : i < wj => Entry(i) = IF i < wi THEN Slot[i] ELSE Slot[i + 1]
    BY <2>1 DEF Removing
  <2> QED BY <2>1, <2>2, <2>3
<1>2. \A i \in Used : Entry(i)' = Entry(i)
  BY <1>1 DEF TailOsc, Entry, TypeOK
<1>3. Num' = aNum /\ Slot' = [i \in Slots |-> IF i \in Used THEN Entry(i) ELSE NULL]
  BY <1>2 DEF TailOsc, Return, Slot, Num, AsSlots
<1>4. Slot' = [j \in Slots |-> IF j < wi THEN Slot[j] ELSE IF j < Num - 1 THEN Slot[j + 1] ELSE NULL]
  BY <1>1, <1>3
<1>5. TypeOK'
  BY <1>1 DEF TailOsc, Return, TypeOK, WriterPcs
<1>6. Connected'
  <2>1. \A i \in Used : Slot'[i] = IF i < wi THEN Slot[i] ELSE Slot[i + 1]
    BY <1>1, <1>3
  <2>2. Slot' \in [Slots -> Dest \union {NULL}] /\ Num' \in 0 .. MAX_ANUM
    <3>1. \A j \in Slots : (IF j < wi THEN Slot[j] ELSE IF j < Num - 1 THEN Slot[j + 1] ELSE NULL) \in Dest \union {NULL}
      BY <1>1 DEF Connected
    <3> QED BY <1>1, <1>3, <1>4, <3>1
  <2>3. \A i \in Used : Slot'[i] \in Dest
    BY <1>1, <2>1 DEF Connected
  <2>4. \A i \in Slots : i >= aNum => Slot'[i] = NULL
    BY <1>1, <1>3
  <2>5. \A i, j \in Used : Slot'[i] = Slot'[j] => i = j
    BY <1>1, <2>1 DEF Connected
  <2> QED BY <1>3, <2>2, <2>3, <2>4, <2>5 DEF Connected, TailOsc
<1>7. Owned' = Owned /\ Owned = Used
  BY <1>1 DEF TailOsc, Return, Owned, Shifting
<1>8. Ownership'
  BY <1>1, <1>7 DEF TailOsc, Return, Ownership
<1>9. Setting' /\ Removing'
  BY DEF TailOsc, Return, Setting, Removing, Deleting, Shifting
<1> QED BY <1>1, <1>3, <1>4, <1>5, <1>6, <1>8, <1>9

-----------------------------------------------------------------------------
(* The frame *)

LEMMA WriterKeeps == WriterInv /\ Writer => WriterInv'
BY StartSetKeeps, StartDeleteKeeps, NewAddressKeeps, CopyPathKeeps, PublishKeeps, FreeAddressKeeps,
   ClearPathKeeps, DecrementKeeps, ShiftAddrKeeps, ShiftOscKeeps, TailAddrKeeps, TailOscKeeps DEF Writer

(* A slot below the lowest one released owns its address. *)
LEMMA BelowIsOwned ==
    ASSUME WriterInv, Deleting => low <= wi, NEW k \in Used, k < low
    PROVE  k \in Slots /\ k \in Owned /\ loAddr[k] \in live
<1>1. k \in Nat /\ aNum \in 0 .. MAX_ANUM /\ wi \in Nat /\ wj \in Nat /\ low \in Nat
  BY SizeAssumption DEF WriterInv, TypeOK, Used, Slots
<1>2. wpc \in {"clear", "dec"} => k # wi
  BY <1>1 DEF Deleting
<1>3. Shifting => k # wj
  BY <1>1 DEF Deleting, Shifting, WriterInv, Removing
<1>4. k \in Owned
  BY <1>1, <1>2, <1>3, SizeAssumption DEF Owned, Used
<1> QED BY <1>1, <1>4, SizeAssumption DEF WriterInv, Ownership, Slots, Used

(* No statement of the TCP server thread touches a slot in use below the   *)
(* lowest one released.                                                    *)
Stable ==
    /\ low' <= low /\ low' \in 0 .. MAX_ANUM
    /\ aNum <= aNum' \/ low' <= aNum'
    /\ \A k \in Used : k < low' => k \in Used' /\ loAddr'[k] = loAddr[k] /\ Entry(k)' = Entry(k)
    /\ Deleting' => low' <= wi'
    /\ sender' = sender

LEMMA WriterIsStable ==
    ASSUME WriterInv, Deleting => low <= wi, spc # "idle", Writer
    PROVE  Stable
<1>1. /\ aNum \in 0 .. MAX_ANUM /\ low \in 0 .. MAX_ANUM /\ wi \in Slots /\ wj \in 0 .. MAX_ANUM
      /\ MAX_ANUM \in Nat /\ loAddr \in [Slots -> Addr \union {NULL}] /\ oscAddr \in [Slots -> Path \union {NoPath}]
      /\ host \in [Addr -> Host] /\ Slots \subseteq Nat
  BY SizeAssumption DEF WriterInv, TypeOK, Slots
<1> USE <1>1 DEF Used, table, heap, sender
<1>2. ASSUME NEW r \in Dest, StartSet(r) PROVE Stable
  BY <1>2 DEF StartSet, Stable, Deleting, Entry
<1>3. ASSUME NEW r \in Dest, StartDelete(r) PROVE Stable
  <2>1. PICK x \in Used : wi' = x /\ low' = MinOf(low, x)
    BY <1>3 DEF StartDelete
  <2>2. low' <= low /\ low' <= wi' /\ low' \in 0 .. MAX_ANUM
    BY <2>1 DEF MinOf
  <2>3. table' = table /\ heap' = heap /\ sender' = sender
    BY <1>3 DEF StartDelete
  <2> QED BY <2>2, <2>3 DEF Stable, Entry
<1>4. ASSUME NewAddress PROVE Stable
  <2>1. PICK a \in Addr \ live : host' = [host EXCEPT ![a] = wroute[1]] /\ loAddr' = [loAddr EXCEPT ![aNum] = a]
    BY <1>4 DEF NewAddress
  <2>2. \A k \in Used : k < low => k \in Slots /\ loAddr[k] # a
    BY BelowIsOwned
  <2>3. \A k \in Used : k < low => loAddr'[k] = loAddr[k] /\ host'[loAddr[k]] = host[loAddr[k]]
    BY <2>1, <2>2
  <2> QED BY <1>4, <2>3 DEF NewAddress, Stable, Deleting, Entry
<1>5. ASSUME CopyPath PROVE Stable
  BY <1>5 DEF CopyPath, Stable, Deleting, Entry
<1>6. ASSUME Publish PROVE Stable
  BY <1>6 DEF Publish, Return, Stable, Deleting, Entry
<1>7. ASSUME FreeAddress PROVE Stable
  BY <1>7 DEF FreeAddress, Stable, Deleting, Entry
<1>8. ASSUME ClearPath PROVE Stable
  BY <1>8 DEF ClearPath, Stable, Deleting, Entry
<1>9. ASSUME Decrement PROVE Stable
  <2>1. wi < aNum
    BY <1>9 DEF Decrement, WriterInv, Removing, Deleting
  <2> QED BY <1>9, <2>1 DEF Decrement, Stable, Deleting, Entry
<1>10. ASSUME ShiftAddr PROVE Stable
  <2>1. wi <= wj
    BY <1>10 DEF ShiftAddr, WriterInv, Removing, Shifting
  <2> QED BY <1>10, <2>1 DEF ShiftAddr, Stable, Deleting, Entry
<1>11. ASSUME ShiftOsc PROVE Stable
  <2>1. wi <= wj
    BY <1>11 DEF ShiftOsc, WriterInv, Removing, Shifting
  <2> QED BY <1>11, <2>1 DEF ShiftOsc, Stable, Deleting, Entry
<1>12. ASSUME TailAddr PROVE Stable
  BY <1>12 DEF TailAddr, Stable, Deleting, Entry
<1>13. ASSUME TailOsc PROVE Stable
  BY <1>13 DEF TailOsc, Return, Stable, Deleting, Entry
<1> QED BY <1>2, <1>3, <1>4, <1>5, <1>6, <1>7, <1>8, <1>9, <1>10, <1>11, <1>12, <1>13 DEF Writer

LEMMA WriterKeepsFrame == IInv /\ Writer => Frame' /\ PrefixDelivered'
<1> SUFFICES ASSUME IInv, Writer PROVE Frame' /\ PrefixDelivered'
  OBVIOUS
<1>1. CASE spc = "idle"
  <2>1. sender' = sender
    BY DEF Writer, StartSet, StartDelete, NewAddress, CopyPath, Publish, FreeAddress, ClearPath,
           Decrement, ShiftAddr, ShiftOsc, TailAddr, TailOsc
  <2> QED BY <1>1, <2>1 DEF sender, Frame, PrefixDelivered
<1>2. CASE spc # "idle"
  <2>1. Stable /\ Frame /\ PrefixDelivered
    BY <1>2, WriterIsStable DEF IInv, Frame
  <2>2. aNum' \in 0 .. MAX_ANUM
    BY WriterKeeps DEF IInv, WriterInv, TypeOK
  <2>3. /\ aNum \in 0 .. MAX_ANUM /\ low \in 0 .. MAX_ANUM /\ si \in Nat /\ startNum \in Nat /\ MAX_ANUM \in Nat
    BY SizeAssumption DEF IInv, WriterInv, TypeOK
  <2>4. si' = si /\ spc' = spc /\ sent' = sent /\ startNum' = startNum /\ sptr' = sptr
    BY <2>1 DEF Stable, sender
  <2>5. Frame'
    BY <1>2, <2>1, <2>2, <2>3, <2>4 DEF Frame, Stable, Used
  <2>6. \A k \in 1 .. MinOf(Len(sent), low') : sent[k] = Entry(k - 1)'
    <3>1. low' \in Nat /\ low' <= low /\ si = Len(sent)
      BY <1>2, <2>1 DEF Stable, Frame
    <3> SUFFICES ASSUME NEW k \in 1 .. MinOf(Len(sent), low') PROVE sent[k] = Entry(k - 1)'
      OBVIOUS
    <3>2. k \in 1 .. MinOf(Len(sent), low) /\ k - 1 \in Used /\ k - 1 < low'
      BY <1>2, <2>1, <2>3, <3>1 DEF MinOf, Frame, Used
    <3> QED BY <1>2, <2>1, <3>2 DEF PrefixDelivered, Stable
  <2> QED BY <2>4, <2>5, <2>6 DEF PrefixDelivered
<1> QED BY <1>1, <1>2

(* The statements of the audio thread *)

LEMMA SenderKeeps == IInv /\ Sender => IInv'
<1> SUFFICES ASSUME IInv, Sender PROVE IInv'
  OBVIOUS
<1>1. table' = table /\ heap' = heap /\ writer' = writer
  BY DEF Sender, BeginFrame, TestBound, LoadAddress, SendBlob
<1>2. /\ aNum \in 0 .. MAX_ANUM /\ low \in 0 .. MAX_ANUM /\ si \in 0 .. MAX_ANUM /\ wi \in Slots
      /\ startNum \in 0 .. MAX_ANUM /\ MAX_ANUM \in Nat \ {0} /\ Slots = 0 .. MAX_ANUM - 1
      /\ loAddr \in [Slots -> Addr \union {NULL}] /\ oscAddr \in [Slots -> Path \union {NoPath}]
      /\ host \in [Addr -> Host] /\ sptr \in Addr \union {NULL}
      /\ sent \in Seq((Host \X (Path \union {NoPath})) \union {Lost})
  BY SizeAssumption DEF IInv, WriterInv, TypeOK, Slots
<1>3. ASSUME /\ spc' \in {"idle", "test", "load", "send"} /\ si' \in 0 .. MAX_ANUM
             /\ sptr' \in Addr \union {NULL} /\ startNum' \in 0 .. MAX_ANUM /\ low' \in 0 .. MAX_ANUM
             /\ sent' \in Seq((Host \X (Path \union {NoPath})) \union {Lost})
      PROVE  WriterInv'
  <2>1. TypeOK'
    BY <1>1, <1>3 DEF table, heap, writer, IInv, WriterInv, TypeOK
  <2>2. Slot' = Slot /\ Num' = Num /\ Owned' = Owned /\ Shifting' = Shifting /\ Deleting' = Deleting
    BY <1>1 DEF table, heap, writer, Slot, Num, AsSlots, Entry, Used, Owned, Shifting, Deleting
  <2>3. Connected' /\ Ownership'
    BY <1>1, <2>2 DEF table, heap, writer, IInv, WriterInv, Connected, Ownership
  <2>4. Setting'
    BY <1>1, <2>2 DEF table, heap, writer, IInv, WriterInv, Setting, Used, Entry
  <2>5. Removing'
    BY <1>1, <2>2 DEF table, heap, writer, IInv, WriterInv, Removing, Used, Entry
  <2> QED BY <2>1, <2>3, <2>4, <2>5 DEF WriterInv
<1>4. \A k : Entry(k)' = Entry(k)
  BY <1>1 DEF table, heap, Entry
<1>5. CASE BeginFrame
  <2>1. WriterInv'
    BY <1>2, <1>3, <1>5 DEF BeginFrame
  <2>2. Frame' /\ PrefixDelivered'
    BY <1>1, <1>2, <1>5 DEF BeginFrame, Frame, PrefixDelivered, MinOf, Deleting, table, writer
  <2> QED BY <2>1, <2>2 DEF IInv
<1>6. CASE TestBound
  <2>1. WriterInv'
    <3>1. CASE spc' = "load" /\ UNCHANGED <<si, sptr, sent, startNum, low>>
      BY <1>2, <1>3, <3>1
    <3>2. CASE spc' = "idle" /\ si' = 0 /\ sptr' = NULL /\ sent' = <<>> /\ startNum' = 0 /\ low' = MAX_ANUM
      BY <1>2, <1>3, <3>2
    <3> QED BY <1>6, <3>1, <3>2 DEF TestBound
  <2>2. Frame'
    BY <1>1, <1>2, <1>6 DEF TestBound, IInv, Frame, Deleting, table, writer
  <2>3. PrefixDelivered'
    BY <1>4, <1>6 DEF TestBound, IInv, PrefixDelivered
  <2> QED BY <2>1, <2>2, <2>3 DEF IInv
<1>7. CASE LoadAddress
  <2>1. Frame /\ spc # "idle" /\ spc' = "send" /\ sptr' = loAddr[si] /\ si < MAX_ANUM
    BY <1>7 DEF LoadAddress, IInv, Frame
  <2>2. WriterInv'
    BY <1>2, <1>3, <1>7, <2>1 DEF LoadAddress
  <2>3. Frame'
    BY <1>1, <1>2, <1>7, <2>1 DEF LoadAddress, Frame, Deleting, table, writer
  <2>4. PrefixDelivered'
    BY <1>4, <1>7 DEF LoadAddress, IInv, PrefixDelivered
  <2> QED BY <2>2, <2>3, <2>4 DEF IInv
<1>8. CASE SendBlob
  <2>1. /\ Frame /\ spc = "send" /\ spc' = "test" /\ si' = si + 1 /\ low' = low /\ si = Len(sent)
        /\ si < MAX_ANUM /\ startNum' = startNum /\ sptr' = sptr
    BY <1>8 DEF SendBlob, IInv, Frame
  <2>2. PICK x \in (Host \X (Path \union {NoPath})) \union {Lost} :
             /\ sent' = Append(sent, x)
             /\ x = <<host[sptr], oscAddr[si]>> \/ sptr \notin live
    <3>1. CASE sptr # NULL /\ sent' = Append(sent, <<host[sptr], oscAddr[si]>>)
      <4>1. host[sptr] \in Host /\ oscAddr[si] \in Path \union {NoPath}
        BY <1>2, <2>1, <3>1
      <4> QED BY <3>1, <4>1
    <3>2. CASE sptr \notin live /\ sent' = Append(sent, Lost)
      BY <3>2
    <3> QED BY <1>8, <3>1, <3>2 DEF SendBlob
  <2>3. si < low => x = Entry(si)
    <3> SUFFICES ASSUME si < low PROVE x = Entry(si)
      OBVIOUS
    <3>1. si \in Used /\ sptr = loAddr[si] /\ (Deleting => low <= wi)
      BY <1>2, <2>1 DEF Frame, Used
    <3>2. loAddr[si] \in live
      BY <3>1, BelowIsOwned DEF IInv
    <3> QED BY <2>2, <3>1, <3>2 DEF Entry
  <2>4. sent' \in Seq((Host \X (Path \union {NoPath})) \union {Lost}) /\ Len(sent') = si + 1
        /\ sent'[si + 1] = x /\ \A k \in 1 .. si : sent'[k] = sent[k]
    BY <1>2, <2>1, <2>2
  <2>5. WriterInv'
    BY <1>2, <1>3, <2>1, <2>4
  <2>6. Frame'
    BY <1>1, <1>2, <2>1, <2>4 DEF Frame, Deleting, table, writer
  <2>7. \A k \in 1 .. MinOf(si + 1, low) : sent'[k] = Entry(k - 1)
    <3> SUFFICES ASSUME NEW k \in 1 .. MinOf(si + 1, low) PROVE sent'[k] = Entry(k - 1)
      OBVIOUS
    <3>1. CASE k = si + 1
      BY <1>2, <2>3, <2>4, <3>1 DEF MinOf
    <3>2. CASE k # si + 1
      <4>1. k \in 1 .. MinOf(Len(sent), low) /\ k \in 1 .. si
        BY <1>2, <2>1, <3>2 DEF MinOf
      <4> QED BY <2>1, <2>4, <4>1 DEF IInv, PrefixDelivered
    <3> QED BY <3>1, <3>2
  <2>8. PrefixDelivered'
    BY <1>4, <2>1, <2>4, <2>7 DEF PrefixDelivered
  <2> QED BY <2>5, <2>6, <2>8 DEF IInv
<1> QED BY <1>5, <1>6, <1>7, <1>8 DEF Sender

LEMMA StepKeeps == IInv /\ [Next]_vars => IInv'
<1> SUFFICES ASSUME IInv, [Next]_vars PROVE IInv'
  OBVIOUS
<1>1. CASE Writer
  BY <1>1, WriterKeeps, WriterKeepsFrame DEF IInv
<1>2. CASE Sender
  BY <1>2, SenderKeeps
<1>3. CASE UNCHANGED vars
  <2> USE <1>3 DEF vars, table, heap, writer, sender, IInv, WriterInv
  <2>1. Slot' = Slot /\ Num' = Num /\ Owned' = Owned /\ Shifting' = Shifting /\ Deleting' = Deleting
    BY DEF Slot, Num, AsSlots, Entry, Used, Owned, Shifting, Deleting
  <2>2. TypeOK' /\ Connected' /\ Ownership'
    BY <2>1 DEF TypeOK, Connected, Ownership
  <2>3. Setting'
    BY <2>1 DEF Setting, Entry, Used
  <2>4. Removing'
    BY <2>1 DEF Removing, Entry, Used
  <2>5. Frame' /\ PrefixDelivered'
    BY <2>1 DEF Frame, PrefixDelivered, Entry
  <2> QED BY <2>2, <2>3, <2>4, <2>5
<1> QED BY <1>1, <1>2, <1>3 DEF Next

-----------------------------------------------------------------------------
(* Whatever both threads do, and wherever they are in their statements,    *)
(* the writer's, the frame's and the destinations' invariants hold.        *)
THEOREM Invariant == Spec => []IInv
<1>1. Init => IInv
  BY InitInv
<1>2. IInv /\ [Next]_vars => IInv'
  BY StepKeeps
<1> QED BY <1>1, <1>2, PTL DEF Spec

(* The routing table stays within its bounds, and between two operations   *)
(* it owns every allocated address exactly once.                           *)
THEOREM TableAgrees == Spec => []TableInv
<1>1. IInv => TableInv
  <2> SUFFICES ASSUME IInv PROVE OwnsAddresses
    BY DEF TableInv, IInv, WriterInv
  <2> SUFFICES ASSUME wpc = "idle"
               PROVE  /\ live = {loAddr[i] : i \in Used}
                      /\ \A i, j \in Used : loAddr[i] = loAddr[j] => i = j
                      /\ \A i \in Slots \ Used : loAddr[i] = NULL
    BY DEF OwnsAddresses
  <2>1. Owned = Used
    BY DEF Owned, Shifting, Used, IInv, WriterInv, TypeOK
  <2> QED BY <2>1, SizeAssumption DEF IInv, WriterInv, TypeOK, Ownership, Used, Slots
<1> QED BY <1>1, Invariant, PTL

(* What a frame has sent below the lowest slot released meanwhile is what  *)
(* the table holds there, whatever the other thread is doing.              *)
THEOREM Prefix == Spec => []PrefixDelivered
<1>1. IInv => PrefixDelivered
  BY DEF IInv
<1> QED BY <1>1, Invariant, PTL

(* A frame that ends left out none of the destinations of its beginning    *)
(* that lie below the lowest slot released meanwhile.                      *)
THEOREM Covers == Spec => FrameCovers
<1>1. IInv /\ [Next]_vars => [spc = "test" /\ spc' = "idle" => Len(sent) >= MinOf(startNum, low)]_vars
  <2> SUFFICES ASSUME IInv, Next, spc = "test", spc' = "idle"
               PROVE  Len(sent) >= MinOf(startNum, low)
    OBVIOUS
  <2>1. ~ si < aNum
    BY DEF Next, Writer, Sender, StartSet, StartDelete, NewAddress, CopyPath, Publish, FreeAddress,
           ClearPath, Decrement, ShiftAddr, ShiftOsc, TailAddr, TailOsc, BeginFrame, TestBound,
           LoadAddress, SendBlob, sender
  <2>2. si = Len(sent) /\ (startNum <= aNum \/ low <= aNum)
    BY DEF IInv, Frame
  <2>3. /\ aNum \in 0 .. MAX_ANUM /\ low \in 0 .. MAX_ANUM /\ si \in Nat
        /\ startNum \in 0 .. MAX_ANUM
    BY SizeAssumption DEF IInv, WriterInv, TypeOK
  <2> QED BY <2>1, <2>2, <2>3, SizeAssumption DEF MinOf
<1> QED BY <1>1, Invariant, PTL DEF Spec, FrameCovers

-----------------------------------------------------------------------------
(* RoutingTable.tla sees an operation at its last statement: the earlier   *)
(* ones leave Slot and Num alone.                                          *)

LEMMA SetRefines == WriterInv /\ Publish => RT!setRoute(wroute)
<1> SUFFICES ASSUME WriterInv, Publish PROVE RT!setRoute(wroute)
  OBVIOUS
<1>1. /\ Slot' = [Slot EXCEPT ![Num] = wroute] /\ Num' = Num + 1 /\ Num < MAX_ANUM
      /\ \A i \in 0 .. Num - 1 : Slot[i] # wroute
  BY PublishKeeps
<1>2. Num \in Nat /\ MAX_ANUM \in Nat /\ ~ Num > MAX_ANUM - 1
  BY <1>1, SizeAssumption DEF WriterInv, Connected
<1> QED BY <1>1, <1>2 DEF RT!setRoute, RT!isRouting, RT!Used, Slot, Num

LEMMA DeleteRefines == WriterInv /\ TailOsc => RT!deleteRoute(wroute)
<1> SUFFICES ASSUME WriterInv, TailOsc PROVE RT!deleteRoute(wroute)
  OBVIOUS
<1>1. /\ wi \in 0 .. Num - 1 /\ Slot[wi] = wroute /\ Num' = Num - 1
      /\ Slot' = [j \in Slots |-> IF j < wi THEN Slot[j] ELSE IF j < Num - 1 THEN Slot[j + 1] ELSE NULL]
  BY TailOscKeeps
<1>2. \A k \in 0 .. wi - 1 : Slot[k] # wroute
  BY <1>1 DEF WriterInv, Connected
<1>3. Slot' = RT!shiftFrom(wi)
  BY <1>1 DEF RT!shiftFrom, RT!Slots, Slots, Slot, Num
<1> QED BY <1>1, <1>2, <1>3 DEF RT!deleteRoute, RT!Used, Slot, Num

(* The other statements and the audio thread change neither. *)
LEMMA OthersStutter ==
    ASSUME WriterInv,
           \/ \E r \in Dest : StartSet(r) \/ StartDelete(r)
           \/ NewAddress \/ CopyPath \/ FreeAddress \/ ClearPath \/ Decrement
           \/ ShiftAddr \/ ShiftOsc \/ TailAddr
           \/ Sender \/ UNCHANGED vars
    PROVE  Slot' = Slot /\ Num' = Num
<1>1. CASE \E r \in Dest : StartSet(r) \/ StartDelete(r)
  BY <1>1 DEF StartSet, StartDelete, Slot, Num
<1>2. CASE NewAddress \/ CopyPath \/ FreeAddress \/ ClearPath \/ Decrement \/ ShiftAddr \/ ShiftOsc \/ TailAddr
  BY <1>2 DEF NewAddress, CopyPath, FreeAddress, ClearPath, Decrement, ShiftAddr, ShiftOsc, TailAddr, Slot, Num
<1>3. CASE Sender \/ UNCHANGED vars
  BY <1>3 DEF Sender, BeginFrame, TestBound, LoadAddress, SendBlob, vars, table, heap, writer,
              Slot, Num, AsSlots, Entry, Used
<1> QED BY <1>1, <1>2, <1>3

(* The loops over the two arrays, run statement by statement beside the    *)
(* audio thread, do what RoutingTable.tla says in one step each.           *)
THEOREM Refinement == Spec => ImplementsRoutingTable
<1>1. Init => RT!TableInit
  BY DEF Init, RT!TableInit, RT!Slots, AsSlots, Used, Slots
<1>2. IInv /\ [Next]_vars => [RT!TableNext]_(RT!tableVars)
  <2> SUFFICES ASSUME IInv, [Next]_vars PROVE RT!TableNext \/ UNCHANGED <<Slot, Num>>
    BY DEF RT!tableVars, Slot, Num
  <2>1. WriterInv
    BY DEF IInv
  <2>2. CASE Publish
    <3>1. wroute \in RT!Route
      BY <2>1, <2>2, PublishKeeps, DestAssumption DEF RT!Route
    <3> QED BY <2>1, <2>2, <3>1, SetRefines DEF RT!TableNext
  <2>3. CASE TailOsc
    <3>1. wroute \in RT!Route
      BY <2>1, <2>3, TailOscKeeps, DestAssumption DEF RT!Route
    <3> QED BY <2>1, <2>3, <3>1, DeleteRefines DEF RT!TableNext
  <2>4. CASE ~ Publish /\ ~ TailOsc
    BY <2>1, <2>4, OthersStutter DEF Next, Writer
  <2> QED BY <2>2, <2>3, <2>4
<1> QED BY <1>1, <1>2, Invariant, PTL DEF Spec, ImplementsRoutingTable, RT!TableSpec

-----------------------------------------------------------------------------
(* The list of the module managers                                         *)

Walk == [k : Nat, step : {"set", "send", "unset"}, from : Co]

WalkInv ==
    /\ main \in [Machine -> [k : Nat, step : {"init", "local", "info", "announce"}]]
    /\ walk \in [Machine -> Walk \union {Nothing}]
    /\ local \in [Mgr -> BOOLEAN] /\ CoIP \in [Mgr -> Co \union {Nothing}]
    /\ crashed \subseteq Machine
    /\ \A m \in Machine : main[m].k \in 1 .. Len(Managers[m]) + 1
    /\ \A m \in Machine : Started(m) => main[m].step = "init"
    /\ \A m \in Machine : walk[m] # Nothing => walk[m].k \in 1 .. Methods(m)

AirInv ==
    /\ co \in [Co -> {"down", "up", "asked"}]
    /\ inbox \in [Co -> Seq(Mgr)] /\ news \in [Co \X Mgr -> Nat]
    /\ asks \in [Co \X Machine -> 0 .. Copies] /\ losses \in 0 .. MaxLost
    /\ \A c \in Co, m \in Machine : co[c] # "asked" => asks[<<c, m>>] = 0

AddingInv ==
    /\ mList \in [Co -> Seq(ListEntry)]
    /\ adding \in [Co \X Threads -> ListEntry \union {Nothing}]
    /\ \A c \in Co \ overlap, t \in Threads :
          /\ adding[<<c, t>>] # Nothing
          /\ \A u \in Threads \ {t} : adding[<<c, u>>] = Nothing
          => /\ adding[<<c, t>>].tID = Len(mList[c])
             /\ ~ Listed(c, adding[<<c, t>>].ip, adding[<<c, t>>].osc)

MachineInv   == WalkInv /\ CrashWhileStarting
EntryInv     == AddingInv /\ IndexUnlessOverlap
DirectoryInv == MachineInv /\ AirInv /\ EntryInv

-----------------------------------------------------------------------------
(* A manager is its machine and its path. *)
LEMMA Names ==
    /\ \A g \in Mgr : g[1] \in Machine /\ g[2] \in ManagerPath /\ g = <<g[1], g[2]>>
    /\ \A m \in Machine : \A k \in 1 .. Len(Managers[m]) : <<m, Managers[m][k]>> \in Mgr
  BY DEF Mgr, ManagerPath

(* What a walk stands at has a method, and is a manager. *)
LEMMA AtManager ==
    ASSUME WalkInv, NEW m \in Machine
    PROVE  /\ Len(Managers[m]) \in Nat
           /\ ~ Started(m) => Current(m) \in Mgr /\ main[m].k \in 1 .. Len(Managers[m])
           /\ walk[m] # Nothing => /\ Asked(m) \in Mgr /\ walk[m] \in Walk
                                /\ walk[m].k \in 1 .. Len(Managers[m])
  <1>1. Len(Managers[m]) \in Nat
    BY DirectoryAssumption
  <1>2. ~ Started(m) => main[m].k \in 1 .. Len(Managers[m])
    BY <1>1 DEF WalkInv, Started
  <1>3. walk[m] # Nothing => walk[m] \in Walk /\ walk[m].k \in 1 .. Len(Managers[m])
    <2>1. Methods(m) <= Len(Managers[m])
      BY <1>1 DEF WalkInv, Started, Methods
    <2>2. Methods(m) \in Int
      BY DEF WalkInv, Methods
    <2> QED BY <1>1, <2>1, <2>2 DEF WalkInv
  <1> QED BY <1>1, <1>2, <1>3, Names DEF Current, Asked

LEMMA InvImplies == DirectoryInv => ListInv
  <1> SUFFICES ASSUME DirectoryInv PROVE ListInv
    OBVIOUS
  <1>1. \A m \in Machine : walk[m] = Nothing \/ walk[m].k \in 1 .. Len(Managers[m])
    BY AtManager DEF DirectoryInv, MachineInv
  <1>2. \A m \in Machine : main[m].step \in {"init", "local", "info", "announce"}
    BY DEF DirectoryInv, MachineInv, WalkInv
  <1>3. DirectoryTypeOK
    BY <1>1, <1>2 DEF DirectoryInv, MachineInv, WalkInv, AirInv, EntryInv, AddingInv, DirectoryTypeOK
  <1> QED BY <1>3 DEF ListInv, DirectoryInv, MachineInv, EntryInv

LEMMA DirectoryInitInv == DirectoryInit => DirectoryInv
  <1> SUFFICES ASSUME DirectoryInit PROVE DirectoryInv
    OBVIOUS
  <1>1. MachineInv
    BY DirectoryAssumption DEF DirectoryInit, MachineInv, WalkInv, CrashWhileStarting, Started, Methods
  <1>2. AirInv
    BY DirectoryAssumption DEF DirectoryInit, AirInv
  <1>3. EntryInv
    BY DEF DirectoryInit, EntryInv, AddingInv, IndexUnlessOverlap, Positions
  <1> QED BY <1>1, <1>2, <1>3 DEF DirectoryInv

-----------------------------------------------------------------------------
(* What a step leaves alone *)

LEMMA MachineSame == MachineInv /\ UNCHANGED machine => MachineInv'
  BY DEF machine, MachineInv, WalkInv, CrashWhileStarting, Started, Methods

LEMMA EntrySame == EntryInv /\ UNCHANGED <<mList, adding, overlap>> => EntryInv'
  <1> SUFFICES ASSUME EntryInv, mList' = mList, adding' = adding, overlap' = overlap PROVE EntryInv'
    OBVIOUS
  <1>1. AddingInv => AddingInv'
    BY DEF AddingInv, Listed
  <1>2. IndexUnlessOverlap => IndexUnlessOverlap'
    BY DEF IndexUnlessOverlap, Positions
  <1> QED BY <1>1, <1>2 DEF EntryInv

(* The main thread goes on by one step. *)
LEMMA MainStep ==
    ASSUME MachineInv, NEW m \in Machine, NEW from, NEW to, Step(m, from, to),
           <<from, to>> \in {<<"init", "local">>, <<"local", "info">>, <<"info", "announce">>},
           UNCHANGED <<walk, crashed>>, local' \in [Mgr -> BOOLEAN], CoIP' \in [Mgr -> Co \union {Nothing}]
    PROVE  MachineInv'
  <1>1. /\ main' \in [Machine -> [k : Nat, step : {"init", "local", "info", "announce"}]]
        /\ main'[m].k = main[m].k /\ main'[m].step = to /\ main[m].step = from
        /\ \A x \in Machine \ {m} : main'[x] = main[x]
    BY DEF MachineInv, WalkInv, Step
  <1>2. \A x \in Machine : main'[x].k = main[x].k
    BY <1>1
  <1>3. \A x \in Machine : Started(x)' = Started(x)
    BY <1>2 DEF Started
  <1>4. \A x \in Machine : Methods(x) \in Int /\ Methods(x)' \in Int /\ Methods(x) <= Methods(x)'
    <2>1. to # "init" /\ \A x \in Machine : main[x].k \in Int /\ main'[x].k = main[x].k
      BY <1>2 DEF MachineInv, WalkInv
    <2>2. \A x \in Machine : main'[x].step = "init" => main[x].step = "init"
      BY <1>1, <2>1
    <2> QED BY <2>1, <2>2 DEF Methods
  <1>5. WalkInv'
    <2>1. \A x \in Machine : Started(x) => main'[x].step = "init"
      BY <1>1 DEF Step, MachineInv, WalkInv
    <2>2. \A x \in Machine : walk[x] # Nothing => walk[x].k \in 1 .. Methods(x)'
      BY <1>4 DEF MachineInv, WalkInv
    <2> QED BY <1>1, <1>2, <1>3, <2>1, <2>2 DEF MachineInv, WalkInv
  <1>6. m \notin crashed /\ crashed \subseteq Machine
    BY DEF MachineInv, WalkInv, Step, Running
  <1>7. CrashWhileStarting'
    BY <1>1, <1>3, <1>6 DEF MachineInv, CrashWhileStarting
  <1> QED BY <1>5, <1>7 DEF MachineInv

(* The walk of a machine changes, to one that stands where a method is. *)
LEMMA WalkStep ==
    ASSUME MachineInv, NEW m \in Machine, NEW w \in Walk \union {Nothing},
           walk' = [walk EXCEPT ![m] = w], w # Nothing => w.k \in 1 .. Methods(m),
           UNCHANGED <<main, crashed>>, local' \in [Mgr -> BOOLEAN], CoIP' \in [Mgr -> Co \union {Nothing}]
    PROVE  MachineInv'
  <1>1. /\ walk' \in [Machine -> Walk \union {Nothing}] /\ walk'[m] = w
        /\ \A x \in Machine \ {m} : walk'[x] = walk[x]
    BY DEF MachineInv, WalkInv
  <1>2. \A x \in Machine : Methods(x)' = Methods(x) /\ Started(x)' = Started(x)
    BY DEF Methods, Started
  <1>3. \A x \in Machine : walk'[x] # Nothing => walk'[x].k \in 1 .. Methods(x)
    BY <1>1 DEF MachineInv, WalkInv
  <1>4. WalkInv'
    BY <1>1, <1>2, <1>3 DEF MachineInv, WalkInv
  <1>5. CrashWhileStarting'
    BY <1>2 DEF MachineInv, WalkInv, CrashWhileStarting
  <1> QED BY <1>4, <1>5 DEF MachineInv

(* An announcement goes into an inbox, or into the air. *)
LEMMA Sent ==
    ASSUME AirInv, NEW g \in Mgr, CoIP \in [Mgr -> Co \union {Nothing}], sendModuleList(g),
           UNCHANGED <<co, asks, losses>>
    PROVE  AirInv'
  <1>1. CASE Unicast(g)
    <2>1. CoIP[g] \in Co
      BY <1>1 DEF Unicast
    <2>2. inbox' \in [Co -> Seq(Mgr)]
      BY <1>1, <2>1 DEF Unicast, AirInv
    <2> QED BY <1>1, <2>2 DEF Unicast, AirInv
  <1>2. CASE Broadcast(g)
    <2>1. news' \in [Co \X Mgr -> Nat]
      BY <1>2, DirectoryAssumption DEF Broadcast, AirInv
    <2> QED BY <1>2, <2>1 DEF Broadcast, AirInv
  <1> QED BY <1>1, <1>2 DEF sendModuleList

-----------------------------------------------------------------------------
(* The machines *)

LEMMA MainInv ==
    ASSUME DirectoryInv, NEW m \in Machine, Main(m)
    PROVE  DirectoryInv'
  <1> USE DEF DirectoryInv
  <1>0. WalkInv /\ local \in [Mgr -> BOOLEAN] /\ CoIP \in [Mgr -> Co \union {Nothing}]
    BY DEF MachineInv, WalkInv
  <1>1. CASE InitManager(m)
    <2>1. MachineInv'
      BY <1>0, <1>1, MainStep DEF InitManager
    <2>2. EntryInv'
      BY <1>1, EntrySame DEF InitManager, lists
    <2> QED BY <1>1, <2>1, <2>2 DEF InitManager, lists, AirInv
  <1>2. CASE ClearLocal(m)
    <2>1. MachineInv'
      BY <1>0, <1>2, MainStep DEF ClearLocal
    <2>2. EntryInv'
      BY <1>2, EntrySame DEF ClearLocal, lists
    <2> QED BY <1>2, <2>1, <2>2 DEF ClearLocal, lists, AirInv
  <1>3. CASE SetInfo(m)
    <2>1. MachineInv'
      BY <1>0, <1>3, MainStep DEF SetInfo
    <2>2. EntryInv'
      BY <1>3, EntrySame DEF SetInfo, lists
    <2> QED BY <1>3, <2>1, <2>2 DEF SetInfo, lists, AirInv
  <1>4. CASE Announce(m)
    <2>1. EntryInv'
      BY <1>4, EntrySame DEF Announce
    <2>2. AirInv'
      BY <1>0, <1>4, AtManager, Sent DEF Announce
    <2>3. MachineInv'
      <3>1. /\ main' \in [Machine -> [k : Nat, step : {"init", "local", "info", "announce"}]]
            /\ main[m].step = "announce" /\ main'[m].step = "init" /\ main'[m].k = main[m].k + 1
            /\ main[m].k \in 1 .. Len(Managers[m]) /\ Len(Managers[m]) \in Nat
            /\ \A x \in Machine \ {m} : main'[x] = main[x]
        BY <1>0, <1>4, AtManager DEF Announce, MachineInv, WalkInv
      <3>2. \A x \in Machine : main[x].k \in Nat
        BY DEF MachineInv, WalkInv
      <3>3. \A x \in Machine : Methods(x)' = Methods(x)
        BY <3>1, <3>2 DEF Methods
      <3>4. \A x \in Machine : Started(x)' => main'[x].step = "init"
        BY <3>1 DEF MachineInv, WalkInv, Started
      <3>5. \A x \in Machine : main'[x].k \in 1 .. Len(Managers[x]) + 1
        <4>1. \A x \in Machine : main[x].k \in 1 .. Len(Managers[x]) + 1
          BY <1>0 DEF WalkInv
        <4>2. main[m].k + 1 \in 1 .. Len(Managers[m]) + 1
          BY <3>1
        <4> QED BY <3>1, <4>1, <4>2
      <3>6. WalkInv'
        BY <1>4, <3>1, <3>3, <3>4, <3>5 DEF Announce, MachineInv, WalkInv
      <3>7. m \notin crashed /\ crashed \subseteq Machine /\ crashed' = crashed
        BY <1>4 DEF Announce, MachineInv, WalkInv, Running
      <3>8. CrashWhileStarting'
        BY <3>1, <3>7 DEF MachineInv, CrashWhileStarting, Started
      <3> QED BY <3>6, <3>8 DEF MachineInv
    <2> QED BY <2>1, <2>2, <2>3
  <1> QED BY <1>1, <1>2, <1>3, <1>4 DEF Main

LEMMA UDPInv ==
    ASSUME DirectoryInv, NEW m \in Machine, UDP(m)
    PROVE  DirectoryInv'
  <1> USE DEF DirectoryInv
  <1>0. /\ WalkInv /\ local \in [Mgr -> BOOLEAN] /\ CoIP \in [Mgr -> Co \union {Nothing}]
        /\ walk \in [Machine -> Walk \union {Nothing}]
        /\ Methods(m) \in Int
    BY DEF MachineInv, WalkInv, Methods
  <1>1. ASSUME NEW c \in Co, Receive(m, c)
        PROVE  DirectoryInv'
    <2>1. MachineInv'
      <3>1. CASE Methods(m) = 0
        BY <1>1, <3>1, MachineSame DEF Receive, machine
      <3>2. CASE Methods(m) # 0
        <4> DEFINE w == [k |-> 1, step |-> "set", from |-> c]
        <4>1. w \in Walk /\ w.k = 1
          BY DEF Walk
        <4>2. Methods(m) \in Nat
          BY DEF MachineInv, WalkInv, Methods
        <4>3. 1 \in 1 .. Methods(m)
          BY <3>2, <4>2
        <4>4. walk' = [walk EXCEPT ![m] = w]
          BY <1>1, <3>2 DEF Receive
        <4> HIDE DEF w
        <4> QED BY <1>0, <1>1, <4>1, <4>3, <4>4, WalkStep DEF Receive
      <3> QED BY <3>1, <3>2
    <2>2. EntryInv'
      BY <1>1, EntrySame DEF Receive, lists
    <2>3. asks' \in [Co \X Machine -> 0 .. Copies]
      BY <1>1, DirectoryAssumption DEF Receive, AirInv
    <2>4. \A d \in Co, x \in Machine : co[d] # "asked" => asks'[<<d, x>>] = 0
      BY <1>1 DEF Receive, AirInv
    <2>5. AirInv'
      BY <1>1, <2>3, <2>4 DEF Receive, lists, AirInv
    <2> QED BY <2>1, <2>2, <2>5
  <1>2. CASE SetCoIP(m)
    <2> DEFINE w == [walk[m] EXCEPT !.step = "send"]
    <2>1. walk[m] \in Walk /\ Asked(m) \in Mgr /\ walk[m].k \in 1 .. Methods(m)
      BY <1>0, <1>2, AtManager DEF SetCoIP, At, WalkInv
    <2>2. w \in Walk /\ w.k = walk[m].k
      BY <2>1 DEF Walk
    <2>3. walk' = [walk EXCEPT ![m] = w]
      BY <1>2 DEF SetCoIP
    <2>4. local' \in [Mgr -> BOOLEAN] /\ CoIP' \in [Mgr -> Co \union {Nothing}]
      BY <1>0, <1>2, <2>1 DEF SetCoIP, Walk
    <2> HIDE DEF w
    <2>5. MachineInv'
      BY <1>2, <2>1, <2>2, <2>3, <2>4, WalkStep DEF SetCoIP
    <2>6. EntryInv'
      BY <1>2, EntrySame DEF SetCoIP, lists
    <2> QED BY <1>2, <2>5, <2>6 DEF SetCoIP, lists, AirInv
  <1>3. CASE Answer(m)
    <2> DEFINE w == [walk[m] EXCEPT !.step = "unset"]
    <2>1. walk[m] \in Walk /\ Asked(m) \in Mgr /\ walk[m].k \in 1 .. Methods(m)
      BY <1>0, <1>3, AtManager DEF Answer, At, WalkInv
    <2>2. w \in Walk /\ w.k = walk[m].k
      BY <2>1 DEF Walk
    <2>3. walk' = [walk EXCEPT ![m] = w]
      BY <1>3 DEF Answer
    <2> HIDE DEF w
    <2>4. MachineInv'
      BY <1>0, <1>3, <2>1, <2>2, <2>3, WalkStep DEF Answer
    <2>5. EntryInv'
      BY <1>3, EntrySame DEF Answer
    <2>6. AirInv'
      BY <1>0, <1>3, <2>1, Sent DEF Answer
    <2> QED BY <2>4, <2>5, <2>6
  <1>4. CASE AnswerTooEarly(m)
    <2>1. walk[m] # Nothing /\ ~ Informed(m, walk[m].k) /\ walk[m].k \in 1 .. Methods(m)
      BY <1>0, <1>4 DEF AnswerTooEarly, At, WalkInv
    <2>2. main[m].step \in {"init", "local", "info", "announce"} /\ main[m].k \in Nat
      BY DEF MachineInv, WalkInv
    <2>3. main[m].step \in {"local", "info"}
      BY <2>1, <2>2 DEF Informed, Methods
    <2>4. ~ Started(m)
      BY <2>3 DEF MachineInv, WalkInv
    <2>5. crashed' = crashed \union {m} /\ UNCHANGED <<main, walk, local, CoIP>>
      BY <1>4 DEF AnswerTooEarly
    <2>6. WalkInv'
      BY <1>0, <2>5 DEF WalkInv, Started, Methods
    <2>7. CrashWhileStarting'
      BY <2>3, <2>4, <2>5 DEF MachineInv, CrashWhileStarting, Started
    <2>8. EntryInv'
      BY <1>4, EntrySame DEF AnswerTooEarly, lists
    <2> QED BY <1>4, <2>6, <2>7, <2>8 DEF AnswerTooEarly, lists, MachineInv, AirInv
  <1>5. CASE UnsetLocal(m)
    <2>1. walk[m] \in Walk /\ Asked(m) \in Mgr /\ walk[m].k \in 1 .. Methods(m)
      BY <1>0, <1>5, AtManager DEF UnsetLocal, At, WalkInv
    <2>2. local' \in [Mgr -> BOOLEAN] /\ CoIP' \in [Mgr -> Co \union {Nothing}]
      BY <1>0, <1>5, <2>1 DEF UnsetLocal
    <2>3. PICK w \in Walk \union {Nothing} :
             walk' = [walk EXCEPT ![m] = w] /\ (w # Nothing => w.k \in 1 .. Methods(m))
      <3>1. CASE walk[m].k < Methods(m)
        <4> DEFINE w == [k |-> walk[m].k + 1, step |-> "set", from |-> walk[m].from]
        <4>1. walk' = [walk EXCEPT ![m] = w]
          <5>1. walk[m] = [k |-> walk[m].k, step |-> walk[m].step, from |-> walk[m].from]
            BY <2>1 DEF Walk
          <5>2. walk' = [walk EXCEPT ![m] = [[walk[m] EXCEPT !.k = walk[m].k + 1] EXCEPT !.step = "set"]]
            BY <1>0, <1>5, <3>1 DEF UnsetLocal, NextMethod
          <5>3. [walk[m] EXCEPT !.k = walk[m].k + 1]
                   = [k |-> walk[m].k + 1, step |-> walk[m].step, from |-> walk[m].from]
            BY <5>1
          <5>4. [[k |-> walk[m].k + 1, step |-> walk[m].step, from |-> walk[m].from]
                   EXCEPT !.step = "set"] = w
            OBVIOUS
          <5> QED BY <5>2, <5>3, <5>4
        <4>2. w \in Walk /\ w.k = walk[m].k + 1
          <5>1. walk[m].k + 1 \in Nat
            BY <2>1 DEF Walk
          <5>2. walk[m].from \in Co
            BY <2>1 DEF Walk
          <5> QED BY <5>1, <5>2 DEF Walk
        <4>3. walk[m].k + 1 \in 1 .. Methods(m)
          BY <1>0, <2>1, <3>1
        <4> QED BY <4>1, <4>2, <4>3
      <3>2. CASE ~ walk[m].k < Methods(m)
        BY <1>5, <3>2 DEF UnsetLocal, NextMethod
      <3> QED BY <3>1, <3>2
    <2>4. MachineInv'
      BY <1>5, <2>2, <2>3, WalkStep DEF UnsetLocal
    <2>5. EntryInv'
      BY <1>5, EntrySame DEF UnsetLocal, lists
    <2> QED BY <1>5, <2>4, <2>5 DEF UnsetLocal, lists, AirInv
  <1> QED BY <1>1, <1>2, <1>3, <1>4, <1>5 DEF UDP

-----------------------------------------------------------------------------
(* The coordinators *)

(* Looking for an entry: what is found missing is added with its index. *)
LEMMA Adds ==
    ASSUME EntryInv, NEW c \in Co, NEW t \in Threads, NEW ip \in Machine, NEW osc \in ManagerPath,
           adding[<<c, t>>] = Nothing, Add(c, t, ip, osc), UNCHANGED <<mList, overlap>>
    PROVE  EntryInv'
  <1> DEFINE e == [ip |-> ip, osc |-> osc, tID |-> Len(mList[c])]
  <1>1. CASE Listed(c, ip, osc)
    BY <1>1, EntrySame DEF Add
  <1>2. CASE ~ Listed(c, ip, osc)
    <2>1. mList[c] \in Seq(ListEntry) /\ Len(mList[c]) \in Nat
      BY DEF EntryInv, AddingInv
    <2>2. e \in ListEntry /\ e.ip = ip /\ e.osc = osc /\ e.tID = Len(mList[c])
      BY <2>1 DEF ListEntry
    <2>3. adding' = [adding EXCEPT ![<<c, t>>] = e]
      BY <1>2 DEF Add
    <2> HIDE DEF e
    <2>4. /\ adding' \in [Co \X Threads -> ListEntry \union {Nothing}] /\ adding'[<<c, t>>] = e
          /\ \A d \in Co, u \in Threads :
                <<d, u>> # <<c, t>> => adding'[<<d, u>>] = adding[<<d, u>>]
      BY <2>2, <2>3 DEF EntryInv, AddingInv
    <2>5. \A d \in Co : \A i, o : Listed(d, i, o)' <=> Listed(d, i, o)
      BY DEF Listed
    <2>6. ASSUME NEW d \in Co \ overlap, NEW u \in Threads, adding'[<<d, u>>] # Nothing,
                 \A v \in Threads \ {u} : adding'[<<d, v>>] = Nothing
          PROVE  /\ adding'[<<d, u>>].tID = Len(mList[d])
                 /\ ~ Listed(d, adding'[<<d, u>>].ip, adding'[<<d, u>>].osc)
      <3>1. CASE d = c /\ u = t
        BY <1>2, <2>2, <2>4, <3>1
      <3>2. CASE d = c /\ u # t
        <4>1. e = Nothing
          BY <2>4, <2>6, <3>2
        <4>2. \A v \in Threads \ {u} : adding[<<d, v>>] = Nothing
          BY <2>4, <2>6, <3>2, <4>1
        <4> QED BY <2>4, <2>6, <3>2, <4>2 DEF EntryInv, AddingInv
      <3>3. CASE d # c
        <4>1. \A v \in Threads : adding'[<<d, v>>] = adding[<<d, v>>]
          BY <2>4, <3>3
        <4> QED BY <2>6, <4>1 DEF EntryInv, AddingInv
      <3> QED BY <3>1, <3>2, <3>3
    <2>7. AddingInv'
      BY <2>4, <2>5, <2>6 DEF EntryInv, AddingInv
    <2>8. IndexUnlessOverlap'
      BY DEF EntryInv, IndexUnlessOverlap, Positions
    <2> QED BY <2>7, <2>8 DEF EntryInv
  <1> QED BY <1>1, <1>2

(* push_back, after which the list is right if the entry was: the other    *)
(* thread was not adding, or the list is one of overlap.                   *)
LEMMA Pushes ==
    ASSUME EntryInv, NEW c \in Co, NEW t \in Threads, PushBack(c, t)
    PROVE  EntryInv'
  <1> DEFINE e == adding[<<c, t>>]
             s == mList[c]
  <1>1. /\ e \in ListEntry /\ e # Nothing /\ s \in Seq(ListEntry)
        /\ mList' \in [Co -> Seq(ListEntry)] /\ mList'[c] = Append(s, e)
        /\ \A d \in Co \ {c} : mList'[d] = mList[d]
    BY DEF PushBack, EntryInv, AddingInv
  <1>2. /\ adding' \in [Co \X Threads -> ListEntry \union {Nothing}] /\ adding'[<<c, t>>] = Nothing
        /\ \A d \in Co, u \in Threads : <<d, u>> # <<c, t>> => adding'[<<d, u>>] = adding[<<d, u>>]
    BY DEF PushBack, EntryInv, AddingInv
  <1>3. /\ overlap \subseteq overlap' /\ \A d \in Co \ {c} : d \in overlap' => d \in overlap
        /\ c \notin overlap' => \A u \in Threads \ {t} : adding[<<c, u>>] = Nothing
    BY DEF PushBack
  <1>4. c \notin overlap' => e.tID = Len(s) /\ ~ Listed(c, e.ip, e.osc)
    BY <1>1, <1>3 DEF EntryInv, AddingInv
  <1>6. ASSUME NEW d \in Co \ overlap', NEW u \in Threads, adding'[<<d, u>>] # Nothing,
               \A v \in Threads \ {u} : adding'[<<d, v>>] = Nothing
        PROVE  /\ adding'[<<d, u>>].tID = Len(mList'[d])
               /\ ~ Listed(d, adding[<<d, u>>].ip, adding[<<d, u>>].osc)'
    <2>1. CASE d = c
      <3>1. u # t /\ adding[<<c, u>>] # Nothing
        BY <1>2, <1>6, <2>1
      <3> QED BY <1>3, <2>1, <3>1
    <2>2. CASE d # c
      <3>1. \A v \in Threads : adding'[<<d, v>>] = adding[<<d, v>>]
        BY <1>2, <2>2
      <3>2. d \in Co \ overlap
        BY <1>3
      <3>3. /\ adding[<<d, u>>].tID = Len(mList[d])
            /\ ~ Listed(d, adding[<<d, u>>].ip, adding[<<d, u>>].osc)
        BY <1>6, <3>1, <3>2 DEF EntryInv, AddingInv
      <3> QED BY <1>1, <2>2, <3>1, <3>3 DEF Listed
    <2> QED BY <2>1, <2>2
  <1>7. AddingInv'
    BY <1>1, <1>2, <1>6 DEF AddingInv
  <1>8. ASSUME NEW d \in Co \ overlap', NEW i \in Positions(d)', NEW j \in Positions(d)'
        PROVE  /\ mList'[d][i].tID = i - 1
               /\ i # j => <<mList'[d][i].ip, mList'[d][i].osc>> # <<mList'[d][j].ip, mList'[d][j].osc>>
    <2>0. d \notin overlap
      BY <1>3
    <2>1. CASE d # c
      <3>1. mList'[d] = mList[d]
        BY <1>1, <2>1
      <3>2. i \in Positions(d) /\ j \in Positions(d)
        BY <1>8, <3>1 DEF Positions
      <3> QED BY <2>0, <3>1, <3>2 DEF EntryInv, IndexUnlessOverlap
    <2>2. CASE d = c
      <3>1. /\ Len(Append(s, e)) = Len(s) + 1 /\ Append(s, e)[Len(s) + 1] = e /\ Len(s) \in Nat
            /\ \A k \in 1 .. Len(s) : Append(s, e)[k] = s[k]
        BY <1>1
      <3>2. i \in 1 .. Len(s) + 1 /\ j \in 1 .. Len(s) + 1
        BY <1>1, <1>8, <2>2, <3>1 DEF Positions
      <3>3. \A k \in 1 .. Len(s) : /\ s[k].tID = k - 1
                                   /\ \A l \in 1 .. Len(s) :
                                         k # l => <<s[k].ip, s[k].osc>> # <<s[l].ip, s[l].osc>>
        BY <2>0, <2>2 DEF EntryInv, IndexUnlessOverlap, Positions
      <3>4. e.tID = Len(s) /\ \A k \in 1 .. Len(s) : ~ (s[k].ip = e.ip /\ s[k].osc = e.osc)
        BY <1>4, <2>2 DEF Listed
      <3> HIDE DEF e, s
      <3>5. /\ Append(s, e)[i].tID = i - 1
            /\ i # j => <<Append(s, e)[i].ip, Append(s, e)[i].osc>>
                           # <<Append(s, e)[j].ip, Append(s, e)[j].osc>>
        <4>1. CASE i \in 1 .. Len(s) /\ j \in 1 .. Len(s)
          BY <3>1, <3>3, <4>1
        <4>2. CASE i = Len(s) + 1 /\ j \in 1 .. Len(s)
          BY <3>1, <3>4, <4>2
        <4>3. CASE i \in 1 .. Len(s) /\ j = Len(s) + 1
          BY <3>1, <3>3, <3>4, <4>3
        <4>4. CASE i = Len(s) + 1 /\ j = Len(s) + 1
          BY <3>1, <3>4, <4>4
        <4> QED BY <3>1, <3>2, <4>1, <4>2, <4>3, <4>4
      <3> QED BY <1>1, <2>2, <3>5
    <2> QED BY <2>1, <2>2
  <1>9. IndexUnlessOverlap'
    BY <1>8 DEF IndexUnlessOverlap
  <1> QED BY <1>7, <1>9 DEF EntryInv

LEMMA CoordinatorInv ==
    ASSUME DirectoryInv, NEW c \in Co, CoMain(c) \/ CoUDP(c) \/ CoTCP(c) \/ LoseTCP(c)
    PROVE  DirectoryInv'
  <1> USE DEF DirectoryInv
  <1>1. CASE ListUp(c)
    <2>1. MachineInv' /\ EntryInv'
      BY <1>1, MachineSame, EntrySame DEF ListUp
    <2> QED BY <1>1, <2>1 DEF ListUp, AirInv
  <1>2. CASE requestML(c)
    <2>1. MachineInv' /\ EntryInv'
      BY <1>2, MachineSame, EntrySame DEF requestML
    <2>2. co' \in [Co -> {"down", "up", "asked"}] /\ co[c] = "up"
          /\ \A d \in Co : co'[d] # "asked" => d # c /\ co[d] # "asked"
      BY <1>2 DEF requestML, AirInv
    <2>3. \A x \in Co \X Machine : asks'[x] = IF x[1] = c THEN asks[x] + Copies ELSE asks[x]
      BY <1>2 DEF requestML
    <2>4. \A x \in Co \X Machine : asks[x] \in 0 .. Copies /\ (x[1] = c => asks[x] = 0)
      BY <2>2 DEF AirInv
    <2>5. asks' \in [Co \X Machine -> 0 .. Copies]
      BY <1>2, <2>4, DirectoryAssumption DEF requestML
    <2>6. \A d \in Co, m \in Machine : co'[d] # "asked" => asks'[<<d, m>>] = 0
      BY <2>2, <2>3 DEF AirInv
    <2> QED BY <1>2, <2>1, <2>2, <2>5, <2>6 DEF requestML, AirInv
  <1>3. ASSUME NEW g \in Mgr, setMList(c, g)
        PROVE  DirectoryInv'
    <2>1. MachineInv'
      BY <1>3, MachineSame DEF setMList
    <2>2. EntryInv'
      BY <1>3, Names, Adds, EntrySame DEF setMList, Threads
    <2>3. news' \in [Co \X Mgr -> Nat]
      BY <1>3 DEF setMList, AirInv
    <2> QED BY <1>3, <2>1, <2>2, <2>3 DEF setMList, AirInv
  <1>4. CASE setMListTCP(c)
    <2>1. MachineInv'
      BY <1>4, MachineSame DEF setMListTCP
    <2>2. inbox[c] \in Seq(Mgr) /\ inbox[c] # <<>>
      BY <1>4 DEF setMListTCP, AirInv
    <2>3. Head(inbox[c]) \in Mgr /\ Tail(inbox[c]) \in Seq(Mgr) /\ \A i \in 1 .. Len(inbox[c]) : inbox[c][i] \in Mgr
      BY <2>2
    <2>4. EntryInv'
      BY <1>4, <2>3, Names, Adds DEF setMListTCP, Threads
    <2>5. inbox' \in [Co -> Seq(Mgr)]
      BY <1>4, <2>3 DEF setMListTCP, AirInv
    <2> QED BY <1>4, <2>1, <2>4, <2>5 DEF setMListTCP, AirInv
  <1>5. ASSUME NEW t \in Threads, PushBack(c, t)
        PROVE  DirectoryInv'
    <2>1. MachineInv'
      BY <1>5, MachineSame DEF PushBack
    <2>2. EntryInv'
      BY <1>5, Pushes
    <2> QED BY <1>5, <2>1, <2>2 DEF PushBack, AirInv
  <1>6. CASE LoseTCP(c)
    <2>1. MachineInv' /\ EntryInv'
      BY <1>6, MachineSame, EntrySame DEF LoseTCP
    <2>2. inbox[c] \in Seq(Mgr) /\ Len(inbox[c]) >= 2
      BY <1>6 DEF LoseTCP, AirInv
    <2>3. Tail(inbox[c]) \in Seq(Mgr)
      BY <2>2
    <2>4. inbox' \in [Co -> Seq(Mgr)]
      BY <1>6, <2>3 DEF LoseTCP, AirInv
    <2> QED BY <1>6, <2>1, <2>4 DEF LoseTCP, AirInv
  <1> QED BY <1>1, <1>2, <1>3, <1>4, <1>5, <1>6 DEF CoMain, CoUDP, CoTCP, Threads

LEMMA LoseInv == DirectoryInv /\ LoseDatagram => DirectoryInv'
  <1> SUFFICES ASSUME DirectoryInv, LoseDatagram PROVE DirectoryInv'
    OBVIOUS
  <1> USE DEF DirectoryInv
  <1>1. MachineInv' /\ EntryInv'
    BY MachineSame, EntrySame DEF LoseDatagram, lists
  <1>2. losses' \in 0 .. MaxLost
    BY DirectoryAssumption DEF LoseDatagram, AirInv
  <1>3. ASSUME \E x \in Co \X Machine : asks[x] > 0 /\ asks' = [asks EXCEPT ![x] = @ - 1]
        PROVE  /\ asks' \in [Co \X Machine -> 0 .. Copies]
               /\ \A c \in Co, m \in Machine : co[c] # "asked" => asks'[<<c, m>>] = 0
    <2>1. PICK x \in Co \X Machine : asks[x] > 0 /\ asks' = [asks EXCEPT ![x] = asks[x] - 1]
      BY <1>3
    <2>2. asks[x] - 1 \in 0 .. Copies
      BY <2>1, DirectoryAssumption DEF AirInv
    <2>3. asks' \in [Co \X Machine -> 0 .. Copies]
      BY <2>1, <2>2 DEF AirInv
    <2>4. ASSUME NEW c \in Co, NEW m \in Machine, co[c] # "asked"
          PROVE  asks'[<<c, m>>] = 0
      BY <2>1, <2>4 DEF AirInv
    <2> QED BY <2>3, <2>4
  <1>4. ASSUME UNCHANGED asks
        PROVE  /\ asks' \in [Co \X Machine -> 0 .. Copies]
               /\ \A c \in Co, m \in Machine : co[c] # "asked" => asks'[<<c, m>>] = 0
    BY <1>4 DEF AirInv
  <1>5. news' \in [Co \X Mgr -> Nat]
    <2>1. CASE UNCHANGED news
      BY <2>1 DEF AirInv
    <2>2. ASSUME NEW x \in Co \X Mgr, news[x] > 0, news' = [news EXCEPT ![x] = news[x] - 1]
          PROVE  news' \in [Co \X Mgr -> Nat]
      <3>1. news[x] - 1 \in Nat
        BY <2>2 DEF AirInv
      <3> QED BY <2>2, <3>1 DEF AirInv
    <2> QED BY <2>1, <2>2 DEF LoseDatagram
  <1>6. UNCHANGED asks \/ \E x \in Co \X Machine : asks[x] > 0 /\ asks' = [asks EXCEPT ![x] = @ - 1]
    BY DEF LoseDatagram
  <1>7. asks' \in [Co \X Machine -> 0 .. Copies]
        /\ \A c \in Co, m \in Machine : co[c] # "asked" => asks'[<<c, m>>] = 0
    BY <1>3, <1>4, <1>6
  <1> QED BY <1>1, <1>2, <1>5, <1>7 DEF LoseDatagram, lists, AirInv

-----------------------------------------------------------------------------
(* ModuleList and ModuleManager: a list that its threads have not added to *)
(* at one time names every manager once, with its index; a process dies    *)
(* of a request only while its main thread is between a manager's methods  *)
(* and its information.                                                    *)
THEOREM Directory == DirectorySpec => []ListInv
  <1>1. DirectoryInv /\ [DirectoryNext]_directory => DirectoryInv'
    <2> SUFFICES ASSUME DirectoryInv, [DirectoryNext]_directory PROVE DirectoryInv'
      OBVIOUS
    <2>1. CASE UNCHANGED directory
      <3>1. MachineInv' /\ EntryInv'
        BY <2>1, MachineSame, EntrySame DEF DirectoryInv, directory, lists
      <3> QED BY <2>1, <3>1 DEF DirectoryInv, directory, lists, AirInv
    <2>2. CASE DirectoryNext
      BY <2>2, MainInv, UDPInv, CoordinatorInv, LoseInv DEF DirectoryNext
    <2> QED BY <2>1, <2>2
  <1> QED BY <1>1, DirectoryInitInv, InvImplies, PTL DEF DirectorySpec
=============================================================================
