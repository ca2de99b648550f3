---------------------------- MODULE ModuleRoutes ----------------------------
(***************************************************************************)
(* One outlet of a Module while two threads use its routing table without  *)
(* a lock: the TCP server thread runs Module::addRoute / deleteRoute, the  *)
(* audio thread runs Module::sendAudioTo for each buffer.                  *)
(*                                                                         *)
(* A step is a statement that touches the shared arrays.  lo_address       *)
(* objects have an identity: lo_address_free ends the life of one, and a   *)
(* later lo_address_new may return the same memory again.                  *)
(***************************************************************************)
EXTENDS Naturals, Sequences

CONSTANTS Host, Path, MAX_ANUM, NULL,
          Dest,      \* the destinations the coordinator connects
          Addr,       \* the memory lo_address_new can return
          NoPath,     \* the empty string a released slot holds
          Lost        \* an iteration that used a released or NULL address

Slots == 0 .. MAX_ANUM - 1

ASSUME DestAssumption == Dest \subseteq Host \X Path
ASSUME SizeAssumption == MAX_ANUM \in Nat \ {0}
ASSUME HostAssumption == Host # {}
ASSUME NullAssumption == NULL \notin Host \X Path

VARIABLES
    loAddr, oscAddr, aNum,   \* the RoutingTable
    live, host,              \* lo_address objects: allocated, their hostname
    wpc, wroute, wi, wj,     \* TCP server thread: statement, arguments, i, j
    spc, si, sptr,           \* audio thread: statement, i, the loaded pointer
    sent,                    \* what this frame's iterations sent so far
    startNum,                \* aNum when the frame began
    low,                     \* lowest slot released while the frame was sent
    before                   \* the table before the TCP thread's operation

table   == <<loAddr, oscAddr, aNum>>
heap    == <<live, host>>
writer  == <<wpc, wroute, wi, wj, before>>
sender  == <<spc, si, sptr, sent, startNum>>
vars    == <<table, heap, writer, sender, low>>

Entry(i)  == <<host[loAddr[i]], oscAddr[i]>>
Used      == 0 .. aNum - 1
AsSlots   == [i \in Slots |-> IF i \in Used THEN Entry(i) ELSE NULL]
MinOf(m, n) == IF m < n THEN m ELSE n

WriterPcs == {"idle", "new", "osc", "inc", "free", "clear", "dec",
              "shiftAddr", "shiftOsc", "tailAddr", "tailOsc"}
Deleting  == wpc \in {"free", "clear", "dec", "shiftAddr", "shiftOsc", "tailAddr", "tailOsc"}

TypeOK ==
    /\ loAddr \in [Slots -> Addr \union {NULL}]
    /\ oscAddr \in [Slots -> Path \union {NoPath}]
    /\ aNum \in 0 .. MAX_ANUM
    /\ live \in SUBSET Addr
    /\ host \in [Addr -> Host]
    /\ wpc \in WriterPcs
    /\ wroute \in Dest \union {NULL}
    /\ wi \in Slots /\ wj \in 0 .. MAX_ANUM
    /\ before \in ([Slots -> Dest \union {NULL}] \X (0 .. MAX_ANUM)) \union {NULL}
    /\ spc \in {"idle", "test", "load", "send"}
    /\ si \in 0 .. MAX_ANUM
    /\ sptr \in Addr \union {NULL}
    /\ sent \in Seq((Host \X (Path \union {NoPath})) \union {Lost})
    /\ startNum \in 0 .. MAX_ANUM
    /\ low \in 0 .. MAX_ANUM

Init ==
    /\ loAddr = [i \in Slots |-> NULL]
    /\ oscAddr = [i \in Slots |-> NoPath]
    /\ aNum = 0
    /\ live = {} /\ host = [a \in Addr |-> CHOOSE h \in Host : TRUE]
    /\ wpc = "idle" /\ wroute = NULL /\ wi = 0 /\ wj = 0
    /\ before = NULL
    /\ spc = "idle" /\ si = 0 /\ sptr = NULL /\ sent = <<>>
    /\ startNum = 0 /\ low = MAX_ANUM

-----------------------------------------------------------------------------
(* RoutingTable::setRoute.  The early returns read what only this thread   *)
(* writes; then the slot is filled before aNum makes it visible.           *)

Return ==       \* the arguments and locals of the operation are gone
    /\ wpc' = "idle" /\ wroute' = NULL /\ wi' = 0 /\ wj' = 0 /\ before' = NULL

StartSet(r) ==
    /\ wpc = "idle"
    /\ aNum <= MAX_ANUM - 1
    /\ \A i \in Used : Entry(i) # r
    /\ wpc' = "new" /\ wroute' = r /\ before' = <<AsSlots, aNum>>
    /\ UNCHANGED <<table, heap, wi, wj, sender, low>>

NewAddress ==
    /\ wpc = "new" /\ wpc' = "osc"
    /\ \E a \in Addr \ live :
          /\ live' = live \union {a}
          /\ host' = [host EXCEPT ![a] = wroute[1]]
          /\ loAddr' = [loAddr EXCEPT ![aNum] = a]
    /\ UNCHANGED <<oscAddr, aNum, wroute, wi, wj, before, sender, low>>

CopyPath ==
    /\ wpc = "osc" /\ wpc' = "inc"
    /\ oscAddr' = [oscAddr EXCEPT ![aNum] = wroute[2]]
    /\ UNCHANGED <<loAddr, aNum, heap, wroute, wi, wj, before, sender, low>>

Publish ==
    /\ wpc = "inc" /\ Return
    /\ aNum' = aNum + 1
    /\ UNCHANGED <<loAddr, oscAddr, heap, sender, low>>

-----------------------------------------------------------------------------
(* RoutingTable::deleteRoute, from the matching slot to the break.         *)

StartDelete(r) ==
    /\ wpc = "idle"
    /\ \E i \in Used :
          /\ Entry(i) = r
          /\ \A k \in 0 .. i - 1 : Entry(k) # r
          /\ wi' = i
          /\ low' = IF spc = "idle" THEN low ELSE MinOf(low, i)
    /\ wpc' = "free" /\ wroute' = r /\ before' = <<AsSlots, aNum>>
    /\ UNCHANGED <<table, heap, wj, sender>>

(* Mutant: the address is dropped, not freed. *)
ForgetAddress ==
    /\ wpc = "free" /\ wpc' = "clear"
    /\ UNCHANGED <<table, heap, wroute, wi, wj, before, sender, low>>

FreeAddress ==
    /\ wpc = "free" /\ wpc' = "clear"
    /\ live' = live \ {loAddr[wi]}
    /\ UNCHANGED <<table, host, wroute, wi, wj, before, sender, low>>

ClearPath ==
    /\ wpc = "clear" /\ wpc' = "dec"
    /\ oscAddr' = [oscAddr EXCEPT ![wi] = NoPath]
    /\ UNCHANGED <<loAddr, aNum, heap, wroute, wi, wj, before, sender, low>>

(* Mutant: the shift loop starts at the first slot. *)
DecrementToZero ==
    /\ wpc = "dec" /\ wpc' = IF 0 < aNum - 1 THEN "shiftAddr" ELSE "tailAddr"
    /\ aNum' = aNum - 1
    /\ wj' = 0
    /\ UNCHANGED <<loAddr, oscAddr, heap, wroute, wi, before, sender, low>>

Decrement ==
    /\ wpc = "dec" /\ wpc' = IF wi < aNum - 1 THEN "shiftAddr" ELSE "tailAddr"
    /\ aNum' = aNum - 1
    /\ wj' = wi
    /\ UNCHANGED <<loAddr, oscAddr, heap, wroute, wi, before, sender, low>>

ShiftAddr ==
    /\ wpc = "shiftAddr" /\ wpc' = "shiftOsc"
    /\ loAddr' = [loAddr EXCEPT ![wj] = loAddr[wj + 1]]
    /\ UNCHANGED <<oscAddr, aNum, heap, wroute, wi, wj, before, sender, low>>

(* Mutant: only the addresses move, the paths stay. *)
ShiftNoOsc ==
    /\ wpc = "shiftOsc"
    /\ wj' = wj + 1
    /\ wpc' = IF wj + 1 < aNum THEN "shiftAddr" ELSE "tailAddr"
    /\ UNCHANGED <<loAddr, oscAddr, aNum, heap, wroute, wi, before, sender, low>>

ShiftOsc ==
    /\ wpc = "shiftOsc"
    /\ oscAddr' = [oscAddr EXCEPT ![wj] = oscAddr[wj + 1]]
    /\ wj' = wj + 1
    /\ wpc' = IF wj + 1 < aNum THEN "shiftAddr" ELSE "tailAddr"
    /\ UNCHANGED <<loAddr, aNum, heap, wroute, wi, before, sender, low>>

TailAddr ==
    /\ wpc = "tailAddr" /\ wpc' = "tailOsc"
    /\ loAddr' = [loAddr EXCEPT ![aNum] = NULL]
    /\ UNCHANGED <<oscAddr, aNum, heap, wroute, wi, wj, before, sender, low>>

TailOsc ==
    /\ wpc = "tailOsc" /\ Return
    /\ oscAddr' = [oscAddr EXCEPT ![aNum] = NoPath]
    /\ UNCHANGED <<loAddr, aNum, heap, sender, low>>

-----------------------------------------------------------------------------
(* Module::sendAudioTo: for (i = 0; i < aNum; i++) module_send_b(...).     *)

BeginFrame ==
    /\ spc = "idle" /\ spc' = "test"
    /\ si' = 0 /\ sptr' = NULL /\ sent' = <<>>
    /\ startNum' = aNum
    /\ low' = IF Deleting THEN wi ELSE MAX_ANUM
    /\ UNCHANGED <<table, heap, writer>>

(* Mutant: the last destination is left out. *)
TestBoundShort ==
    /\ spc = "test"
    /\ \/ /\ si + 1 < aNum
          /\ spc' = "load"
          /\ UNCHANGED <<si, sptr, sent, startNum, low>>
       \/ /\ ~ si + 1 < aNum
          /\ spc' = "idle" /\ si' = 0 /\ sptr' = NULL
          /\ sent' = <<>> /\ startNum' = 0 /\ low' = MAX_ANUM
    /\ UNCHANGED <<table, heap, writer>>

TestBound ==
    /\ spc = "test"
    /\ \/ /\ si < aNum
          /\ spc' = "load"
          /\ UNCHANGED <<si, sptr, sent, startNum, low>>
       \/ /\ ~ si < aNum
          /\ spc' = "idle" /\ si' = 0 /\ sptr' = NULL
          /\ sent' = <<>> /\ startNum' = 0 /\ low' = MAX_ANUM
    /\ UNCHANGED <<table, heap, writer>>

LoadAddress ==
    /\ spc = "load" /\ spc' = "send"
    /\ sptr' = loAddr[si]
    /\ UNCHANGED <<table, heap, writer, si, sent, startNum, low>>

(* The address may have been released since it was loaded: undefined       *)
(* behaviour, here a frame that reaches nobody or still the old host.      *)
SendBlob ==
    /\ spc = "send" /\ spc' = "test"
    /\ \/ sptr # NULL /\ sent' = Append(sent, <<host[sptr], oscAddr[si]>>)
       \/ sptr \notin live /\ sent' = Append(sent, Lost)
    /\ si' = si + 1
    /\ UNCHANGED <<table, heap, writer, sptr, startNum, low>>

-----------------------------------------------------------------------------
Writer == \/ \E r \in Dest : StartSet(r) \/ StartDelete(r)
          \/ NewAddress \/ CopyPath \/ Publish
          \/ FreeAddress \/ ClearPath \/ Decrement
          \/ ShiftAddr \/ ShiftOsc \/ TailAddr \/ TailOsc
Sender == BeginFrame \/ TestBound \/ LoadAddress \/ SendBlob
Next   == Writer \/ Sender

Spec == Init /\ [][Next]_vars

-----------------------------------------------------------------------------
(* Whatever the TCP thread is doing, an iteration below the lowest slot    *)
(* released during the frame reaches exactly that slot's destination:      *)
(* connecting never disturbs a frame, and disconnecting never disturbs the *)
(* destinations that were connected before the one that goes.              *)
PrefixDelivered ==
    spc # "idle" =>
        \A k \in 1 .. MinOf(Len(sent), low) : sent[k] = Entry(k - 1)

(* A frame that ends has visited every destination of its start that lies  *)
(* below the lowest slot released meanwhile.                               *)
FrameCovers ==
    [][spc = "test" /\ spc' = "idle" => Len(sent) >= MinOf(startNum, low)]_vars

(* Between operations the table owns every live address exactly once:      *)
(* nothing leaks and ~RoutingTable frees nothing twice.                    *)
OwnsAddresses ==
    wpc = "idle" =>
        /\ live = {loAddr[i] : i \in Used}
        /\ \A i, j \in Used : loAddr[i] = loAddr[j] => i = j
        /\ \A i \in Slots \ Used : loAddr[i] = NULL

(* The table is in its bounds and owns its addresses.                      *)
TableInv == TypeOK /\ OwnsAddresses

(* The statement-by-statement loops do what RoutingTable.tla says in one   *)
(* step.                                                                   *)
RT == INSTANCE RoutingTable
        WITH slot <- IF wpc = "idle" THEN AsSlots ELSE before[1],
             aNum <- IF wpc = "idle" THEN aNum ELSE before[2],
             Pattern <- {}, Strstr <- <<>>, NoRoute <- NULL

ImplementsRoutingTable == RT!TableSpec
=============================================================================
