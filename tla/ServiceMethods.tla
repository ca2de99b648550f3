---------------------------- MODULE ServiceMethods ----------------------------
(***************************************************************************)
(* The methods of the UDP server: the TCP thread, which makes and deletes  *)
(* ADCs and DACs, adds their methods to the linked list and deletes them   *)
(* from it, while the UDP thread walks the list for each message.  There   *)
(* is no lock.  lo_server_del_method goes through the list with pointers   *)
(* to cells it has freed itself, and memory that was freed comes back.     *)
(*                                                                         *)
(* A module has the same path whenever its node id comes round, and is     *)
(* <<path, how often it was made>>.  A method's types stand for its last   *)
(* component, too.  No sender uses patterns or types to be coerced, and no *)
(* method enumeration is asked for: these are left out.  Whatever reads    *)
(* freed memory is undefined: the model stops there.                       *)
(***************************************************************************)
EXTENDS Naturals, Sequences

CONSTANTS ADC, DAC,    \* the paths of modules of either class
          Managers,    \* the module managers in the order of their init
          MaxMade,     \* bound: module -> how often it is made
          Cells,       \* bound: cells of the heap
          NULL

ASSUME ServiceAssumption ==
    /\ ADC \intersect DAC = {} /\ "/ModuleManager" \notin ADC \union DAC
    /\ Cells \in Nat /\ MaxMade \in [ADC \union DAC -> Nat]
    /\ Managers \in Seq(STRING) /\ Len(Managers) \in 1 .. Cells

VARIABLES
    heap,      \* cell -> the lo_method in it, NULL when free
    first,     \* s->first
    made, stage, \* of each module: how often it was made, what it is now
    todo,      \* what the TCP thread's constructor or destructor still does
    who,       \* the module it is about
    wpc, it, prev, \* where lo_server_del_method is, and its locals
    upc, at, msg,  \* where dispatch_method is, its it, the message
    called,    \* whose handlers it has called
    broken,    \* what was undefined
    \* what the properties need to know of the past
    start,     \* the methods the message matched when the dispatch began
    stood      \* the method the dispatch was at was freed meanwhile

list   == <<heap, first>>
life   == <<made, stage, todo, who>>
delete == <<wpc, it, prev>>
walk   == <<upc, at, msg, called, start>>
vars   == <<list, life, delete, walk, broken, stood>>

Cell   == 1 .. Cells
Module == ADC \union DAC
Owner  == (UNION {{m} \X (1 .. MaxMade[m]) : m \in Module}) \union {Managers[k] : k \in 1 .. Len(Managers)}
Types  == {"AudioIn_b", "AudioIn_bb", "Volume_ii", "Data_iiii", "RequestML_i"}
Named  == Types \union {"Audio_bb", "Data_ii"} \* what a deletion names
Path   == Module \union {"/ModuleManager"}
Method == [path : Path, types : Types, owner : Owner]
Content(h, c) == [path |-> h[c].path, types |-> h[c].types, owner |-> h[c].owner]
LoMethod == [path : Path, types : Types, owner : Owner, next : Cell \union {NULL}]

ASSUME NullAssumption == NULL \notin Module \union Cell \union LoMethod

Statement == {<<"add", t>> : t \in Types} \union {<<"init">>, <<"buffers">>, <<"free">>}
               \union {<<"delete", t>> : t \in Named}

TypeOK ==
    /\ \A c \in Cell : heap[c] = NULL \/
          /\ [path |-> heap[c].path, types |-> heap[c].types, owner |-> heap[c].owner] \in Method
          /\ heap[c].next \in Cell \union {NULL}
          /\ heap[c].next # NULL => heap[heap[c].next] # NULL
    /\ first \in Cell \union {NULL}
    /\ made \in [Module -> Nat] /\ \A m \in Module : made[m] <= MaxMade[m]
    /\ stage \in [Module -> {"none", "making", "alive", "dying"}]
    /\ todo \in Seq(Statement) /\ who \in Module \union {NULL}
    /\ wpc \in {"next", "walk", "free"}
    /\ it \in Cell \union {NULL} /\ prev \in Cell \union {NULL}
    /\ upc \in {"idle", "test", "handler", "next"} /\ at \in Cell \union {NULL}
    /\ msg \in [path : Path, types : Types] \union {NULL}
    /\ called \in Seq(Owner) /\ start \subseteq Method
    /\ broken \in {"no", "list", "object", "buffers"} /\ stood \in BOOLEAN

(* lo_server_add_method, by each manager's init. *)
RequestML(k) == [path |-> "/ModuleManager", types |-> "RequestML_i", owner |-> Managers[k],
                 next |-> IF k = Len(Managers) THEN NULL ELSE k + 1]

Init ==
    /\ heap = [c \in Cell |-> IF c <= Len(Managers) THEN RequestML(c) ELSE NULL]
    /\ first = 1
    /\ made = [m \in Module |-> 0] /\ stage = [m \in Module |-> "none"]
    /\ todo = <<>> /\ who = NULL
    /\ wpc = "next" /\ it = NULL /\ prev = NULL
    /\ upc = "idle" /\ at = NULL /\ msg = NULL /\ called = <<>>
    /\ broken = "no" /\ start = {} /\ stood = FALSE

(* The methods from cell c on, and all of them. *)
From(h, c) ==
    LET reach[k \in 0 .. Cells] == [d \in Cell \union {NULL} |->
            IF k = 0 \/ d = NULL THEN <<>>
            ELSE IF h[d] = NULL THEN <<>> ELSE <<Content(h, d)>> \o reach[k - 1][h[d].next]]
    IN reach[Cells][c]
Methods == From(heap, first)

-----------------------------------------------------------------------------
(* The TCP thread: ModuleManager::module makes and deletes modules.        *)

(* DAC::DAC, ADC::ADC *)
Making(m) == IF m \in DAC
             THEN <<<<"add", "AudioIn_b">>, <<"add", "AudioIn_bb">>, <<"add", "Volume_ii">>,
                    <<"add", "Data_iiii">>, <<"init">>>>
             ELSE <<<<"add", "Volume_ii">>, <<"init">>>>

(* Mutant: a DAC's volume is forgotten, too. *)
EndingForgets(m) ==
    IF m \in DAC
    THEN <<<<"delete", "AudioIn_b">>, <<"delete", "Audio_bb">>,
           <<"delete", "Data_ii">>, <<"buffers">>, <<"free">>>>
    ELSE <<<<"delete", "Volume_ii">>, <<"free">>>>

(* DAC::~DAC, with what deleteMethod names; ADC::~ADC *)
Ending(m) == IF m \in DAC
             THEN <<<<"delete", "AudioIn_b">>, <<"delete", "Audio_bb">>, <<"delete", "Volume_ii">>,
                    <<"delete", "Data_ii">>, <<"buffers">>, <<"free">>>>
             ELSE <<<<"delete", "Volume_ii">>, <<"free">>>>

Create(m) ==
    /\ broken = "no" /\ todo = <<>>
    /\ stage[m] = "none" /\ made[m] < MaxMade[m]
    /\ made' = [made EXCEPT ![m] = @ + 1] /\ stage' = [stage EXCEPT ![m] = "making"]
    /\ todo' = Making(m) /\ who' = m
    /\ UNCHANGED <<list, delete, walk, broken, stood>>

Remove(m) ==
    /\ broken = "no" /\ todo = <<>>
    /\ stage[m] = "alive"
    /\ stage' = [stage EXCEPT ![m] = "dying"]
    /\ todo' = Ending(m) /\ who' = m
    /\ UNCHANGED <<list, made, delete, walk, broken, stood>>

Statement1(s) == broken = "no" /\ wpc = "next" /\ todo # <<>> /\ todo[1][1] = s
Done          == todo' = Tail(todo) /\ who' = IF Tail(todo) = <<>> THEN NULL ELSE who

(* Memory that was freed, or memory above all that is in use. *)
Free(c) == /\ heap[c] = NULL
           /\ \/ \A d \in 1 .. c - 1 : heap[d] # NULL
              \/ (c = 1 \/ heap[c - 1] # NULL) /\ \A d \in c .. Cells : heap[d] = NULL

(* Mutant: the new method comes first. *)
addMethodFirst ==
    /\ Statement1("add") /\ Done
    /\ \E c \in Cell :
          /\ Free(c)
          /\ heap' = [heap EXCEPT ![c] = [path |-> who, types |-> todo[1][2],
                                          owner |-> <<who, made[who]>>, next |-> first]]
          /\ first' = c
    /\ UNCHANGED <<made, stage, delete, walk, broken, stood>>

(* lo_server_add_method: the method is there once it is complete. *)
addMethod ==
    /\ Statement1("add") /\ Done
    /\ \E c \in Cell :
          /\ Free(c)
          /\ LET m == [path |-> who, types |-> todo[1][2], owner |-> <<who, made[who]>>,
                       next |-> NULL]
             IN IF first = NULL
                THEN first' = c /\ heap' = [heap EXCEPT ![c] = m]
                ELSE \E last \in Cell :
                        /\ heap[last] # NULL /\ Len(From(heap, last)) = 1
                        /\ heap' = [heap EXCEPT ![c] = m, ![last].next = c] /\ UNCHANGED first
    /\ UNCHANGED <<made, stage, delete, walk, broken, stood>>

(* initDAC and preparePa; the end of a constructor. *)
InitService ==
    /\ Statement1("init") /\ Done
    /\ stage' = [stage EXCEPT ![who] = "alive"]
    /\ UNCHANGED <<list, made, delete, walk, broken, stood>>

(* finishPa frees buf and buf2, which only stream2 uses. *)
FreeBuffers ==
    /\ Statement1("buffers") /\ Done
    /\ UNCHANGED <<list, made, stage, delete, walk, broken, stood>>

FreeService ==
    /\ Statement1("free") /\ Done
    /\ stage' = [stage EXCEPT ![who] = "none"]
    /\ UNCHANGED <<list, made, delete, walk, broken, stood>>

-----------------------------------------------------------------------------
(* lo_server_del_method *)

delMethod ==
    /\ Statement1("delete")
    /\ wpc' = "walk" /\ it' = first /\ prev' = first
    /\ UNCHANGED <<list, life, walk, broken, stood>>

Deleting(c) == heap[c].path = who /\ heap[c].types = todo[1][2]

Pass ==
    /\ broken = "no" /\ wpc = "walk" /\ it # NULL /\ ~ Deleting(it)
    /\ prev' = it /\ it' = heap[it].next
    /\ UNCHANGED <<list, life, wpc, walk, broken, stood>>

(* Mutant: the cell is freed before it is taken out of the list. *)
UnlinkNot ==
    /\ broken = "no" /\ wpc = "walk" /\ it # NULL /\ Deleting(it)
    /\ wpc' = "free"
    /\ UNCHANGED <<list, life, it, prev, walk, broken, stood>>

Unlink ==
    /\ broken = "no" /\ wpc = "walk" /\ it # NULL /\ Deleting(it)
    /\ wpc' = "free"
    /\ IF it = first
       THEN first' = heap[it].next /\ UNCHANGED heap
       ELSE heap' = [heap EXCEPT ![prev].next = heap[it].next] /\ UNCHANGED first
    /\ UNCHANGED <<life, it, prev, walk, broken, stood>>

(* it = prev; prev = it; it = next. *)
FreeMethod ==
    /\ broken = "no" /\ wpc = "free"
    /\ heap' = [heap EXCEPT ![it] = NULL]
    /\ it' = heap[it].next /\ wpc' = "walk"
    /\ stood' = (stood \/ (upc # "idle" /\ at = it))
    /\ UNCHANGED <<first, life, prev, walk, broken>>

EndDelete ==
    /\ broken = "no" /\ wpc = "walk" /\ it = NULL
    /\ wpc' = "next" /\ prev' = NULL /\ Done
    /\ UNCHANGED <<list, made, stage, it, walk, broken, stood>>

-----------------------------------------------------------------------------
(* The UDP thread: dispatch_method *)

Receive(m) ==
    /\ broken = "no" /\ upc = "idle"
    /\ upc' = "test" /\ at' = first /\ msg' = m /\ called' = <<>>
    /\ start' = LET now == Methods IN
                {now[k] : k \in {j \in 1 .. Len(now) : now[j].path = m.path /\ now[j].types = m.types}}
    /\ stood' = FALSE
    /\ UNCHANGED <<list, life, delete, broken>>

Return == /\ upc' = "idle" /\ at' = NULL /\ msg' = NULL /\ called' = <<>> /\ start' = {}
          /\ stood' = FALSE

At(pc)  == broken = "no" /\ upc = pc
Alive   == at # NULL /\ heap[at] # NULL
Matches == heap[at].path = msg.path /\ heap[at].types = msg.types

(* Only stream2 uses the buffers that initDAC makes and finishPa frees. *)
NoBuffers(o) == /\ msg.types = "AudioIn_bb"
                /\ made[o[1]] = o[2]
                /\ stage[o[1]] = "making" \/ (stage[o[1]] = "dying" /\ todo = <<<<"free">>>>)

Test ==
    /\ At("test") /\ Alive
    /\ IF ~ Matches
       THEN upc' = "next" /\ UNCHANGED <<called, broken>>
       ELSE /\ upc' = "handler" /\ called' = Append(called, heap[at].owner)
            /\ broken' = IF msg.path \in DAC /\ NoBuffers(heap[at].owner) THEN "buffers" ELSE "no"
    /\ UNCHANGED <<list, life, delete, at, msg, start, stood>>

(* The object a handler works on is no longer there. *)
Gone(o) == made[o[1]] # o[2] \/ stage[o[1]] = "none"

(* Mutant: a handler that returns 1 ends the dispatch, too. *)
HandlerLast ==
    /\ At("handler")
    /\ LET o == called[Len(called)] IN
       broken' = IF msg.path \notin Module THEN "no"
                 ELSE IF Gone(o) THEN "object" ELSE IF NoBuffers(o) THEN "buffers" ELSE "no"
    /\ IF broken' = "no" THEN Return
                         ELSE UNCHANGED <<upc, at, msg, called, start, stood>>
    /\ UNCHANGED <<list, life, delete>>

(* requestML returns 1, all others 0. *)
Handler ==
    /\ At("handler")
    /\ LET o == called[Len(called)] IN
       broken' = IF msg.path \notin Module THEN "no"
                 ELSE IF Gone(o) THEN "object" ELSE IF NoBuffers(o) THEN "buffers" ELSE "no"
    /\ IF broken' = "no" /\ msg.types # "RequestML_i" THEN Return
       ELSE upc' = "next" /\ UNCHANGED <<at, msg, called, start, stood>>
    /\ UNCHANGED <<list, life, delete>>

Advance ==
    /\ At("next") /\ Alive
    /\ at' = heap[at].next /\ upc' = "test"
    /\ UNCHANGED <<list, life, delete, msg, called, start, broken, stood>>

ReadFreed ==
    /\ broken = "no" /\ upc \in {"test", "next"} /\ at # NULL /\ heap[at] = NULL
    /\ broken' = "list"
    /\ UNCHANGED <<list, life, delete, walk, stood>>

EndDispatch ==
    /\ At("test") /\ at = NULL
    /\ Return
    /\ UNCHANGED <<list, life, delete, broken>>

-----------------------------------------------------------------------------
TCP == \/ \E m \in Module : Create(m) \/ Remove(m)
       \/ addMethod \/ InitService \/ FreeBuffers \/ FreeService
       \/ delMethod \/ Pass \/ Unlink \/ FreeMethod \/ EndDelete
Message == [path : DAC, types : Types \ {"RequestML_i"}] \union [path : ADC, types : {"Volume_ii"}]
               \union {[path |-> "/ModuleManager", types |-> "RequestML_i"]}
UDP == \/ \E m \in Message : Receive(m)
       \/ Test \/ Handler \/ Advance \/ ReadFreed \/ EndDispatch
Next == TCP \/ UDP

Spec == Init /\ [][Next]_vars

-----------------------------------------------------------------------------
(* The types ~DAC names are not all the types the DAC has. *)
Forgotten == {"AudioIn_bb", "Data_iiii"}

(* What a module leaves behind in the list are the methods that its        *)
(* destructor forgets, however often it was made.                          *)
OnlyForgottenStay ==
    LET now == Methods IN
    \A k \in 1 .. Len(now) :
        \/ now[k].types \in Forgotten \union {"RequestML_i"}
        \/ made[now[k].path] = now[k].owner[2] /\ stage[now[k].path] # "none"

(* No cell of the list leads to freed memory, and what a module leaves in  *)
(* it are the methods ~DAC forgets.                                        *)
MethodsInv == TypeOK /\ OnlyForgottenStay

(* The walk reads freed memory only if the method it stands on is deleted  *)
(* under it, and a handler works on a module that is gone only then, or    *)
(* for a method the destructor forgot; without buffers, only stream2 while *)
(* the DAC is made or destroyed.                                           *)
BrokenExplained ==
    /\ broken = "list" => stood
    /\ broken = "object" => stood \/ msg.types \in Forgotten
    /\ broken = "buffers" => stage[msg.path] # "alive"

(* A message reaches every method that is there from the beginning to the  *)
(* end of its dispatch, up to the first whose handler returns 0, whatever  *)
(* is added and deleted meanwhile, unless the walk lost its ground.        *)
Delivered ==
    [][upc # "idle" /\ upc' = "idle" /\ ~ stood =>
          \/ called # <<>> /\ msg.types # "RequestML_i"
          \/ LET now == Methods IN
             \A m \in start :
                (\E j \in 1 .. Len(now) : now[j] = m) => \E k \in 1 .. Len(called) : called[k] = m.owner]_vars

(* The linked list is the list of methods liblo promises: from the moment  *)
(* a deletion begins, it is the list without what is deleted.              *)
All      == INSTANCE MethodList WITH list <- Methods, Types <- Named
Promised == IF wpc = "next" THEN Methods ELSE All!Kept(who, todo[1][2])[Methods]
ML       == INSTANCE MethodList WITH list <- Promised, Types <- Named

ImplementsMethodList == ML!Spec
=============================================================================
