----------------------------- MODULE ModuleTokens ------------------------------
(***************************************************************************)
(* What a coordinator keeps of managers and modules (MToken): the names of *)
(* inputs and outputs, copied from announcements to the list and from      *)
(* there to the token of each module; node ids, which travel as text; the  *)
(* choice of a manager by a part of its path; and the end of a             *)
(* coordinator.  One step is a call of the application or a handler.  All  *)
(* machines are one here, and messages arrive once and in order: what      *)
(* becomes of them otherwise, and what threads do, is in ModuleNet and     *)
(* ModuleDirectory.                                                        *)
(***************************************************************************)
EXTENDS Integers, Sequences, SequencesExt

CONSTANTS Manager,   \* [path, in, out]: each manager, with the texts it announces: sequences of
                     \* names and commas
          Letters,   \* Letters[name]: how long it is
          PointerSize, \* sizeof(addr), which is what setInputInfo and setOutputInfo allocate:
                     \* 8 on 64-bit builds, 4 on 32-bit ones
          Containing \* Containing[part]: the paths in which strstr finds part

ASSUME TokensAssumption ==
    /\ \A g, h \in Manager : g.path = h.path => g = h
    /\ \A g \in Manager : g.in \in Seq(DOMAIN Letters \union {","}) /\ g.out \in Seq(DOMAIN Letters \union {","})
    /\ \A name \in DOMAIN Letters : Letters[name] \in Nat
    /\ PointerSize \in Nat

VARIABLES
    co,      \* the Coordinator and its ModuleList: [mList, mtknMap, mListIDArray, tID, state]
    ordered, reports, \* messages to managers; messages to the coordinator
    made,    \* the modules there are: [osc, tID]
    use,     \* [nid, heard, calls]
    seen     \* what the properties need to know: [over: names copied behind the end of their
             \*  memory, lost: what nothing refers to any more, meant: id -> [part, listed],
             \*  routes: <<id, module, index, name>> ordered, again: ids given out twice,
             \*  left: modules, made or ordered, without a token at the end]

tokens == <<co, ordered, reports, made, use, seen>>
Ids    == 0 .. use.nid - 1

(* strcpy of a name and its end into the memory of a pointer               *)
Overrun(names) == {name \in ToSet(names) : Letters[name] + 1 > PointerSize}

(* What remains of a sequence without the members of S *)
Remaining(seq, S) ==
    LET rest[n \in 0 .. Len(seq)] ==
            IF n = 0 THEN <<>> ELSE IF seq[n] \in S THEN rest[n - 1] ELSE Append(rest[n - 1], seq[n])
    IN rest[Len(seq)]

(* strtok with ",": what is between commas, if anything is *)
Split(text) == Remaining(text, {","})

(* MToken of setMList, of setMtkn *)
MToken(osc, tID, in, out) == [osc |-> osc, tID |-> tID, inputInfo |-> in, outputInfo |-> out]

(* usage is [nid: the length of mListIDArray, tID: the next id, from:      *)
(* whether modules of an earlier run of the coordinator are there, heard:  *)
(* whether announcements arrive, calls: bound].                            *)
TokensInit(usage) ==
    /\ co = [mList |-> <<>>, mtknMap |-> <<>>, mListIDArray |-> <<>>, tID |-> usage.tID, state |-> "up"]
    /\ ordered = <<>> /\ reports = <<>>
    /\ made = IF usage.from THEN {[osc |-> <<g.path, <<0>>>>, tID |-> 0] : g \in Manager} ELSE {}
    /\ use = [nid |-> usage.nid, heard |-> usage.heard, calls |-> usage.calls]
    /\ seen = [over |-> {}, lost |-> {}, meant |-> <<>>, routes |-> {}, again |-> {}, left |-> {}]

Set(f, x, v) == [y \in DOMAIN f \union {x} |-> IF y = x THEN v ELSE f[y]]
Dropped(f, x) == [y \in DOMAIN f \ {x} |-> f[y]]
Up == co.state = "up"
AppCalls == Up /\ use.calls > 0 /\ use' = [use EXCEPT !.calls = @ - 1]

-----------------------------------------------------------------------------
(* ModuleList *)

(* setMList of a manager that is not in the list *)
SetMList(g) ==
    /\ Up /\ use.heard /\ \A k \in 1 .. Len(co.mList) : co.mList[k].osc # g.path
    /\ LET m == MToken(g.path, Len(co.mList), Split(g.in), Split(g.out)) IN
       /\ co' = [co EXCEPT !.mList = Append(@, m)]
       /\ seen' = [seen EXCEPT !.over = @ \union Overrun(m.inputInfo \o m.outputInfo)]
    /\ UNCHANGED <<ordered, reports, made, use>>

(* createModule and deleteModule: the id becomes text.                     *)
Text(id) == CASE id < 10 -> <<id>>
              [] id \in 10 .. 99 -> <<id \div 10, id % 10>>
              [] OTHER -> <<1, (id % 100) \div 10, (id % 100) % 10>>
(* atoi of the manager *)
Atoi(text) ==
    LET value[n \in 0 .. Len(text)] == IF n = 0 THEN 0 ELSE 10 * value[n - 1] + text[n] IN value[Len(text)]

(* getMtknFromID; tID is the index, as ModuleDirectory shows.              *)
Listed(mlID) == mlID \in 0 .. Len(co.mList) - 1
OrderFor(op, id, mlID) == [op |-> op, path |-> co.mList[mlID + 1].osc, text |-> Text(id)]

(* mIDofOSCPath: 0, if none is found *)
mIDofOSCPath(part) ==
    LET found == {k \in 1 .. Len(co.mList) : co.mList[k].osc \in Containing[part]}
    IN IF found = {} THEN 0 ELSE (CHOOSE k \in found : \A l \in found : k <= l) - 1

-----------------------------------------------------------------------------
(* Coordinator, as the application calls it *)

(* createModule(mIDofOSCPath(part)); with an empty list a null pointer is  *)
(* followed.                                                               *)
CreateModule(part) ==
    LET id == IF co.tID = use.nid THEN 0 ELSE co.tID
        mc == mIDofOSCPath(part)
    IN /\ AppCalls
       /\ co' = [co EXCEPT !.tID = id + 1, !.mListIDArray = Set(@, id, mc),
                           !.state = IF Listed(mc) THEN @ ELSE "null"]
       /\ ordered' = IF Listed(mc) THEN Append(ordered, OrderFor("create", id, mc)) ELSE ordered
       /\ seen' = [seen EXCEPT !.meant = Set(@, id, [part |-> part, listed |->
                       \E k \in 1 .. Len(co.mList) : co.mList[k].osc \in Containing[part]]),
                              !.again = IF id \in DOMAIN co.mListIDArray THEN @ \union {id} ELSE @]
       /\ UNCHANGED <<reports, made>>

DeleteModule(id) ==
    /\ AppCalls
    /\ ordered' = Append(ordered, OrderFor("delete", id, co.mListIDArray[id]))
    /\ UNCHANGED <<co, reports, made, seen>>

(* addConnection or disconnect with the input inID of id *)
Connect(id, inID) ==
    /\ AppCalls /\ id \in DOMAIN co.mtknMap
    /\ LET names == co.mtknMap[id].inputInfo IN
       IF inID < Len(names)
       THEN /\ seen' = [seen EXCEPT !.routes = @ \union {<<id, co.mtknMap[id].osc, inID, names[inID + 1]>>}]
            /\ UNCHANGED co
       ELSE co' = [co EXCEPT !.state = "index"] /\ UNCHANGED seen
    /\ UNCHANGED <<ordered, reports, made>>

(* ~Coordinator: each module is deleted, then the list, whose loop goes on *)
(* with a node it has freed, as soon as there is one.                      *)
Close ==
    /\ AppCalls
    /\ LET ids == Remaining([k \in 1 .. use.nid |-> k - 1], Ids \ DOMAIN co.mtknMap) IN
       ordered' = ordered \o [k \in 1 .. Len(ids) |-> OrderFor("delete", ids[k], co.mListIDArray[ids[k]])]
    /\ co' = [co EXCEPT !.mtknMap = <<>>, !.state = IF co.mList = <<>> THEN "closed" ELSE "freed"]
    /\ seen' = [seen EXCEPT !.left =
                   ({n.osc : n \in made} \union {<<m.path, m.text>> : m \in {m \in ToSet(ordered) : m.op = "create"}})
                   \ {co.mtknMap[id].osc : id \in DOMAIN co.mtknMap}]
    /\ UNCHANGED <<reports, made>>

-----------------------------------------------------------------------------
(* ModuleManager::module, with sendSetMdtkn and sendDeleteMdtkn *)
Manage ==
    /\ ordered # <<>> /\ ordered' = Tail(ordered)
    /\ LET m    == Head(ordered)
           node == [osc |-> <<m.path, m.text>>, tID |-> Atoi(m.text)]
           report == [op |-> m.op, osc |-> node.osc, tID |-> node.tID]
       IN \/ /\ m.op = "create" /\ node \notin made
             /\ made' = made \union {node} /\ reports' = Append(reports, report)
          \/ /\ m.op = "delete" /\ node \in made
             /\ made' = made \ {node} /\ reports' = Append(reports, report)
          \/ /\ m.op = "create" <=> node \in made
             /\ UNCHANGED <<made, reports>>
    /\ UNCHANGED <<co, use, seen>>

(* setMtkn, deleteMtkn; if the id is taken, the token that was made is     *)
(* forgotten with all its names; of an id that was not given out the entry *)
(* of mListIDArray is what its memory held.                                *)
Reported ==
    /\ Up /\ reports # <<>> /\ reports' = Tail(reports)
    /\ LET r == Head(reports)
           known == \E id \in DOMAIN co.mtknMap : co.mtknMap[id].osc = r.osc
           entry == co.mList[co.mListIDArray[r.tID] + 1]
           m == MToken(r.osc, r.tID, entry.inputInfo \o entry.outputInfo, <<>>)
       IN \/ /\ r.op = "create" /\ ~ known /\ r.tID \notin DOMAIN co.mListIDArray
             /\ co' = [co EXCEPT !.state = "unassigned"]
             /\ UNCHANGED <<ordered, seen>>
          \/ /\ r.op = "create" /\ ~ known /\ r.tID \in DOMAIN co.mListIDArray
             /\ seen' = [seen EXCEPT !.over = @ \union Overrun(m.inputInfo),
                                     !.lost = IF r.tID \in DOMAIN co.mtknMap THEN @ \union {r.osc} ELSE @]
             /\ IF r.tID \in DOMAIN co.mtknMap
                THEN ordered' = Append(ordered, OrderFor("delete", r.tID, co.mListIDArray[r.tID])) /\ UNCHANGED co
                ELSE co' = [co EXCEPT !.mtknMap = Set(@, r.tID, m)] /\ UNCHANGED ordered
          \/ /\ r.op = "delete" /\ r.tID \in DOMAIN co.mtknMap /\ co.mtknMap[r.tID].osc = r.osc
             /\ co' = [co EXCEPT !.mtknMap = Dropped(@, r.tID)]
             /\ UNCHANGED <<ordered, seen>>
          \/ /\ IF r.op = "create" THEN known
                ELSE ~ (r.tID \in DOMAIN co.mtknMap /\ co.mtknMap[r.tID].osc = r.osc)
             /\ UNCHANGED <<co, ordered, seen>>
    /\ UNCHANGED <<made, use>>

TokensNext ==
    \/ \E g \in Manager : SetMList(g)
    \/ \E part \in DOMAIN Containing : CreateModule(part)
    \/ \E id \in DOMAIN co.mListIDArray : DeleteModule(id) \/ \E inID \in 0 .. 2 : Connect(id, inID)
    \/ Close \/ Manage \/ Reported
-----------------------------------------------------------------------------
TokensTypeOK ==
    /\ co.state \in {"up", "null", "index", "unassigned", "freed", "closed"} /\ co.tID \in 0 .. use.nid
    /\ DOMAIN co.mListIDArray \subseteq Ids /\ DOMAIN co.mtknMap \subseteq Ids

ManagerAt(path) == CHOOSE g \in Manager : g.path = path

(* A module has the id it was made for, whatever the number of its digits, *)
(* and its token the names of its manager, unless the id has been given    *)
(* out again since.  Outputs follow the inputs, so that a connection to an *)
(* input that the module does not have leads to an output, and only behind *)
(* those out of the memory.                                                *)
TokensRight ==
    /\ \A n \in made : Atoi(n.osc[2]) = n.tID /\ (n.osc[2][1] = 0 => n.osc[2] = <<0>>)
    /\ \A id \in DOMAIN co.mtknMap :
          LET g == ManagerAt(co.mtknMap[id].osc[1]) IN
          /\ co.mtknMap[id].tID = id /\ Atoi(co.mtknMap[id].osc[2]) = id
          /\ co.mtknMap[id].inputInfo = Split(g.in) \o Split(g.out) \/ id \in seen.again
    /\ \A r \in seen.routes :
          LET in  == Split(ManagerAt(r[2][1]).in)
              out == Split(ManagerAt(r[2][1]).out)
          IN r[1] \in seen.again \/ r[4] = IF r[3] < Len(in) THEN in[r[3] + 1] ELSE out[r[3] - Len(in) + 1]

(* Who names a part of a path gets a module of a manager that has it in    *)
(* its path, unless the list did not hold one - then a module of the first *)
(* manager, or the null pointer; and only ids that were given out come     *)
(* back.                                                                   *)
MadeAsMeant ==
    /\ \A id \in DOMAIN co.mListIDArray :
          seen.meant[id].listed => co.mList[co.mListIDArray[id] + 1].osc \in Containing[seen.meant[id].part]
    /\ co.state = "null" => co.mList = <<>>
    /\ co.state # "unassigned"

(* When the coordinator has gone and every order has been followed, the    *)
(* modules left are those it had no token of, and those whose id has been  *)
(* given out again, as their manager is forgotten; but it goes without     *)
(* touching freed memory only if no manager was ever listed.               *)
EndsAll ==
    /\ co.state \in {"freed", "closed"} /\ ordered = <<>> =>
          \A n \in made : n.osc \in seen.left \/ n.tID \in seen.again
    /\ co.state = "closed" => co.mList = <<>>

(* Names of as many letters as a pointer has bytes, and longer ones, and   *)
(* no others, are written behind their memory; and tokens get lost only when ids are given out again.    *)
MemoryExplained ==
    /\ \A name \in seen.over : Letters[name] >= PointerSize
    /\ seen.lost # {} => seen.again # {}

TokensInv == TokensTypeOK /\ TokensRight /\ MadeAsMeant /\ EndsAll /\ MemoryExplained
================================================================================
