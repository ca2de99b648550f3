------------------------------ MODULE SerialInput ------------------------------
(***************************************************************************)
(* Controls on a serial line (Peripheral/Serial.cpp) whose values modules  *)
(* send on: Peripheral/SerialParser.cpp with the managers of               *)
(* Services/Object.cpp, which read pairs (object, value), and the manager  *)
(* of Services/CoffeeMill.cpp, which reads frames with a checksum.         *)
(*                                                                         *)
(* The port is opened in canonical mode: the terminal gives a read whole   *)
(* lines.  Data bytes are subject to that: 10 ends a line, 13 becomes 10,  *)
(* and 4 (VEOF) ends a line and vanishes.  Zeros in c_cc disable the other *)
(* special characters, as on Linux.                                        *)
(*                                                                         *)
(* The serial thread parses on its own; it goes through mList, a std::list *)
(* without a lock, while the TCP thread makes and deletes modules.  Some   *)
(* sizes are scaled down: Ring for 1024, ReadMax for 255, and the bytes of *)
(* a frame before and within its sum.                                      *)
(***************************************************************************)
EXTENDS Naturals, Sequences, SequencesExt

CONSTANTS Ring, ReadMax,
          Skipped, Summed,   \* bytes of a frame after its start, and in its sum without the value
          Device,            \* a device is [parser, bursts, noise, orders]: what it sends, by
                             \* and by, whether a byte of it may be lost, and a bound: modules
                             \* made and deleted meanwhile
          Module, Movable,   \* the modules, in order; those that may be deleted
          MaxLost,           \* bound: bytes lost on the line
          NULL

(* What a device sends: pairs, or frames without their check               *)
Message(parser) == {m \in Seq(0 .. 255) : Len(m) = IF parser = "pairs" THEN 2 ELSE Skipped + Summed + 2}
ASSUME SerialAssumption ==
    /\ Ring \in Nat \ {0} /\ {ReadMax, Skipped, Summed} \subseteq Nat
    /\ \A d \in Device : /\ d = [parser |-> d.parser, bursts |-> d.bursts, noise |-> d.noise, orders |-> d.orders]
                         /\ d.parser \in {"pairs", "frames"} /\ d.bursts \in Seq(Seq(Message(d.parser)))

ASSUME ModulesAssumption ==
    /\ Module \in Seq(ToSet(Module)) /\ NULL \notin ToSet(Module) /\ Movable \subseteq ToSet(Module)
    /\ \A i, j \in DOMAIN Module : Module[i] = Module[j] => i = j

START == 126   \* 0x7E
NL == 10   CR == 13   VEOF == 4

VARIABLES
    device,    \* what it has still to send
    lost,      \* bytes lost
    typed,     \* the terminal: a line that has not ended
    lines,     \* lines that have
    buf, rp, wp, pre,
    spc,       \* the serial thread
    todo,      \* values parsed, still to be given to the modules: <<object, value>>
    at,        \* the module iter points to
    mList, deleting, orders,
    given,     \* what was sent by sendDataTo: <<module, value>>
    broken,    \* what was undefined
    \* what the properties need to know of the past
    due,       \* the values the device has sent, as they should arrive
    passed,    \* those that were parsed
    bad,       \* a byte was lost, or was 4; or, in a frame, 13
    ragged     \* a parse began with a part of a unit behind whole ones

tty    == <<device, lost, typed, lines>>
parser == <<buf, rp, wp, pre>>
walk   == <<spc, todo, at, given>>
owner  == <<mList, deleting, orders>>
serial == <<tty, parser, walk, owner, broken, due, passed, bad, ragged>>

Pairs  == device.parser = "pairs"
Frame  == 1 + Skipped + Summed + 2
Unit   == IF Pairs THEN 2 ELSE Frame
Dead   == broken # "no"

(* The fold from the left, as a function                                   *)
Folded(Op(_, _), base, s) ==
    LET f[k \in 0 .. Len(s)] == IF k = 0 THEN base ELSE Op(f[k - 1], s[k]) IN f[Len(s)]

SerialInit ==
    /\ device \in Device /\ lost = 0 /\ typed = <<>> /\ lines = <<>>
    /\ buf = [k \in 0 .. Ring - 1 |-> 0] /\ rp = 0 /\ wp = 0 /\ pre = 0
    /\ spc = "read" /\ todo = <<>> /\ at = NULL /\ given = <<>>
    /\ mList = Module /\ deleting = NULL /\ orders = 0
    /\ broken = "no" /\ due = <<>> /\ passed = <<>> /\ bad = FALSE /\ ragged = FALSE

-----------------------------------------------------------------------------
(* The line *)

FrameSum(frame) == Folded(LAMBDA s, b : s + b, 0, SubSeq(frame, Skipped + 2, Frame - 1))
Check(frame) == 255 - (FrameSum(frame) % 256)
BytesOf(m) == IF Pairs THEN m ELSE Append(m, Check(m))

(* What the modules should be told: of a frame, the value in other units,  *)
(* and only when it changes.                                               *)
Scaled(value) == IF value * 15 > 250 THEN 250 ELSE value * 15
Told(values, m) ==
    IF Pairs THEN Append(values, <<m[1], IF m[2] = CR THEN NL ELSE m[2]>>)
    ELSE LET v == Scaled(Last(m)) IN
         IF v = (IF values = <<>> THEN 0 ELSE Last(values)[2]) THEN values ELSE Append(values, <<0, v>>)

(* A byte on its way through the terminal: ICANON, ICRNL *)
Type(t, b) ==
    LET c == IF b = CR THEN NL ELSE b IN
    IF c = VEOF THEN [line |-> <<>>, ready |-> Append(t.ready, t.line)]
    ELSE IF c = NL THEN [line |-> <<>>, ready |-> Append(t.ready, Append(t.line, c))]
    ELSE [t EXCEPT !.line = Append(@, c)]

DeviceSends ==
    /\ device.bursts # <<>>
    /\ LET burst == Head(device.bursts)
           bytes == Folded(LAMBDA s, m : s \o BytesOf(m), <<>>, burst)
       IN \E gone \in {0} \union IF device.noise /\ lost < MaxLost THEN 1 .. Len(bytes) ELSE {} :
          LET there == IF gone = 0 THEN bytes ELSE RemoveAt(bytes, gone)
              t == Folded(Type, [line |-> typed, ready |-> lines], there)
          IN /\ typed' = t.line /\ lines' = t.ready
             /\ lost' = IF gone = 0 THEN lost ELSE lost + 1
             /\ bad' = (bad \/ gone # 0 \/ VEOF \in ToSet(bytes) \/ (~ Pairs /\ CR \in ToSet(bytes)))
             /\ due' = Folded(Told, due, burst)
    /\ device' = [device EXCEPT !.bursts = Tail(@)]
    /\ UNCHANGED <<parser, walk, owner, broken, passed, ragged>>

-----------------------------------------------------------------------------
(* The serial thread *)

(* Mutant: one place too few where the ring is closed *)
AvailableOff(r, w) == IF r <= w THEN w - r ELSE Ring - 1 + w - r

available(r, w) == IF r <= w THEN w - r ELSE Ring + w - r

readData(b, r, k) == b[(r + k) % Ring]

(* A pass of SerialParser::parseData's loop *)
PairPass(p, b, w) ==
    IF available(p.rp, w) = 0 THEN p
    ELSE LET object == readData(b, p.rp, 0)  value == readData(b, p.rp, 1) IN
         [p EXCEPT !.rp = (@ + 2) % Ring,
                   !.out = IF object < 5 THEN Append(@, <<object, value>>) ELSE @]

(* A pass of CMManager::parseData's loop; a wrong sum ends it. *)
FramePass(p, b, w) ==
    IF p.err \/ available(p.rp, w) = 0 THEN p
    ELSE IF readData(b, p.rp, 0) # START THEN [p EXCEPT !.rp = (@ + 1) % Ring]
    ELSE LET frame == [k \in 1 .. Frame |-> readData(b, p.rp, k - 1)]
             value == Scaled(frame[Frame - 1])
             q     == [p EXCEPT !.rp = (@ + Frame) % Ring]
         IN IF frame[Frame] # Check(frame) THEN [q EXCEPT !.err = TRUE]
            ELSE [q EXCEPT !.pre = value,
                           !.out = IF p.pre # value THEN Append(@, <<0, value>>) ELSE @]

(* parseData with w bytes written up to place w.  A loop that has not come *)
(* to an end after Ring passes has been in the same place before.          *)
parseData(b, w) ==
    LET from == [rp |-> rp, pre |-> pre, out |-> <<>>, err |-> FALSE] IN
    IF available(rp, w) < Unit THEN from
    ELSE Folded(LAMBDA p, k : IF Pairs THEN PairPass(p, b, w) ELSE FramePass(p, b, w),
                  from, [k \in 1 .. Ring |-> k])

(* threadFunction: read and the callback, up to the first setData *)
Read ==
    /\ spc = "read" /\ lines # <<>> /\ ~ Dead
    /\ LET line == Head(lines)
           got  == SubSeq(line, 1, IF Len(line) > ReadMax THEN ReadMax ELSE Len(line))
           rest == SubSeq(line, Len(got) + 1, Len(line))
           b    == Folded(LAMBDA f, k : [f EXCEPT ![(wp + k - 1) % Ring] = got[k]],
                            buf, [k \in 1 .. Len(got) |-> k])
           w    == (wp + Len(got)) % Ring
           p    == parseData(b, w)
           ends == p.err \/ available(p.rp, w) = 0 \/ available(rp, w) < Unit
       IN /\ lines' = IF rest = <<>> THEN Tail(lines) ELSE <<rest>> \o Tail(lines)
          /\ buf' = b /\ wp' = w /\ rp' = p.rp /\ pre' = p.pre
          /\ todo' = p.out /\ passed' = passed \o p.out
          /\ spc' = IF ~ ends THEN "spin" ELSE IF p.out = <<>> THEN "read" ELSE "begin"
          \* mmCallback has one entry for each manager, here one.
          /\ broken' = IF \E k \in 1 .. Len(p.out) : p.out[k][1] > 0 THEN "callback" ELSE broken
          /\ ragged' = (ragged \/ (available(rp, w) > Unit /\ available(rp, w) % Unit # 0))
    /\ UNCHANGED <<device, lost, typed, at, given, owner, due, bad>>

(* setData: iter = mList.begin() and iter++, with the test for the end *)
GoTo(m) == IF m = NULL
           THEN /\ at' = NULL /\ todo' = Tail(todo)
                /\ spc' = IF Len(todo) = 1 THEN "read" ELSE "begin"
           ELSE at' = m /\ spc' = "send" /\ UNCHANGED todo

Begin == /\ spc = "begin" /\ ~ Dead
         /\ GoTo(IF mList = <<>> THEN NULL ELSE Head(mList))
         /\ UNCHANGED <<tty, parser, given, owner, broken, due, passed, bad, ragged>>

(* The module's sendDataTo *)
Send == /\ spc = "send" /\ ~ Dead
        /\ IF at \notin ToSet(mList) \union {deleting}
           THEN broken' = "module" /\ UNCHANGED <<spc, given>>
           ELSE spc' = "next" /\ given' = Append(given, <<at, Head(todo)[2]>>) /\ UNCHANGED broken
        /\ UNCHANGED <<tty, parser, todo, at, owner, due, passed, bad, ragged>>

Advance ==
    /\ spc = "next" /\ ~ Dead
    /\ IF at \notin ToSet(mList)
       THEN broken' = "node" /\ UNCHANGED <<spc, todo, at>>
       ELSE /\ LET k == CHOOSE k \in 1 .. Len(mList) : mList[k] = at
               IN GoTo(IF k = Len(mList) THEN NULL ELSE mList[k + 1])
            /\ UNCHANGED broken
    /\ UNCHANGED <<tty, parser, given, owner, due, passed, bad, ragged>>

-----------------------------------------------------------------------------
(* The TCP thread: ModuleManager::module *)

(* A new module is another one than the walk stands at: to go on from what *)
(* was freed is undefined, though the memory may be in use again.          *)
Make(m) == /\ orders < device.orders /\ deleting = NULL /\ ~ Dead
           /\ m \notin ToSet(mList) \union {at}
           /\ mList' = Append(mList, m) /\ orders' = orders + 1
           /\ UNCHANGED <<tty, parser, walk, deleting, broken, due, passed, bad, ragged>>

(* The node is freed; the module's report goes out before it is deleted. *)
Erase(m) == /\ orders < device.orders /\ deleting = NULL /\ ~ Dead
            /\ \E k \in 1 .. Len(mList) : mList[k] = m /\ mList' = RemoveAt(mList, k)
            /\ deleting' = m /\ orders' = orders + 1
            /\ UNCHANGED <<tty, parser, walk, broken, due, passed, bad, ragged>>

Delete == /\ deleting # NULL /\ deleting' = NULL /\ ~ Dead
          /\ UNCHANGED <<tty, parser, walk, mList, orders, broken, due, passed, bad, ragged>>

SerialThread == Read \/ Begin \/ Send \/ Advance
Owner == Delete \/ \E m \in Movable : Make(m) \/ Erase(m)

-----------------------------------------------------------------------------
SerialTypeOK ==
    /\ lost \in 0 .. MaxLost /\ typed \in Seq(0 .. 255) /\ lines \in Seq(Seq(0 .. 255))
    /\ buf \in [0 .. Ring - 1 -> 0 .. 255] /\ {rp, wp} \subseteq 0 .. Ring - 1 /\ pre \in 0 .. 250
    /\ spc \in {"read", "begin", "send", "next", "spin"}
    /\ todo \in Seq((0 .. 4) \X (0 .. 255)) /\ (todo = <<>> => spc \in {"read", "spin"})
    /\ at \in ToSet(Module) \union {NULL} /\ ToSet(mList) \subseteq ToSet(Module)
    /\ deleting \in ToSet(Module) \union {NULL} /\ orders \in 0 .. device.orders
    /\ broken \in {"no", "callback", "module", "node"}

(* What is parsed is what the device has sent - once, in order, nothing of *)
(* an earlier time round the ring - and all of it when every line has been *)
(* read, as long as no byte was lost or eaten by the terminal and no parse *)
(* began with part of a pair or a frame behind whole ones.                 *)
ParsedExact ==
    ~ bad /\ ~ ragged =>
        /\ IsPrefix(passed, due)
        /\ device.bursts = <<>> /\ lines = <<>> /\ typed = <<>> => passed = due
        /\ spc # "spin" /\ broken # "callback"

(* The serial thread spins for ever in parseData only after such a parse;  *)
(* with pairs always then, and pairs come apart only where a byte was lost *)
(* or is 4, or where a read cuts a line that is longer than 255 bytes.     *)
SpinExplained ==
    /\ spc = "spin" => ragged
    /\ Pairs /\ ragged => spc = "spin" \/ Dead
    /\ Pairs /\ ragged /\ ~ bad => Len(due) * 2 > ReadMax

(* The values among gifts that went to a module *)
GivenTo(m, gifts) == Folded(LAMBDA s, g : IF g[1] = m THEN Append(s, g[2]) ELSE s, <<>>, gifts)

(* Going through mList is undefined only where the module the walk stands  *)
(* at was deleted; a module that is there all the time gets every value    *)
(* once and in order.                                                      *)
WalkExplained ==
    /\ broken \in {"module", "node"} => orders > 0 /\ at \notin ToSet(mList)
    /\ ~ Dead /\ spc = "read" => \A m \in ToSet(Module) \ Movable :
          GivenTo(m, given) = [k \in 1 .. Len(passed) |-> passed[k][2]]

(* From the line to the modules. *)
SerialInv == SerialTypeOK /\ ParsedExact /\ SpinExplained /\ WalkExplained
===============================================================================
