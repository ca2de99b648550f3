----------------------------- MODULE SerialDevice ------------------------------
(***************************************************************************)
(* The life of a Serial (Peripheral/Serial.cpp) and what an ObjectManager  *)
(* (Services/Object.cpp) writes to it: opening and opening again while a   *)
(* thread reads, callbacks stored in two steps, devices that are not there *)
(* or go away, and modules whose method is there before and after them.    *)
(*                                                                         *)
(* Threads: the application's, which makes, changes and destroys; the      *)
(* serial thread; the TCP thread, which makes and deletes modules; the UDP *)
(* thread with "/Intensity".  What is read becomes of it in SerialInput,   *)
(* with the walk over mList, which is one step here.                       *)
(***************************************************************************)
EXTENDS Naturals, Sequences, FiniteSets, SequencesExt

CONSTANTS Dev, Modem,   \* devices; the one the constructor opens
          Knobs,        \* modules
          NOBODY

ASSUME PortAssumption == Modem \in Dev /\ NOBODY \notin Dev

VARIABLES
    port,     \* [fd, active, thread, cb, ud, oldtio]; fd 0 for -1
    files,    \* the device of each descriptor; none is ever closed
    setting,  \* of each device: "own", or "raw" as prepareSerial sets it
    there,    \* devices that are plugged in
    waiting,  \* lines a device has ready
    reader,   \* the serial thread: [pc, got]
    app,      \* [pc, next]: next is the device to open, or NOBODY for the destructor
    manager,  \* [objectID, writeData, ud]: whether they have been set
    knob,     \* stage of each module
    wrong,    \* what was undefined
    limits,   \* [calls, fails, sends, orders]: bounds
    absent   \* setDevice was called with a device that is not there

serialDevice == <<port, files, setting, there, waiting, reader, app, manager, knob, wrong, limits, absent>>
PortFine == wrong = "no"

(* uses is [made: whether there is a Serial at all, there, calls, fails,   *)
(* sends, orders]                                                          *)
PortInit(uses) ==
    /\ port = [fd |-> 0, active |-> FALSE, thread |-> "unset", cb |-> FALSE, ud |-> FALSE, oldtio |-> "unset"]
    /\ files = <<>> /\ setting = [d \in Dev |-> "own"] /\ there = uses.there
    /\ waiting = [d \in Dev |-> 0] /\ reader = [pc |-> "none", got |-> FALSE]
    /\ app = [pc |-> IF uses.made THEN "new" ELSE "none", next |-> Modem]
    /\ manager = [objectID |-> FALSE, writeData |-> FALSE, ud |-> FALSE]
    /\ knob = [o \in Knobs |-> "none"] /\ wrong = "no" /\ absent = FALSE
    /\ limits = [calls |-> uses.calls, fails |-> uses.fails, sends |-> uses.sends, orders |-> uses.orders]

-----------------------------------------------------------------------------
(* The application *)

(* prepareSerial: the settings found are those the destructor will restore *)
Prepared(d) ==
    IF d \in there THEN [port EXCEPT !.fd = Len(files) + 1, !.oldtio = setting[d]]
    ELSE [port EXCEPT !.fd = 0]

prepareSerial(d) ==
    IF d \in there
    THEN /\ files' = Append(files, d) /\ setting' = [setting EXCEPT ![d] = "raw"]
         /\ waiting' = [waiting EXCEPT ![d] = 0]
    ELSE UNCHANGED <<files, setting, waiting>>

(* A thread that cannot be made leaves active set. *)
threadStart(p) ==
    \/ /\ port' = [p EXCEPT !.active = TRUE, !.thread = "live"]
       /\ reader' = [pc |-> "test", got |-> FALSE] /\ UNCHANGED limits
    \/ /\ limits.fails > 0 /\ limits' = [limits EXCEPT !.fails = @ - 1]
       /\ port' = [p EXCEPT !.active = TRUE] /\ UNCHANGED reader

PortOutside == <<there, manager, knob, wrong>>

NewSerial ==
    /\ app.pc = "new" /\ app' = [app EXCEPT !.pc = "idle"]
    /\ prepareSerial(Modem)
    /\ IF Modem \in there THEN threadStart(Prepared(Modem))
       ELSE port' = Prepared(Modem) /\ UNCHANGED <<reader, limits>>
    /\ UNCHANGED <<PortOutside, absent>>

ByApp == /\ app.pc = "idle" /\ PortFine /\ limits.calls > 0
        /\ limits' = [limits EXCEPT !.calls = @ - 1]

(* Mutant: threadStop does not wait for the thread. *)
StopNotJoined(next) ==
    /\ ByApp
    /\ app' = [pc |-> "stopped", next |-> next]
    /\ port' = [port EXCEPT !.active = FALSE]
    /\ UNCHANGED <<files, setting, waiting, reader, PortOutside, absent>>

(* setDevice and the destructor begin with threadStop ...                 *)
threadStop(next) ==
    /\ ByApp
    /\ app' = [pc |-> IF port.active THEN "join" ELSE "stopped", next |-> next]
    /\ port' = [port EXCEPT !.active = FALSE]
    /\ UNCHANGED <<files, setting, waiting, reader, PortOutside, absent>>

(* ... which waits until the thread has read once more.                    *)
Join ==
    /\ app.pc = "join" /\ PortFine
    /\ IF port.thread = "live"
       THEN /\ reader.pc = "ended" /\ port' = [port EXCEPT !.thread = "joined"]
            /\ app' = [app EXCEPT !.pc = "stopped"] /\ UNCHANGED wrong
       ELSE wrong' = "join" /\ UNCHANGED <<port, app>>
    /\ UNCHANGED <<files, setting, waiting, reader, there, manager, knob, limits, absent>>

(* The thread is started whether or not the device could be opened.        *)
Reopen ==
    /\ app.pc = "stopped" /\ app.next # NOBODY /\ PortFine
    /\ prepareSerial(app.next) /\ threadStart(Prepared(app.next))
    /\ app' = [app EXCEPT !.pc = "idle"]
    /\ absent' = (absent \/ app.next \notin there)
    /\ UNCHANGED PortOutside

Destroyed ==
    /\ app.pc = "stopped" /\ app.next = NOBODY /\ PortFine
    /\ app' = [app EXCEPT !.pc = "gone"]
    /\ setting' = IF port.fd # 0 /\ files[port.fd] \in there
                  THEN [setting EXCEPT ![files[port.fd]] = port.oldtio] ELSE setting
    /\ UNCHANGED <<port, files, waiting, reader, PortOutside, limits, absent>>

(* setCallback: two assignments, while the thread reads *)
SetCallback ==
    /\ \/ ByApp /\ app' = [app EXCEPT !.pc = "ud"] /\ port' = [port EXCEPT !.cb = TRUE]
       \/ /\ app.pc = "ud" /\ PortFine /\ UNCHANGED limits
          /\ app' = [app EXCEPT !.pc = "idle"] /\ port' = [port EXCEPT !.ud = TRUE]
    /\ UNCHANGED <<files, setting, waiting, reader, PortOutside, absent>>

(* The manager's objectID, and setSerialCallback, which has two, too *)
SetManager ==
    /\ \/ ByApp /\ manager' = [manager EXCEPT !.objectID = TRUE] /\ UNCHANGED app
       \/ ByApp /\ manager' = [manager EXCEPT !.writeData = TRUE] /\ app' = [app EXCEPT !.pc = "writer"]
       \/ /\ app.pc = "writer" /\ PortFine /\ UNCHANGED limits
          /\ app' = [app EXCEPT !.pc = "idle"] /\ manager' = [manager EXCEPT !.ud = TRUE]
    /\ UNCHANGED <<port, files, setting, there, waiting, reader, knob, wrong, absent>>

-----------------------------------------------------------------------------
(* The serial thread: threadFunction *)

Unheard == <<files, setting, there, app, manager, knob, limits, absent>>

TestActive ==
    /\ reader.pc = "test" /\ PortFine
    /\ reader' = [reader EXCEPT !.pc = IF port.active THEN "read" ELSE "ended"]
    /\ UNCHANGED <<port, waiting, wrong, Unheard>>

Mute == port.fd \notin {k \in DOMAIN files : files[k] \in there}

ReadDevice ==
    /\ reader.pc = "read" /\ PortFine
    /\ \/ Mute /\ reader' = [pc |-> "call", got |-> FALSE] /\ UNCHANGED waiting
       \/ /\ ~ Mute /\ waiting[files[port.fd]] > 0 /\ reader' = [pc |-> "call", got |-> TRUE]
          /\ waiting' = [waiting EXCEPT ![files[port.fd]] = @ - 1]
    /\ UNCHANGED <<port, wrong, Unheard>>

CallBack ==
    /\ reader.pc = "call" /\ PortFine
    /\ reader' = [reader EXCEPT !.pc = "test"]
    /\ wrong' = IF port.cb /\ ~ port.ud THEN "callback" ELSE wrong
    /\ UNCHANGED <<port, waiting, Unheard>>

-----------------------------------------------------------------------------
(* The modules and their orders *)

KnobOrder == PortFine /\ limits.orders > 0 /\ limits' = [limits EXCEPT !.orders = @ - 1]

(* initModule: the constructor adds the method; cb and ud come after it;   *)
(* mList; the method stays when the module goes.                           *)
MakeKnob(o) ==
    /\ knob[o] \notin {"listed", "freed"} /\ PortFine
    /\ IF knob[o] = "none" THEN KnobOrder ELSE UNCHANGED limits
    /\ knob' = [knob EXCEPT ![o] = CASE @ = "none" -> "method" [] @ = "method" -> "cb"
                                     [] @ = "cb" -> "ready" [] @ = "ready" -> "listed"]
    /\ UNCHANGED <<port, files, setting, there, waiting, reader, app, manager, wrong, absent>>

DeleteKnob(o) ==
    /\ knob[o] = "listed" /\ KnobOrder
    /\ knob' = [knob EXCEPT ![o] = "freed"]
    /\ UNCHANGED <<port, files, setting, there, waiting, reader, app, manager, wrong, absent>>

(* writeDataCallback: what is written is not looked at *)
WriteData == wrong' = IF app.pc = "gone" THEN "port" ELSE wrong

(* Memory that was not set may be null, which is tested for, or not.       *)
Unset(what) == wrong' \in {wrong, what}

(* something and moduleCallback *)
Intensity(o) ==
    /\ knob[o] # "none" /\ KnobOrder
    /\ CASE knob[o] = "freed" -> wrong' = "object"
         [] knob[o] \in {"method", "cb"} -> Unset("object")
         [] OTHER -> IF ~ manager.objectID THEN UNCHANGED wrong
                     ELSE IF manager.writeData /\ manager.ud THEN WriteData
                     ELSE Unset("write")
    /\ UNCHANGED <<port, files, setting, there, waiting, reader, app, manager, knob, absent>>

-----------------------------------------------------------------------------
(* The devices *)
PortRest == <<port, files, setting, reader, app, manager, knob, wrong, absent>>
AtDevice == PortFine /\ limits.sends > 0 /\ limits' = [limits EXCEPT !.sends = @ - 1]

DeviceLine(d) == /\ AtDevice /\ d \in there \intersect ToSet(files)
                 /\ waiting' = [waiting EXCEPT ![d] = @ + 1] /\ UNCHANGED <<PortRest, there>>

Unplug(d) == AtDevice /\ d \in there /\ there' = there \ {d} /\ UNCHANGED <<PortRest, waiting>>

SerialDeviceNext ==
    \/ NewSerial \/ (\E d \in Dev \union {NOBODY} : threadStop(d)) \/ Join \/ Reopen \/ Destroyed
    \/ SetCallback \/ SetManager \/ TestActive \/ ReadDevice \/ CallBack
    \/ \E o \in Knobs : MakeKnob(o) \/ DeleteKnob(o) \/ Intensity(o)
    \/ \E d \in Dev : DeviceLine(d) \/ Unplug(d)

-----------------------------------------------------------------------------
PortTypeOK ==
    /\ port.fd \in 0 .. Len(files) /\ port.thread \in {"unset", "live", "joined"}
    /\ files \in Seq(Dev) /\ there \subseteq Dev /\ reader.pc \in {"none", "test", "read", "call", "ended"}
    /\ wrong \in {"no", "join", "callback", "object", "write", "port"}

ReaderRuns == reader.pc \in {"test", "read", "call"}

(* A thread that runs is the one the object knows of, and has been told to *)
(* run or is being waited for; none is left when the object has gone.  It  *)
(* reads without a device, over and over, only after a setDevice whose     *)
(* device was not there: the constructor does not start it.                *)
ThreadKnown ==
    /\ ReaderRuns => port.thread = "live" /\ (port.active \/ app.pc = "join") /\ app.pc # "gone"
    /\ ReaderRuns /\ port.fd = 0 => absent

(* What is undefined has one of these reasons: the thread that is waited   *)
(* for could not be made; the device was read between the two assignments  *)
(* of setCallback; a module gets an order before its callback is set, or   *)
(* has been deleted; the manager had its objectID first; or the Serial has *)
(* gone before the modules.                                                *)
WrongExplained ==
    /\ wrong = "join" => port.thread # "live"
    /\ wrong = "callback" => app.pc = "ud"
    /\ wrong = "object" => \E o \in Knobs : knob[o] \in {"method", "cb", "freed"}
    /\ wrong = "write" => manager.objectID /\ ~ manager.ud
    /\ wrong = "port" => app.pc = "gone"

(* When the object has gone, a device has its own settings again only if   *)
(* it was not opened, or is the last that was opened, and only once.       *)
SettingsRestored ==
    app.pc = "gone" => \A d \in there :
        setting[d] = "own" <=>
            LET n == Cardinality({k \in 1 .. Len(files) : files[k] = d})
            IN n = 0 \/ (n = 1 /\ port.fd # 0 /\ files[port.fd] = d)

(* From the device to the object and back. *)
PortInv == PortTypeOK /\ ThreadKnown /\ WrongExplained /\ SettingsRestored
===============================================================================
