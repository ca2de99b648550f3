----------------------------- MODULE AudioDevices ------------------------------
(***************************************************************************)
(* What ADCs and DACs do with PortAudio: preparePa, start, stop and the    *)
(* end of a module, on the TCP thread, and stream2, on the UDP thread,     *)
(* which starts the stream of a DAC that does not play.  One step is a     *)
(* handler; each of its calls of PortAudio may fail.                       *)
(*                                                                         *)
(* Of PortAudio there is what the code relies on: it counts Pa_Initialize  *)
(* and Pa_Terminate, the last Pa_Terminate closes all streams, a stream is *)
(* memory, and a call while it is not initialized fails.  Pa_CloseStream   *)
(* does not fail.                                                          *)
(***************************************************************************)
EXTENDS Integers, FiniteSets

CONSTANTS Mics, Speakers   \* objects of the classes ADC and DAC

VARIABLES
    pa,     \* [count: Pa_Initialize less Pa_Terminate,
            \*  stream: what paStream of each object refers to; it is "unset" in new memory,
            \*  err: the last call failed]
    objects,\* [alive, playing: those with isPlaying, made: how many, fails: how many calls]
    history    \* what the properties need to know: [balance: of each object, its Pa_Initialize less
            \*  its Pa_Terminate, robbed: <<object, its stream>> when it gave back what was another's,
            \*  failed: the objects some call of which failed, wild: a pointer was used that
            \*  refers to no stream, trouble: PortAudio let a call fail]

devices == <<pa, objects, history>>
Object  == Mics \union Speakers

(* An object is of one class, and memory holds finitely many. *)
ASSUME DevicesAssumption == IsFiniteSet(Object) /\ Mics \intersect Speakers = {}

DevicesTypeOK ==
    /\ pa.count \in Nat /\ pa.stream \in [Object -> {"unset", "open", "active", "closed"}]
    /\ objects.alive \subseteq Object /\ objects.playing \subseteq Object
    /\ history.balance \in [Object -> Int] /\ history.failed \subseteq Object
    /\ history.robbed \subseteq Object \X {"unset", "open", "active", "closed"}

(* plan is [made: bound: modules made, fails: bound: calls that fail].      *)
DevicesInit(plan) ==
    /\ pa = [count |-> 0, stream |-> [o \in Object |-> "unset"], err |-> FALSE]
    /\ objects = [alive |-> {}, playing |-> {}, made |-> plan.made, fails |-> plan.fails]
    /\ history = [balance |-> [o \in Object |-> 0], robbed |-> {}, failed |-> {},
             wild |-> FALSE, trouble |-> FALSE]

-----------------------------------------------------------------------------
(* Calls of PortAudio by o; d is [pa, objects, history].                      *)

Failed(d, o) == [d EXCEPT !.pa.err = TRUE, !.history.failed = @ \union {o}]
Done(d)      == [d EXCEPT !.pa.err = FALSE]

Initialize(d, o) == Done([d EXCEPT !.pa.count = @ + 1, !.history.balance[o] = @ + 1])

Closing(stream) == [o \in Object |-> IF stream[o] \in {"open", "active"} THEN "closed" ELSE stream[o]]
Pa_Terminate(d, o) ==
    [d EXCEPT !.pa.count = IF @ = 0 THEN 0 ELSE @ - 1,
              !.pa.stream = IF d.pa.count = 1 THEN Closing(@) ELSE @,
              !.history.balance[o] = @ - 1,
              !.history.robbed = IF d.pa.count > 0 /\ d.history.balance[o] <= 0
                              THEN @ \union {<<o, d.pa.stream[o]>>} ELSE @]

(* A call with paStream, for which the stream has to be in one of the      *)
(* states from; ok is whether it succeeds then.                            *)
WithStream(d, o, from, to, ok) ==
    CASE d.pa.count = 0 -> Failed(d, o)
      [] d.pa.count > 0 /\ d.pa.stream[o] \in {"unset", "closed"} -> [d EXCEPT !.history.wild = TRUE]
      [] OTHER -> IF d.pa.stream[o] \in from /\ ok THEN Done([d EXCEPT !.pa.stream[o] = to])
                  ELSE Failed(d, o)

Pa_StartStream(d, o, ok) == WithStream(d, o, {"open"}, "active", ok)
Pa_StopStream(d, o, ok)  == WithStream(d, o, {"active"}, "open", ok)
Pa_CloseStream(d, o)     == WithStream(d, o, {"open", "active"}, "closed", TRUE)

-----------------------------------------------------------------------------
(* ADC::start, DAC::start; the same of stop *)
start(d, o, ok) ==
    LET e == Pa_StartStream(d, o, ok) IN
    IF o \in Mics /\ e.pa.err THEN Pa_Terminate(e, o)
    ELSE [e EXCEPT !.objects.playing = @ \union {o}]
stop(d, o, ok) ==
    LET e == Pa_StopStream(d, o, ok) IN
    IF o \in Mics /\ e.pa.err THEN Pa_Terminate(e, o)
    ELSE [e EXCEPT !.objects.playing = @ \ {o}]

(* preparePa, which goes on when the stream cannot be opened *)
preparePa(d, o, fails) ==
    CASE fails = "initialize" -> Pa_Terminate(Failed(d, o), o)
      [] fails = "device"     -> Pa_Terminate(Failed(Initialize(d, o), o), o)
      [] fails = "open"       -> start(Pa_Terminate(Failed(Initialize(d, o), o), o), o, TRUE)
      [] OTHER -> start([Initialize(d, o) EXCEPT !.pa.stream[o] = "open"], o, fails # "start")

(* Mutant: the end of a module leaves PortAudio initialized. *)
finishNot(d, o, ok) == Pa_CloseStream(stop(d, o, ok), o)

(* DAC::finishPa, ADC::~ADC *)
finishPa(d, o, ok) == Pa_Terminate(Pa_CloseStream(stop(d, o, ok), o), o)

-----------------------------------------------------------------------------
Now == [pa |-> pa, objects |-> objects, history |-> history]
(* A handler that begins as d and in which the call fails, if any *)
Handler(d, fails, after(_)) ==
    /\ ~ history.wild
    /\ fails = "no" \/ objects.fails > 0
    /\ LET e == after(IF fails = "no" THEN d
                      ELSE [d EXCEPT !.objects.fails = @ - 1, !.history.trouble = TRUE])
       IN pa' = e.pa /\ objects' = e.objects /\ history' = e.history

(* The constructors, in memory that may hold anything; initDAC and ADC::ADC *)
(* have isPlaying false.  Once initialized, Pa_Initialize only counts.     *)
MakeModule(o) ==
    /\ o \notin objects.alive /\ objects.made > 0
    /\ LET new == [Now EXCEPT !.objects.alive = @ \union {o}, !.objects.playing = @ \ {o},
                              !.objects.made = @ - 1, !.pa.stream[o] = "unset",
                              !.history.balance[o] = 0, !.history.failed = @ \ {o}]
       IN \E fails \in {"no", "device", "open", "start"} \union (IF pa.count = 0 THEN {"initialize"} ELSE {}) :
             Handler(new, fails, LAMBDA d : preparePa(d, o, fails))

EndModule(o) ==
    /\ o \in objects.alive
    /\ \E fails \in {"no", "stop"} :
          Handler([Now EXCEPT !.objects.alive = @ \ {o}], fails, LAMBDA d : finishPa(d, o, fails = "no"))

(* DAC::stream2, when enough has come *)
stream2(o) ==
    /\ o \in (objects.alive \intersect Speakers) \ objects.playing
    /\ \E fails \in {"no", "start"} : Handler(Now, fails, LAMBDA d : start(d, o, fails = "no"))

DevicesNext == \E o \in Object : MakeModule(o) \/ EndModule(o) \/ stream2(o)

-----------------------------------------------------------------------------
(* PortAudio calls no module that is gone.                                 *)
CallsTheLiving == \A o \in Object : pa.stream[o] = "active" => o \in objects.alive

(* A module whose own calls succeed plays or records until it ends, unless *)
(* another one, which had failed, gave back what it had not taken: a DAC   *)
(* does so only if it never got a stream, an ADC also after a failed start *)
(* or stop.                                                                *)
StreamsHeard ==
    /\ \A o \in objects.alive \ history.failed : pa.stream[o] = "active" \/ history.robbed # {}
    /\ \A r \in history.robbed : r[1] \in Mics \/ r[2] = "unset"

(* A pointer that refers to nothing is used only by a module that never    *)
(* got its stream, while another one keeps PortAudio initialized, or after *)
(* such a theft.  And nothing of it happens as long as no call fails.      *)
WildExplained ==
    /\ history.wild => \/ history.robbed # {}
                    \/ \E o \in history.failed : pa.stream[o] = "unset" /\ \E p \in objects.alive \ {o} : history.balance[p] > 0
    /\ ~ history.trouble => ~ history.wild /\ history.robbed = {} /\ history.failed = {}

(* When all modules are gone no stream is left, and PortAudio is closed,   *)
(* whatever failed.                                                        *)
NothingLeft ==
    objects.alive = {} /\ ~ history.wild =>
        pa.count = 0 /\ \A o \in Object : pa.stream[o] \in {"unset", "closed"}

(* However preparations fail and modules come and go.                      *)
DevicesInv == DevicesTypeOK /\ CallsTheLiving /\ StreamsHeard /\ WildExplained /\ NothingLeft
================================================================================
