------------------------------ MODULE AudioSource ------------------------------
(***************************************************************************)
(* Services/AudioSource.cpp with Peripheral/Recorder.cpp: a module that    *)
(* mixes a recording into the packets of samples it passes on.  Packets    *)
(* and orders are handled by the UDP thread; render runs there, for each   *)
(* packet, and on the timer thread (useTimer).  The TCP thread makes and   *)
(* deletes the module.  Nothing is locked.                                 *)
(*                                                                         *)
(* A position counts Part parts of a sample; the arithmetic of floats is   *)
(* rounded down to that, and rates below zero are left out.  A step is a   *)
(* sample, or the statements between two that touch the recording's memory *)
(* or buf.  A packet fills buf.                                            *)
(***************************************************************************)
EXTENDS Integers, Sequences, SequencesExt

CONSTANTS NumPackets,   \* samples of a packet
          Part,
          Sound,        \* initially, and what may come: see below
          Value,        \* integers in orders
          FloatBits,    \* a float's bits, taken for an integer (scaled down)
          NONE, FREED

ASSUME SoundAssumption ==
    /\ NumPackets \in Nat \ {0} /\ Part \in Nat \ {0} /\ Value \subseteq Int /\ FloatBits \subseteq Nat
    /\ NONE \notin Nat /\ FREED \notin Nat /\ NONE # FREED
    /\ Sound \subseteq [file : Nat, timer : BOOLEAN, looping : BOOLEAN, ctor : BOOLEAN,
                        orders : Nat, beats : Nat, life : Nat]

VARIABLES
    sound,       \* [file:    samples of the sound file, 0 if there is none,
                 \*  timer:   useTimer is called,
                 \*  looping: isLooping,
                 \*  ctor:    made by the constructor, not by init,
                 \*  orders, beats: bounds on packets and orders, on the timer's renderings,
                 \*  life:    steps of the TCP thread still to come]
    stage,       \* of the module
    data,        \* rec.data: NONE (NULL), FREED, or the number of samples it has room for
    packetSize, isRecording,
    location, rate, isPlaying,
    inBuf,       \* the packet whose samples are in buf
    upc,         \* what the UDP thread handles
    rpc, count,  \* of each thread in render: its step, the samples done
    passedOn,    \* the packets sent, in order
    fault,       \* what was undefined
    \* what the properties need to know of the past
    packets,     \* number of packets that came
    silent,      \* those that found no recording
    met,         \* the memory of the recording changed while the timer rendered
    mixed,       \* packets during which the timer rendered
    resumed,     \* playing was switched on, not at the beginning, while recording
    short        \* the recording was too short for the rate

rec    == <<data, packetSize, isRecording>>
player == <<location, rate, isPlaying>>
render == <<rpc, count>>
past   == <<packets, silent, met, mixed, resumed, short>>
audio  == <<sound, stage, rec, player, inBuf, upc, render, passedOn, fault, past>>

Thread   == {"UDP", "timer"}
Wrong    == fault # "no"
HasBuffers == stage \in {"sized", "alive"}
Rendering(t) == rpc[t] # "idle"

AudioInit ==
    /\ sound \in Sound
    /\ stage = (IF sound.life > 3 THEN "methods" ELSE "alive")
    /\ packetSize = (IF sound.life > 3 THEN 0 ELSE sound.file)
    /\ data = (IF packetSize = 0 THEN NONE ELSE packetSize)
    /\ isRecording = FALSE
    /\ location = 0 /\ rate = Part /\ isPlaying = TRUE
    /\ inBuf = 0 /\ upc = "idle"
    /\ rpc = [t \in Thread |-> "idle"] /\ count = [t \in Thread |-> 0]
    /\ passedOn = <<>> /\ fault = "no" /\ packets = 0 /\ silent = {}
    /\ met = FALSE /\ mixed = {} /\ resumed = FALSE /\ short = FALSE

-----------------------------------------------------------------------------
(* render *)

RenderStart(t) ==
    /\ rpc[t] = "start"
    /\ IF data = NONE
       THEN /\ rpc' = [rpc EXCEPT ![t] = "idle"]
            /\ silent' = IF t = "UDP" THEN silent \union {packets} ELSE silent
            /\ UNCHANGED <<count, fault>>
       ELSE /\ rpc' = [rpc EXCEPT ![t] = IF isPlaying THEN "sample" ELSE "mix"]
            /\ count' = [count EXCEPT ![t] = 0]
            /\ fault' = IF HasBuffers THEN fault ELSE "buffers"
            /\ UNCHANGED silent
    /\ UNCHANGED <<sound, stage, rec, player, inBuf, upc, passedOn, packets, met, mixed, resumed, short>>

(* Mutant: the position is not brought back at the end of the recording. *)
WrappedNot(l) == IF sound.looping THEN l ELSE 0

(* The position behind the end of the recording *)
Wrapped(l) == IF sound.looping THEN l + Part - packetSize * Part ELSE 0

Sample(t) ==
    LET l    == location \div Part
        next == IF l + 1 >= packetSize THEN l + 1 - packetSize ELSE l + 1
        end  == location + rate + Part >= packetSize * Part
    IN /\ rpc[t] = "sample"
       /\ IF data \in {NONE, FREED} \/ ~ (l < data /\ next < data)
          THEN fault' = "read" /\ UNCHANGED <<player, render>>
          ELSE /\ location' = IF end THEN Wrapped(location + rate) ELSE location + rate
               /\ isPlaying' = (isPlaying /\ (end => sound.looping))
               /\ count' = [count EXCEPT ![t] = @ + 1]
               /\ rpc' = [rpc EXCEPT ![t] = IF count'[t] = NumPackets \/ (end /\ ~ sound.looping)
                                            THEN "mix" ELSE @]
               /\ UNCHANGED <<rate, fault>>
       /\ short' = (short \/ packetSize = 0 \/ (sound.looping /\ rate + Part > packetSize * Part))
    /\ UNCHANGED <<sound, stage, rec, inBuf, upc, passedOn, packets, silent, met, mixed, resumed>>

(* buf into output, and sendAudioTo *)
Mix(t) == /\ rpc[t] = "mix"
          /\ IF HasBuffers
             THEN /\ passedOn' = Append(passedOn, inBuf)
                  /\ rpc' = [rpc EXCEPT ![t] = "clear"] /\ UNCHANGED fault
             ELSE fault' = "buffers" /\ UNCHANGED <<passedOn, rpc>>
          /\ UNCHANGED <<sound, stage, rec, player, inBuf, upc, count, past>>

(* memset(buf, 0) *)
Clear(t) == /\ rpc[t] = "clear"
            /\ inBuf' = 0 /\ rpc' = [rpc EXCEPT ![t] = "idle"]
            /\ fault' = IF HasBuffers THEN fault ELSE "buffers"
            /\ UNCHANGED <<sound, stage, rec, player, upc, count, passedOn, past>>

Render(t) == ~ Wrong /\ (RenderStart(t) \/ Sample(t) \/ Mix(t) \/ Clear(t))

(* The timer thread calls it from useTimer to stopTimer. *)
Beat == /\ ~ Wrong /\ sound.timer /\ sound.beats > 0 /\ stage \in {"alive", "freed", "deaf"}
        /\ ~ Rendering("timer")
        /\ rpc' = [rpc EXCEPT !["timer"] = "start"]
        /\ sound' = [sound EXCEPT !.beats = @ - 1]
        /\ met' = (met \/ upc \in {"realloc", "null", "size"})
        /\ mixed' = IF Rendering("UDP") THEN mixed \union {packets} ELSE mixed
        /\ UNCHANGED <<stage, rec, player, inBuf, upc, count, passedOn, fault, packets, silent, resumed, short>>

-----------------------------------------------------------------------------
(* Handlers, on the UDP thread; data1, data2 and fdata also on that of a   *)
(* module of the same process.                                             *)

Idle == upc = "idle" /\ ~ Rendering("UDP") /\ ~ Wrong
Order == sound.orders > 0 /\ sound' = [sound EXCEPT !.orders = @ - 1]
Changes == met' = (met \/ Rendering("timer"))

(* audio.  ~AudioSource deletes the method "/AudioIn", which init adds;    *)
(* the one the constructor adds, "/Audio", stays.                          *)
Audio ==
    /\ Idle /\ Order
    /\ stage \in {"deaf", "gone"} => sound.ctor
    /\ packets' = packets + 1
    /\ IF stage = "gone" THEN fault' = "object" /\ UNCHANGED <<packetSize, upc, met>>
       ELSE /\ UNCHANGED fault
            /\ IF isRecording
               THEN upc' = "realloc" /\ packetSize' = packetSize + NumPackets /\ Changes
               ELSE upc' = "fill" /\ UNCHANGED <<packetSize, met>>
    /\ UNCHANGED <<stage, data, isRecording, player, inBuf, render, passedOn, silent, mixed, resumed, short>>

(* pushData *)
Realloc == /\ upc = "realloc" /\ ~ Wrong /\ Changes
           /\ upc' = "fill" /\ data' = packetSize
           /\ UNCHANGED <<sound, stage, packetSize, isRecording, player, inBuf, render, passedOn, fault,
                          packets, silent, mixed, resumed, short>>

(* The samples go into buf, and render is called. *)
Fill == /\ upc = "fill" /\ ~ Wrong
        /\ upc' = "idle" /\ inBuf' = packets
        /\ fault' = IF HasBuffers THEN fault ELSE "buffers"
        /\ rpc' = [rpc EXCEPT !["UDP"] = "start"]
        /\ mixed' = IF Rendering("timer") THEN mixed \union {packets} ELSE mixed
        /\ UNCHANGED <<sound, stage, rec, player, count, passedOn, packets, silent, met, resumed, short>>

BeingRecorded == isRecording \/ upc \in {"null", "size"}
SwitchedOn == resumed' = (resumed \/ (BeingRecorded /\ isPlaying' /\ ~ isPlaying /\ location # 0))

data1(v) == /\ isPlaying' = (v > 0)
            /\ location' = IF v > 0 THEN location ELSE 0
            /\ UNCHANGED rate

data2(v) == /\ isPlaying' = (v > 0)
            /\ rate' = IF v > 64 THEN (Part * v) \div 64
                       ELSE IF v > 0 THEN (Part * (63 + v)) \div 127 ELSE Part
            /\ location' = IF v > 0 THEN location ELSE 0

(* argv[0]->i of a float argument is its bits. *)
fdata(bits) == isPlaying' = TRUE /\ rate' = Part * bits /\ UNCHANGED location

Listens == stage \in {"methods", "sized", "alive", "freed"} /\ ~ Wrong
Heard   == Idle /\ Listens
Data == /\ Heard /\ Order
        /\ \/ \E v \in Value : data1(v) \/ data2(v)
           \/ \E bits \in FloatBits : fdata(bits)
        /\ SwitchedOn
        /\ UNCHANGED <<stage, rec, inBuf, upc, render, passedOn, fault, packets, silent, met, mixed, short>>

(* data3 with a value below 1: stopRecording *)
Stop == /\ Heard /\ Order
        /\ isRecording' = FALSE /\ location' = 0 /\ isPlaying' = TRUE
        /\ UNCHANGED <<stage, data, packetSize, rate, inBuf, upc, render, passedOn, fault, past>>

(* data3 with another: startRecording, resetData *)
Record == /\ Heard /\ Order
          /\ isPlaying' = FALSE
          /\ IF isRecording THEN UNCHANGED <<data, upc, met>>
             ELSE upc' = "null" /\ data' = (IF data = NONE THEN NONE ELSE FREED) /\ Changes
          /\ UNCHANGED <<stage, packetSize, isRecording, location, rate, inBuf, render, passedOn, fault,
                         packets, silent, mixed, resumed, short>>
ResetNull == /\ upc = "null" /\ ~ Wrong /\ Changes
             /\ upc' = "size" /\ data' = NONE
             /\ UNCHANGED <<sound, stage, packetSize, isRecording, player, inBuf, render, passedOn, fault,
                            packets, silent, mixed, resumed, short>>
ResetSize == /\ upc = "size" /\ ~ Wrong /\ Changes
             /\ upc' = "idle" /\ packetSize' = 0 /\ isRecording' = TRUE
             /\ UNCHANGED <<sound, stage, data, player, inBuf, render, passedOn, fault,
                            packets, silent, mixed, resumed, short>>

UDPThread == Audio \/ Realloc \/ Fill \/ Data \/ Stop \/ Record \/ ResetNull \/ ResetSize

-----------------------------------------------------------------------------
(* The TCP thread: AudioSourceManager::initModule, delete *)

Live(from, to) == /\ ~ Wrong /\ sound.life > 0 /\ stage = from /\ stage' = to
                  /\ sound' = [sound EXCEPT !.life = @ - 1]

(* buf and output are allocated; initAudioInfo; prepareAudioSource, up to  *)
(* the size of the file.                                                   *)
Buffers == /\ Live("methods", "sized")
           /\ location' = 0 /\ rate' = Part /\ isPlaying' = TRUE
           /\ packetSize' = IF sound.file = 0 THEN packetSize ELSE sound.file
           /\ data' = NONE
           /\ fault' = IF data = FREED THEN "read" ELSE fault
           /\ met' = (met \/ upc # "idle")
           /\ UNCHANGED <<isRecording, inBuf, upc, render, passedOn, packets, silent, mixed, resumed, short>>

(* The file is read into new memory; useTimer.  Without a file nothing is. *)
Load == /\ Live("sized", "alive")
        /\ data' = IF sound.file = 0 THEN data ELSE packetSize
        /\ UNCHANGED <<packetSize, isRecording, player, inBuf, upc, render, passedOn, fault, past>>

(* ~AudioSource frees buf and output, deletes the methods, stops the timer; *)
(* ~Recorder frees the recording.                                          *)
Unused == <<rec, player, inBuf, upc, render, passedOn, fault, past>>
Free   == Live("alive", "freed") /\ UNCHANGED Unused
Deaf   == Live("freed", "deaf") /\ UNCHANGED Unused
Gone   == /\ Live("deaf", "gone") /\ data' = FREED
          /\ UNCHANGED <<packetSize, isRecording, player, inBuf, upc, render, passedOn, fault, past>>

TCPThread == Buffers \/ Load \/ Free \/ Deaf \/ Gone

AudioThreads == UDPThread \/ Beat \/ TCPThread \/ \E t \in Thread : Render(t)

-----------------------------------------------------------------------------
AudioTypeOK ==
    /\ stage \in {"methods", "sized", "alive", "freed", "deaf", "gone"}
    /\ data \in Nat \union {NONE, FREED} /\ packetSize \in Nat /\ isRecording \in BOOLEAN
    /\ location \in Nat /\ rate \in Nat /\ isPlaying \in BOOLEAN
    /\ inBuf \in 0 .. packets /\ upc \in {"idle", "realloc", "fill", "null", "size"}
    /\ rpc \in [Thread -> {"idle", "start", "sample", "mix", "clear"}]
    /\ count \in [Thread -> 0 .. NumPackets]
    /\ passedOn \in Seq(0 .. packets) /\ fault \in {"no", "read", "buffers", "object"}
===============================================================================
