-------------------------------- MODULE Effects --------------------------------
(***************************************************************************)
(* Modules that change the samples of the packets they pass on:            *)
(* Services/Delay.cpp, Lowpass.cpp, and AMSynth.cpp with its SawAM.cpp.    *)
(* Orders are handled by one thread, a packet that comes from a module of  *)
(* the same process on the thread of that module, and the timer calls back *)
(* on its own.                                                             *)
(*                                                                         *)
(* Samples have no values; what counts is which of them is heard again,    *)
(* which coefficients they are filtered with, which places are read.  The  *)
(* delay's buffer is scaled down: Size places for 44100.  Orders have the  *)
(* values of controls, 0 .. 255, or -1, the synth's others, too; its       *)
(* AudioSource gets none of its own.                                       *)
(***************************************************************************)
EXTENDS Integers, Sequences, SequencesExt

CONSTANTS Size,
          PacketSize, \* samples of a packet
          Table,      \* whole parts of SawAM's fTable, for those of its places 0 .. 255 that
                      \* orders name
          Effect      \* initially, and what may come: [kind; values: in orders;
                      \* orders, samples, calls: bounds on orders, packets, the timer's calls]

(* Size \div 4, at first, is 11025.  Of fTable only the last is over 255. *)
ASSUME EffectAssumption == Size \in Nat /\ Size >= 4 /\ PacketSize \in Nat \ {0}
ASSUME TableAssumption ==
    \A v \in DOMAIN Table : v \in 0 .. 255 /\ Table[v] \in Nat /\ (v < 255 => Table[v] <= 255)

VARIABLES
    effect,
    delay,   \* [ps, dp, bypassing; buf: the number of the sample put at a place, if any;
             \*  left: samples of the packet still to come;
             \*  n: samples so far, since, cleared: how many when ps was set, buf cleared;
             \*  echo: the last sample, the one added to it; over: buf was left;
             \*  odd: a duration of 0, or of the whole buffer, was ordered]
    filter,  \* [freq, q, alpha (the q in it), bypassing, coef; todo: coefficients to be calculated;
             \*  copy: those a packet has taken; nan;
             \*  ordered: <<freq, q>> of the last order; met: calculated while a packet took
             \*  them; zero: calculated with a q of 0]
    synth    \* [stage, playing, freq, sent0, call: where the timer's call is, out: last sent;
             \*  zeros: sent since the last value, carry: what sent0 was before it;
             \*  outside: a place outside fTable was read; top: the last one was ordered, or one
             \*  outside;
             \*  missing: an outlet was used that is not there]

effects == <<effect, delay, filter, synth>>

Coef == {"a0", "a1", "a2", "b0", "b1", "b2"}
CoefOrder == <<"a0", "a1", "a2", "b0", "b1", "b2">>
Coefficient(c, f, alpha) == IF c \in {"a0", "a2"} THEN <<f, alpha>> ELSE <<f>>

EffectsInit ==
    /\ effect \in Effect
    /\ delay = [ps |-> Size \div 4, dp |-> 0, bypassing |-> FALSE, buf |-> <<>>, left |-> 0, n |-> 0,
                since |-> 0, cleared |-> 0, echo |-> [at |-> 0, of |-> 0, cleared |-> 0], over |-> FALSE,
                odd |-> FALSE]
    /\ filter = [freq |-> 1600, q |-> 8, alpha |-> 8, bypassing |-> FALSE,
               coef |-> [c \in Coef |-> Coefficient(c, 1600, 8)],
               todo |-> <<>>, copy |-> <<>>, nan |-> FALSE, ordered |-> <<1600, 8>>, met |-> FALSE,
                 zero |-> FALSE]
    /\ synth = [stage |-> "registered", playing |-> TRUE, freq |-> 0, sent0 |-> 0, call |-> "idle",
                out |-> 0, zeros |-> 0, carry |-> 0, outside |-> FALSE, top |-> FALSE, missing |-> FALSE]

Ordered(kind) == effect.kind = kind /\ effect.orders > 0 /\ effect' = [effect EXCEPT !.orders = @ - 1]
Packet(kind) == effect.kind = kind /\ effect.samples > 0 /\ effect' = [effect EXCEPT !.samples = @ - 1]
Call(kind) == effect.kind = kind /\ effect.calls > 0 /\ effect' = [effect EXCEPT !.calls = @ - 1]

-----------------------------------------------------------------------------
(* Delay *)

(* A value of 510 is the whole buffer; any but 0 is at least one place. *)
Duration(v) == (v * Size + 509) \div 510

setDt(v) == delay' = IF v = -1 THEN delay
                     ELSE [delay EXCEPT !.ps = Duration(v), !.since = delay.n,
                                        !.odd = @ \/ Duration(v) \notin 1 .. Size - 1]

bypass(v) == delay' = IF v = -1 THEN delay
                      ELSE [delay EXCEPT !.bypassing = (v < 1), !.buf = <<>>, !.cleared = delay.n]

(* Mutant: the position goes back one place earlier. *)
NextPlaceOff(dp, ps) == IF ps = 0 \/ dp < ps - 1 THEN dp + 1 ELSE 0

(* dp is unsigned, so is the comparison with ps - 1. *)
NextPlace(dp, ps) == IF ps = 0 \/ dp <= ps - 1 THEN dp + 1 ELSE 0

DelayPacket == /\ Packet("delay") /\ delay.left = 0 /\ ~ delay.over
               /\ delay' = IF delay.bypassing THEN delay ELSE [delay EXCEPT !.left = PacketSize]

DelaySample ==
    /\ delay.left > 0 /\ ~ delay.over
    /\ delay' = IF delay.dp >= Size THEN [delay EXCEPT !.over = TRUE]
                ELSE LET n == delay.n + 1
                         stored == IF delay.dp \in DOMAIN delay.buf THEN delay.buf[delay.dp] ELSE 0
                     IN [delay EXCEPT !.n = n, !.left = @ - 1, !.dp = NextPlace(@, delay.ps),
                           !.buf = [p \in DOMAIN @ \union {delay.dp} |-> IF p = delay.dp THEN n ELSE @[p]],
                           !.echo = [at |-> n, of |-> stored, cleared |-> delay.cleared]]
    /\ UNCHANGED effect

Delay == /\ \/ Ordered("delay") /\ \E v \in effect.values : setDt(v) \/ bypass(v)
            \/ DelayPacket \/ DelaySample
         /\ UNCHANGED <<filter, synth>>

-----------------------------------------------------------------------------
(* Lowpass *)

setFreq(v) == IF v = -1 THEN UNCHANGED filter
              ELSE filter' = [filter EXCEPT !.freq = v, !.alpha = filter.q, !.todo = CoefOrder,
                                            !.ordered = <<v, filter.q>>, !.zero = @ \/ filter.q = 0,
                                            !.met = filter.copy # <<>>]

setQ(v) == filter' = [filter EXCEPT !.q = IF v = -1 THEN @ ELSE v]

bypassFilter(v) == filter' = [filter EXCEPT !.bypassing = IF v = -1 THEN @ ELSE v < 1]

(* calcCoef, on the thread of the order *)
Calculate == /\ filter.todo # <<>>
             /\ LET c == Head(filter.todo) IN
                filter' = [filter EXCEPT !.coef[c] = Coefficient(c, filter.freq, filter.alpha), !.todo = Tail(@)]
             /\ UNCHANGED effect

(* stream takes the coefficients one after the other, *)
Take == LET k == Len(filter.copy) + 1 IN
        /\ k <= 6
        /\ IF k = 1 THEN Packet("lowpass") ELSE UNCHANGED effect
        /\ filter' = [filter EXCEPT !.copy = Append(@, filter.coef[CoefOrder[k]]),
                                    !.met = (k > 1 /\ @) \/ filter.todo # <<>>]

(* and filters the samples; alpha is infinite for a q of 0, a2/a0 is not a *)
(* number or infinite, and neither is out1, which comes back for ever.     *)
Filter == /\ Len(filter.copy) = 6
          /\ filter' = [filter EXCEPT !.copy = <<>>,
                          !.nan = @ \/ (~ filter.bypassing /\ filter.copy[3][2] = 0)]
          /\ UNCHANGED effect

Lowpass == /\ \/ Ordered("lowpass") /\ filter.todo = <<>> /\ \E v \in effect.values : setFreq(v) \/ setQ(v) \/ bypassFilter(v)
              \/ Calculate \/ Take \/ Filter
           /\ UNCHANGED <<delay, synth>>

-----------------------------------------------------------------------------
(* AMSynth and its SawAM *)

(* The end of SawAM::init, which has already registered level: setOutNum,  *)
(* first the number, then the routing table; connectTo.                    *)
SynthMade ==
    /\ effect.kind = "synth" /\ ~ synth.missing /\ synth.stage \in {"registered", "outlets"}
    /\ synth' = [synth EXCEPT !.stage = IF @ = "registered" THEN "outlets" ELSE "made"]
    /\ UNCHANGED effect

playstop(v) == synth' = [synth EXCEPT !.playing = v >= 1]

(* saw.freq is an index of fTable, and gets a frequency out of it; outside *)
(* there is other memory.                                                  *)
freq(v) == synth' = IF v \in DOMAIN Table THEN [synth EXCEPT !.freq = Table[v], !.top = @ \/ v = 255]
                    ELSE [synth EXCEPT !.outside = TRUE, !.top = TRUE]

(* SawAM's own /Freq *)
sawFreq(v) == synth' = [synth EXCEPT !.freq = IF v > 0 THEN v ELSE @, !.top = @ \/ v > 255]

SynthPacket == /\ Packet("synth") /\ synth.stage = "made"
               /\ synth' = [synth EXCEPT !.outside = @ \/ synth.freq > 255]

(* SawAM::level, a callback of the timer: sendDataTo, and AMSynth::level   *)
(* up to the test of isPlaying                                             *)
Level == /\ Call("synth") /\ synth.call = "idle"
         /\ synth' = CASE synth.stage = "registered" -> synth
                       [] synth.stage = "outlets" -> [synth EXCEPT !.missing = TRUE]
                       [] OTHER -> [synth EXCEPT !.call = IF synth.playing THEN "value"
                                                          ELSE IF synth.sent0 # 5 THEN "zero" ELSE @]

LevelSends ==
    /\ synth.call # "idle"
    /\ synth' = IF synth.call = "value"
                THEN [synth EXCEPT !.call = "idle", !.out = 1, !.zeros = 0,
                        !.carry = IF synth.sent0 = 5 THEN 0 ELSE synth.sent0,
                        !.sent0 = IF @ = 5 THEN 0 ELSE @]
                ELSE [synth EXCEPT !.call = "idle", !.out = 0, !.zeros = @ + 1, !.sent0 = @ + 1]
    /\ UNCHANGED effect

Synth == /\ \/ /\ Ordered("synth") /\ synth.stage = "made"
               /\ \/ \E v \in {0, 1} : playstop(v)
                  \/ \E v \in effect.values : freq(v) \/ sawFreq(v)
            \/ SynthMade \/ SynthPacket \/ Level \/ LevelSends
         /\ UNCHANGED <<delay, filter>>

EffectsNext == Delay \/ Lowpass \/ Synth

-----------------------------------------------------------------------------
(* The echo comes one sample later than the duration, and nothing from     *)
(* before the buffer was cleared, as soon as the position has gone round   *)
(* twice with the same duration.  The buffer is left only after a duration *)
(* of 0, or of the whole buffer, was ordered.                              *)
EchoExact ==
    /\ LET e == delay.echo  due == e.at - (delay.ps + 1) IN
       ~ delay.odd /\ e.at - delay.since > 2 * (delay.ps + 1)
           => e.of = IF due > e.cleared THEN due ELSE 0
    /\ delay.over => delay.odd

(* A packet is filtered with the coefficients of the last order for the    *)
(* frequency - a later one for q changes nothing - unless that order was   *)
(* handled while the packet took them; and what is heard stops being       *)
(* numbers only where the frequency was ordered with a q of 0.             *)
FilteredAsOrdered ==
    /\ Len(filter.copy) = 6 /\ ~ filter.met =>
          \A k \in 1 .. 6 : filter.copy[k] = Coefficient(CoefOrder[k], filter.ordered[1], filter.ordered[2])
    /\ filter.nan => filter.zero

(* The level that is shown goes to 0 after a stop, with five zeros sent,   *)
(* or as many fewer as had been sent when it was started again; fTable is  *)
(* left only after 255 or what is outside was ordered, and an outlet       *)
(* missed only in making.                                                  *)
LevelGoesDown ==
    /\ synth.call = "idle" /\ ~ synth.playing /\ synth.sent0 = 5 =>
          synth.out = 0 /\ synth.zeros + synth.carry = 5 /\ synth.zeros > 0
    /\ synth.outside => synth.top
    /\ synth.missing => synth.stage = "outlets"

(* What the effects do to the packets, and what they show. *)
EffectsInv == EchoExact /\ FilteredAsOrdered /\ LevelGoesDown
===============================================================================
