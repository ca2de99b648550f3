----------------------------- MODULE SerialSoundMC -----------------------------
EXTENDS SerialSound

CONSTANTS d1, d2, g1, g2, k1, k2, m1, m2, m3, s1, s2, a1, p1, p2, mic1, mic2, sp1, sp2

MCModule == <<m1, m2, m3>>

(* The lines.  A frame is as long as 5 bytes, ReadMax three times that, as *)
(* 255 is fifteen times 17; the check of the value 5 is a 10, which ends a *)
(* line, the value 10 ends it before the check.                            *)
F(value) == <<START, 1, 240, value>>
Line(name, bursts) == [parser |-> name, bursts |-> bursts, noise |-> FALSE, orders |-> 2]
Steady(line) == [line EXCEPT !.orders = 0]
Run(from) == [k \in 1 .. 7 |-> IF k = 7 THEN <<0, 10>> ELSE <<0, from + k>>]

Quiet == [file |-> 4, timer |-> FALSE, looping |-> TRUE, ctor |-> TRUE,
          orders |-> 0, beats |-> 0, life |-> 0]

LineScenarios == {
    Line("pairs", <<<<<<0, 10>>>>, <<<<0, 13>>, <<0, 70>>, <<0, 10>>>>>>),
    [Line("pairs", <<<<<<0, 80>>, <<0, 10>>>>, <<<<0, 10>>>>>>) EXCEPT !.noise = TRUE],
    Line("pairs", <<<<<<0, 4>>, <<0, 3>>, <<0, 10>>>>>>),
    Line("pairs", <<[k \in 1 .. 8 |-> <<0, k + 20>>], <<<<0, 10>>>>>>),
    Line("frames", <<<<F(5)>>, <<F(7)>>, <<F(20), F(30), F(5)>>, <<F(10)>>, <<F(10)>>, <<F(5)>>>>),
    Line("frames", <<<<F(5)>>, <<F(13)>>, <<F(6)>>, <<F(10)>>>>),
    Line("frames", <<<<F(10)>>, <<F(20), F(10)>>, <<F(5)>>>>),
    Line("frames", <<<<F(3)>>, <<F(8)>>, <<F(5)>>, <<F(2), F(9), F(5)>>>>),
    [Line("frames", <<<<F(5)>>, <<F(3), F(5)>>>>) EXCEPT !.noise = TRUE]}

(* Three times seven pairs go round the ring. *)
Round == Line("pairs", <<Run(20), Run(30), Run(70)>>)

SoundScenarios == {
    [Quiet EXCEPT !.file = 3, !.timer = TRUE, !.orders = 3, !.beats = 2],
    [Quiet EXCEPT !.file = 3, !.timer = TRUE, !.orders = 2, !.beats = 2, !.looping = FALSE],
    [Quiet EXCEPT !.file = 1, !.orders = 2],
    [Quiet EXCEPT !.file = 0, !.orders = 5],
    [Quiet EXCEPT !.file = 2, !.timer = TRUE, !.orders = 2, !.beats = 1, !.life = 3],
    [Quiet EXCEPT !.file = 2, !.timer = TRUE, !.orders = 2, !.beats = 1, !.life = 5],
    [Quiet EXCEPT !.file = 2, !.orders = 2, !.life = 3, !.ctor = FALSE]}

NoEffect == [kind |-> "none", values |-> {}, orders |-> 0, samples |-> 0, calls |-> 0]
Ordered1 == [NoEffect EXCEPT !.values = {-1, 0, 128, 255, 510}, !.orders = 2, !.samples = 8]

(* A control of one line for each effect, and orders alone. *)
Knob(v) == Steady(Line("pairs", <<<<<<0, v>>, <<0, 10>>>>>>))
Nobody  == Steady(Line("pairs", <<>>))
EffectScenarios ==
    {<<Nobody, [Ordered1 EXCEPT !.kind = "delay"]>>,
     <<Knob(255), [Ordered1 EXCEPT !.kind = "delay", !.orders = 1, !.values = {0}, !.samples = 5]>>,
     <<Nobody, [Ordered1 EXCEPT !.kind = "lowpass", !.values = {-1, 0, 80}, !.samples = 2]>>,
     <<Knob(0), [Ordered1 EXCEPT !.kind = "lowpass", !.orders = 1, !.values = {80}, !.samples = 1]>>,
     <<Nobody, [NoEffect EXCEPT !.kind = "synth", !.values = {0, 254, 255, 256}, !.orders = 3, !.samples = 1,
                                !.calls = 9]>>,
     <<Knob(255), [NoEffect EXCEPT !.kind = "synth", !.values = {0, 127}, !.orders = 1, !.samples = 2,
                                   !.calls = 1]>>}

(* Of fTable, 25 * 2^((i - 127) / 38). *)
MCTable == (0 :> 2) @@ (10 :> 2) @@ (127 :> 25) @@ (254 :> 253) @@ (255 :> 258)

(* What a process does with its sockets; of 17 ports two are tried.        *)
Does(first, does, calls, peers) == [todo |-> first, does |-> does, calls |-> calls, peers |-> peers]
NoCalls == Does(<<>>, {}, 0, 0)
ProcessScenarios == {
    Does(<<"udp", "tcp">>, {"server", "thread", "other"}, 2, 2),
    Does(<<"udp">>, {"address", "send", "other"}, 5, 0),
    Does(<<"tcp">>, {"address", "send", "other"}, 5, 1),
    Does(<<"udp">>, {"server", "address", "send"}, 6, 0),
    Does(<<>>, {"server"}, 3, 0),
    Does(<<"tcp">>, {"reply", "other"}, 4, 2),
    Does(<<"tcp">>, {"thread", "reply"}, 4, 2),
    Does(<<"tcp">>, {"thread", "itself"}, 5, 1)}

(* Texts and URLs of addresses *)
MCHosts == {<<"h">>, <<"fe80", ":", ":", "1">>, <<"2001", ":", "0", "db8", ":", ":", "1">>}
MCGroups == {<<"224">>}
MCHostName == <<"mic">>
MCPorts == {<<"80">>, <<"http">>, <<"/", "t", "/">>}
Without(body) == <<"osc", ":", "/", "/">> \o body
With(proto, body) == <<"osc", ".", proto, ":", "/", "/">> \o body
MCUrls == {Without(<<>>), Without(<<"h", "/">>), Without(<<"h", ":", "80", "/", "t">>),
           Without(<<"[", "fe80", ":", ":", "1", "]", ":", "80", "/">>),
           With("udp", <<"224", ":", "80">>), With("unix", <<"h", ":", "/", "t", "/">>), With("udp", <<>>), With("udp", <<"h">>), With("udp", <<"h", ":", "80">>), With("tcp", <<":", "80", "/">>),
           With("tcp", <<"[", "fe80", ":", ":", "1", "]", ":", "80", "/">>),
           With("unix", <<>>), With("unix", <<"h">>), With("unix", <<"/", "t">>), With("http", <<"h">>)}

Iface(name, ip, family) == [name |-> name, ip |-> ip, family |-> family]
MCInterfaces == <<Iface("tun", "none", "none"), Iface("lo", "::1", "other"), Iface("lo", "127.0.0.1", "inet"),
                  Iface("en", "10.0.0.1", "inet")>>

Asks(libc, does, calls) == [libc |-> libc, does |-> does, calls |-> calls]
Nothing == Asks("bsd", {}, 0)
Books == {Asks(libc, does, 2) : libc \in {"glibc", "bsd"}, does \in {{"url"}, {"new", "url"}, {"server"}}}
         \union {Asks("glibc", {"source", "url"}, 3), Asks("bsd", {"source", "tcp"}, 4), Asks("bsd", {"url", "udp"}, 4)}

(* PortAudio: four modules are made, one after the other, in four places;  *)
(* two calls fail.                                                         *)
NoDevices == [made |-> 0, fails |-> 0]
MCDevices == {[made |-> 4, fails |-> 2]}

(* A coordinator with two managers; Letters counts "/AudioIn" and so on.   *)
MCManager ==
    {[path |-> "/Mic", in |-> <<>>, out |-> <<"AudioOut">>],
     [path |-> "/Speaker", in |-> <<"AudioIn", ",", "Volume">>, out |-> <<"AudioOut", ",", "Level">>]}
MCLetters == ("AudioOut" :> 9) @@ ("AudioIn" :> 8) @@ ("Volume" :> 7) @@ ("Level" :> 6)
MCContaining == ("Mic" :> {"/Mic"}) @@ ("/" :> {"/Mic", "/Speaker"}) @@ ("Speaker" :> {"/Speaker"})
Uses(nid, tID, from, calls) == [nid |-> nid, tID |-> tID, from |-> from, heard |-> calls > 0, calls |-> calls]
NoUse == Uses(128, 0, FALSE, 0)
MCUsage == {Uses(128, 9, FALSE, 3), Uses(128, 99, FALSE, 3), Uses(128, 127, TRUE, 3), Uses(128, 0, TRUE, 3),
            Uses(2, 0, FALSE, 4)}

(* A Serial with two devices: made, changed and destroyed; with a device   *)
(* missing; and with modules that come, go and get orders.                 *)
PortUses(is, plugged, c, f, o) ==
    [made |-> is, there |-> plugged, calls |-> c, fails |-> f, sends |-> 1, orders |-> o]
NoSerial == PortUses(FALSE, {}, 0, 0, 0)
SerialUses == {PortUses(TRUE, {d1, d2}, 4, 1, 0), PortUses(TRUE, {d2}, 4, 0, 0), PortUses(TRUE, {d1, d2}, 2, 0, 2),
               PortUses(TRUE, {d1, d2}, 1, 0, 3)}

(* Two managers, with an empty address as in main *)
MCOsc == [g \in {g1, g2} |-> ""]

Apart(sockets_, book_, devices_, usage, uses, calls) ==
    <<Nobody, Quiet, TRUE, NoEffect, sockets_, book_, devices_, usage, uses, calls>>
Alone(sockets_, book_, devices_, usage) == Apart(sockets_, book_, devices_, usage, NoSerial, 0)
Player(line, sound_, route, effect_) ==
    <<line, sound_, route, effect_, NoCalls, Nothing, NoDevices, NoUse, NoSerial, 0>>

MCScenario ==
    {Player(line, Quiet, b, NoEffect) : line \in LineScenarios, b \in BOOLEAN}
    \union {Player(Round, Quiet, TRUE, NoEffect)}
    \union {Player(Nobody, s, TRUE, NoEffect) : s \in SoundScenarios}
    \union {Player(Steady(Line("pairs", <<<<<<0, 10>>>>>>)), [Quiet EXCEPT !.life = 3], b, NoEffect) : b \in BOOLEAN}
    \union {Player(Knob(80), [Quiet EXCEPT !.timer = TRUE, !.orders = 1, !.beats = 1], TRUE, NoEffect)}
    \union {Player(e[1][1], Quiet, e[2], e[1][2]) : e \in {s \in EffectScenarios \X BOOLEAN : s[1][1] = Nobody => s[2]}}
    \union {Alone(s, Nothing, NoDevices, NoUse) : s \in ProcessScenarios}
    \union {Alone(NoCalls, s, NoDevices, NoUse) : s \in Books}
    \union {Alone(NoCalls, Nothing, s, NoUse) : s \in MCDevices}
    \union {Alone(NoCalls, Nothing, NoDevices, s) : s \in MCUsage}
    \union {Apart(NoCalls, Nothing, NoDevices, NoUse, s, 0) : s \in SerialUses}
    \union {Apart(NoCalls, Nothing, NoDevices, NoUse, NoSerial, 5)}

MCDevice == {s[1] : s \in MCScenario}
MCSound  == {s[2] : s \in MCScenario}
MCEffect == {s[4] : s \in MCScenario}
MCProcess == {s[5] : s \in MCScenario}
===============================================================================
