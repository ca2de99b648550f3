------------------------------ MODULE SerialSound ------------------------------
(***************************************************************************)
(* A control on the serial line sets the rate of an AudioSource, or one    *)
(* value of an effect: the first module of SerialInput sends the values    *)
(* (Module::sendDataTo) to its "/Data2", "/Duration", "/Q" or "/Freq".     *)
(* To an address on "localhost" a module calls the handler itself, on the  *)
(* serial thread; to others it sends datagrams, which here keep their      *)
(* order and may get lost.  Beside it, as in every process of MITAI, are   *)
(* the sockets that liblo keeps for its servers and addresses (LoSockets), *)
(* what those addresses say (LoAddress), the streams of PortAudio          *)
(* (AudioDevices), what a coordinator knows of modules (ModuleTokens), the *)
(* managers and their methods (ModuleManagers), and the life of the object *)
(* that reads the line (SerialDevice).                                     *)
(***************************************************************************)
EXTENDS SerialInput, AudioSource, Effects, LoSockets, AudioDevices, ModuleTokens, SerialDevice, ModuleManagers

CONSTANT Scenario   \* <<device, sound, local, effect, process, book, devices, usage, uses, calls>>

(* mListIDArray has 128 entries; what is plugged in is a device.           *)
ASSUME ScenarioAssumption ==
    \A s \in Scenario : s[8].nid \in 1 .. 128 /\ s[8].tID \in 0 .. s[8].nid /\ s[9].there \subseteq Dev

VARIABLES
    local,          \* the route is to "localhost"
    inbox,          \* datagrams on their way
    missed          \* the last value sent was not handled, or another has been ordered since

apart == <<sockets, book, devices, tokens, serialDevice, managers>>
vars == <<serial, audio, effects, apart, local, inbox, missed>>

Init == /\ \E s \in Scenario : device = s[1] /\ sound = s[2] /\ local = s[3] /\ effect = s[4] /\ process = s[5]
                             /\ AddressInit(s[6]) /\ DevicesInit(s[7]) /\ TokensInit(s[8])
                             /\ PortInit(s[9]) /\ ManagersInit(s[10])
        /\ SerialInit /\ AudioInit /\ EffectsInit /\ SocketsInit /\ inbox = <<>> /\ missed = FALSE

(* The handler, on either thread; a message without a method is dropped. *)
SettingRate(v) ==
    /\ IF Listens THEN data2(v) /\ SwitchedOn ELSE UNCHANGED <<player, resumed>>
    /\ missed' = ~ Listens
    /\ UNCHANGED <<sound, stage, rec, inBuf, upc, render, passedOn, fault, packets, silent, met, mixed, short>>
    /\ UNCHANGED effects

SettingEffect(v) ==
    /\ \/ effect.kind = "delay" /\ setDt(v) /\ UNCHANGED <<filter, synth>>
       \/ effect.kind = "lowpass" /\ setQ(v) /\ UNCHANGED <<delay, synth>>
       \/ effect.kind = "synth" /\ freq(v) /\ UNCHANGED <<delay, filter>>
    /\ missed' = FALSE /\ UNCHANGED <<audio, effect>>

Setting(v) == IF effect.kind = "none" THEN SettingRate(v) ELSE SettingEffect(v)

(* sendDataTo and module_send_i *)
SendData ==
    /\ Send
    /\ IF broken' # "no" \/ at # Module[1] THEN UNCHANGED <<audio, effects, inbox, missed>>
       ELSE LET v == Head(todo)[2] IN
            IF local THEN Setting(v) /\ UNCHANGED inbox
            ELSE inbox' = Append(inbox, v) /\ UNCHANGED <<audio, effects, missed>>
    /\ UNCHANGED local

Arrive == /\ inbox # <<>> /\ inbox' = Tail(inbox) /\ Idle /\ filter.todo = <<>>
          /\ Setting(Head(inbox))
          /\ UNCHANGED <<serial, local>>

Lose == /\ inbox # <<>> /\ inbox' = Tail(inbox) /\ missed' = TRUE
        /\ UNCHANGED <<serial, audio, effects, local>>

Controls ==
    \/ /\ DeviceSends \/ Read \/ Begin \/ Advance \/ Owner
       /\ UNCHANGED <<audio, effects, local, inbox, missed>>
    \/ SendData \/ Arrive \/ Lose
    \/ AudioThreads /\ missed' = (missed \/ rate' # rate) /\ UNCHANGED <<serial, effects, local, inbox>>
    \/ /\ EffectsNext /\ UNCHANGED <<serial, audio, local, inbox>>
       /\ missed' = (missed \/ effect'.orders # effect.orders)

Next == \/ Controls /\ UNCHANGED apart
        \/ /\ \/ SocketsNext /\ UNCHANGED <<book, devices, tokens, serialDevice, managers>>
              \/ AddressNext /\ UNCHANGED <<sockets, devices, tokens, serialDevice, managers>>
              \/ DevicesNext /\ UNCHANGED <<sockets, book, tokens, serialDevice, managers>>
              \/ TokensNext /\ UNCHANGED <<sockets, book, devices, serialDevice, managers>>
              \/ SerialDeviceNext /\ UNCHANGED <<sockets, book, devices, tokens, managers>>
              \/ ManagersNext /\ UNCHANGED <<sockets, book, devices, tokens, serialDevice>>
           /\ UNCHANGED <<serial, audio, effects, local, inbox, missed>>

Spec == Init /\ [][Next]_vars

-----------------------------------------------------------------------------
(* render reads outside the recording, or freed memory, only where one of  *)
(* these came before: the recording's memory changed while the timer       *)
(* thread rendered; playing was switched on, not at the beginning, in the  *)
(* middle of a recording; the recording is not longer than the rate - as   *)
(* with most rates that /fData sets; the module was deleted meanwhile.     *)
(* The buffers are missed only while the module is made or deleted, and    *)
(* packets for a deleted module arrive only if the constructor made it.    *)
FaultExplained ==
    /\ fault = "read" => met \/ resumed \/ short \/ stage = "gone"
    /\ fault = "buffers" => ~ HasBuffers
    /\ fault = "object" => sound.ctor

(* Every packet that comes is passed on exactly once; never if there is no *)
(* recording at all; anything can happen to it if the timer renders, too.  *)
EachPacketOnce ==
    Idle => \A p \in 1 .. packets :
        LET n == Cardinality({k \in 1 .. Len(passedOn) : passedOn[k] = p}) IN
        n = 1 \/ p \in mixed \/ (p \in silent /\ n <= 1)

(* From one end to the other: when everything has arrived, the rate, or    *)
(* the value of the effect, is that of the last value the device sent, if  *)
(* nothing else set it later, no line was disturbed and the last datagram  *)
(* was not lost.                                                           *)
ValueFollows ==
    /\ stage = "alive" /\ ~ Wrong /\ ~ Dead
    /\ device.bursts = <<>> /\ typed = <<>> /\ lines = <<>> /\ spc = "read" /\ inbox = <<>>
    /\ due # <<>> /\ ~ bad /\ ~ ragged /\ ~ missed
    => LET v == Last(due)[2] IN
       CASE effect.kind = "none" ->
              rate = IF v > 64 THEN (Part * v) \div 64 ELSE IF v > 0 THEN (Part * (63 + v)) \div 127 ELSE Part
         [] effect.kind = "delay" -> delay.ps = Duration(v)
         [] effect.kind = "lowpass" -> filter.q = v
         [] effect.kind = "synth" -> synth.freq = Table[v]

(* The serial line, from the device to the modules: what is parsed, and    *)
(* what it has set at the other end.                                       *)
LineInv == SerialInv /\ ValueFollows

(* What modules belong to, and what reads the line for them: the tokens of *)
(* a coordinator, the managers of a process with the methods they share,   *)
(* and the Serial of an ObjectManager.                                     *)
ObjectsInv == TokensInv /\ ManagersInv /\ PortInv

(* The AudioSource: what render touches, and what becomes of the packets.  *)
SoundInv == AudioTypeOK /\ FaultExplained /\ EachPacketOnce
===============================================================================
