--------------------------- MODULE StreamingBuffer ---------------------------
(***************************************************************************)
(* StreamingBuffer.cpp and Volume.cpp as the DAC uses them: the thread of  *)
(* the UDP server pushes packets and sets the volume and the size of the   *)
(* buffer, the audio thread pops.  No lock; a step is a statement or a run *)
(* of statements on variables of one thread.                               *)
(*                                                                         *)
(* The float rp is counted in Unit parts of a sample.  rate moves smoothly *)
(* towards r, at most one part away from a sample: here it stays or makes  *)
(* a step.  The samples' values, their interpolation and the envelope are  *)
(* left out; pushSt and popMono, which the DAC does not call, too.         *)
(***************************************************************************)
EXTENDS Integers

CONSTANTS
    MAX_PACKET,   \* samples in the ring
    Unit,         \* parts of a sample
    InPacket, OutPacket,
    BufferSizes,  \* the values of bs, the first being that of the constructor
    FirstSize,
    Volumes, FirstVolume

ASSUME BufferAssumption ==
    /\ MAX_PACKET \in Nat /\ Unit \in Nat /\ Unit > 1
    /\ InPacket \in 1 .. MAX_PACKET - 1 /\ OutPacket \in Nat \ {0}
    /\ BufferSizes \subseteq 0 .. MAX_PACKET - 1 /\ FirstSize \in BufferSizes
    /\ Volumes \subseteq 1 .. 127 /\ FirstVolume \in Volumes

VARIABLES
    wp, rp, rate, bs, isPlaying,
    vVal, vValcpy,     \* of the Volume
    upc, ud, ui, uv,   \* the UDP thread: where it is, its locals d, i, value
    opc, od, oi, aim,   \* the audio thread: where it is, its locals d, i, r
    \* what the properties need to know of the past
    left,     \* how far the reader is behind the writer, negative when ahead
    misread,  \* this pop took a reader that is ahead for one far behind, or
              \* the writer came round meanwhile
    wanted,   \* the volume last set
    cut       \* a stop came between the two assignments of setVol

ring   == <<wp, rp, rate, bs, isPlaying>>
volume == <<vVal, vValcpy>>
udp    == <<upc, ud, ui, uv>>
audio  == <<opc, od, oi, aim>>
ghosts == <<left, misread, wanted, cut>>
bufferVars == <<ring, volume, udp, audio, ghosts>>

Length == MAX_PACKET * Unit
Rates  == Unit - 1 .. Unit + 1

BufferTypeOK ==
    /\ wp \in 0 .. MAX_PACKET - 1 /\ rp \in 0 .. Length - 1 /\ rate \in Rates
    /\ bs \in BufferSizes /\ isPlaying \in BOOLEAN
    /\ vVal \in Volumes \union {0} /\ vValcpy \in Volumes \union {0}
    /\ upc \in {"idle", "fill", "test", "unmute", "start", "copy"}
    /\ ud \in 0 .. Length - 1 /\ ui \in 0 .. InPacket /\ uv \in Volumes
    /\ opc \in {"idle", "loop", "mute", "stop"}
    /\ od \in 0 - Unit .. Length - 1 /\ oi \in 0 .. OutPacket /\ aim \in Rates
    /\ left \in 1 - Length .. Length - 1
    /\ misread \in BOOLEAN /\ cut \in BOOLEAN /\ wanted \in Volumes

BufferInit ==
    /\ wp = 0 /\ rp = 0 /\ rate = Unit /\ bs = FirstSize /\ isPlaying = FALSE
    /\ vVal = FirstVolume /\ vValcpy = FirstVolume
    /\ upc = "idle" /\ ud = 0 /\ ui = 0 /\ uv = FirstVolume
    /\ opc = "idle" /\ od = 0 /\ oi = 0 /\ aim = Unit
    /\ left = 0 /\ misread = FALSE /\ wanted = FirstVolume /\ cut = FALSE

(* d as push and pop compute it. *)
Distance == LET d == wp * Unit - rp IN IF d < 0 THEN d + Length ELSE d

(* The writer that comes round drops a whole ring, as does the reader.     *)
Moved(n) == CASE n >= Length     -> n - Length
              [] n + Length <= 0 -> n + Length
              [] OTHER           -> n

-----------------------------------------------------------------------------
(* The UDP thread: pushMono *)

Return == upc' = "idle" /\ ud' = 0 /\ ui' = 0 /\ uv' = FirstVolume

PushStart ==
    /\ upc = "idle"
    /\ upc' = "fill" /\ ud' = Distance /\ ui' = 0
    /\ UNCHANGED <<ring, volume, uv, audio, ghosts>>

Fill ==
    /\ upc = "fill" /\ ui < InPacket
    /\ wp' = (wp + 1) % MAX_PACKET
    /\ left' = Moved(left + Unit)
    /\ ui' = ui + 1
    /\ upc' = IF ui + 1 = InPacket THEN "test" ELSE "fill"
    /\ misread' = (misread \/ left + Unit >= Length)
    /\ UNCHANGED <<rp, rate, bs, isPlaying, volume, ud, uv, audio, wanted, cut>>

(* Mutant: the test of the playing flag is forgotten. *)
TestLevelOnly ==
    /\ upc = "test"
    /\ IF ud + InPacket * Unit > bs * Unit
       THEN upc' = "unmute" /\ UNCHANGED <<ud, ui, uv>>
       ELSE Return
    /\ UNCHANGED <<ring, volume, audio, ghosts>>

(* Mutant: playing starts from an empty buffer only. *)
TestEmpty ==
    /\ upc = "test"
    /\ IF ud = 0 /\ InPacket > bs /\ ~ isPlaying
       THEN upc' = "unmute" /\ UNCHANGED <<ud, ui, uv>>
       ELSE Return
    /\ UNCHANGED <<ring, volume, audio, ghosts>>

TestLevel ==
    /\ upc = "test"
    /\ IF ud + InPacket * Unit > bs * Unit /\ ~ isPlaying
       THEN upc' = "unmute" /\ UNCHANGED <<ud, ui, uv>>
       ELSE Return
    /\ UNCHANGED <<ring, volume, audio, ghosts>>

muteOFF ==
    /\ upc = "unmute" /\ upc' = "start"
    /\ vVal' = vValcpy
    /\ UNCHANGED <<ring, vValcpy, ud, ui, uv, audio, ghosts>>

StartPlaying ==
    /\ upc = "start" /\ Return
    /\ isPlaying' = TRUE
    /\ UNCHANGED <<wp, rp, rate, bs, volume, audio, ghosts>>

(* setVol; the build reads vVal again or still has the value. *)
SetVal(v) ==
    /\ upc = "idle" /\ upc' = "copy"
    /\ vVal' = v /\ uv' = v /\ wanted' = v
    /\ UNCHANGED <<ring, vValcpy, ud, ui, audio, left, misread, cut>>

SetCopy ==
    /\ upc = "copy" /\ Return
    /\ vValcpy' \in {vVal, uv}
    /\ UNCHANGED <<ring, vVal, audio, ghosts>>

SetSize(b) ==
    /\ upc = "idle"
    /\ bs' = b
    /\ UNCHANGED <<wp, rp, rate, isPlaying, volume, udp, audio, ghosts>>

-----------------------------------------------------------------------------
(* The audio thread: pop *)

PopStart ==
    /\ opc = "idle" /\ opc' = "loop" /\ oi' = 0
    /\ od' = Distance
    /\ aim' = CASE 2 * Distance > 3 * bs * Unit  -> Unit + 1
               [] 10 * Distance < 9 * bs * Unit -> Unit - 1
               [] OTHER                         -> Unit
    /\ misread' = (left < 0)
    /\ UNCHANGED <<ring, volume, udp, left, wanted, cut>>

InLoop == opc = "loop" /\ oi < OutPacket

Around(p) == IF p >= Length THEN p - Length ELSE p

(* rate goes towards r. *)
Nearer == {rate, IF aim > rate THEN rate + 1 ELSE IF aim < rate THEN rate - 1 ELSE rate}

(* Mutant: what is left is not asked for. *)
PlayBlindly ==
    /\ InLoop /\ isPlaying /\ od > 1 - Unit
    /\ \E k \in Nearer :
          /\ rate' = k /\ rp' = Around(rp + k)
          /\ od' = od - k /\ left' = Moved(left - k)
    /\ oi' = oi + 1
    /\ UNCHANGED <<wp, bs, isPlaying, volume, udp, opc, aim, misread, wanted, cut>>

Play ==
    /\ InLoop /\ isPlaying /\ od > 0
    /\ \E k \in Nearer :
          /\ rate' = k /\ rp' = Around(rp + k)
          /\ od' = od - k /\ left' = Moved(left - k)
    /\ oi' = oi + 1
    /\ UNCHANGED <<wp, bs, isPlaying, volume, udp, opc, aim, misread, wanted, cut>>

Silence ==
    /\ InLoop /\ ~ isPlaying
    /\ oi' = oi + 1
    /\ UNCHANGED <<ring, volume, udp, opc, od, aim, ghosts>>

RunDry ==
    /\ InLoop /\ isPlaying /\ od <= 0
    /\ opc' = "mute"
    /\ UNCHANGED <<ring, volume, udp, od, oi, aim, ghosts>>

(* Mutant: the copy is muted, too. *)
muteBoth ==
    /\ opc = "mute" /\ opc' = "stop"
    /\ vVal' = 0 /\ vValcpy' = 0
    /\ cut' = (cut \/ upc = "copy")
    /\ UNCHANGED <<ring, udp, od, oi, aim, left, misread, wanted>>

muteON ==
    /\ opc = "mute" /\ opc' = "stop"
    /\ vVal' = 0
    /\ cut' = (cut \/ upc = "copy")
    /\ UNCHANGED <<ring, vValcpy, udp, od, oi, aim, left, misread, wanted>>

StopPlaying ==
    /\ opc = "stop" /\ opc' = "loop"
    /\ isPlaying' = FALSE /\ oi' = oi + 1
    /\ UNCHANGED <<wp, rp, rate, bs, volume, udp, od, aim, ghosts>>

PopEnd ==
    /\ opc = "loop" /\ oi = OutPacket
    /\ opc' = "idle" /\ od' = 0 /\ oi' = 0 /\ aim' = Unit /\ misread' = FALSE
    /\ UNCHANGED <<ring, volume, udp, left, wanted, cut>>

-----------------------------------------------------------------------------
Handler == Fill \/ TestLevel \/ muteOFF \/ StartPlaying \/ SetCopy
UDP     == PushStart \/ Handler \/ (\E v \in Volumes : SetVal(v))
           \/ (\E b \in BufferSizes : SetSize(b))
Pop     == PopStart \/ Play \/ Silence \/ RunDry \/ muteON \/ StopPlaying \/ PopEnd
BufferNext == UDP \/ Pop

BufferSpec == BufferInit /\ [][BufferNext]_bufferVars

(* The threads run on, and packets keep coming, whatever else comes.       *)
FairSpec == BufferSpec /\ WF_bufferVars(Handler) /\ WF_bufferVars(Pop) /\ SF_bufferVars(PushStart)

-----------------------------------------------------------------------------
(* What is played has been pushed and not been played, although pop counts *)
(* down a distance that pushes outdate: unless this pop began with a       *)
(* reader that had run ahead by part of a sample when the last one ended,  *)
(* or the writer overtook it.                                              *)
PlaysWhatIsThere == [][rp' # rp => left > 0 \/ misread]_bufferVars

(* While something is played, it is played at the volume to return to.     *)
Audible == isPlaying /\ opc # "stop" /\ upc # "copy" => vVal = vValcpy

(* Positions stay in the ring and counts in their packets, however rates   *)
(* and sizes change, and what sounds sounds at the right volume.           *)
BufferInv == BufferTypeOK /\ Audible

(* No stop makes the buffer forget the volume that was set, unless it came *)
(* between the two assignments of setVol.                                  *)
VolumeKept == upc # "copy" => vValcpy = wanted \/ cut

(* Whatever made it run dry, it plays again when packets keep coming.      *)
Resumes == ~ isPlaying ~> isPlaying
=============================================================================
