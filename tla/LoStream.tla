------------------------------- MODULE LoStream --------------------------------
(***************************************************************************)
(* How liblo_new/server.c cuts messages out of one TCP stream, byte by     *)
(* byte (LoTcpServer has the sockets and whole parts instead): the buffer  *)
(* and its growth, what tells a SLIP stream from one with counts, and the  *)
(* counts that a SLIP stream gets in the buffer.                           *)
(*                                                                         *)
(* A context is [slip: -1, 0 or 1; state: of the decoder; buf: the bytes   *)
(* up to buffer_read_offset; msg: buffer_msg_offset; size: of the buffer]  *)
(* and over: memory behind a buffer was written, hung: the thread loops    *)
(* for ever, out: the messages dispatched.  Counts are below 256.  Of a    *)
(* SLIP stream a read that fills the room writes behind it, as no one      *)
(* leaves room for the counts; here that does no harm.                     *)
(***************************************************************************)
EXTENDS Integers, Sequences, SequencesExt

CONSTANTS
    MaxPacket,   \* bound: bytes of a packet that may need an escape
    Least,       \* 64, scaled
    StreamMax    \* LO_MAX_MSG_SIZE, scaled: Least times a power of 2

-----------------------------------------------------------------------------
(* SLIP: slip_encode of send.c, slip_decode of server.c. *)

SLIP_END == 192   SLIP_ESC == 219   SLIP_ESC_END == 220   SLIP_ESC_ESC == 221

SlipByte(b) == CASE b = SLIP_ESC -> <<SLIP_ESC, SLIP_ESC_ESC>>
                 [] b = SLIP_END -> <<SLIP_ESC, SLIP_ESC_END>>
                 [] OTHER        -> <<b>>

(* What is sent; the buffer for it, of twice data's length, also gets a 0. *)
slip_encode(data) == FoldLeft(LAMBDA s, b : s \o SlipByte(b), <<>>, data) \o <<SLIP_END>>

(* One pass of the loop.  The byte after SLIP_ESC is never looked at: the  *)
(* continue and the second switch leave from where it is.                  *)
SlipStep(decoder, from) ==
    IF decoder.ended THEN decoder
    ELSE LET b == from[decoder.at]
             d == [decoder EXCEPT !.read = @ + 1] IN
         CASE d.state = 1 /\ b = SLIP_ESC_END -> [d EXCEPT !.out = Append(@, SLIP_END), !.state = 0]
           [] d.state = 1 /\ b = SLIP_ESC_ESC -> [d EXCEPT !.out = Append(@, SLIP_ESC), !.state = 0]
           [] d.state = 1 -> [d EXCEPT !.state = 0]
           [] b = SLIP_END -> [d EXCEPT !.ended = TRUE]
           [] b = SLIP_ESC -> [d EXCEPT !.state = 1]
           [] OTHER        -> [d EXCEPT !.out = Append(@, b), !.at = @ + 1]

(* read counts the passes, which the caller takes for bytes.               *)
slip_decode(from, state) ==
    FoldLeft(LAMBDA d, k : SlipStep(d, from),
             [out |-> <<>>, at |-> 1, state |-> state, ended |-> FALSE, read |-> 0],
             [k \in 1 .. Len(from) |-> k])

(* A packet comes out of the decoder as it went into the encoder if it     *)
(* holds no byte that has to be escaped, and never otherwise; and what is  *)
(* sent has room in the buffer when four of the packet's bytes are plain.  *)
SlipOnlyPlain ==
    \A k \in 0 .. MaxPacket : \A data \in [1 .. k -> {0, SLIP_END, SLIP_ESC, SLIP_ESC_END}] :
        LET packet  == <<47, 0, 44, 0>> \o data
            decoded == slip_decode(slip_encode(packet), 0)
        IN /\ decoded.ended /\ decoded.out = packet <=> ToSet(data) \intersect {SLIP_END, SLIP_ESC} = {}
           /\ Len(slip_encode(packet)) + 1 <= 2 * Len(packet)

-----------------------------------------------------------------------------
(* The stream *)

Letter == 97   Foreign200 == 200
Printable(b) == b = 0 \/ b \in 32 .. 126

init_context == [slip |-> -1, state |-> 0, buf |-> <<>>, msg |-> 0, size |-> 0,
                 over |-> FALSE, hung |-> FALSE, out |-> <<>>]

(* The 4 bytes of a count *)
Count(n) == <<0, 0, 0, n>>
CountAt(buf) == IF buf[1] = 0 /\ buf[2] = 0 /\ buf[3] = 0 THEN buf[4] ELSE StreamMax

(* Of the bytes of the buffer up to the count that is written at msg.      *)
PutCount(buf, at, n) == SubSeq(buf, 1, at) \o Count(n) \o SubSeq(buf, at + 5, Len(buf))

Bun == <<35, 98, 117, 110>>   \* "#bun"
detect_slip(b) ==
    \/ b[1] = SLIP_END /\ b[2] = 47 /\ Printable(b[3]) /\ Printable(b[4])
    \/ b[1] = 47 /\ \A k \in 2 .. 4 : Printable(b[k])
    \/ SubSeq(b, 1, 4) = Bun

(* lo_server_buffer_copy_for_dispatch: a count of 0 means no message.      *)
CopyForDispatch(c) ==
    LET n == CountAt(c.buf) IN
    IF Len(c.buf) > 4 /\ n > 0 /\ n + 4 <= Len(c.buf)
    THEN [c EXCEPT !.out = Append(@, SubSeq(c.buf, 5, n + 4)),
                   !.buf = SubSeq(@, n + 5, Len(@)), !.msg = @ - (n + 4)]
    ELSE c

(* lo_server_recv is called until nothing is left to dispatch.             *)
Drain(c) == FoldLeft(LAMBDA d, k : CopyForDispatch(d), c, [k \in 1 .. Len(c.buf) |-> k])

(* The size the buffer grows to for a read behind off bytes, or 0 if the   *)
(* loop does not end: room for less than half, and the limit reached.      *)
Grown(off, size) ==
    LET grown[s \in 1 .. 2 * StreamMax] ==
            IF s - off >= s \div 2 THEN s
            ELSE IF s = StreamMax THEN 0
            ELSE grown[IF 2 * s > StreamMax THEN StreamMax ELSE 2 * s]
    IN IF size = 0 THEN 2 * Least ELSE grown[size]

(* A pass of the loop over what a read in SLIP mode has brought (d.rest).  *)
SlipPass(d) ==
    IF d.rest = <<>> THEN d
    ELSE LET decoded == slip_decode(d.rest, d.c.state)
             buf     == d.c.buf \o decoded.out
             n       == Len(buf) - d.c.msg - 4
             rest    == SubSeq(d.rest, decoded.read + 1, Len(d.rest))
             c       == [d.c EXCEPT !.state = decoded.state,
                                    !.over = @ \/ Len(buf) + (IF decoded.ended THEN 4 ELSE 0) > d.c.size]
         IN IF ~ decoded.ended THEN [c |-> [c EXCEPT !.buf = buf], rest |-> <<>>]
            ELSE [c |-> [c EXCEPT !.buf = PutCount(buf, c.msg, n) \o Count(0), !.msg = @ + n + 4,
                                  !.size = IF Len(rest) + 4 > @ - (Len(buf) + 4) THEN 2 * @ ELSE @],
                  rest |-> rest]

(* lo_server_recv_raw_stream_socket behind recv(), which has brought bytes *)
Take(sc, bytes) ==
    LET all   == sc.buf \o bytes
        slip  == IF sc.slip = -1 /\ Len(all) >= 4
                 THEN IF detect_slip(SubSeq(all, sc.msg + 1, Len(all))) THEN 1 ELSE 0
                 ELSE sc.slip
        begun == [sc EXCEPT !.slip = slip,
                            !.buf  = IF sc.slip = -1 /\ slip = 1 THEN @ \o Count(0) ELSE @,
                            !.over = @ \/ (sc.slip = 1 /\ Len(bytes) > sc.size - Len(sc.buf) - 4)]
    IN IF slip # 1 THEN [sc EXCEPT !.slip = slip, !.buf = all]
       ELSE FoldLeft(LAMBDA d, k : SlipPass(d), [c |-> begun, rest |-> bytes],
                     [k \in 1 .. Len(bytes) |-> k]).c

(* A stream of which recv() returns the bytes up to the next of cuts, or   *)
(* as many as there is room for.                                           *)
ReadStream(stream, cuts) ==
    LET Read1(r) ==
            IF r.at = Len(stream) \/ r.c.hung THEN r
            ELSE LET size == Grown(Len(r.c.buf), r.c.size)
                     room == size - Len(r.c.buf)
                     next == CHOOSE k \in cuts \union {Len(stream)} : k > r.at /\
                                 \A l \in cuts : l > r.at => k <= l
                     upto == IF next - r.at > room THEN r.at + room ELSE next
                 IN IF size = 0 THEN [r EXCEPT !.c.hung = TRUE]
                    ELSE [at |-> upto,
                          c |-> Drain(Take([r.c EXCEPT !.size = size],
                                           SubSeq(stream, r.at + 1, upto)))]
    IN FoldLeft(LAMBDA r, k : Read1(r), [c |-> init_context, at |-> 0],
                [k \in 1 .. Len(stream) |-> k]).c

-----------------------------------------------------------------------------
Packets4 == {<<47, Letter, 0, 0>>, <<47, Foreign200, 0, 0>>}
Counted(packets)  == FoldLeft(LAMBDA s, p : s \o Count(Len(p)) \o p, <<>>, packets)
SlipCoded(packets) == FoldLeft(LAMBDA s, p : s \o slip_encode(p), <<>>, packets)
FirstRead(stream, cuts) == IF cuts = {} THEN Len(stream) ELSE CHOOSE k \in cuts : \A l \in cuts : k <= l

(* Two packets in a SLIP stream are dispatched as they were, however it is *)
(* cut, if and only if the first read brings four bytes or more, which are *)
(* printable, and no SLIP_END comes first, although detect_slip says it    *)
(* handles one.  Behind such a SLIP_END nothing is ever dispatched.        *)
SlipStreams ==
    \A p, q \in Packets4, lead \in BOOLEAN :
        LET stream == (IF lead THEN <<SLIP_END>> ELSE <<>>) \o SlipCoded(<<p, q>>) IN
        \A cuts \in SUBSET (1 .. Len(stream) - 1) :
            LET c == ReadStream(stream, cuts) IN
            /\ c.out = <<p, q>> <=> ~ lead /\ p[2] = Letter /\ FirstRead(stream, cuts) >= 4
            /\ lead /\ FirstRead(stream, cuts) >= 4 => c.out = <<>>

(* Messages behind their counts are dispatched as they are, however the    *)
(* stream is cut, as long as the thread does not loop for ever - which it  *)
(* can, if a message that liblo sends is longer than half the limit, and   *)
(* only then; nothing is written behind a buffer.                          *)
CountedStreams ==
    /\ \A cuts \in SUBSET (1 .. 10) :
           LET c == ReadStream(Counted(<<<<47, 0>>, <<47>>>>), cuts)
           IN c.out = <<<<47, 0>>, <<47>>>> /\ ~ c.over
    /\ \A n \in 1 .. StreamMax \div 4 :
           LET p == [k \in 1 .. 4 * n |-> Letter]
               stream == Counted(<<p>>)
               reads == {ReadStream(stream, cuts) : cuts \in {{}} \union {{k \in 1 .. Len(stream) - 1 : k % m = 0} : m \in 1 .. 4}}
           IN /\ \A c \in reads : ~ c.over /\ ((c.out = <<p>>) <=> ~ c.hung)
              /\ (\E c \in reads : c.hung) <=> Len(stream) - 1 > StreamMax \div 2

StreamsCut == SlipStreams /\ CountedStreams
================================================================================
