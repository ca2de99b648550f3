------------------------------- MODULE LoMessage -------------------------------
(***************************************************************************)
(* liblo_new/message.c: how a message is built, laid out in a packet and   *)
(* read back.  A packet is a sequence of bytes, a text one of character    *)
(* codes without the 0 at its end.  Numbers keep the order of the network  *)
(* in memory, too: the swaps of lo_arg_host_endian and                     *)
(* lo_arg_network_endian undo each other.  No allocation fails.            *)
(*                                                                         *)
(* An argument is [type, value]: its bytes, a text's characters, a blob's  *)
(* content.                                                                *)
(***************************************************************************)
EXTENDS Naturals, Sequences, SequencesExt, LoPattern

LO_DEF_TYPE_SIZE == 8
LO_DEF_DATA_SIZE == 8
TrueTypes  == {84, 70, 78, 73}      \* T F N I
FourBytes  == {105, 102, 109, 99}   \* i f m c
EightBytes == {104, 116, 100}       \* h t d
TextTypes  == {115, 83}             \* s S
BlobType   == 98                    \* b
Numerical  == {105, 102, 104, 100}  \* i f h d

Zeros(n) == [k \in 1 .. n |-> 0]
Huge     == 16777216   \* stands for every number that needs its highest byte
Bytes(n) == <<0, n \div 65536, (n \div 256) % 256, n % 256>>
(* lo_otoh32; byte k of a packet is d[k + 1] *)
Number(d, k) == IF d[k + 1] > 0 THEN Huge
                ELSE 65536 * d[k + 2] + 256 * d[k + 3] + d[k + 4]

lo_strsize(t) == 4 * (Len(t) \div 4 + 1)
Padded(t)     == t \o Zeros(lo_strsize(t) - Len(t))
lo_blobsize(n) == 4 * ((4 + n + 3) \div 4)

(* lo_pow2_over: the least a * 2^n that holds b *)
Pow2Over(a, b) == IF b <= a THEN a
                  ELSE CHOOSE k \in {a * 2 ^ n : n \in 1 .. 20} : k >= b /\ k < 2 * b

(* lo_message_new *)
EmptyMessage == [types |-> <<>>, typesize |-> LO_DEF_TYPE_SIZE, data |-> <<>>, datasize |-> 0]

(* lo_message_add_data, for data that is already laid out *)
AddData(m, d) ==
    LET size == IF m.datasize = 0 THEN LO_DEF_DATA_SIZE ELSE m.datasize
    IN [m EXCEPT !.data = @ \o d, !.datasize = Pow2Over(size, Len(m.data) + Len(d))]

(* lo_message_add_typechar; typelen counts the comma, and a 0 follows. *)
AddTypechar(m, t) ==
    [m EXCEPT !.types = Append(@, t),
              !.typesize = IF Len(m.types) + 2 >= @ THEN 2 * @ ELSE @]

(* lo_message_add_int32, _float; _int64, _timetag, _double; _midi; and     *)
(* _char, where the other bytes become 0                                   *)
AddFour(m, arg)  == AddTypechar(AddData(m, arg.value), arg.type)
AddEight(m, arg) == AddTypechar(AddData(m, arg.value), arg.type)
AddMidi(m, arg)  == AddTypechar(AddData(m, arg.value), 109)
AddChar(m, arg)  == AddTypechar(AddData(m, Zeros(3) \o <<Last(arg.value)>>), 99)
(* lo_message_add_string, _symbol: strncpy fills up with zeros *)
AddString(m, arg) == AddTypechar(AddData(m, Padded(arg.value)), 115)
AddSymbol(m, arg) == AddTypechar(AddData(m, Padded(arg.value)), 83)
(* lo_message_add_blob: the size, the content, zeros *)
AddBlob(m, arg) ==
    AddTypechar(AddData(m, Bytes(Len(arg.value)) \o arg.value
                              \o Zeros(lo_blobsize(Len(arg.value)) - 4 - Len(arg.value))), BlobType)
(* lo_message_add_true, _false, _nil, _infinitum *)
AddTrue(m, arg) == AddTypechar(m, arg.type)

(* lo_message_add_varargs_internal goes over the types. *)
AddArg(m, arg) ==
    CASE arg.type = 109        -> AddMidi(m, arg)
      [] arg.type = 99         -> AddChar(m, arg)
      [] arg.type \in {105, 102} -> AddFour(m, arg)
      [] arg.type \in EightBytes -> AddEight(m, arg)
      [] arg.type = 115        -> AddString(m, arg)
      [] arg.type = 83         -> AddSymbol(m, arg)
      [] arg.type = BlobType    -> AddBlob(m, arg)
      [] arg.type \in TrueTypes -> AddTrue(m, arg)
MessageOf(args) == FoldLeft(AddArg, EmptyMessage, args)

TypeText(types) == <<Comma>> \o types     \* m->types

lo_message_length(m, path) ==
    lo_strsize(path) + lo_strsize(TypeText(m.types)) + Len(m.data)

lo_message_serialise(m, path) == Padded(path) \o Padded(TypeText(m.types)) \o m.data

-----------------------------------------------------------------------------
(* Reading: d from byte p on, of which n belong to what is read.           *)

(* strlen, while the text ends before the packet does *)
Strlen(d, p) == CHOOSE k \in 0 .. Len(d) - p - 1 :
                    d[p + k + 1] = 0 /\ \A l \in 0 .. k - 1 : d[p + l + 1] # 0
TextAt(d, p) == SubSeq(d, p + 1, p + Strlen(d, p))
TextSize(d, p) == 4 * (Strlen(d, p) \div 4 + 1)

(* lo_validate_string: ended, not longer than n, padded with zeros *)
ValidString(d, p, n) ==
    /\ \E k \in 0 .. n - 1 : d[p + k + 1] = 0
    /\ TextSize(d, p) <= n
    /\ \A k \in Strlen(d, p) .. TextSize(d, p) - 1 : d[p + k + 1] = 0

(* lo_validate_blob.  With fewer than four bytes left it reads the size    *)
(* from behind them and refuses whatever it finds.                         *)
ValidBlob(d, p, n) ==
    /\ n >= 4 /\ Number(d, p) < Huge
    /\ lo_blobsize(Number(d, p)) <= n
    /\ \A k \in 4 + Number(d, p) .. lo_blobsize(Number(d, p)) - 1 : d[p + k + 1] = 0

(* lo_validate_arg *)
ValidArg(type, d, p, n) ==
    \/ type \in TrueTypes
    \/ type \in FourBytes /\ n >= 4
    \/ type \in EightBytes /\ n >= 8
    \/ type \in TextTypes /\ ValidString(d, p, n)
    \/ type = BlobType /\ ValidBlob(d, p, n)

lo_arg_size(type, d, p) ==
    CASE type \in FourBytes  -> 4
      [] type \in EightBytes -> 8
      [] type \in TextTypes  -> TextSize(d, p)
      [] type = BlobType     -> lo_blobsize(Number(d, p))
      [] OTHER               -> 0

(* Where the arguments of types end that start at p, of n bytes; n + 1 if  *)
(* one of them is not valid.                                               *)
ArgsEnd(types, d, p, n) ==
    LET step(q, t) == IF q <= n /\ ValidArg(t, d, p + q, n - q)
                      THEN q + lo_arg_size(t, d, p + q) ELSE n + 1
    IN FoldLeft(step, 0, types)

(* lo_message_deserialise: whether it accepts, and what it returns then *)
Deserialises(d, p, n) ==
    /\ n > 0 /\ ValidString(d, p, n)
    /\ LET t == TextSize(d, p) IN
       /\ n > t /\ ValidString(d, p + t, n - t) /\ d[p + t + 1] = Comma
       /\ LET a == t + TextSize(d, p + t) IN
          ArgsEnd(Tail(TextAt(d, p + t)), d, p + a, n - a) = n - a

lo_message_deserialise(d, p, n) ==
    LET t == TextSize(d, p)
        a == t + TextSize(d, p + t)
    IN [types |-> Tail(TextAt(d, p + t)), typesize |-> a - t,
        data |-> SubSeq(d, p + a + 1, p + n), datasize |-> n - a]

(* lo_message_get_argv, with the values it points to *)
ArgsOf(m) ==
    LET value(k, q) ==
            CASE m.types[k] \in TextTypes -> TextAt(m.data, q)
              [] m.types[k] = BlobType    -> SubSeq(m.data, q + 5, q + 4 + Number(m.data, q))
              [] OTHER -> SubSeq(m.data, q + 1, q + lo_arg_size(m.types[k], m.data, q))
        start(k) == ArgsEnd(SubSeq(m.types, 1, k - 1), m.data, 0, Len(m.data))
    IN [k \in 1 .. Len(m.types) |-> [type |-> m.types[k], value |-> value(k, start(k))]]

-----------------------------------------------------------------------------
(* lo_can_coerce_spec *)
CanCoerce(a, b) ==
    /\ Len(a) = Len(b)
    /\ \A k \in 1 .. Len(a) : \/ a[k] = b[k]
                              \/ a[k] \in Numerical /\ b[k] \in Numerical
                              \/ a[k] \in TextTypes /\ b[k] \in TextTypes
=============================================================================
