------------------------------- MODULE LoCoerce --------------------------------
(***************************************************************************)
(* What becomes of the arguments of a message whose types are not those of *)
(* the method but can be coerced to them (lo_coerce of message.c, and      *)
(* dispatch_method of server.c, which lays the coerced ones out).          *)
(*                                                                         *)
(* Here the value of a number is the number, counted in halves; of a text  *)
(* and a blob, as before, the characters and the content.  The widths are  *)
(* small but in the order of the real ones: more bits in an int32 than in  *)
(* the mantissa of a float, more in that of a double than in an int32, and *)
(* more in an int64 than in that of a double.                              *)
(*                                                                         *)
(* A negative number, or one that is too large, has no conversion to an    *)
(* unsigned type in C.  Build is what the build makes of it: "x87" takes   *)
(* the low bits of a signed integer of 64 bits, and its long double holds  *)
(* every int64; "arm" goes to the nearest number there is, and its long    *)
(* double is a double.                                                     *)
(***************************************************************************)
EXTENDS LoMethods, Integers

IntBits == 4      \* 32
FloatBits == 3    \* 24
DoubleBits == 5   \* 53
LongBits == 7     \* 64
Builds == {"x87", "arm"}

Abs(n) == IF n < 0 THEN -n ELSE n
(* The nearest number with a mantissa of m bits, an even one of two *)
Rounded(n, m) ==
    IF Abs(n) < 2 ^ m THEN n
    ELSE LET e  == CHOOSE k \in 1 .. 12 : Abs(n) \div 2 ^ k \in 2 ^ (m - 1) .. 2 ^ m - 1
             q  == Abs(n) \div 2 ^ e
             r  == 2 * (Abs(n) % 2 ^ e)
             up == IF r > 2 ^ e \/ (r = 2 ^ e /\ q % 2 = 1) THEN 1 ELSE 0
         IN (IF n < 0 THEN -1 ELSE 1) * (q + up) * 2 ^ e

(* lo_hires_val: a long double *)
lo_hires_val(build, arg) ==
    IF build = "arm" THEN Rounded(arg.value, DoubleBits) ELSE arg.value

Truncated(n)  == (IF n < 0 THEN -1 ELSE 1) * (Abs(n) \div 2)
Signed(w, u)  == IF u >= 2 ^ (w - 1) THEN u - 2 ^ w ELSE u
SignedRange(w) == -(2 ^ (w - 1)) .. 2 ^ (w - 1) - 1
(* (uint32_t) n, (uint64_t) n, as it is read later: signed *)
Unsigned(build, w, n) ==
    LET t == Truncated(n) IN
    CASE t \in 0 .. 2 ^ w - 1 -> Signed(w, t)
      [] build = "arm" /\ t < 0 -> 0
      [] build = "arm" /\ t >= 2 ^ w -> -1
      [] build = "x87" /\ t \notin 0 .. 2 ^ w - 1 ->
            IF t \in SignedRange(LongBits) THEN Signed(w, t % 2 ^ w)
            ELSE IF w = LongBits /\ t < 0 THEN -(2 ^ (w - 1)) ELSE 0

(* lo_coerce, of types that can be coerced *)
lo_coerce(build, to, from) ==
    IF to = from.type \/ {to, from.type} \subseteq TextTypes THEN from.value
    ELSE LET hires == lo_hires_val(build, from) IN
         CASE to = 105 -> 2 * Unsigned(build, IntBits, hires)
           [] to = 104 -> 2 * Unsigned(build, LongBits, hires)
           [] to = 102 -> Rounded(hires, FloatBits)
           [] to = 100 -> Rounded(hires, DoubleBits)

(* lo_arg_size of a type at a value *)
SizeAs(type, value) ==
    CASE type \in FourBytes  -> 4
      [] type \in EightBytes -> 8
      [] type \in TextTypes  -> lo_strsize(value)
      [] type = BlobType     -> lo_blobsize(Len(value))
      [] type \in TrueTypes  -> 0

(* dispatch_method: opsize is the memory it asks for, with the sizes of    *)
(* the types of the method at the values of the message; argv what it lays *)
(* out one behind the other.                                               *)
Coerced(build, typespec, args) ==
    LET value(k) == lo_coerce(build, typespec[k], args[k])
        step(m, k) == [opsize |-> m.opsize + SizeAs(typespec[k], args[k].value),
                       ptr    |-> m.ptr + SizeAs(typespec[k], value(k)),
                       argv   |-> Append(m.argv, [at |-> m.ptr, value |-> value(k)])]
    IN FoldLeft(step, [opsize |-> 0, ptr |-> 0, argv |-> <<>>], [k \in 1 .. Len(args) |-> k])

-----------------------------------------------------------------------------
Halves(bits, m) == {n \in -(2 ^ bits) .. 2 ^ bits : Rounded(n, m) = n}
NumbersOf(type) ==
    CASE type = 105 -> {[type |-> type, value |-> 2 * n] : n \in SignedRange(IntBits)}
      [] type = 104 -> {[type |-> type, value |-> 2 * n] : n \in SignedRange(LongBits)}
      [] type = 102 -> {[type |-> type, value |-> n] : n \in Halves(9, FloatBits)}
      [] type = 100 -> {[type |-> type, value |-> n] : n \in Halves(9, DoubleBits)}
Fits(type, n) ==
    CASE type = 105 -> Truncated(n) \in SignedRange(IntBits)
      [] type = 104 -> Truncated(n) \in SignedRange(LongBits)
      [] OTHER -> TRUE

(* Between numbers: an integer gets the number without its fraction, if it *)
(* is not negative and has room; a negative one as well, but on "arm" it   *)
(* becomes 0.  A float or double gets the nearest number, through a double *)
(* on "arm" - where rounding twice can miss the nearest float; the way     *)
(* from an int32 to an int64 or a double and back changes nothing, again   *)
(* but for a negative one on "arm".                                        *)
NumbersRight ==
    \A build \in Builds, from, to \in Numerical : from # to =>
        \A arg \in NumbersOf(from) :
            LET v == lo_coerce(build, to, arg) IN
            /\ to \in {105, 104} /\ Fits(to, arg.value) =>
                  \/ v = 2 * Truncated(arg.value)
                  \/ build = "arm" /\ arg.value < 0 /\ v = 0
            /\ to = 102 => Rounded(v, FloatBits) = v /\ (v = Rounded(arg.value, FloatBits) \/ (build = "arm" /\ from = 104))
            /\ to = 100 => v = Rounded(arg.value, DoubleBits)
            /\ from = 105 /\ to \in {104, 100} =>
                  \/ lo_coerce(build, 105, [type |-> to, value |-> v]) = arg.value
                  \/ build = "arm" /\ arg.value < 0

Samples == <<[type |-> 105, value |-> 6], [type |-> 104, value |-> -4], [type |-> 100, value |-> 3],
            [type |-> 84, value |-> <<>>], [type |-> BlobType, value |-> <<1, 2, 3, 4, 5>>],
            [type |-> 115, value |-> <<97, 98, 97, 98>>], [type |-> 83, value |-> <<97>>]>>
Becomes(type) == {t \in {105, 102, 104, 100, 84, BlobType, 115, 83} : CanCoerce(<<type>>, <<t>>)}

(* Whatever arguments follow one another, each has its value and its place *)
(* of its own in memory that is as long as all of them.                    *)
MemoryFits ==
    \A s \in [1 .. 3 -> DOMAIN Samples], build \in Builds :
        LET args == [k \in 1 .. 3 |-> Samples[s[k]]] IN
        \A t1 \in Becomes(args[1].type), t2 \in Becomes(args[2].type), t3 \in Becomes(args[3].type) :
            LET types == <<t1, t2, t3>>
                m     == Coerced(build, types, args)
            IN /\ m.ptr = m.opsize
               /\ \A k \in 1 .. 3 : m.argv[k].value = lo_coerce(build, types[k], args[k])
               /\ \A k \in 1 .. 2 : m.argv[k + 1].at = m.argv[k].at + SizeAs(types[k], m.argv[k].value)

(* Arguments of every type, as a message holds them *)
Sent == <<[type |-> 105, value |-> <<0, 0, 1, 2>>], [type |-> 99, value |-> <<0, 0, 0, 65>>],
         [type |-> 109, value |-> <<1, 144, 60, 100>>], [type |-> 104, value |-> <<0, 0, 0, 0, 0, 0, 0, 9>>],
         [type |-> 116, value |-> <<0, 0, 0, 0, 0, 0, 0, 1>>], [type |-> 78, value |-> <<>>],
         [type |-> BlobType, value |-> <<7, 0, 7>>], [type |-> 115, value |-> <<97, 98, 97, 98>>],
         [type |-> 83, value |-> <<>>]>>
(* Whatever is added to a message, in whatever order, fits in its memory   *)
(* and is read back from its bytes.                                        *)
ReadsBack ==
    \A s \in UNION {[1 .. n -> DOMAIN Sent] : n \in 0 .. 3} :
        LET args == [k \in DOMAIN s |-> Sent[s[k]]]
            m == MessageOf(args)
            d == lo_message_serialise(m, <<Slash>>)
        IN /\ m.datasize >= Len(m.data) /\ m.typesize >= Len(m.types) + 2
           /\ Len(d) = lo_message_length(m, <<Slash>>) /\ Deserialises(d, 0, Len(d))
           /\ ArgsOf(lo_message_deserialise(d, 0, Len(d))) = args

(* Arguments, from the sender's types to those of the method.              *)
CoercesAll == NumbersRight /\ MemoryFits /\ ReadsBack
================================================================================
