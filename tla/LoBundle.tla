------------------------------- MODULE LoBundle --------------------------------
(***************************************************************************)
(* liblo_new/bundle.c: bundles of messages and bundles in the memory of a  *)
(* sender, with the reference counts by which lo_bundle_free_recursive     *)
(* decides what goes with a bundle; and how a server reads a bundle from a *)
(* packet (server.c, dispatch_data).                                       *)
(*                                                                         *)
(* An element is [path, at]: a message under its path or, under NoPath, a  *)
(* bundle; at is its cell.  As lo_lowlevel.h asks, the sender frees with   *)
(* lo_bundle_free_recursive, and only what is in no bundle.                *)
(***************************************************************************)
EXTENDS LoMessage

CONSTANTS MessageCell, BundleCell,   \* memory
          NoPath, NULL

VARIABLES msg,      \* cell -> the message in it, or NULL
          bndl,     \* cell -> the bundle in it: its time tag and elements
          refs,     \* the refcount of either
          touched   \* memory was used after it had been freed

heap == <<msg, bndl, refs, touched>>

Cell == MessageCell \union BundleCell
Live == {c \in MessageCell : msg[c] # NULL} \union {b \in BundleCell : bndl[b] # NULL}
ElementsOf(b) == {bndl[b].elmnts[k] : k \in 1 .. Len(bndl[b].elmnts)}
(* How many elements of b refer to c. *)
Uses(b, c) == Cardinality({k \in 1 .. Len(bndl[b].elmnts) : bndl[b].elmnts[k].at = c})
SumOver(S, n(_)) == FoldLeft(LAMBDA sum, b : sum + n(b), 0, SetToSeq(S))
LiveBundles == {b \in BundleCell : bndl[b] # NULL}

HeapInit == /\ msg = [c \in MessageCell |-> NULL]
            /\ bndl = [b \in BundleCell |-> NULL]
            /\ refs = [c \in Cell |-> 0]
            /\ touched = FALSE

(* lo_message_new and the adding of its arguments *)
NewMessage(c, args) ==
    /\ msg[c] = NULL
    /\ msg' = [msg EXCEPT ![c] = MessageOf(args)]
    /\ refs' = [refs EXCEPT ![c] = 0]
    /\ UNCHANGED <<bndl, touched>>

(* lo_bundle_new *)
NewBundle(b, ts) ==
    /\ bndl[b] = NULL
    /\ bndl' = [bndl EXCEPT ![b] = [ts |-> ts, elmnts |-> <<>>]]
    /\ refs' = [refs EXCEPT ![b] = 0]
    /\ UNCHANGED <<msg, touched>>

(* lo_bundle_add_message *)
AddMessage(b, path, c) ==
    /\ {b, c} \subseteq Live
    /\ bndl' = [bndl EXCEPT ![b].elmnts = Append(@, [path |-> path, at |-> c])]
    /\ refs' = [refs EXCEPT ![c] = @ + 1]
    /\ UNCHANGED <<msg, touched>>

(* lo_bundle_circular, once n is in b: walk_tree looks for a bundle that   *)
(* is among its own parents.                                               *)
Circular(b, n) ==
    LET walk[c \in BundleCell, parents \in SUBSET BundleCell] ==
            \/ c \in parents
            \/ \E d \in BundleCell :
                  /\ Uses(c, d) > 0 \/ (c = b /\ d = n)
                  /\ walk[d, parents \union {c}]
    IN walk[b, {}]

(* lo_bundle_add_bundle; what would close a circle is taken out again. *)
AddBundle(b, n) ==
    /\ {b, n} \subseteq Live
    /\ IF Circular(b, n) THEN UNCHANGED <<bndl, refs>>
       ELSE /\ bndl' = [bndl EXCEPT ![b].elmnts = Append(@, [path |-> NoPath, at |-> n])]
            /\ refs' = [refs EXCEPT ![n] = @ + 1]
    /\ UNCHANGED <<msg, touched>>

(* Mutant: what a freed bundle held is freed whoever else holds it. *)
ReleasedAll(b) ==
    LET down[k \in 0 .. Cardinality(BundleCell)] ==
            IF k = 0 THEN {b}
            ELSE down[k - 1] \union {c \in Cell : \E d \in down[k - 1] \intersect BundleCell : Uses(d, c) > 0}
    IN down[Cardinality(BundleCell)]

(* What lo_bundle_free_recursive frees along with b: each freed bundle     *)
(* gives back the references of its elements (collect_element), and what   *)
(* has none left goes, too.                                                *)
Released(b) ==
    LET gone[k \in 0 .. Cardinality(BundleCell)] ==
            IF k = 0 THEN {b}
            ELSE LET F == gone[k - 1] \intersect BundleCell IN
                 {b} \union {c \in Cell : /\ \E d \in F : Uses(d, c) > 0
                                          /\ refs[c] <= SumOver(F, LAMBDA d : Uses(d, c))}
    IN gone[Cardinality(BundleCell)]

(* lo_bundle_free_recursive(b) of a bundle that is in no other one, or     *)
(* lo_message_free of such a message.                                      *)
FreeRecursive(b) ==
    LET F == Released(b)
        given(c) == SumOver(F \intersect LiveBundles, LAMBDA d : Uses(d, c))
    IN /\ b \in Live /\ \A d \in LiveBundles : Uses(d, b) = 0
       /\ msg' = [c \in MessageCell |-> IF c \in F THEN NULL ELSE msg[c]]
       /\ bndl' = [c \in BundleCell |-> IF c \in F THEN NULL ELSE bndl[c]]
       /\ refs' = [c \in Cell |-> IF c \in F \/ given(c) > refs[c] THEN 0 ELSE refs[c] - given(c)]
       /\ touched' = (touched \/ ~ F \subseteq Live
                        \/ \E d \in LiveBundles \ F : \E c \in F : Uses(d, c) > 0)

(* lo_bundle_length, lo_bundle_serialise *)
lo_bundle_length(b) ==
    LET length[c \in BundleCell] ==
            FoldLeft(LAMBDA sum, e : sum + 4 + (IF e.path = NoPath THEN length[e.at]
                                                ELSE lo_message_length(msg[e.at], e.path)),
                     16, bndl[c].elmnts)
    IN length[b]

BundleText == <<35, 98, 117, 110, 100, 108, 101>>     \* #bundle
(* A time tag is a number of seconds, or LO_TT_IMMEDIATE: no seconds and   *)
(* the fraction 1.                                                         *)
LO_TT_IMMEDIATE == 0
TimeBytes(ts)  == Bytes(ts) \o Bytes(IF ts = LO_TT_IMMEDIATE THEN 1 ELSE 0)
BundleBytes(ts, elements) ==
    FoldLeft(LAMBDA d, e : d \o Bytes(Len(e)) \o e, Padded(BundleText) \o TimeBytes(ts), elements)

lo_bundle_serialise(b) ==
    LET bytes[c \in BundleCell] ==
            BundleBytes(bndl[c].ts,
                [k \in 1 .. Len(bndl[c].elmnts) |->
                    LET e == bndl[c].elmnts[k] IN
                    IF e.path = NoPath THEN bytes[e.at] ELSE lo_message_serialise(msg[e.at], e.path)])
    IN bytes[b]

(* The elements of b, from 0 on; NULL stands for 0. *)
lo_bundle_count(b) == Len(bndl[b].elmnts)
lo_bundle_get_type(b, index) ==
    IF index >= lo_bundle_count(b) THEN NULL
    ELSE IF bndl[b].elmnts[index + 1].path = NoPath THEN "bundle" ELSE "message"
lo_bundle_get_bundle(b, index) ==
    IF lo_bundle_get_type(b, index) = "bundle" THEN bndl[b].elmnts[index + 1].at ELSE NULL
lo_bundle_get_message(b, index) ==
    IF lo_bundle_get_type(b, index) = "message" THEN bndl[b].elmnts[index + 1] ELSE NULL

-----------------------------------------------------------------------------
(* Reading: what the handlers of a server are called with for a packet.    *)

Event(kind, ts, path, args) == [kind |-> kind, ts |-> ts, path |-> path, args |-> args]
Started(ts)  == Event("start", ts, <<>>, <<>>)
Ended        == Event("end", 0, <<>>, <<>>)
Thrown(text) == Event("error", 0, text, <<>>)

(* Where the elements of a bundle start that begin at q, with n bytes from *)
(* there: <<place, size>> each, and whether they fill the bytes.           *)
ElementsAt(d, q, n) ==
    LET places[k \in 0 .. n] ==          \* from byte q + k on
            IF n - k < 4 THEN [at |-> <<>>, fill |-> k = n]
            ELSE LET size == Number(d, q + k) IN
                 IF size > n - k - 4 THEN [at |-> <<>>, fill |-> FALSE]
                 ELSE LET rest == places[k + 4 + size]
                      IN [rest EXCEPT !.at = <<<<q + k + 4, size>>>> \o @]
    IN places[0]

(* lo_validate_bundle, after its name was found to be there *)
ValidBundle(d, p, n) == n >= 16 /\ ElementsAt(d, p + 16, n - 16).fill

(* Mutant: the error handler is not called. *)
ReadElementSilent(el, rest) == IF el = <<Thrown("element")>> THEN <<>> ELSE el \o rest

(* lo_message_deserialise fails: dispatch_data returns at once. *)
ReadElement(el, rest) == IF el = <<Thrown("element")>> THEN el ELSE el \o rest

(* dispatch_data *)
dispatch_data(d) ==
    LET data[p \in 0 .. Len(d), n \in 0 .. Len(d)] ==
            IF ~ ValidString(d, p, n) THEN <<Thrown("path")>>
            ELSE IF TextAt(d, p) # BundleText
            THEN IF Deserialises(d, p, n)
                 THEN <<Event("message", LO_TT_IMMEDIATE, TextAt(d, p),
                              ArgsOf(lo_message_deserialise(d, p, n)))>>
                 ELSE <<Thrown("message")>>
            ELSE IF ~ ValidBundle(d, p, n) THEN <<Thrown("bundle")>>
            ELSE LET ts == Number(d, p + 8)
                     element(place) ==
                         IF TextAt(d, place[1]) = BundleText THEN data[place[1], place[2]]
                         ELSE IF Deserialises(d, place[1], place[2])
                         THEN <<Event("message", ts, TextAt(d, place[1]),
                                      ArgsOf(lo_message_deserialise(d, place[1], place[2])))>>
                         ELSE <<Thrown("element")>>
                 IN <<Started(ts)>> \o FoldRight(LAMBDA place, rest : ReadElement(element(place), rest),
                                                 ElementsAt(d, p + 16, n - 16).at, <<Ended>>)
    IN data[0, Len(d)]

(* What the sender put into b, element by element, as events. *)
EventsOf(b) ==
    LET events[c \in BundleCell] ==
            LET ofElement(k) ==
                    IF lo_bundle_get_type(c, k) = "bundle" THEN events[lo_bundle_get_bundle(c, k)]
                    ELSE LET e == lo_bundle_get_message(c, k)
                         IN <<Event("message", bndl[c].ts, e.path, ArgsOf(msg[e.at]))>>
            IN <<Started(bndl[c].ts)>>
                 \o FlattenSeq([k \in 1 .. lo_bundle_count(c) |-> ofElement(k - 1)]) \o <<Ended>>
    IN events[b]

-----------------------------------------------------------------------------
(* Each object counts the elements it is in, and no bundle holds memory    *)
(* that has been freed, however bundles are shared between bundles, put    *)
(* into each other and freed.                                              *)
RefsRight ==
    /\ ~ touched
    /\ \A c \in Live : refs[c] = SumOver(LiveBundles, LAMBDA b : Uses(b, c))
    /\ \A b \in LiveBundles : \A e \in ElementsOf(b) : e.at \in Live

(* No bundle is inside itself, at any depth: lo_bundle_length and          *)
(* lo_bundle_serialise come to an end.                                     *)
Acyclic ==
    LET inside[k \in 0 .. Cardinality(BundleCell), b \in LiveBundles] ==
            IF k = 0 THEN {b}
            ELSE UNION {inside[k - 1, e.at] : e \in {f \in ElementsOf(b) : f.path = NoPath}}
    IN \A b \in LiveBundles : inside[Cardinality(BundleCell), b] = {}
=============================================================================
