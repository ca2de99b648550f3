------------------------------- MODULE LoQueueMC -------------------------------
(* A small instance of LoQueue; texts and patterns for LoMethods.          *)
EXTENDS LoQueue

A == 97  B == 98
MCMsgPath == <<Slash, A, B, A>>
MCArgs    == {<<>>, <<[type |-> 105, value |-> <<0, 0, 0, 7>>], [type |-> 115, value |-> <<A, B, A, B>>]>>
                         \o [k \in 1 .. 5 |-> [type |-> 84, value |-> <<>>]]}
MCTimes   == {0, 2, 4}

Whole   == lo_message_serialise(MessageOf(<<>>), <<Slash, B>>)
Long    == lo_message_serialise(MessageOf(<<[type |-> 104, value |-> <<0, 0, 0, 0, 0, 0, 0, 1>>],
                                            [type |-> 84, value |-> <<>>]>>), <<Slash, B, A, B>>)
(* A message without type tags, as OSC allowed it once *)
Untyped == Padded(<<Slash, B>>)
MCForeignPacket ==
    {BundleBytes(3, <<Whole, Untyped, Whole>>),
     BundleBytes(1, <<BundleBytes(4, <<Untyped, Whole>>), Whole>>),
     BundleBytes(4, <<Long, Long, Whole>>), BundleBytes(4, <<Long, Long, Long>>)}

Part(kind, char, negate, set) == [kind |-> kind, char |-> char, negate |-> negate, set |-> set]
MCAlphabet == {Slash, A, B}
MCParts == {Part("char", A, FALSE, <<>>), Part("any", 0, FALSE, <<>>), Part("star", 0, FALSE, <<>>),
            Part("set", 0, FALSE, <<<<B, A>>>>), Part("set", 0, TRUE, <<<<A, A>>, <<Slash, Slash>>>>),
            Part("set", 0, FALSE, <<<<Slash, Slash>>, <<B, B>>>>)}
MCAlternatives == {<<A>>, <<B>>, <<A, B>>, <<A, A>>}
MCTypeLists == {<<105>>, <<104>>, <<115>>, <<115, 105>>}
================================================================================
