-------------------------- MODULE SerialSound_proofs --------------------------
(***************************************************************************)
(* Proofs about SerialSound.  Of its parts PortAudio's streams come first: *)
(* a handler of a module (preparePa, finishPa, stream2) is a course of     *)
(* calls, and Sane says what holds between any two of them.  Settled is    *)
(* what is so of each object that no handler is at work with.  Objects     *)
(* that have taken PortAudio and not given it back are as many as          *)
(* PortAudio counts, until a handler gives back once too often what        *)
(* another has taken; from then on it counts fewer.                        *)
(*                                                                         *)
(* Then the effects, which orders reach directly (EffectsNext) and from    *)
(* the serial line (Setting): one invariant for each of the delay, the     *)
(* filter and the synth, which have nothing in common.                     *)
(*                                                                         *)
(* Then the tokens, the managers and the Serial, the sockets (by           *)
(* LoSockets_proofs), the AudioSource, the walk over the modules and the   *)
(* datagrams.                                                              *)
(***************************************************************************)
EXTENDS SerialSound, LoSockets_proofs, FiniteSetTheorems, NaturalsInduction, WellFoundedInduction, TLAPS

State == {"unset", "open", "active", "closed"}

(* What a handler is at in its course, d, has the types of Now. *)
Formed(d) ==
    /\ d = [pa |-> d.pa, objects |-> d.objects, history |-> d.history]
    /\ d.pa \in [count : Nat, stream : [Object -> State], err : BOOLEAN]
    /\ d.objects = [alive |-> d.objects.alive, playing |-> d.objects.playing,
                    made |-> d.objects.made, fails |-> d.objects.fails]
    /\ d.objects.alive \subseteq Object /\ d.objects.playing \subseteq Object
    /\ d.history \in [balance : [Object -> Int], robbed : SUBSET (Object \X State),
                      failed : SUBSET Object, wild : BOOLEAN, trouble : BOOLEAN]

(* Those that have taken PortAudio and not given it back are as many as it *)
(* counts; after a theft it counts fewer.                                  *)
Holders(d) == {o \in Object : d.history.balance[o] = 1}
Tallied(d) ==
    /\ \A o \in Object : d.history.balance[o] <= 1
    /\ d.pa.count <= Cardinality(Holders(d))
    /\ d.history.robbed = {} => d.pa.count = Cardinality(Holders(d))

(* PortAudio is closed with all its streams. *)
Shut(d) == d.pa.count = 0 => \A o \in Object : d.pa.stream[o] \notin {"open", "active"}

(* Thieves, and what happens as long as no call fails. *)
Thieves(d) == \A r \in d.history.robbed : r[1] \in Mics \/ r[2] = "unset"
Calm(d) == ~ d.history.trouble => d.history.robbed = {} /\ d.history.failed = {}

(* An object no handler is at work with. *)
Settled(d, o) ==
    /\ d.history.balance[o] = 1 => o \in d.objects.alive
    /\ d.pa.stream[o] \in {"open", "active"} => o \in d.objects.alive
    /\ o \in d.objects.alive =>
        /\ d.history.balance[o] = 1 /\ d.history.robbed = {} => d.pa.stream[o] \in {"open", "active"}
        /\ o \notin d.history.failed =>
              d.history.balance[o] = 1 /\ (d.history.robbed = {} => d.pa.stream[o] = "active")
        /\ o \in Speakers /\ d.history.balance[o] < 1 => d.pa.stream[o] = "unset"
        /\ ~ d.history.trouble => o \in d.objects.playing

(* All this while a handler of o is at work, and between handlers. *)
Sane(d, o) ==
    /\ Formed(d) /\ Tallied(d) /\ Shut(d) /\ Thieves(d) /\ Calm(d)
    /\ \A p \in Object \ {o} : Settled(d, p)
Whole(d) ==
    /\ Formed(d) /\ Tallied(d) /\ Shut(d) /\ Thieves(d) /\ Calm(d)
    /\ \A p \in Object : Settled(d, p)

DevicesIInv == Whole(Now) /\ WildExplained

-----------------------------------------------------------------------------
LEMMA HoldersFinite ==
    ASSUME NEW d
    PROVE  IsFiniteSet(Holders(d)) /\ Cardinality(Holders(d)) \in Nat
  BY DevicesAssumption, FS_Subset, FS_CardinalityType DEF Holders

(* Of one object more or less. *)
LEMMA OneMore ==
    ASSUME NEW d, NEW e, NEW o \in Object, Holders(e) = Holders(d) \union {o}, o \notin Holders(d)
    PROVE  Cardinality(Holders(e)) = Cardinality(Holders(d)) + 1
  BY HoldersFinite, FS_AddElement

LEMMA OneLess ==
    ASSUME NEW d, NEW e, NEW o \in Object, Holders(e) = Holders(d) \ {o}, o \in Holders(d)
    PROVE  Cardinality(Holders(e)) = Cardinality(Holders(d)) - 1
  <1>1. Holders(d) = Holders(e) \union {o} /\ o \notin Holders(e)
    OBVIOUS
  <1>2. Cardinality(Holders(d)) = Cardinality(Holders(e)) + 1
    BY <1>1, OneMore
  <1>3. Cardinality(Holders(e)) \in Nat
    BY HoldersFinite
  <1> QED BY <1>2, <1>3

LEMMA SomeHolder ==
    ASSUME NEW d, Formed(d), Tallied(d), d.pa.count > 0
    PROVE  /\ \E p \in Object : d.history.balance[p] = 1
           /\ \A o \in Object : d.pa.count > 1 \/ d.history.balance[o] # 1 =>
                 \E p \in Object \ {o} : d.history.balance[p] = 1
  <1>1. Cardinality(Holders(d)) >= d.pa.count /\ Cardinality(Holders(d)) \in Nat /\ d.pa.count \in Nat
    BY HoldersFinite DEF Tallied, Formed
  <1>2. Holders(d) # {}
    BY <1>1, HoldersFinite, FS_EmptySet
  <1>3. ASSUME NEW o \in Object, d.pa.count > 1 \/ d.history.balance[o] # 1
        PROVE  \E p \in Object \ {o} : d.history.balance[p] = 1
    <2>1. CASE d.history.balance[o] # 1
      BY <2>1, <1>2 DEF Holders
    <2>2. CASE d.pa.count > 1
      <3>1. Holders(d) # {o}
        BY <2>2, <1>1, FS_Singleton
      <3> QED BY <3>1, <1>2 DEF Holders
    <2> QED BY <1>3, <2>1, <2>2
  <1> QED BY <1>2, <1>3 DEF Holders

(* When all that hold PortAudio are counted, two are counted of two. *)
LEMMA Another ==
    ASSUME NEW d, Formed(d), Tallied(d), d.history.robbed = {},
           NEW o \in Object, NEW p \in Object, o # p,
           d.history.balance[o] = 1, d.history.balance[p] = 1
    PROVE  d.pa.count > 1
  <1>1. {o, p} \subseteq Holders(d)
    BY DEF Holders
  <1>2. Cardinality({o, p}) = 2
    <2>1. IsFiniteSet({o}) /\ Cardinality({o}) = 1 /\ p \notin {o} /\ {o, p} = {o} \union {p}
      BY FS_Singleton
    <2>2. Cardinality({o} \union {p}) = Cardinality({o}) + 1
      BY <2>1, FS_AddElement
    <2> QED BY <2>1, <2>2
  <1>3. Cardinality({o, p}) <= Cardinality(Holders(d))
    BY <1>1, HoldersFinite, FS_Subset
  <1> QED BY <1>2, <1>3, HoldersFinite DEF Tallied, Formed

-----------------------------------------------------------------------------
(* The calls of PortAudio.  Of d there remains what only concerns others.  *)

(* What no call touches, and what only grows. *)
Onward(d, e) ==
    /\ e.objects = d.objects /\ e.history.trouble = d.history.trouble
    /\ d.history.robbed \subseteq e.history.robbed
    /\ d.history.failed \subseteq e.history.failed
    /\ d.history.wild => e.history.wild

LEMMA OnwardTrans ==
    ASSUME NEW c, NEW d, NEW e, Onward(c, d), Onward(d, e)
    PROVE  Onward(c, e)
  BY DEF Onward

Taken(d, e, o) ==
    /\ e.pa = [count |-> d.pa.count + 1, stream |-> d.pa.stream, err |-> FALSE]
    /\ e.objects = d.objects
    /\ e.history.balance = [d.history.balance EXCEPT ![o] = 1]
    /\ e.history.robbed = d.history.robbed /\ e.history.failed = d.history.failed
    /\ e.history.wild = d.history.wild /\ e.history.trouble = d.history.trouble

LEMMA Initializing ==
    ASSUME NEW d, NEW o \in Object, Sane(d, o), d.history.balance[o] = 0
    PROVE  LET e == Initialize(d, o) IN Sane(e, o) /\ Onward(d, e) /\ Taken(d, e, o)
  <1> DEFINE e == Initialize(d, o)
  <1>1. /\ d.pa = [count |-> d.pa.count, stream |-> d.pa.stream, err |-> d.pa.err]
        /\ d.pa.count \in Nat
        /\ d.history = [balance |-> d.history.balance, robbed |-> d.history.robbed,
                        failed |-> d.history.failed, wild |-> d.history.wild, trouble |-> d.history.trouble]
        /\ d.history.balance \in [Object -> Int]
        /\ d = [pa |-> d.pa, objects |-> d.objects, history |-> d.history]
    BY DEF Sane, Formed
  <1>2. /\ Taken(d, e, o) /\ e = [pa |-> e.pa, objects |-> e.objects, history |-> e.history]
        /\ e.history = [balance |-> e.history.balance, robbed |-> e.history.robbed,
                        failed |-> e.history.failed, wild |-> e.history.wild, trouble |-> e.history.trouble]
    <2> DEFINE f == [d EXCEPT !.pa.count = @ + 1, !.history.balance[o] = @ + 1]
    <2>1. f = [d EXCEPT !.pa.count = @ + 1, !.history.balance[o] = @ + 1] /\ e = [f EXCEPT !.pa.err = FALSE]
      BY DEF Initialize, Done
    <2> HIDE DEF f, e
    <2>2. f = [pa |-> [count |-> d.pa.count + 1, stream |-> d.pa.stream, err |-> d.pa.err],
               objects |-> d.objects,
               history |-> [balance |-> [d.history.balance EXCEPT ![o] = @ + 1],
                            robbed |-> d.history.robbed, failed |-> d.history.failed,
                            wild |-> d.history.wild, trouble |-> d.history.trouble]]
      BY <1>1, <2>1
    <2>3. /\ f = [pa |-> f.pa, objects |-> f.objects, history |-> f.history]
          /\ f.pa = [count |-> d.pa.count + 1, stream |-> d.pa.stream, err |-> d.pa.err]
      BY <2>2
    <2>4. e = [pa |-> [count |-> d.pa.count + 1, stream |-> d.pa.stream, err |-> FALSE],
               objects |-> f.objects, history |-> f.history]
      BY <2>1, <2>3
    <2>5. /\ e.pa = [count |-> d.pa.count + 1, stream |-> d.pa.stream, err |-> FALSE]
          /\ e.objects = d.objects /\ e.history = f.history
          /\ e = [pa |-> e.pa, objects |-> e.objects, history |-> e.history]
      BY <2>2, <2>4
    <2>6. [d.history.balance EXCEPT ![o] = @ + 1] = [d.history.balance EXCEPT ![o] = 1]
      BY <1>1
    <2>7. f.history = [balance |-> [d.history.balance EXCEPT ![o] = 1],
                       robbed |-> d.history.robbed, failed |-> d.history.failed,
                       wild |-> d.history.wild, trouble |-> d.history.trouble]
      BY <2>2, <2>6
    <2> QED BY <2>5, <2>7 DEF Taken
  <1> HIDE DEF e
  <1>3. Formed(e)
    BY <1>2, <1>1 DEF Taken, Sane, Formed
  <1>4. /\ e.history.balance[o] = 1 /\ \A p \in Object \ {o} : e.history.balance[p] = d.history.balance[p]
        /\ e.history.robbed = d.history.robbed /\ e.history.failed = d.history.failed
        /\ e.history.wild = d.history.wild /\ e.history.trouble = d.history.trouble
    BY <1>2 DEF Taken, Sane, Formed
  <1>5. Tallied(e)
    <2>1. Holders(e) = Holders(d) \union {o} /\ o \notin Holders(d)
      BY <1>4 DEF Holders
    <2>2. Cardinality(Holders(e)) = Cardinality(Holders(d)) + 1 /\ Cardinality(Holders(d)) \in Nat
      BY <2>1, OneMore, HoldersFinite
    <2> QED BY <2>2, <1>1, <1>2, <1>4 DEF Taken, Tallied, Sane
  <1>6. Shut(e) /\ Thieves(e) /\ Calm(e)
    BY <1>1, <1>2, <1>4 DEF Taken, Shut, Thieves, Calm, Sane
  <1>7. ASSUME NEW p \in Object \ {o} PROVE Settled(e, p)
    BY <1>2, <1>4 DEF Taken, Settled, Sane
  <1>8. Onward(d, e)
    BY <1>2, <1>4 DEF Taken, Onward
  <1> QED BY <1>2, <1>3, <1>5, <1>6, <1>7, <1>8 DEF e, Sane

(* Pa_Terminate. *)
Given(d, e, o) ==
    /\ e.objects = d.objects
    /\ e.pa.count = (IF d.pa.count = 0 THEN 0 ELSE d.pa.count - 1) /\ e.pa.err = d.pa.err
    /\ e.pa.stream = IF d.pa.count = 1 THEN Closing(d.pa.stream) ELSE d.pa.stream
    /\ e.history.balance = [d.history.balance EXCEPT ![o] = @ - 1]
    /\ e.history.robbed = IF d.pa.count > 0 /\ d.history.balance[o] <= 0
                          THEN d.history.robbed \union {<<o, d.pa.stream[o]>>} ELSE d.history.robbed
    /\ e.history.failed = d.history.failed /\ e.history.wild = d.history.wild
    /\ e.history.trouble = d.history.trouble

LEMMA Terminating ==
    ASSUME NEW d, NEW o \in Object, Sane(d, o),
           d.pa.count > 0 /\ d.history.balance[o] <= 0 =>
              d.history.trouble /\ (o \in Mics \/ d.pa.stream[o] = "unset")
    PROVE  LET e == Pa_Terminate(d, o) IN Sane(e, o) /\ Onward(d, e) /\ Given(d, e, o)
  <1> DEFINE e == Pa_Terminate(d, o)
  <1>1. /\ d.pa = [count |-> d.pa.count, stream |-> d.pa.stream, err |-> d.pa.err]
        /\ d.pa.count \in Nat /\ d.pa.stream \in [Object -> State] /\ d.pa.err \in BOOLEAN
        /\ d.history = [balance |-> d.history.balance, robbed |-> d.history.robbed,
                        failed |-> d.history.failed, wild |-> d.history.wild, trouble |-> d.history.trouble]
        /\ d.history.balance \in [Object -> Int] /\ d.history.robbed \subseteq Object \X State
        /\ d = [pa |-> d.pa, objects |-> d.objects, history |-> d.history]
    BY DEF Sane, Formed
  <1>2. Given(d, e, o) /\ e = [pa |-> e.pa, objects |-> e.objects, history |-> e.history]
        /\ e.pa = [count |-> e.pa.count, stream |-> e.pa.stream, err |-> e.pa.err]
        /\ e.history = [balance |-> e.history.balance, robbed |-> e.history.robbed,
                        failed |-> e.history.failed, wild |-> e.history.wild, trouble |-> e.history.trouble]
    <2> DEFINE robbed == IF d.pa.count > 0 /\ d.history.balance[o] <= 0
                         THEN d.history.robbed \union {<<o, d.pa.stream[o]>>} ELSE d.history.robbed
               stream == IF d.pa.count = 1 THEN Closing(d.pa.stream) ELSE d.pa.stream
               after  == IF d.pa.count = 0 THEN 0 ELSE d.pa.count - 1
    <2>1. e = [d EXCEPT !.pa.count = after, !.pa.stream = stream,
                        !.history.balance[o] = @ - 1, !.history.robbed = robbed]
      BY DEF Pa_Terminate
    <2> HIDE DEF robbed, stream, after, e
    <2>2. e = [pa |-> [count |-> after, stream |-> stream, err |-> d.pa.err],
               objects |-> d.objects,
               history |-> [balance |-> [d.history.balance EXCEPT ![o] = @ - 1], robbed |-> robbed,
                            failed |-> d.history.failed, wild |-> d.history.wild,
                            trouble |-> d.history.trouble]]
      BY <1>1, <2>1
    <2> QED BY <2>2 DEF Given, robbed, stream, after
  <1>3. Closing(d.pa.stream) \in [Object -> State]
        /\ \A p \in Object : Closing(d.pa.stream)[p] \notin {"open", "active"}
                             /\ (d.pa.stream[p] \notin {"open", "active"} => Closing(d.pa.stream)[p] = d.pa.stream[p])
    BY <1>1 DEF Closing, State
  <1> HIDE DEF e
  <1>4. Formed(e)
    <2>1. e.history.robbed \subseteq Object \X State
      BY <1>1, <1>2 DEF Given
    <2>2. e.pa \in [count : Nat, stream : [Object -> State], err : BOOLEAN]
      BY <1>1, <1>2, <1>3 DEF Given
    <2>3. e.history.balance \in [Object -> Int]
      BY <1>1, <1>2 DEF Given
    <2>4. d.history.failed \in SUBSET Object /\ d.history.wild \in BOOLEAN /\ d.history.trouble \in BOOLEAN
      BY DEF Sane, Formed
    <2>5. e.history.failed \in SUBSET Object /\ e.history.wild \in BOOLEAN /\ e.history.trouble \in BOOLEAN
      BY <1>2, <2>4 DEF Given
    <2>6. e.history \in [balance : [Object -> Int], robbed : SUBSET (Object \X State),
                         failed : SUBSET Object, wild : BOOLEAN, trouble : BOOLEAN]
      BY <1>2, <2>1, <2>3, <2>5
    <2> QED BY <1>2, <2>2, <2>6 DEF Given, Sane, Formed
  <1>5. /\ e.history.balance[o] = d.history.balance[o] - 1 /\ d.history.balance[o] \in Int
        /\ \A p \in Object \ {o} : e.history.balance[p] = d.history.balance[p]
    BY <1>1, <1>2 DEF Given
  <1>6. Tallied(e)
    <2>0. \A p \in Object : e.history.balance[p] <= 1
      BY <1>5 DEF Sane, Tallied
    <2>1. CASE d.history.balance[o] = 1
      <3>1. Holders(e) = Holders(d) \ {o} /\ o \in Holders(d)
        BY <2>1, <1>5 DEF Holders
      <3>2. Cardinality(Holders(e)) = Cardinality(Holders(d)) - 1 /\ Cardinality(Holders(d)) \in Nat
            /\ Cardinality(Holders(e)) \in Nat
        BY <3>1, OneLess, HoldersFinite
      <3>3. d.pa.count <= Cardinality(Holders(d))
            /\ (d.history.robbed = {} => d.pa.count = Cardinality(Holders(d)))
            /\ e.history.robbed = d.history.robbed
            /\ e.pa.count = (IF d.pa.count = 0 THEN 0 ELSE d.pa.count - 1)
        BY <2>1, <1>2 DEF Given, Sane, Tallied
      <3>4. e.pa.count <= Cardinality(Holders(e))
            /\ (e.history.robbed = {} => e.pa.count = Cardinality(Holders(e)))
        BY <3>2, <3>3, <1>1
      <3> QED BY <2>0, <3>4 DEF Tallied
    <2>2. CASE d.history.balance[o] # 1
      <3>1. Holders(e) = Holders(d) /\ d.history.balance[o] <= 0
        BY <2>2, <1>5 DEF Holders, Sane, Tallied
      <3>2. d.pa.count <= Cardinality(Holders(d)) /\ Cardinality(Holders(d)) \in Nat
            /\ (d.history.robbed = {} => d.pa.count = Cardinality(Holders(d)))
            /\ e.pa.count = (IF d.pa.count = 0 THEN 0 ELSE d.pa.count - 1)
        BY <1>2, HoldersFinite DEF Given, Sane, Tallied
      <3>3. d.pa.count > 0 => e.history.robbed # {}
        BY <3>1, <1>2 DEF Given
      <3>4. d.pa.count = 0 => e.history.robbed = d.history.robbed
        BY <1>2 DEF Given
      <3>5. e.pa.count <= Cardinality(Holders(e))
            /\ (e.history.robbed = {} => e.pa.count = Cardinality(Holders(e)))
        BY <3>1, <3>2, <3>3, <3>4, <1>1
      <3> QED BY <2>0, <3>5 DEF Tallied
    <2> QED BY <2>1, <2>2
  <1>7. Shut(e)
    BY <1>1, <1>2, <1>3 DEF Given, Shut, Sane
  <1>8. Thieves(e) /\ Calm(e)
    <2>1. (d.pa.count > 0 /\ d.history.balance[o] <= 0) \/ e.history.robbed = d.history.robbed
      BY <1>2 DEF Given
    <2>2. CASE e.history.robbed = d.history.robbed
      BY <2>2, <1>2 DEF Given, Thieves, Calm, Sane
    <2>3. CASE d.pa.count > 0 /\ d.history.balance[o] <= 0
      <3>1. \A r \in e.history.robbed : r \in d.history.robbed \/ r = <<o, d.pa.stream[o]>>
        BY <2>3, <1>2 DEF Given
      <3> QED BY <2>3, <3>1, <1>2 DEF Given, Thieves, Calm, Sane
    <2> QED BY <2>1, <2>2, <2>3
  <1>9. ASSUME NEW p \in Object \ {o} PROVE Settled(e, p)
    <2>1. Settled(d, p) /\ e.history.balance[p] = d.history.balance[p] /\ e.objects = d.objects
          /\ e.history.failed = d.history.failed /\ e.history.trouble = d.history.trouble
          /\ d.history.robbed \subseteq e.history.robbed
      BY <1>5, <1>2 DEF Sane, Given
    <2>2. CASE e.pa.stream[p] = d.pa.stream[p]
      BY <2>1, <2>2 DEF Settled
    <2>3. CASE e.pa.stream[p] # d.pa.stream[p]
      <3>1. /\ d.pa.count = 1 /\ d.pa.stream[p] \in {"open", "active"}
            /\ e.pa.stream[p] \notin {"open", "active"}
        BY <2>3, <1>2, <1>3 DEF Given
      <3>2. d.history.balance[p] = 1 => e.history.robbed # {}
        <4>1. d.history.balance[p] = 1 /\ d.history.robbed = {} => d.history.balance[o] # 1
          BY <3>1, Another DEF Sane
        <4>2. d.history.balance[o] <= 1 /\ d.history.balance[o] \in Int
          BY <1>5 DEF Sane, Tallied
        <4>3. d.history.balance[p] = 1 /\ d.history.robbed = {} => d.history.balance[o] <= 0
          BY <4>1, <4>2
        <4>4. d.pa.count > 0 /\ d.history.balance[o] <= 0 => e.history.robbed # {}
          BY <1>2 DEF Given
        <4> QED BY <4>3, <4>4, <3>1, <2>1
      <3> QED BY <2>1, <3>1, <3>2 DEF Settled
    <2> QED BY <2>2, <2>3
  <1>10. Onward(d, e)
    BY <1>2 DEF Given, Onward
  <1> QED BY <1>2, <1>4, <1>6, <1>7, <1>8, <1>9, <1>10 DEF e, Sane

(* A call with paStream.                                                   *)
Turned(d, e, o, from, to, ok) ==
    /\ e.objects = d.objects /\ e.pa.count = d.pa.count
    /\ e.history.balance = d.history.balance /\ e.history.robbed = d.history.robbed
    /\ e.history.trouble = d.history.trouble
    /\ \/ /\ d.pa.count = 0 \/ (d.pa.stream[o] \in {"open", "active"} /\ ~ (d.pa.stream[o] \in from /\ ok))
          /\ e.pa.err = TRUE /\ e.pa.stream = d.pa.stream /\ e.history.wild = d.history.wild
          /\ e.history.failed = d.history.failed \union {o}
       \/ /\ d.pa.count > 0 /\ d.pa.stream[o] \in {"unset", "closed"}
          /\ e.pa.err = d.pa.err /\ e.pa.stream = d.pa.stream /\ e.history.wild = TRUE
          /\ e.history.failed = d.history.failed
       \/ /\ d.pa.count > 0 /\ d.pa.stream[o] \in {"open", "active"} \intersect from /\ ok
          /\ e.pa.err = FALSE /\ e.pa.stream = [d.pa.stream EXCEPT ![o] = to]
          /\ e.history.wild = d.history.wild /\ e.history.failed = d.history.failed

LEMMA Calling ==
    ASSUME NEW d, NEW o \in Object, Sane(d, o), NEW from, NEW to \in State, NEW ok \in BOOLEAN,
           d.history.trouble \/ (d.pa.count > 0 /\ d.pa.stream[o] \in from /\ ok)
    PROVE  LET e == WithStream(d, o, from, to, ok) IN
           Sane(e, o) /\ Onward(d, e) /\ Turned(d, e, o, from, to, ok)
  <1> DEFINE e == WithStream(d, o, from, to, ok)
  <1>1. /\ d.pa = [count |-> d.pa.count, stream |-> d.pa.stream, err |-> d.pa.err]
        /\ d.pa.count \in Nat /\ d.pa.stream \in [Object -> State] /\ d.pa.err \in BOOLEAN
        /\ d.history = [balance |-> d.history.balance, robbed |-> d.history.robbed,
                        failed |-> d.history.failed, wild |-> d.history.wild, trouble |-> d.history.trouble]
        /\ d.history.failed \subseteq Object /\ d.history.wild \in BOOLEAN
        /\ d.history.trouble \in BOOLEAN /\ d.history.robbed \subseteq Object \X State
        /\ d.history.balance \in [Object -> Int]
        /\ d = [pa |-> d.pa, objects |-> d.objects, history |-> d.history]
    BY DEF Sane, Formed
  <1> DEFINE good == Done([d EXCEPT !.pa.stream[o] = to])
             broke  == Failed(d, o)
             odd  == [d EXCEPT !.history.wild = TRUE]
  <1>2. \/ /\ d.pa.count = 0 \/ (d.pa.stream[o] \in {"open", "active"} /\ ~ (d.pa.stream[o] \in from /\ ok))
           /\ e = broke
        \/ /\ d.pa.count > 0 /\ d.pa.stream[o] \in {"unset", "closed"}
           /\ e = odd
        \/ /\ d.pa.count > 0 /\ d.pa.stream[o] \in {"open", "active"} \intersect from /\ ok
           /\ e = good
    <2>1. d.pa.count = 0 \/ d.pa.count > 0
      BY <1>1
    <2>2. d.pa.stream[o] \in State
      BY <1>1
    <2>3. d.pa.count = 0 => e = Failed(d, o)
      <3>1. d.pa.count = 0 => ~ (d.pa.count > 0)
        OBVIOUS
      <3> QED BY <3>1 DEF WithStream
    <2>4. d.pa.count > 0 /\ d.pa.stream[o] \in {"unset", "closed"} => e = [d EXCEPT !.history.wild = TRUE]
      <3>1. d.pa.count > 0 => d.pa.count # 0
        BY <1>1
      <3> QED BY <3>1 DEF WithStream
    <2>5. ASSUME d.pa.count > 0, d.pa.stream[o] \in {"open", "active"}
          PROVE  e = IF d.pa.stream[o] \in from /\ ok THEN Done([d EXCEPT !.pa.stream[o] = to]) ELSE Failed(d, o)
      <3>1. ~ (d.pa.count = 0)
        BY <2>5, <1>1
      <3>2. ~ (d.pa.count > 0 /\ d.pa.stream[o] \in {"unset", "closed"})
        BY <2>5
      <3>3. e = CASE d.pa.count = 0 -> broke
                  [] d.pa.count > 0 /\ d.pa.stream[o] \in {"unset", "closed"} -> [d EXCEPT !.history.wild = TRUE]
                  [] OTHER -> IF d.pa.stream[o] \in from /\ ok THEN good ELSE broke
        BY DEF WithStream
      <3> HIDE DEF good, broke, e
      <3>4. e = IF d.pa.stream[o] \in from /\ ok THEN good ELSE broke
        BY <3>1, <3>2, <3>3
      <3> QED BY <3>4 DEF good, broke
    <2>6. /\ d.pa.count = 0 => e = broke
          /\ d.pa.count > 0 /\ d.pa.stream[o] \in {"unset", "closed"} => e = odd
          /\ d.pa.count > 0 /\ d.pa.stream[o] \in {"open", "active"} =>
                e = IF d.pa.stream[o] \in from /\ ok THEN good ELSE broke
      BY <2>3, <2>4, <2>5
    <2> HIDE DEF e, good, broke, odd
    <2> QED BY <2>1, <2>2, <2>6 DEF State
  <1> HIDE DEF e, good, broke, odd
  <1>3. Turned(d, e, o, from, to, ok) /\ e = [pa |-> e.pa, objects |-> e.objects, history |-> e.history]
        /\ e.pa = [count |-> e.pa.count, stream |-> e.pa.stream, err |-> e.pa.err]
        /\ e.history = [balance |-> e.history.balance, robbed |-> e.history.robbed,
                        failed |-> e.history.failed, wild |-> e.history.wild, trouble |-> e.history.trouble]
    <2>1. CASE /\ d.pa.count = 0 \/ (d.pa.stream[o] \in {"open", "active"} /\ ~ (d.pa.stream[o] \in from /\ ok))
               /\ e = broke
      <3>1. e = [d EXCEPT !.pa.err = TRUE, !.history.failed = @ \union {o}]
        BY <2>1 DEF Failed, broke
      <3>2. e = [pa |-> [count |-> d.pa.count, stream |-> d.pa.stream, err |-> TRUE],
                 objects |-> d.objects,
                 history |-> [balance |-> d.history.balance, robbed |-> d.history.robbed,
                              failed |-> d.history.failed \union {o}, wild |-> d.history.wild,
                              trouble |-> d.history.trouble]]
        BY <1>1, <3>1
      <3>3. /\ e.pa = [count |-> d.pa.count, stream |-> d.pa.stream, err |-> TRUE]
            /\ e.objects = d.objects
            /\ e.history = [balance |-> d.history.balance, robbed |-> d.history.robbed,
                            failed |-> d.history.failed \union {o}, wild |-> d.history.wild,
                            trouble |-> d.history.trouble]
            /\ e = [pa |-> e.pa, objects |-> e.objects, history |-> e.history]
        BY <3>2
      <3>4. /\ e.pa.count = d.pa.count /\ e.pa.err = TRUE /\ e.pa.stream = d.pa.stream
            /\ e.pa = [count |-> e.pa.count, stream |-> e.pa.stream, err |-> e.pa.err]
            /\ e.history.failed = d.history.failed \union {o} /\ e.history.wild = d.history.wild
            /\ e.history.balance = d.history.balance /\ e.history.robbed = d.history.robbed
            /\ e.history.trouble = d.history.trouble
            /\ e.history = [balance |-> e.history.balance, robbed |-> e.history.robbed,
                            failed |-> e.history.failed, wild |-> e.history.wild, trouble |-> e.history.trouble]
        BY <3>3
      <3>5. Turned(d, e, o, from, to, ok)
        BY <2>1, <3>3, <3>4 DEF Turned
      <3> QED BY <3>3, <3>4, <3>5
    <2>2. CASE /\ d.pa.count > 0 /\ d.pa.stream[o] \in {"unset", "closed"}
               /\ e = odd
      <3>1. e = [pa |-> d.pa, objects |-> d.objects,
                 history |-> [balance |-> d.history.balance, robbed |-> d.history.robbed,
                              failed |-> d.history.failed, wild |-> TRUE,
                              trouble |-> d.history.trouble]]
        BY <1>1, <2>2 DEF odd
      <3> QED BY <1>1, <2>2, <3>1 DEF Turned
    <2>3. CASE /\ d.pa.count > 0 /\ d.pa.stream[o] \in {"open", "active"} \intersect from /\ ok
               /\ e = good
      <3> DEFINE f == [d EXCEPT !.pa.stream[o] = to]
      <3>1. f = [d EXCEPT !.pa.stream[o] = to] /\ e = [f EXCEPT !.pa.err = FALSE]
        BY <2>3 DEF Done, good
      <3> HIDE DEF f
      <3>2. f = [pa |-> [count |-> d.pa.count, stream |-> [d.pa.stream EXCEPT ![o] = to], err |-> d.pa.err],
                 objects |-> d.objects, history |-> d.history]
        BY <1>1, <3>1
      <3>3. /\ f = [pa |-> f.pa, objects |-> f.objects, history |-> f.history]
            /\ f.pa = [count |-> d.pa.count, stream |-> [d.pa.stream EXCEPT ![o] = to], err |-> d.pa.err]
        BY <3>2
      <3>4. e = [pa |-> [count |-> d.pa.count, stream |-> [d.pa.stream EXCEPT ![o] = to], err |-> FALSE],
                 objects |-> f.objects, history |-> f.history]
        BY <3>1, <3>3
      <3>5. /\ e.pa = [count |-> d.pa.count, stream |-> [d.pa.stream EXCEPT ![o] = to], err |-> FALSE]
            /\ e.objects = d.objects /\ e.history = d.history
            /\ e = [pa |-> e.pa, objects |-> e.objects, history |-> e.history]
        BY <3>2, <3>4
      <3>6. /\ e.pa.count = d.pa.count /\ e.pa.err = FALSE /\ e.pa.stream = [d.pa.stream EXCEPT ![o] = to]
            /\ e.pa = [count |-> e.pa.count, stream |-> e.pa.stream, err |-> e.pa.err]
        BY <3>5
      <3>7. Turned(d, e, o, from, to, ok)
        BY <2>3, <3>5, <3>6 DEF Turned
      <3> QED BY <1>1, <3>5, <3>6, <3>7
    <2> QED BY <1>2, <2>1, <2>2, <2>3
  <1>4. /\ e.history.failed \subseteq Object /\ e.history.wild \in BOOLEAN
        /\ e.pa.err \in BOOLEAN /\ e.pa.stream \in [Object -> State]
        /\ \A p \in Object \ {o} : e.pa.stream[p] = d.pa.stream[p]
                /\ (p \in d.history.failed <=> p \in e.history.failed)
        /\ d.pa.count = 0 => e.pa.stream = d.pa.stream
        /\ d.history.failed \subseteq e.history.failed
        /\ d.history.wild => e.history.wild
        /\ e.history.failed = d.history.failed \/ d.history.trouble
    <2>0. d.pa.count > 0 => d.pa.count # 0
      BY <1>1
    <2>1. \/ e.history.failed = d.history.failed
          \/ e.history.failed = d.history.failed \union {o} /\ d.history.trouble
      BY <2>0, <1>3 DEF Turned
    <2>2. /\ e.history.failed \subseteq Object /\ d.history.failed \subseteq e.history.failed
          /\ \A p \in Object \ {o} : p \in d.history.failed <=> p \in e.history.failed
          /\ e.history.failed = d.history.failed \/ d.history.trouble
      BY <2>1, <1>1
    <2>3. \/ e.pa.stream = d.pa.stream
          \/ d.pa.count > 0 /\ e.pa.stream = [d.pa.stream EXCEPT ![o] = to]
      BY <1>3 DEF Turned
    <2>4. /\ e.pa.stream \in [Object -> State]
          /\ \A p \in Object \ {o} : e.pa.stream[p] = d.pa.stream[p]
          /\ d.pa.count = 0 => e.pa.stream = d.pa.stream
      BY <2>0, <2>3, <1>1
    <2>5. e.pa.err \in BOOLEAN /\ e.history.wild \in BOOLEAN /\ (d.history.wild => e.history.wild)
      BY <1>1, <1>3 DEF Turned
    <2> QED BY <2>2, <2>4, <2>5
  <1>5. Formed(e)
    <2>1. e.pa \in [count : Nat, stream : [Object -> State], err : BOOLEAN]
      BY <1>1, <1>3, <1>4 DEF Turned
    <2>2. e.history \in [balance : [Object -> Int], robbed : SUBSET (Object \X State),
                         failed : SUBSET Object, wild : BOOLEAN, trouble : BOOLEAN]
      BY <1>1, <1>3, <1>4 DEF Turned
    <2> QED BY <1>3, <2>1, <2>2 DEF Turned, Sane, Formed
  <1>6. Tallied(e)
    <2>1. Holders(e) = Holders(d)
      BY <1>3 DEF Turned, Holders
    <2> QED BY <2>1, <1>3 DEF Turned, Tallied, Sane
  <1>7. Shut(e) /\ Thieves(e) /\ Calm(e)
    BY <1>3, <1>4 DEF Turned, Shut, Thieves, Calm, Sane
  <1>8. ASSUME NEW p \in Object \ {o} PROVE Settled(e, p)
    BY <1>3, <1>4 DEF Turned, Settled, Sane
  <1>9. Onward(d, e)
    BY <1>3, <1>4 DEF Turned, Onward
  <1> QED BY <1>3, <1>5, <1>6, <1>7, <1>8, <1>9 DEF e, Sane

-----------------------------------------------------------------------------
(* start and stop *)

Same(d, e) == e.pa = d.pa /\ e.history = d.history /\ e.objects.alive = d.objects.alive

Marked(d, e, P) == e = [d EXCEPT !.objects.playing = P]

LEMMA Playing ==
    ASSUME NEW d, NEW o \in Object, Sane(d, o), NEW P \in SUBSET Object,
           d.objects.playing \subseteq P \union {o}, NEW e, Marked(d, e, P)
    PROVE  Sane(e, o) /\ Same(d, e) /\ e.objects.playing = P
  <1>1. /\ d = [pa |-> d.pa, objects |-> d.objects, history |-> d.history]
        /\ d.objects = [alive |-> d.objects.alive, playing |-> d.objects.playing,
                        made |-> d.objects.made, fails |-> d.objects.fails]
    BY DEF Sane, Formed
  <1>2. e = [pa |-> d.pa,
             objects |-> [alive |-> d.objects.alive, playing |-> P,
                          made |-> d.objects.made, fails |-> d.objects.fails],
             history |-> d.history]
    BY <1>1 DEF Marked
  <1>3. /\ Same(d, e) /\ e.objects.playing = P
        /\ e = [pa |-> e.pa, objects |-> e.objects, history |-> e.history]
        /\ e.objects = [alive |-> e.objects.alive, playing |-> e.objects.playing,
                        made |-> e.objects.made, fails |-> e.objects.fails]
    <2>1. /\ e.pa = d.pa /\ e.history = d.history
          /\ e.objects = [alive |-> d.objects.alive, playing |-> P,
                          made |-> d.objects.made, fails |-> d.objects.fails]
          /\ e = [pa |-> e.pa, objects |-> e.objects, history |-> e.history]
      BY <1>2
    <2> QED BY <2>1 DEF Same
  <1>4. Formed(e)
    BY <1>3 DEF Same, Sane, Formed
  <1>5. Tallied(e) /\ Shut(e) /\ Thieves(e) /\ Calm(e)
    BY <1>3 DEF Same, Sane, Tallied, Holders, Shut, Thieves, Calm
  <1>6. ASSUME NEW p \in Object \ {o} PROVE Settled(e, p)
    BY <1>3 DEF Same, Sane, Settled
  <1> QED BY <1>3, <1>4, <1>5, <1>6 DEF Sane

(* What start makes of the end of its call, x. *)
Switched(x, r, o) ==
    \/ o \in Mics /\ x.pa.err /\ Given(x, r, o)
    \/ ~ (o \in Mics /\ x.pa.err) /\ Same(x, r)

LEMMA Starting ==
    ASSUME NEW d, NEW o \in Object, Sane(d, o), NEW ok \in BOOLEAN,
           d.history.trouble \/ (d.pa.count > 0 /\ d.pa.stream[o] = "open" /\ ok)
    PROVE  LET x == Pa_StartStream(d, o, ok)
               r == start(d, o, ok)
           IN /\ Sane(x, o) /\ Turned(d, x, o, {"open"}, "active", ok)
              /\ Sane(r, o) /\ Switched(x, r, o)
              /\ ~ (o \in Mics /\ x.pa.err) => o \in r.objects.playing
  <1> DEFINE x == Pa_StartStream(d, o, ok)
             r == start(d, o, ok)
  <1>1. Sane(x, o) /\ Turned(d, x, o, {"open"}, "active", ok)
    <2>1. d.history.trouble \/ (d.pa.count > 0 /\ d.pa.stream[o] \in {"open"} /\ ok)
      OBVIOUS
    <2>2. "active" \in State
      BY DEF State
    <2> DEFINE y == WithStream(d, o, {"open"}, "active", ok)
    <2>3. Sane(y, o) /\ Turned(d, y, o, {"open"}, "active", ok)
      BY <2>1, <2>2, Calling
    <2>4. x = y
      BY DEF Pa_StartStream
    <2> QED BY <2>3, <2>4
  <1>2. CASE o \in Mics /\ x.pa.err
    <2>1. r = Pa_Terminate(x, o)
      BY <1>2 DEF start
    <2> HIDE DEF x
    <2>2. x.history.trouble
      <3>1. x.history.trouble = d.history.trouble /\ x.pa.err = TRUE
        BY <1>1, <1>2 DEF Turned, Sane, Formed
      <3>2. d.pa.count \in Nat
        BY DEF Sane, Formed
      <3> QED BY <1>1, <3>1, <3>2 DEF Turned
    <2>3. Sane(Pa_Terminate(x, o), o) /\ Given(x, Pa_Terminate(x, o), o)
      BY <1>1, <1>2, <2>2, Terminating
    <2> QED BY <1>1, <1>2, <2>1, <2>3 DEF Switched, x
  <1>3. CASE ~ (o \in Mics /\ x.pa.err)
    <2> DEFINE P == x.objects.playing \union {o}
    <2>1. Marked(x, r, P)
      BY <1>3 DEF start, Marked
    <2> HIDE DEF x, r
    <2>2. P \in SUBSET Object /\ x.objects.playing \subseteq P \union {o}
      BY <1>1 DEF Sane, Formed
    <2> HIDE DEF P
    <2>3. Sane(r, o) /\ Same(x, r) /\ r.objects.playing = P
      BY <1>1, <2>1, <2>2, Playing
    <2> QED BY <1>1, <1>3, <2>3 DEF Switched, x, r, P
  <1> QED BY <1>2, <1>3

LEMMA Stopping ==
    ASSUME NEW d, NEW o \in Object, Sane(d, o), NEW ok \in BOOLEAN,
           d.history.trouble \/ (d.pa.count > 0 /\ d.pa.stream[o] = "active" /\ ok)
    PROVE  LET x == Pa_StopStream(d, o, ok)
               r == stop(d, o, ok)
           IN /\ Sane(x, o) /\ Turned(d, x, o, {"active"}, "open", ok)
              /\ Sane(r, o) /\ Switched(x, r, o)
  <1> DEFINE x == Pa_StopStream(d, o, ok)
             r == stop(d, o, ok)
  <1>1. Sane(x, o) /\ Turned(d, x, o, {"active"}, "open", ok)
    <2>1. d.history.trouble \/ (d.pa.count > 0 /\ d.pa.stream[o] \in {"active"} /\ ok)
      OBVIOUS
    <2>2. "open" \in State
      BY DEF State
    <2> DEFINE y == WithStream(d, o, {"active"}, "open", ok)
    <2>3. Sane(y, o) /\ Turned(d, y, o, {"active"}, "open", ok)
      BY <2>1, <2>2, Calling
    <2>4. x = y
      BY DEF Pa_StopStream
    <2> QED BY <2>3, <2>4
  <1>2. CASE o \in Mics /\ x.pa.err
    <2>1. r = Pa_Terminate(x, o)
      BY <1>2 DEF stop
    <2> HIDE DEF x
    <2>2. x.history.trouble
      <3>1. x.history.trouble = d.history.trouble /\ x.pa.err = TRUE
        BY <1>1, <1>2 DEF Turned, Sane, Formed
      <3>2. d.pa.count \in Nat
        BY DEF Sane, Formed
      <3> QED BY <1>1, <3>1, <3>2 DEF Turned
    <2>3. Sane(Pa_Terminate(x, o), o) /\ Given(x, Pa_Terminate(x, o), o)
      BY <1>1, <1>2, <2>2, Terminating
    <2> QED BY <1>1, <1>2, <2>1, <2>3 DEF Switched, x
  <1>3. CASE ~ (o \in Mics /\ x.pa.err)
    <2> DEFINE P == x.objects.playing \ {o}
    <2>1. Marked(x, r, P)
      BY <1>3 DEF stop, Marked
    <2> HIDE DEF x, r
    <2>2. P \in SUBSET Object /\ x.objects.playing \subseteq P \union {o}
      BY <1>1 DEF Sane, Formed
    <2> HIDE DEF P
    <2>3. Sane(r, o) /\ Same(x, r) /\ r.objects.playing = P
      BY <1>1, <2>1, <2>2, Playing
    <2> QED BY <1>1, <1>3, <2>3 DEF Switched, x, r, P
  <1> QED BY <1>2, <1>3

-----------------------------------------------------------------------------
(* preparePa *)

FailedAt(d, e, o) ==
    /\ e.objects = d.objects /\ e.pa.count = d.pa.count /\ e.pa.stream = d.pa.stream /\ e.pa.err = TRUE
    /\ e.history.balance = d.history.balance /\ e.history.robbed = d.history.robbed
    /\ e.history.failed = d.history.failed \union {o} /\ e.history.wild = d.history.wild
    /\ e.history.trouble = d.history.trouble

LEMMA Failing ==
    ASSUME NEW d, NEW o \in Object, Sane(d, o), d.history.trouble
    PROVE  LET e == Failed(d, o) IN Sane(e, o) /\ FailedAt(d, e, o)
  <1> DEFINE e == Failed(d, o)
  <1>1. /\ d.pa = [count |-> d.pa.count, stream |-> d.pa.stream, err |-> d.pa.err]
        /\ d.pa.count \in Nat /\ d.pa.stream \in [Object -> State]
        /\ d.history = [balance |-> d.history.balance, robbed |-> d.history.robbed,
                        failed |-> d.history.failed, wild |-> d.history.wild, trouble |-> d.history.trouble]
        /\ d.history.failed \subseteq Object /\ d.history.wild \in BOOLEAN
        /\ d.history.trouble \in BOOLEAN /\ d.history.robbed \subseteq Object \X State
        /\ d.history.balance \in [Object -> Int]
        /\ d = [pa |-> d.pa, objects |-> d.objects, history |-> d.history]
    BY DEF Sane, Formed
  <1>2. e = [d EXCEPT !.pa.err = TRUE, !.history.failed = @ \union {o}]
    BY DEF Failed
  <1> HIDE DEF e
  <1>3. e = [pa |-> [count |-> d.pa.count, stream |-> d.pa.stream, err |-> TRUE],
             objects |-> d.objects,
             history |-> [balance |-> d.history.balance, robbed |-> d.history.robbed,
                          failed |-> d.history.failed \union {o}, wild |-> d.history.wild,
                          trouble |-> d.history.trouble]]
    BY <1>1, <1>2
  <1>4. /\ e.pa = [count |-> d.pa.count, stream |-> d.pa.stream, err |-> TRUE]
        /\ e.objects = d.objects
        /\ e.history = [balance |-> d.history.balance, robbed |-> d.history.robbed,
                        failed |-> d.history.failed \union {o}, wild |-> d.history.wild,
                        trouble |-> d.history.trouble]
        /\ e = [pa |-> e.pa, objects |-> e.objects, history |-> e.history]
    BY <1>3
  <1>5. FailedAt(d, e, o)
    BY <1>4 DEF FailedAt
  <1>6. Formed(e)
    <2>1. e.pa \in [count : Nat, stream : [Object -> State], err : BOOLEAN]
      BY <1>1, <1>4
    <2>2. e.history \in [balance : [Object -> Int], robbed : SUBSET (Object \X State),
                         failed : SUBSET Object, wild : BOOLEAN, trouble : BOOLEAN]
      BY <1>1, <1>4
    <2> QED BY <1>4, <2>1, <2>2 DEF Sane, Formed
  <1>7. Tallied(e)
    <2>1. Holders(e) = Holders(d)
      BY <1>5 DEF FailedAt, Holders
    <2> QED BY <2>1, <1>5 DEF FailedAt, Tallied, Sane
  <1>8. Shut(e) /\ Thieves(e) /\ Calm(e)
    BY <1>5 DEF FailedAt, Shut, Thieves, Calm, Sane
  <1>9. ASSUME NEW p \in Object \ {o} PROVE Settled(e, p)
    BY <1>5 DEF FailedAt, Settled, Sane
  <1> QED BY <1>5, <1>6, <1>7, <1>8, <1>9 DEF Sane, e

(* A stream is opened. *)
OpenedAt(d, e, o) ==
    /\ e.objects = d.objects /\ e.pa.count = d.pa.count /\ e.history = d.history
    /\ e.pa.stream = [d.pa.stream EXCEPT ![o] = "open"]

LEMMA Opening ==
    ASSUME NEW d, NEW o \in Object, Sane(d, o), d.pa.count > 0
    PROVE  LET e == [d EXCEPT !.pa.stream[o] = "open"] IN Sane(e, o) /\ OpenedAt(d, e, o)
  <1> DEFINE e == [d EXCEPT !.pa.stream[o] = "open"]
  <1>1. /\ d.pa = [count |-> d.pa.count, stream |-> d.pa.stream, err |-> d.pa.err]
        /\ d.pa.count \in Nat /\ d.pa.stream \in [Object -> State] /\ d.pa.err \in BOOLEAN
        /\ d = [pa |-> d.pa, objects |-> d.objects, history |-> d.history]
    BY DEF Sane, Formed
  <1>2. e = [d EXCEPT !.pa.stream[o] = "open"]
    OBVIOUS
  <1> HIDE DEF e
  <1>3. e = [pa |-> [count |-> d.pa.count, stream |-> [d.pa.stream EXCEPT ![o] = "open"], err |-> d.pa.err],
             objects |-> d.objects, history |-> d.history]
    BY <1>1, <1>2
  <1>4. /\ e.pa = [count |-> d.pa.count, stream |-> [d.pa.stream EXCEPT ![o] = "open"], err |-> d.pa.err]
        /\ e.objects = d.objects /\ e.history = d.history
        /\ e = [pa |-> e.pa, objects |-> e.objects, history |-> e.history]
    BY <1>3
  <1>5. OpenedAt(d, e, o)
    BY <1>4 DEF OpenedAt
  <1>6. Formed(e)
    <2>1. e.pa \in [count : Nat, stream : [Object -> State], err : BOOLEAN]
      BY <1>1, <1>4 DEF State
    <2> QED BY <1>4, <2>1 DEF Sane, Formed
  <1>7. Tallied(e)
    <2>1. Holders(e) = Holders(d)
      BY <1>5 DEF OpenedAt, Holders
    <2> QED BY <2>1, <1>5 DEF OpenedAt, Tallied, Sane
  <1>8. Shut(e) /\ Thieves(e) /\ Calm(e)
    BY <1>1, <1>5 DEF OpenedAt, Shut, Thieves, Calm, Sane
  <1>9. ASSUME NEW p \in Object \ {o} PROVE Settled(e, p)
    <2>1. e.pa.stream[p] = d.pa.stream[p]
      BY <1>1, <1>5 DEF OpenedAt
    <2> QED BY <2>1, <1>5 DEF OpenedAt, Settled, Sane
  <1> QED BY <1>5, <1>6, <1>7, <1>8, <1>9 DEF Sane, e

(* What giving back means for the one that does it. *)
LEMMA GivenOwn ==
    ASSUME NEW d, NEW e, NEW o \in Object, Sane(d, o), Given(d, e, o)
    PROVE  /\ e.history.balance[o] = d.history.balance[o] - 1
           /\ d.history.balance[o] \in Int /\ d.history.balance[o] <= 1
           /\ \/ e.pa.stream[o] = d.pa.stream[o]
              \/ d.pa.stream[o] \in {"open", "active"} /\ e.pa.stream[o] = "closed"
           /\ d.pa.count > 0 /\ d.history.balance[o] <= 0 => e.history.robbed # {}
           /\ d.history.robbed \subseteq e.history.robbed
  <1>1. d.pa.stream \in [Object -> State] /\ d.history.balance \in [Object -> Int]
    BY DEF Sane, Formed
  <1>2. \/ Closing(d.pa.stream)[o] = d.pa.stream[o]
        \/ d.pa.stream[o] \in {"open", "active"} /\ Closing(d.pa.stream)[o] = "closed"
    BY DEF Closing
  <1>3. d.history.balance[o] <= 1
    BY DEF Sane, Tallied
  <1> QED BY <1>1, <1>2, <1>3 DEF Given

Explained(d) ==
    /\ d.history.wild => \/ d.history.robbed # {}
                         \/ \E o \in d.history.failed :
                               /\ d.pa.stream[o] = "unset"
                               /\ \E p \in d.objects.alive \ {o} : d.history.balance[p] > 0
    /\ ~ d.history.trouble => ~ d.history.wild

Good(d) == Whole(d) /\ Explained(d)

LEMMA WholeIs ==
    ASSUME NEW d, NEW o \in Object
    PROVE  Whole(d) <=> Sane(d, o) /\ Settled(d, o)
  BY DEF Whole, Sane

(* A module without its stream, which starts it. *)
LEMMA Unopened ==
    ASSUME NEW d, NEW o \in Object, Sane(d, o), o \in d.objects.alive, o \in d.history.failed,
           d.history.trouble, d.pa.err = TRUE, d.pa.stream[o] = "unset", d.history.balance[o] = 0,
           ~ d.history.wild
    PROVE  Good(start(d, o, TRUE))
  <1> DEFINE x == Pa_StartStream(d, o, TRUE)
             r == start(d, o, TRUE)
  <1>1. /\ Sane(x, o) /\ Turned(d, x, o, {"open"}, "active", TRUE)
        /\ Sane(r, o) /\ Switched(x, r, o)
    BY Starting
  <1> HIDE DEF x, r
  <1>2. /\ x.pa.stream = d.pa.stream /\ x.pa.err = TRUE /\ o \in x.history.failed
        /\ x.objects = d.objects /\ x.history.balance = d.history.balance /\ x.history.trouble
        /\ x.history.wild => x.pa.count > 0
    <2>1. d.history.failed \union {o} = d.history.failed
      OBVIOUS
    <2> QED BY <1>1, <2>1 DEF Turned
  <1>3. CASE o \in Mics
    <2>1. Given(x, r, o)
      BY <1>1, <1>2, <1>3 DEF Switched
    <2>2. /\ r.history.balance[o] = -1 /\ r.pa.stream[o] = "unset"
          /\ r.history.wild => r.history.robbed # {}
          /\ r.history.trouble /\ o \in r.history.failed /\ o \in r.objects.alive
      <3>1. /\ r.history.balance[o] = x.history.balance[o] - 1
            /\ r.pa.stream[o] = x.pa.stream[o] \/ x.pa.stream[o] \in {"open", "active"}
            /\ x.pa.count > 0 /\ x.history.balance[o] <= 0 => r.history.robbed # {}
        BY <1>1, <2>1, GivenOwn
      <3>2. /\ r.history.wild = x.history.wild /\ r.history.trouble = x.history.trouble
            /\ r.history.failed = x.history.failed /\ r.objects = x.objects
        BY <2>1 DEF Given
      <3> QED BY <1>2, <3>1, <3>2
    <2>3. Settled(r, o) /\ Explained(r)
      BY <2>2 DEF Settled, Explained
    <2> QED BY <1>1, <2>3 DEF Good, Whole, Sane, r
  <1>4. CASE o \notin Mics
    <2>1. Same(x, r)
      BY <1>1, <1>4 DEF Switched
    <2>2. /\ r.history.balance[o] = 0 /\ r.pa.stream[o] = "unset"
          /\ r.history.trouble /\ o \in r.history.failed /\ o \in r.objects.alive
          /\ r.history.wild => r.pa.count > 0
      BY <1>2, <2>1 DEF Same
    <2>3. r.history.wild => \E p \in r.objects.alive \ {o} : r.history.balance[p] > 0
      <3>1. r.history.wild => \E p \in Object \ {o} : r.history.balance[p] = 1
        BY <1>1, <2>2, SomeHolder DEF Sane
      <3> QED BY <3>1, <1>1 DEF Sane, Settled
    <2>4. Settled(r, o)
      BY <2>2 DEF Settled
    <2>5. Explained(r)
      BY <2>2, <2>3 DEF Explained
    <2> QED BY <1>1, <2>4, <2>5 DEF Good, Whole, Sane, r
  <1> QED BY <1>3, <1>4 DEF r

Fresh(d, o) ==
    /\ Sane(d, o) /\ o \in d.objects.alive /\ o \notin d.history.failed
    /\ d.pa.stream[o] = "unset" /\ d.history.balance[o] = 0 /\ d.history.wild = FALSE

LEMMA Preparing ==
    ASSUME NEW d, NEW o \in Object, Fresh(d, o),
           NEW fails \in {"no", "initialize", "device", "open", "start"},
           fails # "no" => d.history.trouble, fails = "initialize" => d.pa.count = 0
    PROVE  Good(preparePa(d, o, fails))
  <1>0. Sane(d, o) /\ d.history.balance \in [Object -> Int] /\ d.pa.stream \in [Object -> State]
        /\ d.pa.count \in Nat
    BY DEF Fresh, Sane, Formed
  <1>1. CASE fails = "initialize"
    <2> DEFINE f == Failed(d, o)
               e == Pa_Terminate(f, o)
    <2>1. Sane(f, o) /\ FailedAt(d, f, o)
      BY <1>0, <1>1, Failing
    <2>2. preparePa(d, o, fails) = e
      BY <1>1 DEF preparePa
    <2>3. f.pa.count = 0
      BY <1>1, <2>1 DEF FailedAt
    <2> HIDE DEF f
    <2>4. Sane(e, o) /\ Given(f, e, o)
      BY <2>1, <2>3, Terminating
    <2> HIDE DEF e
    <2>5. /\ e.history.balance[o] = -1 /\ e.pa.stream[o] = "unset" /\ ~ e.history.wild
          /\ e.history.trouble /\ o \in e.history.failed /\ o \in e.objects.alive
      <3>1. /\ e.history.balance[o] = f.history.balance[o] - 1
            /\ e.pa.stream[o] = f.pa.stream[o] \/ f.pa.stream[o] \in {"open", "active"}
        BY <2>1, <2>4, GivenOwn
      <3>2. /\ e.history.wild = f.history.wild /\ e.history.trouble = f.history.trouble
            /\ e.history.failed = f.history.failed /\ e.objects = f.objects
        BY <2>4 DEF Given
      <3>3. /\ f.history.balance[o] = 0 /\ f.pa.stream[o] = "unset" /\ f.history.wild = FALSE
            /\ f.history.trouble /\ o \in f.history.failed /\ o \in f.objects.alive
        BY <1>1, <2>1 DEF Fresh, FailedAt
      <3> QED BY <3>1, <3>2, <3>3
    <2>6. Settled(e, o) /\ Explained(e)
      BY <2>5 DEF Settled, Explained
    <2> QED BY <2>2, <2>4, <2>6 DEF Good, Whole, Sane
  <1>2. ASSUME fails \in {"device", "open"}
        PROVE  LET e == Pa_Terminate(Failed(Initialize(d, o), o), o) IN
               /\ Sane(e, o) /\ o \in e.objects.alive /\ o \in e.history.failed
               /\ e.history.trouble /\ e.pa.err = TRUE /\ e.pa.stream[o] = "unset"
               /\ e.history.balance[o] = 0 /\ ~ e.history.wild
    <2> DEFINE i == Initialize(d, o)
               f == Failed(i, o)
               e == Pa_Terminate(f, o)
    <2>1. Sane(i, o) /\ Taken(d, i, o)
      BY <1>0, Initializing DEF Fresh
    <2> HIDE DEF i
    <2>2. Sane(f, o) /\ FailedAt(i, f, o)
      BY <1>2, <2>1, Failing DEF Taken
    <2> HIDE DEF f
    <2>3. f.history.balance[o] = 1 /\ f.pa.stream[o] = "unset" /\ f.history.trouble /\ f.history.wild = FALSE
          /\ o \in f.history.failed /\ o \in f.objects.alive /\ f.pa.err = TRUE
      BY <1>0, <1>2, <2>1, <2>2 DEF Taken, FailedAt, Fresh
    <2>4. Sane(e, o) /\ Given(f, e, o)
      BY <2>2, <2>3, Terminating
    <2> HIDE DEF e
    <2>5. /\ e.history.balance[o] = 0 /\ e.pa.stream[o] = "unset"
          /\ o \in e.objects.alive /\ o \in e.history.failed
          /\ e.history.trouble /\ e.pa.err = TRUE /\ ~ e.history.wild
      <3>1. /\ e.history.balance[o] = f.history.balance[o] - 1
            /\ e.pa.stream[o] = f.pa.stream[o] \/ f.pa.stream[o] \in {"open", "active"}
        BY <2>2, <2>4, GivenOwn
      <3>2. /\ e.history.wild = f.history.wild /\ e.history.trouble = f.history.trouble
            /\ e.history.failed = f.history.failed /\ e.objects = f.objects /\ e.pa.err = f.pa.err
        BY <2>4 DEF Given
      <3> QED BY <2>3, <3>1, <3>2
    <2> QED BY <2>4, <2>5 DEF e, f, i
  <1>3. CASE fails = "device"
    <2> DEFINE e == Pa_Terminate(Failed(Initialize(d, o), o), o)
    <2>1. preparePa(d, o, fails) = e
      BY <1>3 DEF preparePa
    <2>2. /\ Sane(e, o) /\ o \in e.objects.alive /\ o \in e.history.failed
          /\ e.history.trouble /\ e.pa.stream[o] = "unset"
          /\ e.history.balance[o] = 0 /\ ~ e.history.wild
      BY <1>2, <1>3
    <2> HIDE DEF e
    <2>3. Settled(e, o) /\ Explained(e)
      BY <2>2 DEF Settled, Explained
    <2> QED BY <2>1, <2>2, <2>3 DEF Good, Whole, Sane
  <1>4. CASE fails = "open"
    <2> DEFINE e == Pa_Terminate(Failed(Initialize(d, o), o), o)
    <2>1. preparePa(d, o, fails) = start(e, o, TRUE)
      BY <1>4 DEF preparePa
    <2>2. /\ Sane(e, o) /\ o \in e.objects.alive /\ o \in e.history.failed
          /\ e.history.trouble /\ e.pa.err = TRUE /\ e.pa.stream[o] = "unset"
          /\ e.history.balance[o] = 0 /\ ~ e.history.wild
      BY <1>2, <1>4
    <2> HIDE DEF e
    <2> QED BY <2>1, <2>2, Unopened
  <1>5. CASE fails \in {"no", "start"}
    <2> DEFINE i == Initialize(d, o)
               j == [i EXCEPT !.pa.stream[o] = "open"]
               ok == fails # "start"
               x == Pa_StartStream(j, o, ok)
               r == start(j, o, ok)
    <2>1. preparePa(d, o, fails) = r
      BY <1>5 DEF preparePa
    <2>2. Sane(i, o) /\ Taken(d, i, o)
      BY <1>0, Initializing DEF Fresh
    <2> HIDE DEF i
    <2>3. i.pa.count > 0
      BY <1>0, <2>2 DEF Taken
    <2>4. Sane(j, o) /\ OpenedAt(i, j, o)
      BY <2>2, <2>3, Opening
    <2> HIDE DEF j
    <2>5. /\ j.pa.count > 0 /\ j.pa.stream[o] = "open" /\ j.history.balance[o] = 1
          /\ j.history.wild = FALSE /\ j.history.trouble = d.history.trouble
          /\ j.history.failed = d.history.failed /\ o \in j.objects.alive /\ j.pa.count \in Nat
      BY <1>0, <2>2, <2>3, <2>4 DEF Taken, OpenedAt, Fresh, Sane, Formed
    <2>6. /\ Sane(x, o) /\ Turned(j, x, o, {"open"}, "active", ok)
          /\ Sane(r, o) /\ Switched(x, r, o)
          /\ ~ (o \in Mics /\ x.pa.err) => o \in r.objects.playing
      <3>1. j.history.trouble \/ (j.pa.count > 0 /\ j.pa.stream[o] = "open" /\ ok)
        BY <2>5, <1>5
      <3>2. ok \in BOOLEAN
        OBVIOUS
      <3> QED BY <2>4, <3>1, <3>2, Starting
    <2> HIDE DEF x, r
    <2>7. j.pa.count # 0 /\ j.pa.stream \in [Object -> State]
      BY <2>4, <2>5 DEF Sane, Formed
    <2>8. CASE ok
      <3>1. /\ x.pa.err = FALSE /\ x.pa.stream[o] = "active" /\ x.history.balance[o] = 1
            /\ x.history.wild = FALSE /\ o \in x.objects.alive
        BY <2>5, <2>6, <2>7, <2>8 DEF Turned
      <3>2. Same(x, r) /\ o \in r.objects.playing
        BY <2>6, <3>1 DEF Switched
      <3>3. Settled(r, o) /\ Explained(r)
        BY <3>1, <3>2 DEF Same, Settled, Explained
      <3> QED BY <2>1, <2>6, <3>3 DEF Good, Whole, Sane
    <2>9. CASE ~ ok
      <3>1. /\ x.pa.err = TRUE /\ x.pa.stream[o] = "open" /\ x.history.balance[o] = 1
            /\ x.history.wild = FALSE /\ o \in x.objects.alive /\ o \in x.history.failed
            /\ x.history.trouble
        BY <1>5, <2>5, <2>6, <2>7, <2>9 DEF Turned
      <3>2. CASE o \in Mics
        <4>1. Given(x, r, o)
          BY <2>6, <3>1, <3>2 DEF Switched
        <4>2. /\ r.history.balance[o] = 0 /\ o \in r.history.failed /\ r.history.trouble
              /\ ~ r.history.wild /\ o \in r.objects.alive /\ o \notin Speakers
          <5>1. r.history.balance[o] = x.history.balance[o] - 1
            BY <2>6, <4>1, GivenOwn
          <5>2. /\ r.history.wild = x.history.wild /\ r.history.trouble = x.history.trouble
                /\ r.history.failed = x.history.failed /\ r.objects = x.objects
            BY <4>1 DEF Given
          <5>3. o \notin Speakers
            BY <3>2, DevicesAssumption
          <5> QED BY <3>1, <5>1, <5>2, <5>3
        <4>3. Settled(r, o) /\ Explained(r)
          BY <4>2 DEF Settled, Explained
        <4> QED BY <2>1, <2>6, <4>3 DEF Good, Whole, Sane
      <3>3. CASE o \notin Mics
        <4>1. Same(x, r)
          BY <2>6, <3>3 DEF Switched
        <4>2. Settled(r, o) /\ Explained(r)
          BY <3>1, <4>1 DEF Same, Settled, Explained
        <4> QED BY <2>1, <2>6, <4>2 DEF Good, Whole, Sane
      <3> QED BY <3>2, <3>3
    <2> QED BY <2>8, <2>9
  <1> QED BY <1>1, <1>3, <1>4, <1>5

-----------------------------------------------------------------------------
(* The end of a module: o is no longer alive, but for the rest as it was.  *)
Dying(d, o) ==
    /\ Sane(d, o) /\ o \notin d.objects.alive /\ d.history.wild = FALSE
    /\ d.history.balance[o] = 1 /\ d.history.robbed = {} => d.pa.stream[o] \in {"open", "active"}
    /\ o \notin d.history.failed =>
          d.history.balance[o] = 1 /\ (d.history.robbed = {} => d.pa.stream[o] = "active")
    /\ o \in Speakers /\ d.history.balance[o] < 1 => d.pa.stream[o] = "unset"

(* One that holds PortAudio finds it open, as long as none is robbed. *)
LEMMA HeldOpen ==
    ASSUME NEW d, NEW o \in Object, Sane(d, o), d.history.balance[o] = 1, d.history.robbed = {}
    PROVE  d.pa.count > 0
  <1>1. Cardinality(Holders(d)) \in Nat /\ d.pa.count = Cardinality(Holders(d))
    BY HoldersFinite DEF Sane, Tallied
  <1>2. Holders(d) # {}
    BY DEF Holders
  <1>3. Cardinality(Holders(d)) # 0
    BY <1>2, HoldersFinite, FS_EmptySet
  <1> QED BY <1>1, <1>3

LEMMA Finishing ==
    ASSUME NEW d, NEW o \in Object, Dying(d, o), NEW ok \in BOOLEAN, ~ ok => d.history.trouble
    PROVE  Good(finishPa(d, o, ok))
  <1> DEFINE x == Pa_StopStream(d, o, ok)
             s == stop(d, o, ok)
             c == Pa_CloseStream(s, o)
             e == Pa_Terminate(c, o)
  <1>0. /\ Sane(d, o) /\ d.history.balance \in [Object -> Int] /\ d.pa.stream \in [Object -> State]
        /\ d.pa.count \in Nat /\ d.history.balance[o] \in Int /\ d.history.balance[o] <= 1
    BY DEF Dying, Sane, Formed, Tallied
  <1>1. ~ d.history.trouble => d.pa.count > 0 /\ d.pa.stream[o] = "active" /\ ok /\ d.history.balance[o] = 1
    <2>1. ~ d.history.trouble => d.history.robbed = {} /\ d.history.failed = {}
      BY <1>0 DEF Sane, Calm
    <2>2. ~ d.history.trouble => d.history.balance[o] = 1 /\ d.pa.stream[o] = "active"
      BY <2>1 DEF Dying
    <2> QED BY <1>0, <2>1, <2>2, HeldOpen
  <1>2. /\ Sane(x, o) /\ Turned(d, x, o, {"active"}, "open", ok)
        /\ Sane(s, o) /\ Switched(x, s, o)
    BY <1>0, <1>1, Stopping
  <1> HIDE DEF x, s
  <1>3. /\ x.objects = d.objects /\ x.history.balance = d.history.balance /\ x.pa.count = d.pa.count
        /\ x.history.robbed = d.history.robbed /\ x.history.trouble = d.history.trouble
        /\ x.pa.stream[o] \in {d.pa.stream[o], "open"}
        /\ d.pa.stream[o] = "unset" => x.pa.stream[o] = "unset"
    BY <1>0, <1>2 DEF Turned
  <1>4. /\ s.objects.alive = d.objects.alive /\ s.history.trouble = d.history.trouble
        /\ s.history.wild = x.history.wild
        /\ s.history.balance[o] <= d.history.balance[o] /\ s.history.balance[o] \in Int
        /\ d.history.robbed \subseteq s.history.robbed
        /\ d.pa.stream[o] = "unset" => s.pa.stream[o] = "unset"
    <2>1. CASE Given(x, s, o)
      <3>1. /\ s.history.balance[o] = x.history.balance[o] - 1
            /\ s.pa.stream[o] = x.pa.stream[o] \/ x.pa.stream[o] \in {"open", "active"}
            /\ x.history.robbed \subseteq s.history.robbed
        BY <1>2, <2>1, GivenOwn
      <3>2. /\ s.history.wild = x.history.wild /\ s.history.trouble = x.history.trouble
            /\ s.objects = x.objects
        BY <2>1 DEF Given
      <3> QED BY <1>0, <1>3, <3>1, <3>2
    <2>2. CASE Same(x, s)
      BY <1>0, <1>3, <2>2 DEF Same
    <2> QED BY <1>2, <2>1, <2>2 DEF Switched
  <1>5. ~ d.history.trouble =>
           /\ x.pa.err = FALSE /\ x.pa.stream[o] = "open" /\ x.history.wild = FALSE
           /\ Same(x, s) /\ s.pa.count > 0 /\ s.pa.stream[o] = "open" /\ s.history.balance[o] = 1
    <2> SUFFICES ASSUME ~ d.history.trouble
                 PROVE  /\ x.pa.err = FALSE /\ x.pa.stream[o] = "open" /\ x.history.wild = FALSE
                        /\ Same(x, s) /\ s.pa.count > 0 /\ s.pa.stream[o] = "open" /\ s.history.balance[o] = 1
      OBVIOUS
    <2>1. d.pa.count > 0 /\ d.pa.count # 0 /\ d.pa.stream[o] = "active" /\ ok /\ d.history.balance[o] = 1
          /\ d.history.wild = FALSE
      BY <1>0, <1>1 DEF Dying
    <2>2. x.pa.err = FALSE /\ x.pa.stream[o] = "open" /\ x.history.wild = FALSE
      BY <1>0, <1>2, <2>1 DEF Turned
    <2>3. Same(x, s)
      BY <1>2, <2>2 DEF Switched
    <2> QED BY <1>3, <2>1, <2>2, <2>3 DEF Same
  <1>6. Sane(c, o) /\ Turned(s, c, o, {"open", "active"}, "closed", TRUE)
    <2>1. s.history.trouble \/ (s.pa.count > 0 /\ s.pa.stream[o] \in {"open", "active"} /\ TRUE)
      BY <1>4, <1>5
    <2>2. "closed" \in State
      BY DEF State
    <2> DEFINE y == WithStream(s, o, {"open", "active"}, "closed", TRUE)
    <2>3. Sane(y, o) /\ Turned(s, y, o, {"open", "active"}, "closed", TRUE)
      BY <1>2, <2>1, <2>2, Calling
    <2>4. c = y
      BY DEF Pa_CloseStream
    <2> QED BY <2>3, <2>4
  <1> HIDE DEF c
  <1>7. /\ c.objects = s.objects /\ c.pa.count = s.pa.count /\ c.history.balance = s.history.balance
        /\ c.history.robbed = s.history.robbed /\ c.history.trouble = s.history.trouble
        /\ s.pa.stream[o] = "unset" => c.pa.stream[o] = "unset"
        /\ c.pa.stream[o] \notin {"open", "active"}
    <2>1. c.pa.count = 0 => c.pa.stream[o] \notin {"open", "active"}
      BY <1>6 DEF Sane, Shut
    <2>2. s.pa.stream \in [Object -> State] /\ s.pa.count \in Nat
      BY <1>2 DEF Sane, Formed
    <2> QED BY <1>6, <2>1, <2>2 DEF Turned
  <1>8. Sane(e, o) /\ Given(c, e, o)
    <2>1. ASSUME c.history.balance[o] <= 0
          PROVE  c.history.trouble /\ (o \in Mics \/ c.pa.stream[o] = "unset")
      <3>1. c.history.trouble
        BY <1>4, <1>5, <1>7, <2>1
      <3>2. CASE o \notin Mics
        <4>1. Same(x, s) /\ o \in Speakers
          BY <1>2, <3>2 DEF Switched, Object
        <4>2. d.history.balance[o] < 1
          BY <1>0, <1>3, <1>7, <2>1, <4>1 DEF Same
        <4>3. d.pa.stream[o] = "unset"
          BY <4>1, <4>2 DEF Dying
        <4> QED BY <1>4, <1>7, <3>1, <4>3
      <3> QED BY <3>1, <3>2
    <2> QED BY <1>6, <2>1, Terminating
  <1> HIDE DEF e
  <1>9. /\ e.history.balance[o] = c.history.balance[o] - 1
        /\ e.pa.stream[o] = c.pa.stream[o] \/ e.pa.stream[o] = "closed"
        /\ c.pa.count > 0 /\ c.history.balance[o] <= 0 => e.history.robbed # {}
        /\ c.history.robbed \subseteq e.history.robbed
        /\ e.objects = c.objects /\ e.history.wild = c.history.wild /\ e.history.trouble = c.history.trouble
    <2>1. /\ e.history.balance[o] = c.history.balance[o] - 1
          /\ e.pa.stream[o] = c.pa.stream[o] \/ (c.pa.stream[o] \in {"open", "active"} /\ e.pa.stream[o] = "closed")
          /\ c.pa.count > 0 /\ c.history.balance[o] <= 0 => e.history.robbed # {}
          /\ c.history.robbed \subseteq e.history.robbed
      BY <1>6, <1>8, GivenOwn
    <2>2. e.objects = c.objects /\ e.history.wild = c.history.wild /\ e.history.trouble = c.history.trouble
      BY <1>8 DEF Given
    <2> QED BY <2>1, <2>2
  <1>10. Settled(e, o)
    <2>1. e.history.balance[o] # 1
      BY <1>0, <1>4, <1>7, <1>9
    <2>2. e.pa.stream[o] \notin {"open", "active"} /\ o \notin e.objects.alive
      BY <1>4, <1>7, <1>9 DEF Dying
    <2> QED BY <2>1, <2>2 DEF Settled
  <1>11. x.history.wild => e.history.robbed # {}
    <2> SUFFICES ASSUME x.history.wild PROVE e.history.robbed # {}
      OBVIOUS
    <2>1. d.pa.count > 0 /\ d.pa.stream[o] \in {"unset", "closed"}
      BY <1>0, <1>2 DEF Turned, Dying
    <2>2. CASE d.history.balance[o] = 1
      <3>1. d.history.robbed # {}
        BY <2>1, <2>2 DEF Dying
      <3> QED BY <3>1, <1>4, <1>7, <1>9
    <2>3. CASE d.history.balance[o] # 1
      <3>1. d.history.balance[o] <= 0
        BY <1>0, <2>3
      <3>2. CASE Given(x, s, o)
        <4>1. s.history.robbed # {}
          BY <1>2, <1>3, <2>1, <3>1, <3>2, GivenOwn
        <4> QED BY <4>1, <1>7, <1>9
      <3>3. CASE Same(x, s)
        <4>1. c.pa.count > 0 /\ c.history.balance[o] <= 0
          BY <1>3, <1>7, <2>1, <3>1, <3>3 DEF Same
        <4> QED BY <4>1, <1>9
      <3> QED BY <1>2, <3>2, <3>3 DEF Switched
    <2> QED BY <2>2, <2>3
  <1>12. c.history.wild => x.history.wild
    <2> SUFFICES ASSUME c.history.wild, x.history.wild = FALSE PROVE FALSE
      <3>1. x.history.wild \in BOOLEAN
        BY <1>2 DEF Sane, Formed
      <3> QED BY <3>1
    <2>1. s.pa.count > 0 /\ s.pa.stream[o] \in {"unset", "closed"}
      BY <1>4, <1>6 DEF Turned
    <2>2. x.pa.count > 0 /\ x.pa.stream[o] \in {"unset", "closed"}
      <3>1. CASE Given(x, s, o)
        <4>1. x.pa.count \in Nat
          BY <1>2 DEF Sane, Formed
        <4>2. x.pa.count > 1
          BY <2>1, <3>1, <4>1 DEF Given
        <4>3. s.pa.stream = x.pa.stream
          BY <3>1, <4>2 DEF Given
        <4> QED BY <2>1, <4>1, <4>2, <4>3
      <3>2. CASE Same(x, s)
        BY <2>1, <3>2 DEF Same
      <3> QED BY <1>2, <3>1, <3>2 DEF Switched
    <2> QED BY <1>0, <1>2, <1>3, <2>2 DEF Turned
  <1>13. ~ e.history.trouble => ~ e.history.wild
    BY <1>4, <1>5, <1>7, <1>9, <1>12
  <1>14. Explained(e)
    BY <1>9, <1>11, <1>12, <1>13 DEF Explained
  <1>15. finishPa(d, o, ok) = e
    BY DEF finishPa, e, c, s
  <1> QED BY <1>8, <1>10, <1>14, <1>15 DEF Good, Whole, Sane

(* stream2, which happens only after a failure. *)
LEMMA Streaming ==
    ASSUME NEW d, NEW o \in Object, Whole(d), o \in d.objects.alive, o \in Speakers,
           d.history.wild = FALSE, d.history.trouble, NEW ok \in BOOLEAN
    PROVE  Good(start(d, o, ok))
  <1> DEFINE x == Pa_StartStream(d, o, ok)
             r == start(d, o, ok)
  <1>0. /\ Sane(d, o) /\ Settled(d, o) /\ d.pa.count \in Nat /\ d.pa.stream \in [Object -> State]
        /\ d.history.balance[o] \in Int /\ d.history.balance[o] <= 1 /\ o \notin Mics
    BY DevicesAssumption DEF Whole, Sane, Formed, Tallied
  <1>1. /\ Sane(x, o) /\ Turned(d, x, o, {"open"}, "active", ok)
        /\ Sane(r, o) /\ Switched(x, r, o)
    BY <1>0, Starting
  <1> HIDE DEF x, r
  <1>2. Same(x, r)
    BY <1>0, <1>1 DEF Switched
  <1>3. /\ r.objects.alive = d.objects.alive /\ r.history.balance = d.history.balance
        /\ r.history.robbed = d.history.robbed /\ r.history.trouble /\ r.pa.count = d.pa.count
    BY <1>1, <1>2 DEF Turned, Same
  <1>4. \/ r.pa.stream = d.pa.stream /\ r.history.failed = d.history.failed \union {o} /\ r.history.wild = FALSE
        \/ /\ r.pa.stream = d.pa.stream /\ r.history.failed = d.history.failed
           /\ d.pa.count > 0 /\ d.pa.stream[o] \in {"unset", "closed"}
        \/ /\ r.pa.stream = [d.pa.stream EXCEPT ![o] = "active"] /\ d.pa.stream[o] = "open"
           /\ r.history.failed = d.history.failed /\ r.history.wild = FALSE
    BY <1>1, <1>2 DEF Turned, Same
  <1>5. Settled(r, o)
    BY <1>0, <1>3, <1>4 DEF Settled
  <1>6. Explained(r)
    <2> SUFFICES ASSUME r.history.wild, r.history.robbed = {}
                 PROVE  \E q \in r.history.failed :
                           /\ r.pa.stream[q] = "unset"
                           /\ \E p \in r.objects.alive \ {q} : r.history.balance[p] > 0
      BY <1>3 DEF Explained
    <2>1. /\ r.pa.stream = d.pa.stream /\ r.history.failed = d.history.failed
          /\ d.pa.count > 0 /\ d.pa.stream[o] \in {"unset", "closed"}
      BY <1>4
    <2>2. d.history.balance[o] # 1
      BY <1>0, <1>3, <2>1 DEF Settled
    <2>3. o \in d.history.failed /\ d.pa.stream[o] = "unset"
      BY <1>0, <2>2 DEF Settled
    <2>4. \E p \in Object \ {o} : r.history.balance[p] = 1
      BY <1>1, <1>3, <2>1, <2>2, SomeHolder DEF Sane
    <2>5. \E p \in r.objects.alive \ {o} : r.history.balance[p] > 0
      BY <1>1, <2>4 DEF Sane, Settled
    <2> QED BY <2>1, <2>3, <2>5
  <1> QED BY <1>1, <1>5, <1>6 DEF Good, Whole, Sane, r

-----------------------------------------------------------------------------
(* The steps *)
LEMMA DevicesBegin ==
    ASSUME NEW plan, DevicesInit(plan)
    PROVE  Good(Now)
  <1> DEFINE d == Now
  <1>1. /\ d = [pa |-> pa, objects |-> objects, history |-> history]
        /\ d.pa = pa /\ d.objects = objects /\ d.history = history
    BY DEF Now
  <1> HIDE DEF d
  <1>2. /\ pa = [count |-> 0, stream |-> [o \in Object |-> "unset"], err |-> FALSE]
        /\ objects = [alive |-> {}, playing |-> {}, made |-> plan.made, fails |-> plan.fails]
        /\ history = [balance |-> [o \in Object |-> 0], robbed |-> {}, failed |-> {},
                      wild |-> FALSE, trouble |-> FALSE]
    BY DEF DevicesInit
  <1>3. Formed(d)
    <2>1. pa \in [count : Nat, stream : [Object -> State], err : BOOLEAN]
      BY <1>2 DEF State
    <2>2. history \in [balance : [Object -> Int], robbed : SUBSET (Object \X State),
                       failed : SUBSET Object, wild : BOOLEAN, trouble : BOOLEAN]
      BY <1>2
    <2>3. /\ objects.alive = {} /\ objects.playing = {}
          /\ objects = [alive |-> objects.alive, playing |-> objects.playing,
                        made |-> objects.made, fails |-> objects.fails]
      BY <1>2
    <2> QED BY <1>1, <2>1, <2>2, <2>3 DEF Formed
  <1>4. Tallied(d)
    <2>1. Holders(d) = {}
      BY <1>1, <1>2 DEF Holders
    <2>2. Cardinality(Holders(d)) = 0
      BY <2>1, FS_EmptySet
    <2>3. d.pa.count = 0 /\ \A o \in Object : d.history.balance[o] = 0
      BY <1>1, <1>2
    <2> QED BY <2>2, <2>3 DEF Tallied
  <1>5. Shut(d) /\ Thieves(d) /\ Calm(d) /\ Explained(d)
    BY <1>1, <1>2 DEF Shut, Thieves, Calm, Explained
  <1>6. \A o \in Object : Settled(d, o)
    BY <1>1, <1>2 DEF Settled
  <1> QED BY <1>3, <1>4, <1>5, <1>6 DEF Good, Whole, d

(* A handler ends as a Good e. *)
Ended(e) == pa' = e.pa /\ objects' = e.objects /\ history' = e.history

LEMMA EndedGood ==
    ASSUME NEW e, Good(e), Ended(e)
    PROVE  Good(Now)'
  <1>1. e = [pa |-> e.pa, objects |-> e.objects, history |-> e.history]
    BY DEF Good, Whole, Formed
  <1>2. Now' = e
    BY <1>1 DEF Ended, Now
  <1>3. Good(Now')
    BY <1>2
  <1>4. Good(Now)' <=> Good(Now')
    BY DEF Good, Whole, Formed, Tallied, Holders, Shut, Thieves, Calm, Settled, Explained
  <1> QED BY <1>3, <1>4

(* A call is to fail. *)
Warned(d, e) == e = [d EXCEPT !.objects.fails = @ - 1, !.history.trouble = TRUE]
WarnedAs(d, e) ==
    /\ e.pa = d.pa /\ e.objects.alive = d.objects.alive /\ e.objects.playing = d.objects.playing
    /\ e.history.balance = d.history.balance /\ e.history.robbed = d.history.robbed
    /\ e.history.failed = d.history.failed /\ e.history.wild = d.history.wild
    /\ e.history.trouble = TRUE

LEMMA Warning ==
    ASSUME NEW d, NEW e, NEW o \in Object, Sane(d, o), Warned(d, e)
    PROVE  Sane(e, o) /\ WarnedAs(d, e) /\ (Settled(d, o) => Settled(e, o))
  <1>1. /\ d.objects = [alive |-> d.objects.alive, playing |-> d.objects.playing,
                        made |-> d.objects.made, fails |-> d.objects.fails]
        /\ d.history = [balance |-> d.history.balance, robbed |-> d.history.robbed,
                        failed |-> d.history.failed, wild |-> d.history.wild, trouble |-> d.history.trouble]
        /\ d = [pa |-> d.pa, objects |-> d.objects, history |-> d.history]
    BY DEF Sane, Formed
  <1>2. e = [pa |-> d.pa,
             objects |-> [alive |-> d.objects.alive, playing |-> d.objects.playing,
                          made |-> d.objects.made, fails |-> d.objects.fails - 1],
             history |-> [balance |-> d.history.balance, robbed |-> d.history.robbed,
                          failed |-> d.history.failed, wild |-> d.history.wild, trouble |-> TRUE]]
    BY <1>1 DEF Warned
  <1>3. /\ e.pa = d.pa
        /\ e.objects = [alive |-> d.objects.alive, playing |-> d.objects.playing,
                        made |-> d.objects.made, fails |-> d.objects.fails - 1]
        /\ e.history = [balance |-> d.history.balance, robbed |-> d.history.robbed,
                        failed |-> d.history.failed, wild |-> d.history.wild, trouble |-> TRUE]
        /\ e = [pa |-> e.pa, objects |-> e.objects, history |-> e.history]
    BY <1>2
  <1>4. WarnedAs(d, e)
    BY <1>3 DEF WarnedAs
  <1>5. Formed(e)
    <2>1. e.history \in [balance : [Object -> Int], robbed : SUBSET (Object \X State),
                         failed : SUBSET Object, wild : BOOLEAN, trouble : BOOLEAN]
      BY <1>3 DEF Sane, Formed
    <2>2. e.objects = [alive |-> e.objects.alive, playing |-> e.objects.playing,
                       made |-> e.objects.made, fails |-> e.objects.fails]
      BY <1>3
    <2> QED BY <1>3, <1>4, <2>1, <2>2 DEF WarnedAs, Sane, Formed
  <1>6. Tallied(e)
    <2>1. Holders(e) = Holders(d)
      BY <1>4 DEF WarnedAs, Holders
    <2> QED BY <2>1, <1>4 DEF WarnedAs, Tallied, Sane
  <1>7. Shut(e) /\ Thieves(e) /\ Calm(e)
    BY <1>4 DEF WarnedAs, Shut, Thieves, Calm, Sane
  <1>8. ASSUME NEW p \in Object, Settled(d, p) PROVE Settled(e, p)
    BY <1>4, <1>8 DEF WarnedAs, Settled
  <1> QED BY <1>4, <1>5, <1>6, <1>7, <1>8 DEF Sane

(* New memory for o. *)
Renewed(d, e, o) ==
    e = [d EXCEPT !.objects.alive = @ \union {o}, !.objects.playing = @ \ {o},
                  !.objects.made = @ - 1, !.pa.stream[o] = "unset",
                  !.history.balance[o] = 0, !.history.failed = @ \ {o}]

LEMMA Renewing ==
    ASSUME NEW d, NEW e, NEW o \in Object, Whole(d), o \notin d.objects.alive,
           d.history.wild = FALSE, Renewed(d, e, o)
    PROVE  Fresh(e, o) /\ e.pa.count = d.pa.count
  <1>1. /\ d.pa = [count |-> d.pa.count, stream |-> d.pa.stream, err |-> d.pa.err]
        /\ d.pa.count \in Nat /\ d.pa.stream \in [Object -> State] /\ d.pa.err \in BOOLEAN
        /\ d.objects = [alive |-> d.objects.alive, playing |-> d.objects.playing,
                        made |-> d.objects.made, fails |-> d.objects.fails]
        /\ d.history = [balance |-> d.history.balance, robbed |-> d.history.robbed,
                        failed |-> d.history.failed, wild |-> d.history.wild, trouble |-> d.history.trouble]
        /\ d.history.balance \in [Object -> Int] /\ d.history.robbed \subseteq Object \X State
        /\ d.history.trouble \in BOOLEAN /\ d.history.failed \subseteq Object
        /\ d.objects.alive \subseteq Object /\ d.objects.playing \subseteq Object
        /\ d = [pa |-> d.pa, objects |-> d.objects, history |-> d.history]
        /\ Settled(d, o) /\ d.history.balance[o] <= 1
    BY DEF Whole, Formed, Tallied
  <1>2. e = [pa |-> [count |-> d.pa.count, stream |-> [d.pa.stream EXCEPT ![o] = "unset"], err |-> d.pa.err],
             objects |-> [alive |-> d.objects.alive \union {o}, playing |-> d.objects.playing \ {o},
                          made |-> d.objects.made - 1, fails |-> d.objects.fails],
             history |-> [balance |-> [d.history.balance EXCEPT ![o] = 0], robbed |-> d.history.robbed,
                          failed |-> d.history.failed \ {o}, wild |-> d.history.wild,
                          trouble |-> d.history.trouble]]
    BY <1>1 DEF Renewed
  <1>3. /\ e.pa = [count |-> d.pa.count, stream |-> [d.pa.stream EXCEPT ![o] = "unset"], err |-> d.pa.err]
        /\ e.objects = [alive |-> d.objects.alive \union {o}, playing |-> d.objects.playing \ {o},
                        made |-> d.objects.made - 1, fails |-> d.objects.fails]
        /\ e.history = [balance |-> [d.history.balance EXCEPT ![o] = 0], robbed |-> d.history.robbed,
                        failed |-> d.history.failed \ {o}, wild |-> d.history.wild,
                        trouble |-> d.history.trouble]
        /\ e = [pa |-> e.pa, objects |-> e.objects, history |-> e.history]
    BY <1>2
  <1>4. /\ e.pa.count = d.pa.count /\ e.pa.stream = [d.pa.stream EXCEPT ![o] = "unset"] /\ e.pa.err = d.pa.err
        /\ e.objects.alive = d.objects.alive \union {o} /\ e.objects.playing = d.objects.playing \ {o}
        /\ e.history.balance = [d.history.balance EXCEPT ![o] = 0] /\ e.history.robbed = d.history.robbed
        /\ e.history.failed = d.history.failed \ {o} /\ e.history.wild = FALSE
        /\ e.history.trouble = d.history.trouble
        /\ e.pa = [count |-> e.pa.count, stream |-> e.pa.stream, err |-> e.pa.err]
        /\ e.objects = [alive |-> e.objects.alive, playing |-> e.objects.playing,
                        made |-> e.objects.made, fails |-> e.objects.fails]
        /\ e.history = [balance |-> e.history.balance, robbed |-> e.history.robbed,
                        failed |-> e.history.failed, wild |-> e.history.wild, trouble |-> e.history.trouble]
    BY <1>3
  <1>5. /\ e.pa.stream \in [Object -> State] /\ e.pa.stream[o] = "unset"
        /\ \A p \in Object \ {o} : e.pa.stream[p] = d.pa.stream[p]
        /\ e.history.balance \in [Object -> Int] /\ e.history.balance[o] = 0
        /\ \A p \in Object \ {o} : e.history.balance[p] = d.history.balance[p]
    BY <1>1, <1>4 DEF State
  <1>6. Formed(e)
    <2>1. e.pa \in [count : Nat, stream : [Object -> State], err : BOOLEAN]
      BY <1>1, <1>4, <1>5
    <2>2. e.history \in [balance : [Object -> Int], robbed : SUBSET (Object \X State),
                         failed : SUBSET Object, wild : BOOLEAN, trouble : BOOLEAN]
      BY <1>1, <1>4, <1>5
    <2>3. e.objects.alive \subseteq Object /\ e.objects.playing \subseteq Object
      BY <1>1, <1>4
    <2> QED BY <1>3, <1>4, <2>1, <2>2, <2>3 DEF Formed
  <1>7. Tallied(e)
    <2>1. d.history.balance[o] # 1
      BY <1>1 DEF Settled
    <2>2. Holders(e) = Holders(d)
      BY <1>5, <2>1 DEF Holders
    <2>3. \A p \in Object : e.history.balance[p] <= 1
      BY <1>5 DEF Whole, Tallied
    <2> QED BY <2>2, <2>3, <1>4 DEF Tallied, Whole
  <1>8. Shut(e) /\ Thieves(e) /\ Calm(e)
    BY <1>4, <1>5 DEF Shut, Thieves, Calm, Whole
  <1>9. ASSUME NEW p \in Object \ {o} PROVE Settled(e, p)
    BY <1>4, <1>5 DEF Settled, Whole
  <1> QED BY <1>4, <1>5, <1>6, <1>7, <1>8, <1>9 DEF Fresh, Sane

(* o is no longer among the living. *)
Buried(d, e, o) == e = [d EXCEPT !.objects.alive = @ \ {o}]

LEMMA Burying ==
    ASSUME NEW d, NEW e, NEW o \in Object, Whole(d), o \in d.objects.alive,
           d.history.wild = FALSE, Buried(d, e, o)
    PROVE  Dying(e, o)
  <1>1. /\ d.objects = [alive |-> d.objects.alive, playing |-> d.objects.playing,
                        made |-> d.objects.made, fails |-> d.objects.fails]
        /\ d.objects.alive \subseteq Object
        /\ d = [pa |-> d.pa, objects |-> d.objects, history |-> d.history]
    BY DEF Whole, Formed
  <1>2. e = [pa |-> d.pa,
             objects |-> [alive |-> d.objects.alive \ {o}, playing |-> d.objects.playing,
                          made |-> d.objects.made, fails |-> d.objects.fails],
             history |-> d.history]
    BY <1>1 DEF Buried
  <1>3. /\ e.pa = d.pa /\ e.history = d.history
        /\ e.objects = [alive |-> d.objects.alive \ {o}, playing |-> d.objects.playing,
                        made |-> d.objects.made, fails |-> d.objects.fails]
        /\ e = [pa |-> e.pa, objects |-> e.objects, history |-> e.history]
    BY <1>2
  <1>4. /\ e.objects.alive = d.objects.alive \ {o} /\ e.objects.playing = d.objects.playing
        /\ e.objects = [alive |-> e.objects.alive, playing |-> e.objects.playing,
                        made |-> e.objects.made, fails |-> e.objects.fails]
    BY <1>3
  <1>5. Formed(e)
    BY <1>1, <1>3, <1>4 DEF Whole, Formed
  <1>6. Tallied(e) /\ Shut(e) /\ Thieves(e) /\ Calm(e)
    BY <1>3 DEF Whole, Tallied, Holders, Shut, Thieves, Calm
  <1>7. ASSUME NEW p \in Object \ {o} PROVE Settled(e, p)
    BY <1>3, <1>4 DEF Whole, Settled
  <1>8. Settled(d, o)
    BY DEF Whole
  <1> QED BY <1>3, <1>4, <1>5, <1>6, <1>7, <1>8 DEF Dying, Sane, Settled

LEMMA MakingGood ==
    ASSUME Good(Now), NEW o \in Object, MakeModule(o)
    PROVE  Good(Now)'
  <1> DEFINE new == [Now EXCEPT !.objects.alive = @ \union {o}, !.objects.playing = @ \ {o},
                                !.objects.made = @ - 1, !.pa.stream[o] = "unset",
                                !.history.balance[o] = 0, !.history.failed = @ \ {o}]
             warned == [new EXCEPT !.objects.fails = @ - 1, !.history.trouble = TRUE]
  <1>1. PICK fails \in {"no", "device", "open", "start"} \union (IF pa.count = 0 THEN {"initialize"} ELSE {}) :
               Handler(new, fails, LAMBDA d : preparePa(d, o, fails))
    BY DEF MakeModule
  <1>2. fails \in {"no", "initialize", "device", "open", "start"} /\ (fails = "initialize" => pa.count = 0)
    BY <1>1
  <1> DEFINE d == IF fails = "no" THEN new ELSE warned
  <1>3. history.wild = FALSE /\ Ended(preparePa(d, o, fails))
    <2>1. history.wild \in BOOLEAN
      BY DEF Good, Whole, Formed, Now
    <2> QED BY <1>1, <2>1 DEF Handler, Ended
  <1>4. Renewed(Now, new, o) /\ Warned(new, warned)
    BY DEF Renewed, Warned
  <1>5. Whole(Now) /\ o \notin Now.objects.alive /\ Now.history.wild = FALSE /\ Now.pa.count = pa.count
    BY <1>3 DEF Good, MakeModule, Now
  <1> HIDE DEF new, warned
  <1>6. Fresh(new, o) /\ new.pa.count = pa.count
    BY <1>4, <1>5, Renewing
  <1>7. Sane(warned, o) /\ WarnedAs(new, warned)
    BY <1>4, <1>6, Warning DEF Fresh
  <1>8. Fresh(warned, o) /\ warned.pa.count = pa.count /\ warned.history.trouble
    BY <1>6, <1>7 DEF Fresh, WarnedAs
  <1>9. Fresh(d, o) /\ d.pa.count = pa.count /\ (fails # "no" => d.history.trouble)
    BY <1>6, <1>8
  <1> HIDE DEF d
  <1>10. Good(preparePa(d, o, fails))
    BY <1>2, <1>9, Preparing
  <1> QED BY <1>3, <1>10, EndedGood

LEMMA EndingGood ==
    ASSUME Good(Now), NEW o \in Object, EndModule(o)
    PROVE  Good(Now)'
  <1> DEFINE new == [Now EXCEPT !.objects.alive = @ \ {o}]
             warned == [new EXCEPT !.objects.fails = @ - 1, !.history.trouble = TRUE]
  <1>1. PICK fails \in {"no", "stop"} : Handler(new, fails, LAMBDA d : finishPa(d, o, fails = "no"))
    BY DEF EndModule
  <1> DEFINE d == IF fails = "no" THEN new ELSE warned
  <1>3. history.wild = FALSE /\ Ended(finishPa(d, o, fails = "no"))
    <2>1. history.wild \in BOOLEAN
      BY DEF Good, Whole, Formed, Now
    <2> QED BY <1>1, <2>1 DEF Handler, Ended
  <1>4. Buried(Now, new, o) /\ Warned(new, warned)
    BY DEF Buried, Warned
  <1>5. Whole(Now) /\ o \in Now.objects.alive /\ Now.history.wild = FALSE
    BY <1>3 DEF Good, EndModule, Now
  <1> HIDE DEF new, warned
  <1>6. Dying(new, o)
    BY <1>4, <1>5, Burying
  <1>7. Sane(warned, o) /\ WarnedAs(new, warned)
    BY <1>4, <1>6, Warning DEF Dying
  <1>8. Dying(warned, o) /\ warned.history.trouble
    BY <1>6, <1>7 DEF Dying, WarnedAs
  <1>9. Dying(d, o) /\ (fails # "no" => d.history.trouble)
    BY <1>6, <1>8
  <1> HIDE DEF d
  <1>10. Good(finishPa(d, o, fails = "no"))
    <2>1. (fails = "no") \in BOOLEAN
      OBVIOUS
    <2> QED BY <1>9, <2>1, Finishing
  <1> QED BY <1>3, <1>10, EndedGood

LEMMA StreamingGood ==
    ASSUME Good(Now), NEW o \in Object, stream2(o)
    PROVE  Good(Now)'
  <1> DEFINE warned == [Now EXCEPT !.objects.fails = @ - 1, !.history.trouble = TRUE]
  <1>1. PICK fails \in {"no", "start"} : Handler(Now, fails, LAMBDA d : start(d, o, fails = "no"))
    BY DEF stream2
  <1> DEFINE d == IF fails = "no" THEN Now ELSE warned
  <1>3. history.wild = FALSE /\ Ended(start(d, o, fails = "no"))
    <2>1. history.wild \in BOOLEAN
      BY DEF Good, Whole, Formed, Now
    <2> QED BY <1>1, <2>1 DEF Handler, Ended
  <1>4. Warned(Now, warned)
    BY DEF Warned
  <1>5. /\ Whole(Now) /\ o \in Now.objects.alive /\ o \notin Now.objects.playing
        /\ Now.history.wild = FALSE /\ o \in Speakers
    BY <1>3 DEF Good, stream2, Now
  <1>6. Now.history.trouble = TRUE
    BY <1>5 DEF Whole, Settled, Formed
  <1> HIDE DEF warned
  <1>7. Sane(warned, o) /\ WarnedAs(Now, warned) /\ Settled(warned, o)
    BY <1>4, <1>5, Warning DEF Whole, Sane
  <1>8. Whole(warned)
    BY <1>7 DEF Whole, Sane
  <1>9. Whole(d) /\ o \in d.objects.alive /\ d.history.wild = FALSE /\ d.history.trouble
    BY <1>5, <1>6, <1>7, <1>8 DEF WarnedAs
  <1> HIDE DEF d
  <1>10. Good(start(d, o, fails = "no"))
    <2>1. (fails = "no") \in BOOLEAN
      OBVIOUS
    <2> QED BY <1>5, <1>9, <2>1, Streaming
  <1> QED BY <1>3, <1>10, EndedGood

LEMMA DevicesStep == Good(Now) /\ [DevicesNext]_devices => Good(Now)'
  <1>1. ASSUME Good(Now), UNCHANGED devices PROVE Good(Now)'
    BY <1>1 DEF devices, Now, Good, Whole, Formed, Tallied, Holders, Shut, Thieves, Calm, Settled, Explained
  <1>2. ASSUME Good(Now), DevicesNext PROVE Good(Now)'
    BY <1>2, MakingGood, EndingGood, StreamingGood DEF DevicesNext
  <1> QED BY <1>1, <1>2

(* What is promised follows. *)
LEMMA DevicesAgree == Good(Now) => DevicesInv
  <1> SUFFICES ASSUME Good(Now) PROVE DevicesInv
    OBVIOUS
  <1>1. /\ Formed(Now) /\ Tallied(Now) /\ Shut(Now) /\ Thieves(Now) /\ Calm(Now)
        /\ \A o \in Object : Settled(Now, o)
        /\ Explained(Now)
    BY DEF Good, Whole
  <1>2. Now.pa = pa /\ Now.objects = objects /\ Now.history = history
    BY DEF Now
  <1>3. DevicesTypeOK
    <2>1. /\ pa \in [count : Nat, stream : [Object -> State], err : BOOLEAN]
          /\ objects.alive \subseteq Object /\ objects.playing \subseteq Object
          /\ history \in [balance : [Object -> Int], robbed : SUBSET (Object \X State),
                          failed : SUBSET Object, wild : BOOLEAN, trouble : BOOLEAN]
      BY <1>1, <1>2 DEF Formed
    <2> QED BY <2>1 DEF DevicesTypeOK, State
  <1>4. CallsTheLiving
    BY <1>1, <1>2 DEF CallsTheLiving, Settled
  <1>5. StreamsHeard
    <2>1. \A o \in objects.alive \ history.failed : pa.stream[o] = "active" \/ history.robbed # {}
      BY <1>1, <1>2 DEF Settled, Formed
    <2>2. \A r \in history.robbed : r[1] \in Mics \/ r[2] = "unset"
      BY <1>1, <1>2 DEF Thieves
    <2> QED BY <2>1, <2>2 DEF StreamsHeard
  <1>6. WildExplained
    BY <1>1, <1>2 DEF WildExplained, Explained, Calm
  <1>7. NothingLeft
    <2> SUFFICES ASSUME objects.alive = {}
                 PROVE  pa.count = 0 /\ \A o \in Object : pa.stream[o] \in {"unset", "closed"}
      BY DEF NothingLeft
    <2>1. Holders(Now) = {}
      BY <1>1, <1>2 DEF Holders, Settled
    <2>2. Cardinality(Holders(Now)) = 0
      BY <2>1, FS_EmptySet
    <2>3. pa.count = 0
      BY <1>1, <1>2, <2>2 DEF Tallied, Formed
    <2>4. \A o \in Object : pa.stream[o] \in State
      BY <1>1, <1>2 DEF Formed
    <2> QED BY <1>1, <1>2, <2>3, <2>4 DEF Settled, State
  <1> QED BY <1>3, <1>4, <1>5, <1>6, <1>7 DEF DevicesInv

(* The streams of PortAudio: the modules play or listen unless a call has  *)
(* failed, PortAudio is taken from a module only by a handler that gave up *)
(* in the middle, and nothing stays open once the last module is gone      *)
(* (DAC.cpp, ADC.cpp).                                                     *)
THEOREM Devices == Spec => []DevicesInv
  <1>1. Init => Good(Now)
    BY DevicesBegin DEF Init
  <1>2. Good(Now) /\ [Next]_vars => Good(Now)'
    <2> SUFFICES ASSUME Good(Now), [Next]_vars PROVE Good(Now)'
      OBVIOUS
    <2>1. [DevicesNext]_devices
      BY DEF Next, vars, apart
    <2> QED BY <2>1, DevicesStep
  <1> QED BY <1>1, <1>2, DevicesAgree, PTL DEF Spec

-----------------------------------------------------------------------------
(* Delay.  With the duration ps the places 0 .. ps are written in turn; p  *)
(* holds the sample NewestAt(p), as soon as the position has come to 0,    *)
(* unless the buffer was cleared since.                                    *)
DelayFormed(d) ==
    /\ d = [ps |-> d.ps, dp |-> d.dp, bypassing |-> d.bypassing, buf |-> d.buf, left |-> d.left, n |-> d.n,
            since |-> d.since, cleared |-> d.cleared, echo |-> d.echo, over |-> d.over, odd |-> d.odd]
    /\ d.n \in Nat /\ d.since \in 0 .. d.n /\ d.cleared \in 0 .. d.n
    /\ d.echo = [at |-> d.echo.at, of |-> d.echo.of, cleared |-> d.echo.cleared]
    /\ d.echo.at \in 0 .. d.n
NewestAt(d, p) == IF p < d.dp THEN d.n - (d.dp - 1 - p) ELSE d.n - (d.dp + d.ps - p)
Holds(d, p) ==
    LET s == NewestAt(d, p) IN
    s > d.since + 1 => IF s > d.cleared THEN p \in DOMAIN d.buf /\ d.buf[p] = s ELSE p \notin DOMAIN d.buf
DelayEven(d) ==
    /\ d.ps \in 1 .. Size - 1 /\ d.dp \in 0 .. Size - 1 /\ ~ d.over
    /\ d.n > d.since => d.dp <= d.ps
    /\ \A p \in 0 .. d.ps : Holds(d, p)
    /\ LET e == d.echo  first == e.at - (d.ps + 1) IN
       e.at - d.since > 2 * (d.ps + 1) => e.of = IF first > e.cleared THEN first ELSE 0
DelayGood(d) == DelayFormed(d) /\ (~ d.odd => DelayEven(d))

LEMMA DelayBegins == EffectsInit => DelayGood(delay)
  <1> SUFFICES ASSUME EffectsInit PROVE DelayGood(delay)
    OBVIOUS
  <1> DEFINE q == Size \div 4
             d == delay
  <1>1. q \in 1 .. Size - 1 /\ Size \in Nat
    BY EffectAssumption
  <1>2. /\ d = [ps |-> q, dp |-> 0, bypassing |-> FALSE, buf |-> <<>>, left |-> 0, n |-> 0,
                since |-> 0, cleared |-> 0, echo |-> [at |-> 0, of |-> 0, cleared |-> 0], over |-> FALSE,
                odd |-> FALSE]
    BY DEF EffectsInit
  <1> HIDE DEF q, d
  <1>3. /\ d.ps = q /\ d.dp = 0 /\ d.n = 0 /\ d.since = 0 /\ d.cleared = 0 /\ d.over = FALSE
        /\ d.echo = [at |-> 0, of |-> 0, cleared |-> 0]
    BY <1>2
  <1>4. DelayFormed(d)
    BY <1>2, <1>3 DEF DelayFormed
  <1>5. \A p \in 0 .. d.ps : Holds(d, p)
    BY <1>1, <1>3 DEF Holds, NewestAt
  <1>6. DelayEven(d)
    BY <1>1, <1>3, <1>5, EffectAssumption DEF DelayEven
  <1> QED BY <1>4, <1>6 DEF DelayGood, d

LEMMA SetDtKeeps == ASSUME DelayGood(delay), NEW v, setDt(v) PROVE DelayGood(delay')
  <1> DEFINE d == delay
             e == delay'
             D == Duration(v)
  <1>1. CASE e = d
    BY <1>1
  <1>2. CASE e = [d EXCEPT !.ps = D, !.since = d.n, !.odd = @ \/ D \notin 1 .. Size - 1]
    <2>1. DelayFormed(d) /\ (~ d.odd => DelayEven(d))
      BY DEF DelayGood
    <2> HIDE DEF d, e, D
    <2>2. /\ e = [ps |-> D, dp |-> d.dp, bypassing |-> d.bypassing, buf |-> d.buf, left |-> d.left, n |-> d.n,
                  since |-> d.n, cleared |-> d.cleared, echo |-> d.echo, over |-> d.over,
                  odd |-> d.odd \/ D \notin 1 .. Size - 1]
      BY <1>2, <2>1 DEF DelayFormed
    <2>3. /\ e.ps = D /\ e.dp = d.dp /\ e.n = d.n /\ e.since = d.n /\ e.cleared = d.cleared /\ e.echo = d.echo
          /\ e.over = d.over /\ e.odd = (d.odd \/ D \notin 1 .. Size - 1) /\ e.buf = d.buf
          /\ e = [ps |-> e.ps, dp |-> e.dp, bypassing |-> e.bypassing, buf |-> e.buf, left |-> e.left, n |-> e.n,
                  since |-> e.since, cleared |-> e.cleared, echo |-> e.echo, over |-> e.over, odd |-> e.odd]
      BY <2>2
    <2>4. DelayFormed(e)
      BY <2>1, <2>3 DEF DelayFormed
    <2>5. ASSUME ~ e.odd PROVE DelayEven(e)
      <3>1. DelayEven(d) /\ D \in 1 .. Size - 1
        BY <2>1, <2>3, <2>5
      <3>2. \A p \in 0 .. e.ps : Holds(e, p)
        <4> SUFFICES ASSUME NEW p \in 0 .. e.ps PROVE ~ (NewestAt(e, p) > e.since + 1)
          BY DEF Holds
        <4>1. e.dp \in Nat /\ e.n \in Nat /\ e.ps \in Nat /\ p \in Nat /\ p <= e.ps
          BY <2>1, <2>3, <3>1, EffectAssumption DEF DelayEven, DelayFormed
        <4>2. NewestAt(e, p) <= e.n
          BY <4>1 DEF NewestAt
        <4>3. NewestAt(e, p) \in Int
          BY <4>1 DEF NewestAt
        <4> QED BY <2>3, <4>1, <4>2, <4>3
      <3>3. ~ (e.echo.at - e.since > 2 * (e.ps + 1))
        <4>1. e.echo.at \in Int /\ e.echo.at <= e.since /\ e.since \in Nat /\ e.ps \in Nat
          BY <2>1, <2>3, <3>1, EffectAssumption DEF DelayFormed
        <4> QED BY <4>1
      <3>4. e.ps \in 1 .. Size - 1 /\ e.dp \in 0 .. Size - 1 /\ ~ e.over
        BY <2>3, <3>1 DEF DelayEven
      <3>5. ~ (e.n > e.since)
        <4>1. d.n \in Nat
          BY <2>1 DEF DelayFormed
        <4> QED BY <2>3, <4>1
      <3> QED BY <3>2, <3>3, <3>4, <3>5 DEF DelayEven
    <2> QED BY <2>4, <2>5 DEF DelayGood, e
  <1> QED BY <1>1, <1>2 DEF setDt

LEMMA BypassKeeps == ASSUME DelayGood(delay), NEW v, bypass(v) PROVE DelayGood(delay')
  <1> DEFINE d == delay
             e == delay'
  <1>1. CASE e = d
    BY <1>1
  <1>2. CASE e = [d EXCEPT !.bypassing = (v < 1), !.buf = <<>>, !.cleared = d.n]
    <2>1. DelayFormed(d) /\ (~ d.odd => DelayEven(d))
      BY DEF DelayGood
    <2> HIDE DEF d, e
    <2>2. /\ e.ps = d.ps /\ e.dp = d.dp /\ e.n = d.n /\ e.since = d.since /\ e.cleared = d.n /\ e.echo = d.echo
          /\ e.over = d.over /\ e.odd = d.odd /\ e.buf = <<>>
          /\ e = [ps |-> e.ps, dp |-> e.dp, bypassing |-> e.bypassing, buf |-> e.buf, left |-> e.left, n |-> e.n,
                  since |-> e.since, cleared |-> e.cleared, echo |-> e.echo, over |-> e.over, odd |-> e.odd]
      <3>1. e = [ps |-> d.ps, dp |-> d.dp, bypassing |-> v < 1, buf |-> <<>>, left |-> d.left, n |-> d.n,
                 since |-> d.since, cleared |-> d.n, echo |-> d.echo, over |-> d.over, odd |-> d.odd]
        BY <1>2, <2>1 DEF DelayFormed
      <3> QED BY <3>1
    <2>3. DelayFormed(e)
      BY <2>1, <2>2 DEF DelayFormed
    <2>4. ASSUME ~ e.odd PROVE DelayEven(e)
      <3>1. DelayEven(d)
        BY <2>1, <2>2, <2>4
      <3>2. \A p \in 0 .. e.ps : Holds(e, p)
        <4> SUFFICES ASSUME NEW p \in 0 .. e.ps PROVE Holds(e, p)
          OBVIOUS
        <4>1. e.dp \in Nat /\ e.n \in Nat /\ e.ps \in Nat /\ p \in Nat /\ p <= e.ps
          BY <2>1, <2>2, <3>1, EffectAssumption DEF DelayEven, DelayFormed
        <4>2. NewestAt(e, p) <= e.n /\ NewestAt(e, p) \in Int
          BY <4>1 DEF NewestAt
        <4>3. p \notin DOMAIN e.buf
          <5>1. DOMAIN <<>> = {}
            OBVIOUS
          <5> QED BY <2>2, <5>1
        <4>4. ~ (NewestAt(e, p) > e.cleared)
          BY <2>2, <4>1, <4>2
        <4> QED BY <4>3, <4>4 DEF Holds
      <3> QED BY <2>2, <3>1, <3>2 DEF DelayEven
    <2> QED BY <2>3, <2>4 DEF DelayGood, e
  <1> QED BY <1>1, <1>2 DEF bypass

LEMMA DelayPacketKeeps == ASSUME DelayGood(delay), DelayPacket PROVE DelayGood(delay')
  <1> DEFINE d == delay
             e == delay'
  <1>1. CASE e = d
    BY <1>1
  <1>2. CASE e = [d EXCEPT !.left = PacketSize]
    <2>1. DelayFormed(d) /\ (~ d.odd => DelayEven(d))
      BY DEF DelayGood
    <2> HIDE DEF d, e
    <2>2. /\ e.ps = d.ps /\ e.dp = d.dp /\ e.n = d.n /\ e.since = d.since /\ e.cleared = d.cleared /\ e.echo = d.echo
          /\ e.over = d.over /\ e.odd = d.odd /\ e.buf = d.buf
          /\ e = [ps |-> e.ps, dp |-> e.dp, bypassing |-> e.bypassing, buf |-> e.buf, left |-> e.left, n |-> e.n,
                  since |-> e.since, cleared |-> e.cleared, echo |-> e.echo, over |-> e.over, odd |-> e.odd]
      <3>1. e = [ps |-> d.ps, dp |-> d.dp, bypassing |-> d.bypassing, buf |-> d.buf, left |-> PacketSize, n |-> d.n,
                 since |-> d.since, cleared |-> d.cleared, echo |-> d.echo, over |-> d.over, odd |-> d.odd]
        BY <1>2, <2>1 DEF DelayFormed
      <3> QED BY <3>1
    <2>3. DelayFormed(e)
      BY <2>1, <2>2 DEF DelayFormed
    <2>4. DelayEven(d) => DelayEven(e)
      BY <2>2 DEF DelayEven, Holds, NewestAt
    <2> QED BY <2>1, <2>2, <2>3, <2>4 DEF DelayGood, e
  <1> QED BY <1>1, <1>2 DEF DelayPacket

LEMMA DelaySampleKeeps == ASSUME DelayGood(delay), DelaySample PROVE DelayGood(delay')
  <1> DEFINE d == delay
             e == delay'
             n == d.n + 1
             stored == IF d.dp \in DOMAIN d.buf THEN d.buf[d.dp] ELSE 0
             held == [p \in DOMAIN d.buf \union {d.dp} |-> IF p = d.dp THEN n ELSE d.buf[p]]
             echo == [at |-> n, of |-> stored, cleared |-> d.cleared]
             dp == NextPlace(d.dp, d.ps)
  <1>1. DelayFormed(d) /\ (~ d.odd => DelayEven(d))
    BY DEF DelayGood
  <1>2. CASE d.dp >= Size
    <2>1. e = [d EXCEPT !.over = TRUE]
      BY <1>2 DEF DelaySample
    <2> HIDE DEF d, e
    <2>2. /\ e.n = d.n /\ e.since = d.since /\ e.cleared = d.cleared /\ e.echo = d.echo /\ e.odd = d.odd
          /\ e = [ps |-> e.ps, dp |-> e.dp, bypassing |-> e.bypassing, buf |-> e.buf, left |-> e.left, n |-> e.n,
                  since |-> e.since, cleared |-> e.cleared, echo |-> e.echo, over |-> e.over, odd |-> e.odd]
      <3>1. e = [ps |-> d.ps, dp |-> d.dp, bypassing |-> d.bypassing, buf |-> d.buf, left |-> d.left, n |-> d.n,
                 since |-> d.since, cleared |-> d.cleared, echo |-> d.echo, over |-> TRUE, odd |-> d.odd]
        BY <1>1, <2>1 DEF DelayFormed
      <3> QED BY <3>1
    <2>3. DelayFormed(e)
      BY <1>1, <2>2 DEF DelayFormed
    <2>4. d.odd = TRUE \/ ~ (~ d.odd)
      <3>1. DelayEven(d) => ~ (d.dp >= Size)
        BY EffectAssumption DEF DelayEven
      <3> QED BY <1>1, <1>2, <3>1
    <2> QED BY <2>2, <2>3, <2>4 DEF DelayGood, e
  <1>3. CASE ~ (d.dp >= Size)
    <2>1. e = [d EXCEPT !.n = n, !.left = @ - 1, !.dp = dp, !.buf = held, !.echo = echo]
      BY <1>3 DEF DelaySample
    <2> HIDE DEF d, e, held, echo, dp, n, stored
    <2>2. e = [ps |-> d.ps, dp |-> dp, bypassing |-> d.bypassing, buf |-> held, left |-> d.left - 1, n |-> n,
               since |-> d.since, cleared |-> d.cleared, echo |-> echo, over |-> d.over, odd |-> d.odd]
      BY <1>1, <2>1 DEF DelayFormed
    <2>3. /\ e.ps = d.ps /\ e.dp = dp /\ e.n = n /\ e.since = d.since /\ e.cleared = d.cleared /\ e.echo = echo
          /\ e.over = d.over /\ e.odd = d.odd /\ e.buf = held
          /\ e = [ps |-> e.ps, dp |-> e.dp, bypassing |-> e.bypassing, buf |-> e.buf, left |-> e.left, n |-> e.n,
                  since |-> e.since, cleared |-> e.cleared, echo |-> e.echo, over |-> e.over, odd |-> e.odd]
      BY <2>2
    <2>4. echo.at = n /\ echo.of = stored /\ echo.cleared = d.cleared
          /\ echo = [at |-> echo.at, of |-> echo.of, cleared |-> echo.cleared]
      BY DEF echo
    <2>5. n = d.n + 1 /\ n \in Nat /\ d.n \in Nat /\ d.since \in 0 .. d.n /\ d.cleared \in 0 .. d.n
      BY <1>1 DEF DelayFormed, n
    <2>6. DelayFormed(e)
      BY <2>3, <2>4, <2>5 DEF DelayFormed
    <2>7. ASSUME ~ e.odd PROVE DelayEven(e)
      <3>1. DelayEven(d)
        BY <1>1, <2>3, <2>7
      <3>2. /\ d.ps \in 1 .. Size - 1 /\ d.dp \in 0 .. Size - 1 /\ ~ d.over /\ Size \in Nat /\ d.ps \in Nat /\ d.dp \in Nat
            /\ (d.n > d.since => d.dp <= d.ps)
        BY <3>1, EffectAssumption DEF DelayEven
      <3>3. dp = (IF d.dp <= d.ps - 1 THEN d.dp + 1 ELSE 0) /\ dp \in 0 .. d.ps /\ dp \in 0 .. Size - 1
        <4>1. dp = (IF d.dp <= d.ps - 1 THEN d.dp + 1 ELSE 0)
          BY <3>2 DEF dp, NextPlace
        <4> QED BY <3>2, <4>1
      <3>4. ASSUME NEW p \in 0 .. d.ps, NewestAt(e, p) > e.since + 1
            PROVE  /\ d.dp <= d.ps
                   /\ p = d.dp => NewestAt(e, p) = n
                   /\ p # d.dp => NewestAt(e, p) = NewestAt(d, p)
        <4>1. p \in Nat /\ p <= d.ps
          BY <3>2
        <4>2. NewestAt(e, p) = IF p < dp THEN n - (dp - 1 - p) ELSE n - (dp + d.ps - p)
          BY <2>3 DEF NewestAt
        <4>3. NewestAt(d, p) = IF p < d.dp THEN d.n - (d.dp - 1 - p) ELSE d.n - (d.dp + d.ps - p)
          BY DEF NewestAt
        <4>4. NewestAt(e, p) <= n /\ NewestAt(e, p) \in Int
          BY <2>5, <3>2, <3>3, <4>1, <4>2
        <4>5. d.n > d.since
          BY <2>3, <2>5, <3>4, <4>4
        <4>6. d.dp <= d.ps
          BY <3>2, <4>5
        <4> DEFINE x == NewestAt(e, p)
                   y == NewestAt(d, p)
        <4>7. x = (IF p < dp THEN n - (dp - 1 - p) ELSE n - (dp + d.ps - p))
              /\ y = (IF p < d.dp THEN d.n - (d.dp - 1 - p) ELSE d.n - (d.dp + d.ps - p))
          BY <4>2, <4>3
        <4> HIDE DEF x, y
        <4>8. CASE d.dp <= d.ps - 1
          <5>1. dp = d.dp + 1
            BY <3>3, <4>8
          <5>2. CASE p = d.dp
            BY <2>5, <3>2, <4>1, <4>6, <4>7, <5>1, <5>2 DEF x, y
          <5>3. CASE p < d.dp
            BY <2>5, <3>2, <4>1, <4>6, <4>7, <5>1, <5>3 DEF x, y
          <5>4. CASE p > d.dp
            BY <2>5, <3>2, <4>1, <4>6, <4>7, <5>1, <5>4 DEF x, y
          <5> QED BY <3>2, <4>1, <5>2, <5>3, <5>4
        <4>9. CASE d.dp = d.ps
          <5>1. dp = 0
            BY <3>2, <3>3, <4>9
          <5>2. CASE p = d.dp
            <6>1. x = n
              BY <2>5, <3>2, <4>1, <4>7, <4>9, <5>1, <5>2
            <6> QED BY <4>6, <5>2, <6>1 DEF x
          <5>3. CASE p # d.dp
            <6>1. p < d.dp
              BY <3>2, <4>1, <4>9, <5>3
            <6>2. x = d.n - d.ps + 1 + p /\ y = d.n - d.ps + 1 + p
              BY <2>5, <3>2, <4>1, <4>7, <4>9, <5>1, <6>1
            <6> QED BY <4>6, <5>3, <6>2 DEF x, y
          <5> QED BY <5>2, <5>3
        <4> QED BY <3>2, <4>6, <4>8, <4>9
      <3>5. ASSUME NEW p \in 0 .. d.ps PROVE Holds(e, p)
        <4> SUFFICES ASSUME NewestAt(e, p) > e.since + 1
                     PROVE  IF NewestAt(e, p) > e.cleared THEN p \in DOMAIN e.buf /\ e.buf[p] = NewestAt(e, p)
                            ELSE p \notin DOMAIN e.buf
          BY DEF Holds
        <4>1. /\ p = d.dp => NewestAt(e, p) = n
              /\ p # d.dp => NewestAt(e, p) = NewestAt(d, p)
          BY <3>4, <3>5
        <4>2. CASE p = d.dp
          <5>1. p \in DOMAIN e.buf /\ e.buf[p] = n
            BY <2>3, <4>2 DEF held
          <5>2. n > e.cleared
            BY <2>3, <2>5
          <5> QED BY <4>1, <4>2, <5>1, <5>2
        <4>3. CASE p # d.dp
          <5>1. p \in DOMAIN e.buf <=> p \in DOMAIN d.buf
            BY <2>3, <4>3 DEF held
          <5>2. p \in DOMAIN d.buf => e.buf[p] = d.buf[p]
            BY <2>3, <4>3 DEF held
          <5>3. Holds(d, p)
            BY <3>1 DEF DelayEven
          <5> QED BY <2>3, <4>1, <4>3, <5>1, <5>2, <5>3 DEF Holds
        <4> QED BY <4>2, <4>3
      <3>6. ASSUME echo.at - d.since > 2 * (d.ps + 1)
            PROVE  echo.of = IF echo.at - (d.ps + 1) > echo.cleared THEN echo.at - (d.ps + 1) ELSE 0
        <4>1. d.dp <= d.ps /\ n - (d.ps + 1) = d.n - d.ps /\ d.n - d.ps > d.since + 1
          BY <2>4, <2>5, <3>2, <3>6
        <4>2. NewestAt(d, d.dp) = d.n - d.ps
          BY <2>5, <3>2 DEF NewestAt
        <4>3. Holds(d, d.dp)
          <5>1. d.dp \in 0 .. d.ps
            BY <3>2, <4>1
          <5> QED BY <3>1, <5>1 DEF DelayEven
        <4>4. IF d.n - d.ps > d.cleared THEN d.dp \in DOMAIN d.buf /\ d.buf[d.dp] = d.n - d.ps
              ELSE d.dp \notin DOMAIN d.buf
          BY <4>1, <4>2, <4>3 DEF Holds
        <4> QED BY <2>4, <4>1, <4>4 DEF stored
      <3> QED BY <2>3, <3>2, <3>3, <3>5, <3>6 DEF DelayEven
    <2> QED BY <2>6, <2>7 DEF DelayGood, e
  <1> QED BY <1>2, <1>3

LEMMA DelayAgrees == DelayGood(delay) => EchoExact
BY DEF DelayGood, DelayEven, EchoExact

-----------------------------------------------------------------------------
(* Lowpass.  What is not to be calculated is as the last order wants it,   *)
(* and so is what a packet has taken, unless met.                          *)
FilterGood(f) ==
    /\ f = [freq |-> f.freq, q |-> f.q, alpha |-> f.alpha, bypassing |-> f.bypassing, coef |-> f.coef,
            todo |-> f.todo, copy |-> f.copy, nan |-> f.nan, ordered |-> f.ordered, met |-> f.met,
            zero |-> f.zero]
    /\ f.ordered = <<f.freq, f.alpha>>
    /\ DOMAIN f.coef = Coef /\ f.coef = [c \in DOMAIN f.coef |-> f.coef[c]]
    /\ f.todo \in Seq(Coef)
    /\ \A c \in Coef : f.coef[c] = Coefficient(c, f.freq, f.alpha) \/ \E i \in 1 .. Len(f.todo) : f.todo[i] = c
    /\ Len(f.copy) \in 0 .. 6 /\ f.copy \in Seq({f.copy[k] : k \in 1 .. Len(f.copy)})
    /\ ~ f.met => \A k \in 1 .. Len(f.copy) : f.copy[k] = Coefficient(CoefOrder[k], f.freq, f.alpha)
    /\ f.nan \/ f.alpha = 0 \/ f.coef["a2"][2] = 0 \/ (Len(f.copy) >= 3 /\ f.copy[3][2] = 0) => f.zero

LEMMA CoefOrderIs ==
    /\ CoefOrder \in Seq(Coef) /\ Len(CoefOrder) = 6 /\ CoefOrder[3] = "a2"
    /\ \A k \in 1 .. 6 : CoefOrder[k] \in Coef
    /\ \A c \in Coef : \E k \in 1 .. 6 : CoefOrder[k] = c
  <1>1. CoefOrder \in Seq(Coef) /\ Len(CoefOrder) = 6 /\ CoefOrder[3] = "a2"
    BY DEF CoefOrder, Coef
  <1>2. /\ CoefOrder[1] = "a0" /\ CoefOrder[2] = "a1" /\ CoefOrder[3] = "a2"
        /\ CoefOrder[4] = "b0" /\ CoefOrder[5] = "b1" /\ CoefOrder[6] = "b2"
    BY DEF CoefOrder
  <1>3. \A k \in 1 .. 6 : k = 1 \/ k = 2 \/ k = 3 \/ k = 4 \/ k = 5 \/ k = 6
    OBVIOUS
  <1>4. \A k \in 1 .. 6 : CoefOrder[k] \in Coef
    BY <1>2, <1>3 DEF Coef
  <1>5. \A c \in Coef : \E k \in 1 .. 6 : CoefOrder[k] = c
    BY <1>2 DEF Coef
  <1> QED BY <1>1, <1>4, <1>5

LEMMA FilterBegins == EffectsInit => FilterGood(filter)
  <1> SUFFICES ASSUME EffectsInit PROVE FilterGood(filter)
    OBVIOUS
  <1> DEFINE f == filter
  <1>1. f = [freq |-> 1600, q |-> 8, alpha |-> 8, bypassing |-> FALSE,
             coef |-> [c \in Coef |-> Coefficient(c, 1600, 8)],
             todo |-> <<>>, copy |-> <<>>, nan |-> FALSE, ordered |-> <<1600, 8>>, met |-> FALSE,
             zero |-> FALSE]
    BY DEF EffectsInit
  <1> HIDE DEF f
  <1>2. /\ f.freq = 1600 /\ f.alpha = 8 /\ f.coef = [c \in Coef |-> Coefficient(c, 1600, 8)]
        /\ f.todo = <<>> /\ f.copy = <<>> /\ f.nan = FALSE /\ f.ordered = <<1600, 8>> /\ f.zero = FALSE
        /\ f = [freq |-> f.freq, q |-> f.q, alpha |-> f.alpha, bypassing |-> f.bypassing, coef |-> f.coef,
                todo |-> f.todo, copy |-> f.copy, nan |-> f.nan, ordered |-> f.ordered, met |-> f.met,
                zero |-> f.zero]
    BY <1>1
  <1>3. Len(f.copy) = 0 /\ f.todo \in Seq(Coef) /\ f.copy \in Seq({f.copy[k] : k \in 1 .. Len(f.copy)})
    BY <1>2
  <1>4. f.coef["a2"][2] = 8
    <2>1. "a2" \in Coef /\ Coefficient("a2", 1600, 8) = <<1600, 8>>
      BY DEF Coef, Coefficient
    <2> QED BY <1>2, <2>1
  <1>5. DOMAIN f.coef = Coef /\ f.coef = [c \in DOMAIN f.coef |-> f.coef[c]]
        /\ \A c \in Coef : f.coef[c] = Coefficient(c, f.freq, f.alpha)
    BY <1>2
  <1> QED BY <1>2, <1>3, <1>4, <1>5 DEF FilterGood, f

LEMMA SetFreqKeeps == ASSUME FilterGood(filter), NEW v, setFreq(v) PROVE FilterGood(filter')
  <1> DEFINE f == filter
             g == filter'
  <1>1. CASE g = f
    BY <1>1
  <1>2. CASE g = [f EXCEPT !.freq = v, !.alpha = f.q, !.todo = CoefOrder, !.ordered = <<v, f.q>>,
                           !.zero = @ \/ f.q = 0, !.met = f.copy # <<>>]
    <2>1. FilterGood(f)
      OBVIOUS
    <2> HIDE DEF f, g
    <2>2. g = [freq |-> v, q |-> f.q, alpha |-> f.q, bypassing |-> f.bypassing, coef |-> f.coef,
               todo |-> CoefOrder, copy |-> f.copy, nan |-> f.nan, ordered |-> <<v, f.q>>,
               met |-> f.copy # <<>>, zero |-> f.zero \/ f.q = 0]
      BY <1>2, <2>1 DEF FilterGood
    <2>3. /\ g.freq = v /\ g.alpha = f.q /\ g.coef = f.coef /\ g.todo = CoefOrder /\ g.copy = f.copy
          /\ g.nan = f.nan /\ g.ordered = <<g.freq, g.alpha>> /\ g.met = (f.copy # <<>>)
          /\ g.zero = (f.zero \/ f.q = 0)
          /\ g = [freq |-> g.freq, q |-> g.q, alpha |-> g.alpha, bypassing |-> g.bypassing, coef |-> g.coef,
                  todo |-> g.todo, copy |-> g.copy, nan |-> g.nan, ordered |-> g.ordered, met |-> g.met,
                  zero |-> g.zero]
      BY <2>2
    <2>4. g.todo \in Seq(Coef) /\ \A c \in Coef : \E i \in 1 .. Len(g.todo) : g.todo[i] = c
      BY <2>3, CoefOrderIs
    <2>5. /\ DOMAIN g.coef = Coef /\ g.coef = [c \in DOMAIN g.coef |-> g.coef[c]]
          /\ Len(g.copy) \in 0 .. 6 /\ g.copy \in Seq({g.copy[k] : k \in 1 .. Len(g.copy)})
      BY <2>1, <2>3 DEF FilterGood
    <2>6. ~ g.met => \A k \in 1 .. Len(g.copy) : g.copy[k] = Coefficient(CoefOrder[k], g.freq, g.alpha)
      <3>1. ~ g.met => Len(g.copy) = 0
        <4>1. ~ g.met => g.copy = <<>>
          BY <2>3
        <4>2. Len(<<>>) = 0
          OBVIOUS
        <4> QED BY <4>1, <4>2
      <3> QED BY <3>1
    <2>7. g.nan \/ g.alpha = 0 \/ g.coef["a2"][2] = 0 \/ (Len(g.copy) >= 3 /\ g.copy[3][2] = 0) => g.zero
      BY <2>1, <2>3 DEF FilterGood
    <2> QED BY <2>3, <2>4, <2>5, <2>6, <2>7 DEF FilterGood, g
  <1> QED BY <1>1, <1>2 DEF setFreq

(* setQ and bypassFilter touch nothing of it. *)
LEMMA FilterSame ==
    ASSUME NEW f, NEW q, NEW b, FilterGood(f)
    PROVE  FilterGood([f EXCEPT !.q = q]) /\ FilterGood([f EXCEPT !.bypassing = b])
  <1>1. ASSUME NEW g, NEW p, NEW c,
               g = [freq |-> f.freq, q |-> p, alpha |-> f.alpha, bypassing |-> c, coef |-> f.coef,
                    todo |-> f.todo, copy |-> f.copy, nan |-> f.nan, ordered |-> f.ordered, met |-> f.met,
                    zero |-> f.zero]
        PROVE  FilterGood(g)
    <2>1. /\ g.freq = f.freq /\ g.alpha = f.alpha /\ g.coef = f.coef /\ g.todo = f.todo /\ g.copy = f.copy
          /\ g.nan = f.nan /\ g.ordered = f.ordered /\ g.met = f.met /\ g.zero = f.zero
          /\ g = [freq |-> g.freq, q |-> g.q, alpha |-> g.alpha, bypassing |-> g.bypassing, coef |-> g.coef,
                  todo |-> g.todo, copy |-> g.copy, nan |-> g.nan, ordered |-> g.ordered, met |-> g.met,
                  zero |-> g.zero]
      BY <1>1
    <2> QED BY <2>1 DEF FilterGood
  <1>4. f = [freq |-> f.freq, q |-> f.q, alpha |-> f.alpha, bypassing |-> f.bypassing, coef |-> f.coef,
             todo |-> f.todo, copy |-> f.copy, nan |-> f.nan, ordered |-> f.ordered, met |-> f.met,
             zero |-> f.zero]
    BY DEF FilterGood
  <1>2. [f EXCEPT !.q = q] = [freq |-> f.freq, q |-> q, alpha |-> f.alpha, bypassing |-> f.bypassing,
            coef |-> f.coef, todo |-> f.todo, copy |-> f.copy, nan |-> f.nan, ordered |-> f.ordered,
            met |-> f.met, zero |-> f.zero]
    BY <1>4
  <1>3. [f EXCEPT !.bypassing = b] = [freq |-> f.freq, q |-> f.q, alpha |-> f.alpha, bypassing |-> b,
            coef |-> f.coef, todo |-> f.todo, copy |-> f.copy, nan |-> f.nan, ordered |-> f.ordered,
            met |-> f.met, zero |-> f.zero]
    BY <1>4
  <1> QED BY <1>1, <1>2, <1>3

LEMMA SetQKeeps == ASSUME FilterGood(filter), NEW v, setQ(v) \/ bypassFilter(v) PROVE FilterGood(filter')
  <1>1. CASE setQ(v)
    BY <1>1, FilterSame DEF setQ
  <1>2. CASE bypassFilter(v)
    BY <1>2, FilterSame DEF bypassFilter
  <1> QED BY <1>1, <1>2

LEMMA CalculateKeeps == ASSUME FilterGood(filter), Calculate PROVE FilterGood(filter')
  <1> DEFINE f == filter
             g == filter'
             c == Head(f.todo)
             new == [f.coef EXCEPT ![c] = Coefficient(c, f.freq, f.alpha)]
             rest == Tail(f.todo)
  <1>1. FilterGood(f) /\ f.todo # <<>> /\ g = [f EXCEPT !.coef = new, !.todo = rest]
    <2>1. g = [f EXCEPT !.coef[c] = Coefficient(c, f.freq, f.alpha), !.todo = Tail(@)] /\ f.todo # <<>>
      BY DEF Calculate
    <2> QED BY <2>1
  <1>2. /\ f.todo \in Seq(Coef) /\ c = f.todo[1] /\ c \in Coef /\ rest \in Seq(Coef)
        /\ Len(rest) = Len(f.todo) - 1 /\ Len(f.todo) \in Nat
        /\ \A i \in 1 .. Len(rest) : rest[i] = f.todo[i + 1]
    <2>1. f.todo \in Seq(Coef) /\ f.todo # <<>>
      BY <1>1 DEF FilterGood
    <2> QED BY <2>1
  <1> HIDE DEF f, g, c, new, rest
  <1>3. g = [freq |-> f.freq, q |-> f.q, alpha |-> f.alpha, bypassing |-> f.bypassing, coef |-> new,
             todo |-> rest, copy |-> f.copy, nan |-> f.nan, ordered |-> f.ordered, met |-> f.met,
             zero |-> f.zero]
    BY <1>1 DEF FilterGood
  <1>4. /\ g.freq = f.freq /\ g.alpha = f.alpha /\ g.coef = new /\ g.todo = rest /\ g.copy = f.copy
        /\ g.nan = f.nan /\ g.ordered = f.ordered /\ g.met = f.met /\ g.zero = f.zero
        /\ g = [freq |-> g.freq, q |-> g.q, alpha |-> g.alpha, bypassing |-> g.bypassing, coef |-> g.coef,
                todo |-> g.todo, copy |-> g.copy, nan |-> g.nan, ordered |-> g.ordered, met |-> g.met,
                zero |-> g.zero]
    BY <1>3
  <1>5. DOMAIN f.coef = Coef
    BY <1>1 DEF FilterGood
  <1>6. /\ DOMAIN new = Coef /\ new = [d \in DOMAIN new |-> new[d]]
        /\ \A d \in Coef : new[d] = IF d = c THEN Coefficient(c, f.freq, f.alpha) ELSE f.coef[d]
    BY <1>2, <1>5 DEF new
  <1>7. ASSUME NEW d \in Coef
        PROVE  g.coef[d] = Coefficient(d, g.freq, g.alpha) \/ \E i \in 1 .. Len(g.todo) : g.todo[i] = d
    <2>1. CASE d = c
      BY <1>4, <1>6, <2>1
    <2>2. CASE d # c /\ f.coef[d] = Coefficient(d, f.freq, f.alpha)
      BY <1>4, <1>6, <2>2
    <2>3. CASE d # c /\ \E i \in 1 .. Len(f.todo) : f.todo[i] = d
      <3>1. PICK i \in 1 .. Len(f.todo) : f.todo[i] = d
        BY <2>3
      <3>2. i # 1
        BY <1>2, <2>3, <3>1
      <3>3. i - 1 \in 1 .. Len(rest) /\ (i - 1) + 1 = i
        BY <1>2, <3>2
      <3>4. rest[i - 1] = d
        BY <1>2, <3>1, <3>3
      <3> QED BY <1>4, <3>3, <3>4
    <2> QED BY <1>1, <2>1, <2>2, <2>3 DEF FilterGood
  <1>8. g.nan \/ g.alpha = 0 \/ g.coef["a2"][2] = 0 \/ (Len(g.copy) >= 3 /\ g.copy[3][2] = 0) => g.zero
    <2>1. "a2" \in Coef /\ Coefficient("a2", f.freq, f.alpha)[2] = f.alpha
      BY DEF Coef, Coefficient
    <2>2. new["a2"][2] = f.alpha \/ new["a2"] = f.coef["a2"]
      BY <1>6, <2>1
    <2> QED BY <1>1, <1>4, <2>2 DEF FilterGood
  <1>9. /\ g.ordered = <<g.freq, g.alpha>>
        /\ Len(g.copy) \in 0 .. 6 /\ g.copy \in Seq({g.copy[k] : k \in 1 .. Len(g.copy)})
        /\ ~ g.met => \A k \in 1 .. Len(g.copy) : g.copy[k] = Coefficient(CoefOrder[k], g.freq, g.alpha)
    BY <1>1, <1>4 DEF FilterGood
  <1>10. DOMAIN g.coef = Coef /\ g.coef = [d \in DOMAIN g.coef |-> g.coef[d]] /\ g.todo \in Seq(Coef)
    BY <1>2, <1>4, <1>6
  <1> QED BY <1>4, <1>7, <1>8, <1>9, <1>10 DEF FilterGood, g

LEMMA TakeKeeps == ASSUME FilterGood(filter), Take PROVE FilterGood(filter')
  <1> DEFINE f == filter
             g == filter'
             n == Len(f.copy)
             x == f.coef[CoefOrder[n + 1]]
             copy == Append(f.copy, x)
             spoilt == (n + 1 > 1 /\ f.met) \/ f.todo # <<>>
             old == {f.copy[k] : k \in 1 .. n}
  <1>1. FilterGood(f) /\ n + 1 <= 6 /\ g = [f EXCEPT !.copy = copy, !.met = spoilt]
    BY DEF Take
  <1>2. n \in 0 .. 6 /\ f.copy \in Seq(old)
    BY <1>1 DEF FilterGood
  <1>3. /\ Len(copy) = n + 1 /\ copy[n + 1] = x /\ \A k \in 1 .. n : copy[k] = f.copy[k]
        /\ copy \in Seq(old \union {x})
    <2>1. f.copy \in Seq(old \union {x}) /\ x \in old \union {x}
      BY <1>2
    <2> HIDE DEF x, old, n
    <2>2. n = Len(f.copy)
      BY DEF n
    <2> QED BY <2>1, <2>2
  <1> HIDE DEF f, g, n, x, copy, spoilt, old
  <1>4. g = [freq |-> f.freq, q |-> f.q, alpha |-> f.alpha, bypassing |-> f.bypassing, coef |-> f.coef,
             todo |-> f.todo, copy |-> copy, nan |-> f.nan, ordered |-> f.ordered, met |-> spoilt,
             zero |-> f.zero]
    BY <1>1 DEF FilterGood
  <1>5. /\ g.freq = f.freq /\ g.alpha = f.alpha /\ g.coef = f.coef /\ g.todo = f.todo /\ g.copy = copy
        /\ g.nan = f.nan /\ g.ordered = f.ordered /\ g.met = spoilt /\ g.zero = f.zero
        /\ g = [freq |-> g.freq, q |-> g.q, alpha |-> g.alpha, bypassing |-> g.bypassing, coef |-> g.coef,
                todo |-> g.todo, copy |-> g.copy, nan |-> g.nan, ordered |-> g.ordered, met |-> g.met,
                zero |-> g.zero]
    BY <1>4
  <1>6. Len(g.copy) \in 0 .. 6 /\ g.copy \in Seq({g.copy[k] : k \in 1 .. Len(g.copy)})
    <2>1. Len(copy) \in 0 .. 6
      BY <1>1, <1>2, <1>3
    <2>2. \A k \in 1 .. Len(copy) : copy[k] \in {copy[j] : j \in 1 .. Len(copy)}
      OBVIOUS
    <2>3. copy \in Seq({copy[j] : j \in 1 .. Len(copy)})
      <3>1. copy \in [1 .. Len(copy) -> {copy[j] : j \in 1 .. Len(copy)}]
        BY <1>3, <2>2
      <3> DEFINE S == {copy[j] : j \in 1 .. Len(copy)}
      <3>2. copy \in [1 .. Len(copy) -> S] /\ Len(copy) \in Nat
        BY <2>1, <3>1
      <3> HIDE DEF S
      <3>3. copy \in Seq(S)
        BY <3>2
      <3> QED BY <3>3 DEF S
    <2> QED BY <1>5, <2>1, <2>3
  <1>7. ASSUME ~ spoilt, NEW k \in 1 .. Len(copy)
        PROVE  copy[k] = Coefficient(CoefOrder[k], f.freq, f.alpha)
    <2>1. f.todo = <<>> /\ (n > 0 => ~ f.met)
      BY <1>2, <1>7 DEF spoilt
    <2>2. CASE k = n + 1
      <3>1. CoefOrder[k] \in Coef
        BY <1>1, <1>2, <2>2, CoefOrderIs
      <3>2. f.coef[CoefOrder[k]] = Coefficient(CoefOrder[k], f.freq, f.alpha)
        BY <1>1, <2>1, <3>1 DEF FilterGood
      <3> QED BY <1>3, <2>2, <3>2 DEF x
    <2>3. CASE k # n + 1
      <3>1. k \in 1 .. n /\ n > 0
        BY <1>2, <1>3, <1>7, <2>3
      <3>2. copy[k] = f.copy[k]
        BY <1>3, <3>1
      <3>3. f.copy[k] = Coefficient(CoefOrder[k], f.freq, f.alpha)
        BY <1>1, <2>1, <3>1 DEF FilterGood, n
      <3> QED BY <3>2, <3>3
    <2> QED BY <2>2, <2>3
  <1>8. g.nan \/ g.alpha = 0 \/ g.coef["a2"][2] = 0 \/ (Len(g.copy) >= 3 /\ g.copy[3][2] = 0) => g.zero
    <2>1. f.nan \/ f.alpha = 0 \/ f.coef["a2"][2] = 0 \/ (n >= 3 /\ f.copy[3][2] = 0) => f.zero
      BY <1>1 DEF FilterGood, n
    <2>2. Len(copy) >= 3 => (n >= 3 /\ copy[3] = f.copy[3]) \/ copy[3] = f.coef["a2"]
      <3>1. CASE n = 2
        BY <1>3, <3>1, CoefOrderIs DEF x
      <3>2. CASE n # 2
        BY <1>2, <1>3, <3>2
      <3> QED BY <3>1, <3>2
    <2> QED BY <1>5, <2>1, <2>2
  <1>9. /\ g.ordered = <<g.freq, g.alpha>> /\ g.todo \in Seq(Coef)
        /\ DOMAIN g.coef = Coef /\ g.coef = [d \in DOMAIN g.coef |-> g.coef[d]]
        /\ \A c \in Coef : g.coef[c] = Coefficient(c, g.freq, g.alpha) \/ \E i \in 1 .. Len(g.todo) : g.todo[i] = c
    BY <1>1, <1>5 DEF FilterGood
  <1> QED BY <1>5, <1>6, <1>7, <1>8, <1>9 DEF FilterGood, g

LEMMA FilterKeeps == ASSUME FilterGood(filter), Filter PROVE FilterGood(filter')
  <1> DEFINE f == filter
             g == filter'
             nan == f.nan \/ (~ f.bypassing /\ f.copy[3][2] = 0)
  <1>1. FilterGood(f) /\ Len(f.copy) = 6 /\ g = [f EXCEPT !.copy = <<>>, !.nan = nan]
    BY DEF Filter
  <1> HIDE DEF f, g, nan
  <1>2. g = [freq |-> f.freq, q |-> f.q, alpha |-> f.alpha, bypassing |-> f.bypassing, coef |-> f.coef,
             todo |-> f.todo, copy |-> <<>>, nan |-> nan, ordered |-> f.ordered, met |-> f.met,
             zero |-> f.zero]
    BY <1>1 DEF FilterGood
  <1>3. /\ g.freq = f.freq /\ g.alpha = f.alpha /\ g.coef = f.coef /\ g.todo = f.todo /\ g.copy = <<>>
        /\ g.nan = nan /\ g.ordered = f.ordered /\ g.met = f.met /\ g.zero = f.zero
        /\ g = [freq |-> g.freq, q |-> g.q, alpha |-> g.alpha, bypassing |-> g.bypassing, coef |-> g.coef,
                todo |-> g.todo, copy |-> g.copy, nan |-> g.nan, ordered |-> g.ordered, met |-> g.met,
                zero |-> g.zero]
    BY <1>2
  <1>4. Len(g.copy) = 0 /\ g.copy \in Seq({g.copy[k] : k \in 1 .. Len(g.copy)})
    BY <1>3
  <1>5. nan => f.zero
    BY <1>1 DEF FilterGood, nan
  <1>6. g.nan \/ g.alpha = 0 \/ g.coef["a2"][2] = 0 \/ (Len(g.copy) >= 3 /\ g.copy[3][2] = 0) => g.zero
    BY <1>1, <1>3, <1>4, <1>5 DEF FilterGood
  <1>7. /\ g.ordered = <<g.freq, g.alpha>> /\ g.todo \in Seq(Coef)
        /\ DOMAIN g.coef = Coef /\ g.coef = [d \in DOMAIN g.coef |-> g.coef[d]]
        /\ \A c \in Coef : g.coef[c] = Coefficient(c, g.freq, g.alpha) \/ \E i \in 1 .. Len(g.todo) : g.todo[i] = c
    BY <1>1, <1>3 DEF FilterGood
  <1>8. Len(g.copy) \in 0 .. 6
        /\ \A k \in 1 .. Len(g.copy) : g.copy[k] = Coefficient(CoefOrder[k], g.freq, g.alpha)
    BY <1>4
  <1> QED BY <1>3, <1>4, <1>6, <1>7, <1>8 DEF FilterGood, g

LEMMA FilterAgrees == FilterGood(filter) => FilteredAsOrdered
  <1> SUFFICES ASSUME FilterGood(filter) PROVE FilteredAsOrdered
    OBVIOUS
  <1>1. filter.ordered[1] = filter.freq /\ filter.ordered[2] = filter.alpha
    BY DEF FilterGood
  <1> QED BY <1>1 DEF FilterGood, FilteredAsOrdered

-----------------------------------------------------------------------------
(* The synth.  Since the last value as many zeros have been sent as sent0  *)
(* has grown.                                                              *)
SynthGood(s) ==
    /\ s = [stage |-> s.stage, playing |-> s.playing, freq |-> s.freq, sent0 |-> s.sent0, call |-> s.call,
            out |-> s.out, zeros |-> s.zeros, carry |-> s.carry, outside |-> s.outside, top |-> s.top,
            missing |-> s.missing]
    /\ s.call \in {"idle", "value", "zero"} /\ s.sent0 \in 0 .. 5 /\ s.zeros \in Nat /\ s.carry \in 0 .. 4
    /\ s.sent0 = s.zeros + s.carry
    /\ s.call = "zero" => s.sent0 < 5
    /\ s.zeros > 0 => s.out = 0
    /\ s.outside \/ s.freq > 255 => s.top
    /\ s.missing => s.stage = "outlets"

LEMMA SynthBegins == EffectsInit => SynthGood(synth)
BY DEF EffectsInit, SynthGood

LEMMA FreqKeeps == ASSUME SynthGood(synth), NEW v, freq(v) PROVE SynthGood(synth')
  <1>1. CASE v \in DOMAIN Table
    <2>1. Table[v] \in Nat /\ (Table[v] > 255 => v = 255)
      BY <1>1, TableAssumption
    <2>2. synth' = [synth EXCEPT !.freq = Table[v], !.top = @ \/ v = 255]
      BY <1>1 DEF freq
    <2> QED BY <2>1, <2>2 DEF SynthGood
  <1>2. CASE v \notin DOMAIN Table
    BY <1>2 DEF freq, SynthGood
  <1> QED BY <1>1, <1>2

LEMMA SynthKeeps == ASSUME SynthGood(synth), Synth PROVE SynthGood(synth')
  <1>1. ASSUME NEW v, playstop(v) PROVE SynthGood(synth')
    BY <1>1 DEF playstop, SynthGood
  <1>2. ASSUME NEW v, sawFreq(v) PROVE SynthGood(synth')
    BY <1>2 DEF sawFreq, SynthGood
  <1>3. CASE SynthMade
    BY <1>3 DEF SynthMade, SynthGood
  <1>4. CASE SynthPacket
    BY <1>4 DEF SynthPacket, SynthGood
  <1>5. CASE Level
    <2>1. CASE synth' = synth
      BY <2>1
    <2>2. CASE synth.stage = "outlets" /\ synth' = [synth EXCEPT !.missing = TRUE]
      BY <2>2 DEF SynthGood
    <2>3. CASE synth' = [synth EXCEPT !.call = "value"]
      BY <2>3 DEF SynthGood
    <2>4. CASE synth.sent0 # 5 /\ synth' = [synth EXCEPT !.call = "zero"]
      BY <2>4 DEF SynthGood
    <2>5. CASE synth' = [synth EXCEPT !.call = @]
      <3>1. synth' = synth
        BY <2>5 DEF SynthGood
      <3> QED BY <3>1
    <2> QED BY <1>5, <2>1, <2>2, <2>3, <2>4, <2>5 DEF Level
  <1>6. CASE LevelSends
    <2>1. CASE synth.call = "value"
      <3> DEFINE carry == IF synth.sent0 = 5 THEN 0 ELSE synth.sent0
      <3>1. /\ synth' = [stage |-> synth.stage, playing |-> synth.playing, freq |-> synth.freq, sent0 |-> carry,
                         call |-> "idle", out |-> 1, zeros |-> 0, carry |-> carry, outside |-> synth.outside,
                         top |-> synth.top, missing |-> synth.missing]
        BY <1>6, <2>1 DEF LevelSends, SynthGood
      <3>2. carry \in 0 .. 4
        BY DEF SynthGood
      <3> HIDE DEF carry
      <3> QED BY <3>1, <3>2 DEF SynthGood
    <2>2. CASE synth.call # "value"
      <3>1. /\ synth' = [stage |-> synth.stage, playing |-> synth.playing, freq |-> synth.freq,
                         sent0 |-> synth.sent0 + 1, call |-> "idle", out |-> 0, zeros |-> synth.zeros + 1,
                         carry |-> synth.carry, outside |-> synth.outside,
                         top |-> synth.top, missing |-> synth.missing]
        BY <1>6, <2>2 DEF LevelSends, SynthGood
      <3>2. synth.call = "zero"
        BY <1>6, <2>2 DEF LevelSends, SynthGood
      <3> QED BY <3>1, <3>2 DEF SynthGood
    <2> QED BY <2>1, <2>2
  <1> QED BY <1>1, <1>2, <1>3, <1>4, <1>5, <1>6, FreqKeeps DEF Synth

LEMMA SynthAgrees == SynthGood(synth) => LevelGoesDown
BY DEF SynthGood, LevelGoesDown

-----------------------------------------------------------------------------
EffectsGood == DelayGood(delay) /\ FilterGood(filter) /\ SynthGood(synth)

LEMMA EffectsStep == EffectsGood /\ EffectsNext => EffectsGood'
  <1> SUFFICES ASSUME EffectsGood, EffectsNext PROVE EffectsGood'
    OBVIOUS
  <1>1. CASE Delay
    <2>1. DelayGood(delay')
      BY <1>1, SetDtKeeps, BypassKeeps, DelayPacketKeeps, DelaySampleKeeps DEF Delay, EffectsGood
    <2> QED BY <1>1, <2>1 DEF Delay, EffectsGood
  <1>2. CASE Lowpass
    <2>1. FilterGood(filter')
      BY <1>2, SetFreqKeeps, SetQKeeps, CalculateKeeps, TakeKeeps, FilterKeeps DEF Lowpass, EffectsGood
    <2> QED BY <1>2, <2>1 DEF Lowpass, EffectsGood
  <1>3. CASE Synth
    <2>1. SynthGood(synth')
      BY <1>3, SynthKeeps DEF EffectsGood
    <2> QED BY <1>3, <2>1 DEF Synth, EffectsGood
  <1> QED BY <1>1, <1>2, <1>3 DEF EffectsNext

(* What a control orders is handled without EffectsNext. *)
LEMMA SettingKeeps == ASSUME EffectsGood, NEW v, Setting(v) PROVE EffectsGood'
  <1>1. CASE UNCHANGED effects
    BY <1>1 DEF effects, EffectsGood
  <1>2. CASE SettingEffect(v)
    <2>1. CASE setDt(v) /\ UNCHANGED <<filter, synth>>
      BY <2>1, SetDtKeeps DEF EffectsGood
    <2>2. CASE setQ(v) /\ UNCHANGED <<delay, synth>>
      BY <2>2, SetQKeeps DEF EffectsGood
    <2>3. CASE freq(v) /\ UNCHANGED <<delay, filter>>
      BY <2>3, FreqKeeps DEF EffectsGood
    <2> QED BY <1>2, <2>1, <2>2, <2>3 DEF SettingEffect
  <1> QED BY <1>1, <1>2 DEF Setting, SettingRate

(* The effects: the echo has the duration ordered, packets are filtered    *)
(* with the coefficients of the last order, and the synth's level goes     *)
(* down to 0 (Delay.cpp, Lowpass.cpp, AMSynth.cpp, SawAM.cpp).             *)
THEOREM EffectsFollow == Spec => []EffectsInv
  <1>1. Init => EffectsGood
    BY DelayBegins, FilterBegins, SynthBegins DEF Init, EffectsGood
  <1>2. EffectsGood /\ [Next]_vars => EffectsGood'
    <2> SUFFICES ASSUME EffectsGood, [Next]_vars PROVE EffectsGood'
      OBVIOUS
    <2>1. CASE UNCHANGED effects
      BY <2>1 DEF effects, EffectsGood
    <2>2. CASE EffectsNext
      BY <2>2, EffectsStep
    <2>3. CASE \E v : Setting(v)
      BY <2>3, SettingKeeps
    <2>4. CASE Controls
      <3>1. CASE SendData
        BY <3>1, <2>1, <2>3 DEF SendData
      <3>2. CASE Arrive
        BY <3>2, <2>3 DEF Arrive
      <3>3. CASE Lose
        BY <3>3, <2>1 DEF Lose
      <3> QED BY <2>1, <2>2, <2>4, <3>1, <3>2, <3>3 DEF Controls
    <2> QED BY <2>1, <2>4 DEF Next, vars
  <1>3. EffectsGood => EffectsInv
    BY DelayAgrees, FilterAgrees, SynthAgrees DEF EffectsGood, EffectsInv
  <1> QED BY <1>1, <1>2, <1>3, PTL DEF Spec

-----------------------------------------------------------------------------

-----------------------------------------------------------------------------
(* The function of DelMethod2 *)
Rest(list, M, f) ==
    f = [n \in 0 .. Len(list) |->
            IF n = 0 THEN <<>> ELSE IF list[n] \in M THEN f[n - 1] ELSE Append(f[n - 1], list[n])]

LEMMA RestExists ==
    ASSUME NEW T, NEW list \in Seq(T), NEW M
    PROVE  \E f : Rest(list, M, f)
<1> DEFINE N == Len(list)
           B(g, n) == IF n = 0 THEN <<>> ELSE IF list[n] \in M THEN g[n - 1] ELSE Append(g[n - 1], list[n])
           F(g) == g = [n \in 0 .. N |-> g[n]]
           Fine(n, g) == \A k \in 0 .. n : g[k] = B(g, k)
           Some(n) == \E g : F(g) /\ Fine(n, g)
           S == {n \in Nat : n <= N => Some(n)}
<1>0. N \in Nat
  OBVIOUS
<1> HIDE DEF N
<1>1. 0 \in S
  <2> DEFINE g == [n \in 0 .. N |-> <<>>]
  <2>1. F(g)
    OBVIOUS
  <2>2. Fine(0, g)
    <3>1. 0 .. 0 = {0} /\ 0 \in 0 .. N
      BY <1>0
    <3> QED BY <3>1
  <2> QED BY <2>1, <2>2
<1>2. ASSUME NEW n \in S PROVE n + 1 \in S
  <2> HIDE DEF Some
  <2> SUFFICES ASSUME n + 1 <= N PROVE Some(n + 1)
    OBVIOUS
  <2>1. n \in Nat /\ n <= N /\ Some(n)
    BY <1>0
  <2> USE DEF Some
  <2>2. PICK g : F(g) /\ Fine(n, g)
    BY <2>1
  <2> DEFINE e == [k \in 0 .. N |-> IF k = n + 1 THEN B(g, k) ELSE g[k]]
  <2>3. \A k \in 0 .. N : e[k] = IF k = n + 1 THEN B(g, k) ELSE g[k]
    OBVIOUS
  <2>4. F(e)
    BY <2>3
  <2> HIDE DEF e
  <2>5. ASSUME NEW k \in 0 .. n + 1 PROVE e[k] = B(e, k)
    <3>1. k \in 0 .. N /\ k \in Nat
      BY <2>1, <1>0
    <3>2. B(e, k) = B(g, k)
      <4>1. CASE k = 0
        BY <4>1
      <4>2. CASE k # 0
        <5>1. k - 1 \in 0 .. N /\ k - 1 # n + 1
          BY <2>1, <3>1, <4>2, <1>0
        <5>2. e[k - 1] = g[k - 1]
          BY <2>3, <5>1
        <5> QED BY <4>2, <5>2
      <4> QED BY <4>1, <4>2
    <3>3. CASE k = n + 1
      BY <2>3, <3>1, <3>2, <3>3
    <3>4. CASE k # n + 1
      <4>1. k \in 0 .. n
        BY <2>1, <3>1, <3>4
      <4> QED BY <2>2, <2>3, <3>1, <3>2, <3>4, <4>1
    <3> QED BY <3>3, <3>4
  <2> QED BY <2>4, <2>5
<1>3. N \in S
  BY <1>0, <1>1, <1>2, Induction
<1>4. PICK f : F(f) /\ Fine(N, f)
  BY <1>0, <1>3
<1>5. f = [k \in 0 .. N |-> B(f, k)]
  BY <1>4
<1>6. Rest(list, M, f)
  BY <1>5 DEF Rest, N
<1> QED BY <1>6

(* What deleting leaves, in its order *)
Left(list, rest, M) ==
    /\ \A i \in 1 .. Len(rest) : rest[i] \notin M /\ \E k \in 1 .. Len(list) : rest[i] = list[k]
    /\ \A i, j \in 1 .. Len(rest) :
          i <= j => \E k, l \in 1 .. Len(list) : k <= l /\ rest[i] = list[k] /\ rest[j] = list[l]
    /\ \A k \in 1 .. Len(list) : list[k] \notin M => \E i \in 1 .. Len(rest) : rest[i] = list[k]

LEMMA RestIs ==
    ASSUME NEW T, NEW list \in Seq(T), NEW M, NEW f, Rest(list, M, f)
    PROVE  f[Len(list)] \in Seq(T) /\ Left(list, f[Len(list)], M)
<1> DEFINE N == Len(list)
           Seqs(n) == f[n] \in Seq(T)
           From(n) == \A i \in 1 .. Len(f[n]) : f[n][i] \notin M /\ \E k \in 1 .. n : f[n][i] = list[k]
           Row(n) == \A i, j \in 1 .. Len(f[n]) : i < j => \E k, l \in 1 .. n : k < l /\ f[n][i] = list[k] /\ f[n][j] = list[l]
           All(n) == \A k \in 1 .. n : list[k] \notin M => \E i \in 1 .. Len(f[n]) : f[n][i] = list[k]
           Right(n) == Seqs(n) /\ From(n) /\ Row(n) /\ All(n)
           S == {n \in Nat : n <= N => Right(n)}
<1>0. N \in Nat /\ \A k \in 1 .. N : list[k] \in T
  OBVIOUS
<1>3. \A n \in 0 .. N : f[n] = IF n = 0 THEN <<>> ELSE IF list[n] \in M THEN f[n - 1] ELSE Append(f[n - 1], list[n])
  BY DEF Rest
<1> HIDE DEF N
<1>4. 0 \in S
  <2>1. f[0] = <<>>
    BY <1>0, <1>3
  <2>2. Right(0)
    BY <2>1
  <2> QED BY <2>2
<1>5. ASSUME NEW n \in S PROVE n + 1 \in S
  <2> SUFFICES ASSUME n + 1 <= N PROVE Right(n + 1)
    OBVIOUS
  <2>1. n \in Nat /\ n <= N /\ Right(n) /\ n + 1 \in 1 .. N /\ n + 1 \in 0 .. N /\ n + 1 # 0 /\ (n + 1) - 1 = n
    BY <1>0
  <2> DEFINE x == list[n + 1]
             old == f[n]
             new == f[n + 1]
             L == Len(old)
  <2>2. new = IF x \in M THEN old ELSE Append(old, x)
    BY <1>3, <2>1
  <2>3. x \in T /\ old \in Seq(T) /\ L \in Nat
    BY <1>0, <2>1
  <2>4. \A k \in 1 .. n + 1 : k \in 1 .. n \/ k = n + 1
    BY <2>1
  <2>5. \A k \in 1 .. n : k \in 1 .. n + 1 /\ k < n + 1
    BY <2>1
  <2>6. CASE x \in M
    <3>1. new = old
      BY <2>2, <2>6
    <3>2. From(n + 1)
      BY <2>1, <2>5, <3>1
    <3>3. Row(n + 1)
      <4> SUFFICES ASSUME NEW i \in 1 .. Len(new), NEW j \in 1 .. Len(new), i < j
                   PROVE  \E k, l \in 1 .. n + 1 : k < l /\ new[i] = list[k] /\ new[j] = list[l]
        OBVIOUS
      <4>1. PICK k \in 1 .. n, l \in 1 .. n : k < l /\ old[i] = list[k] /\ old[j] = list[l]
        BY <2>1, <3>1
      <4> QED BY <2>5, <3>1, <4>1
    <3>4. All(n + 1)
      BY <2>1, <2>4, <2>6, <3>1
    <3> QED BY <2>1, <3>1, <3>2, <3>3, <3>4
  <2>7. CASE x \notin M
    <3>1. new = Append(old, x)
      BY <2>2, <2>7
    <3> HIDE DEF x, old, new, L
    <3>2. new \in Seq(T) /\ Len(new) = L + 1 /\ new[L + 1] = x /\ \A i \in 1 .. L : new[i] = old[i]
      BY <3>1, <2>3 DEF L
    <3>3. \A i \in 1 .. L + 1 : i \in 1 .. L \/ i = L + 1
      BY <2>3
    <3>4. \A i \in 1 .. L : old[i] \notin M /\ \E k \in 1 .. n : old[i] = list[k]
      BY <2>1 DEF old, L
    <3>5. \A i, j \in 1 .. L : i < j => \E k, l \in 1 .. n : k < l /\ old[i] = list[k] /\ old[j] = list[l]
      BY <2>1 DEF old, L
    <3>6. \A k \in 1 .. n : list[k] \notin M => \E i \in 1 .. L : old[i] = list[k]
      BY <2>1 DEF old, L
    <3>7. \A i \in 1 .. L + 1 : new[i] \notin M /\ \E k \in 1 .. n + 1 : new[i] = list[k]
      <4> SUFFICES ASSUME NEW i \in 1 .. L + 1 PROVE new[i] \notin M /\ \E k \in 1 .. n + 1 : new[i] = list[k]
        OBVIOUS
      <4>1. CASE i \in 1 .. L
        BY <4>1, <3>2, <3>4, <2>5
      <4>2. CASE i = L + 1
        BY <4>2, <3>2, <2>7, <2>1 DEF x
      <4> QED BY <3>3, <4>1, <4>2
    <3>8. \A i, j \in 1 .. L + 1 : i < j => \E k, l \in 1 .. n + 1 : k < l /\ new[i] = list[k] /\ new[j] = list[l]
      <4> SUFFICES ASSUME NEW i \in 1 .. L + 1, NEW j \in 1 .. L + 1, i < j
                   PROVE  \E k, l \in 1 .. n + 1 : k < l /\ new[i] = list[k] /\ new[j] = list[l]
        OBVIOUS
      <4>1. i \in 1 .. L
        BY <2>3
      <4>2. CASE j \in 1 .. L
        <5>1. PICK k \in 1 .. n, l \in 1 .. n : k < l /\ old[i] = list[k] /\ old[j] = list[l]
          BY <3>5, <4>1, <4>2
        <5> QED BY <5>1, <2>5, <3>2, <4>1, <4>2
      <4>3. CASE j = L + 1
        <5>1. PICK k \in 1 .. n : old[i] = list[k]
          BY <3>4, <4>1
        <5>2. k \in 1 .. n + 1 /\ k < n + 1 /\ n + 1 \in 1 .. n + 1
          BY <2>1, <2>5
        <5>3. new[i] = list[k] /\ new[j] = list[n + 1]
          BY <5>1, <3>2, <4>1, <4>3 DEF x
        <5> QED BY <5>2, <5>3
      <4> QED BY <3>3, <4>2, <4>3
    <3>9. \A k \in 1 .. n + 1 : list[k] \notin M => \E i \in 1 .. L + 1 : new[i] = list[k]
      <4> SUFFICES ASSUME NEW k \in 1 .. n + 1, list[k] \notin M PROVE \E i \in 1 .. L + 1 : new[i] = list[k]
        OBVIOUS
      <4>1. CASE k \in 1 .. n
        <5>1. PICK i \in 1 .. L : old[i] = list[k]
          BY <3>6, <4>1
        <5>2. i \in 1 .. L + 1
          BY <2>3
        <5> QED BY <5>1, <5>2, <3>2
      <4>2. CASE k = n + 1
        <5>1. L + 1 \in 1 .. L + 1
          BY <2>3
        <5> QED BY <5>1, <4>2, <3>2 DEF x
      <4> QED BY <2>4, <4>1, <4>2
    <3> QED BY <3>2, <3>7, <3>8, <3>9 DEF new
  <2> QED BY <2>6, <2>7
<1>6. N \in S
  <2> HIDE DEF Right
  <2> QED BY <1>0, <1>4, <1>5, Induction
<1>7. Right(N)
  BY <1>0, <1>6
<1> HIDE DEF N
<1> DEFINE rest == f[N]
<1> HIDE DEF rest
<1>9. /\ rest \in Seq(T)
      /\ \A i \in 1 .. Len(rest) : rest[i] \notin M /\ \E k \in 1 .. N : rest[i] = list[k]
      /\ \A i, j \in 1 .. Len(rest) : i < j => \E k, l \in 1 .. N : k < l /\ rest[i] = list[k] /\ rest[j] = list[l]
      /\ \A k \in 1 .. N : list[k] \notin M => \E i \in 1 .. Len(rest) : rest[i] = list[k]
  BY <1>7 DEF rest
<1>10. \A i, j \in 1 .. Len(rest) :
          i <= j => \E k, l \in 1 .. N : k <= l /\ rest[i] = list[k] /\ rest[j] = list[l]
  <2> SUFFICES ASSUME NEW i \in 1 .. Len(rest), NEW j \in 1 .. Len(rest), i <= j
               PROVE  \E k, l \in 1 .. N : k <= l /\ rest[i] = list[k] /\ rest[j] = list[l]
    OBVIOUS
  <2>1. Len(rest) \in Nat
    BY <1>9
  <2>2. CASE i < j
    <3>1. PICK k \in 1 .. N, l \in 1 .. N : k < l /\ rest[i] = list[k] /\ rest[j] = list[l]
      BY <1>9, <2>2
    <3> QED BY <1>0, <3>1
  <2>3. CASE i = j
    <3>1. PICK k \in 1 .. N : rest[i] = list[k]
      BY <1>9
    <3>2. k <= k
      BY <1>0
    <3> QED BY <2>3, <3>1, <3>2
  <2> QED BY <2>1, <2>2, <2>3
<1> QED BY <1>9, <1>10 DEF rest, N, Left

LEMMA DeletedIs ==
    ASSUME NEW T, NEW list \in Seq(T), NEW M
    PROVE  DelMethod2(list, M) \in Seq(T) /\ Left(list, DelMethod2(list, M), M)
<1> DEFINE f == CHOOSE g : Rest(list, M, g)
<1>1. Rest(list, M, f)
  BY RestExists
<1>2. DelMethod2(list, M) = f[Len(list)]
  BY DEF DelMethod2, Rest
<1> HIDE DEF f
<1> QED BY <1>1, <1>2, RestIs

LEMMA RemainingIs ==
    ASSUME NEW T, NEW list \in Seq(T), NEW M
    PROVE  Remaining(list, M) \in Seq(T) /\ Left(list, Remaining(list, M), M)
<1> DEFINE f == CHOOSE g : Rest(list, M, g)
<1>1. Rest(list, M, f)
  BY RestExists
<1>2. Remaining(list, M) = f[Len(list)]
  BY DEF Remaining, Rest
<1> HIDE DEF f
<1> QED BY <1>1, <1>2, RestIs

-----------------------------------------------------------------------------
NodeSet == {Osc[g] : g \in Mgr} \X MAddrs \X Nodes
PathSet == {Request} \union {Orders(g, a) : g \in Mgr, a \in MAddrs}
           \union (UNION {RoutePaths(<<Osc[g]>>) : g \in Mgr}) \union (UNION {RoutePaths(nd) : nd \in NodeSet})
AMethod == [path : PathSet, types : {"i", "is", "ss", "ssi"}, of : Mgr \union NodeSet]
ManagerState == [stage : {"none", "made", "gone"}, info : SUBSET Infos, icon : BOOLEAN,
                 addr : MAddrs \union {""}, mods : SUBSET NodeSet, tables : Nat, outNum : Nat]
Memory == [order : Seq(Mgr), deaf : SUBSET Mgr, readdressed : SUBSET Mgr]

MgrTyped ==
    /\ mgr \in [Mgr -> ManagerState]
    /\ methods \in [udp : Seq(AMethod), tcp : Seq(AMethod)]
    /\ lives \in Memory
    /\ reached \in SUBSET Mgr /\ undefined \in {"no", "null", "freed", "index"}

(* The requests: one method of each that has not become deaf *)
Requests ==
    /\ \A i \in 1 .. Len(methods.udp) : LET m == methods.udp[i] IN
          m.path = Request /\ m.types = "i" /\ m.of \in Mgr \ lives.deaf /\ MadeHere(m.of)
    /\ \A g \in Mgr \ lives.deaf : MadeHere(g) => \E i \in 1 .. Len(methods.udp) : methods.udp[i].of = g
    /\ \A g \in lives.deaf : mgr[g].stage # "none"

(* The methods of the TCP server: a manager's routes, its orders, and the  *)
(* routes of a module                                                      *)
ManagerRoute(m) ==
    m.of \in Mgr /\ MadeHere(m.of) /\ m.path \in RoutePaths(<<Osc[m.of]>>) /\ m.types \in {"ss", "ssi"}
ManagerOrders(m) ==
    /\ m.of \in Mgr /\ mgr[m.of].addr # "" /\ m.types = "is"
    /\ \E a \in MAddrs : m.path = Orders(m.of, a) /\ (a = mgr[m.of].addr \/ m.of \in lives.readdressed)
    /\ m.path # Orders(m.of, mgr[m.of].addr) \/ MadeHere(m.of)
ModuleRoute(m) == m.of \in NodeSet /\ m.path \in RoutePaths(m.of) /\ m.types \in {"ss", "ssi"} /\ \E g \in Mgr : m.of \in mgr[g].mods
Registered == \A i \in 1 .. Len(methods.tcp) :
    LET m == methods.tcp[i] IN ManagerRoute(m) \/ ManagerOrders(m) \/ ModuleRoute(m)

(* Those of managers are in the order the managers were made in. *)
Earlier(g, h) == \E k, l \in 1 .. Len(lives.order) : k <= l /\ lives.order[k] = g /\ lives.order[l] = h
InOrder == \A i, j \in 1 .. Len(methods.tcp) :
    i <= j /\ ManagerRoute(methods.tcp[i]) /\ ManagerRoute(methods.tcp[j])
    => Earlier(methods.tcp[i].of, methods.tcp[j].of)

(* Who can be reached has a method for each message. *)
Answering == \A g \in Mgr \ lives.deaf : MadeHere(g) =>
    \A path \in RoutePaths(<<Osc[g]>>), types \in {"ss", "ssi"} :
        \E i \in 1 .. Len(methods.tcp) :
            methods.tcp[i].path = path /\ methods.tcp[i].types = types /\ methods.tcp[i].of = g

(* The last route order reached the oldest. *)
ReachedOldest == \A g \in reached : mgr[g].stage # "none" /\ (MadeHere(g) =>
    \A h \in Mgr \ lives.deaf : MadeHere(h) /\ Osc[h] = Osc[g] => Earlier(g, h))

Described == \A g \in Mgr : /\ MadeHere(g) /\ mgr[g].icon => mgr[g].info = Infos
                            /\ mgr[g].stage = "none" => ~ mgr[g].icon
                            /\ MadeHere(g) => \E k \in 1 .. Len(lives.order) : lives.order[k] = g

MgrGood == MgrTyped /\ Requests /\ Registered /\ InOrder /\ Answering /\ ReachedOldest /\ Described /\ UndefinedExplained

-----------------------------------------------------------------------------
LEMMA Appended ==
    ASSUME NEW T, NEW list \in Seq(T), NEW x \in T
    PROVE  /\ Append(list, x) \in Seq(T) /\ Len(list) \in Nat /\ Len(Append(list, x)) = Len(list) + 1
           /\ Append(list, x)[Len(list) + 1] = x
           /\ \A i \in 1 .. Len(list) : Append(list, x)[i] = list[i]
           /\ \A i \in 1 .. Len(list) + 1 : i \in 1 .. Len(list) \/ i = Len(list) + 1
  OBVIOUS

LEMMA Records ==
    ASSUME MgrTyped
    PROVE  /\ \A g \in Mgr : mgr[g] \in ManagerState
           /\ methods = [udp |-> methods.udp, tcp |-> methods.tcp]
           /\ methods.udp \in Seq(AMethod) /\ methods.tcp \in Seq(AMethod)
           /\ lives = [order |-> lives.order, deaf |-> lives.deaf, readdressed |-> lives.readdressed]
           /\ lives.order \in Seq(Mgr) /\ lives.deaf \subseteq Mgr /\ lives.readdressed \subseteq Mgr
  BY DEF MgrTyped, Memory

(* Paths and what they are for *)
LEMMA PathsDiffer ==
    ASSUME NEW g \in Mgr, NEW nd \in NodeSet
    PROVE  RoutePaths(<<Osc[g]>>) \intersect RoutePaths(nd) = {}
<1>1. PICK h \in Mgr, a \in MAddrs, id \in Nodes : nd = <<Osc[h], a, id>>
  BY DEF NodeSet
<1> DEFINE o == Osc[g]
           p == Osc[h]
<1>2. <<o>> \in Seq({o}) /\ Len(<<o>>) = 1 /\ <<p, a, id>> \in Seq({p, a, id}) /\ Len(<<p, a, id>>) = 3
  OBVIOUS
<1>3. \A x : Len(Append(<<o>>, x)) = 2 /\ Len(Append(<<p, a, id>>, x)) = 4
  <2> SUFFICES ASSUME NEW x PROVE Len(Append(<<o>>, x)) = 2 /\ Len(Append(<<p, a, id>>, x)) = 4
    OBVIOUS
  <2>1. <<o>> \in Seq({o, x}) /\ <<p, a, id>> \in Seq({p, a, id, x})
    OBVIOUS
  <2>2. Len(Append(<<o>>, x)) = 2
    BY <1>2, <2>1
  <2>3. Len(Append(<<p, a, id>>, x)) = 4
    BY <1>2, <2>1
  <2> QED BY <2>2, <2>3
<1> QED BY <1>1, <1>3 DEF RoutePaths

(* Methods at the end of a list, for each route order to an address *)
Routed(list, r, of, here) ==
    /\ r \in Seq(AMethod) /\ Len(r) \in Nat /\ Len(list) \in Nat /\ Len(list) <= Len(r)
    /\ \A i \in 1 .. Len(list) : r[i] = list[i]
    /\ \A i \in Len(list) + 1 .. Len(r) :
          r[i].of = of /\ r[i].path \in RoutePaths(here) /\ r[i].types \in {"ss", "ssi"}
    /\ \A path \in RoutePaths(here), types \in {"ss", "ssi"} :
          \E i \in 1 .. Len(r) : r[i].path = path /\ r[i].types = types /\ r[i].of = of

(* Module::init: four methods *)
LEMMA RoutesAdded ==
    ASSUME NEW list \in Seq(AMethod), NEW of \in Mgr \union NodeSet, NEW here, RoutePaths(here) \subseteq PathSet
    PROVE  Routed(list, RouteMethods(list, of, here), of, here)
<1> DEFINE A == Append(here, "/AddRoute")
           D == Append(here, "/DeleteRoute")
           m(p, t) == [path |-> p, types |-> t, of |-> of]
           N == Len(list)
           l1 == Append(list, m(A, "ss"))
           l2 == Append(l1, m(A, "ssi"))
           l3 == Append(l2, m(D, "ss"))
           r == Append(l3, m(D, "ssi"))
<1>1. RouteMethods(list, of, here) = r
  BY DEF RouteMethods, AddMethod2
<1>2. RoutePaths(here) = {A, D}
  BY DEF RoutePaths
<1> HIDE DEF A, D
<1>3. m(A, "ss") \in AMethod /\ m(A, "ssi") \in AMethod /\ m(D, "ss") \in AMethod /\ m(D, "ssi") \in AMethod
  BY <1>2 DEF AMethod
<1> DEFINE m1 == m(A, "ss")
           m2 == m(A, "ssi")
           m3 == m(D, "ss")
           m4 == m(D, "ssi")
<1>4. /\ m1.path = A /\ m1.types = "ss" /\ m1.of = of /\ m2.path = A /\ m2.types = "ssi" /\ m2.of = of
      /\ m3.path = D /\ m3.types = "ss" /\ m3.of = of /\ m4.path = D /\ m4.types = "ssi" /\ m4.of = of
  OBVIOUS
<1> HIDE DEF m1, m2, m3, m4
<1>5. l1 = Append(list, m1) /\ l2 = Append(l1, m2) /\ l3 = Append(l2, m3) /\ r = Append(l3, m4)
  BY DEF m1, m2, m3, m4
<1>a. m1 \in AMethod /\ m2 \in AMethod /\ m3 \in AMethod /\ m4 \in AMethod
  BY <1>3 DEF m1, m2, m3, m4
<1> HIDE DEF l1, l2, l3, r
<1>6. N \in Nat /\ l1 \in Seq(AMethod) /\ Len(l1) = N + 1 /\ l1[N + 1] = m1 /\ \A i \in 1 .. N : l1[i] = list[i]
  BY <1>5, <1>a
<1>7. l2 \in Seq(AMethod) /\ Len(l2) = N + 2 /\ l2[N + 2] = m2 /\ \A i \in 1 .. N + 1 : l2[i] = l1[i]
  BY <1>5, <1>6, <1>a
<1>8. l3 \in Seq(AMethod) /\ Len(l3) = N + 3 /\ l3[N + 3] = m3 /\ \A i \in 1 .. N + 2 : l3[i] = l2[i]
  BY <1>5, <1>6, <1>7, <1>a
<1>9. r \in Seq(AMethod) /\ Len(r) = N + 4 /\ r[N + 4] = m4 /\ \A i \in 1 .. N + 3 : r[i] = l3[i]
  BY <1>5, <1>6, <1>8, <1>a
<1>10. /\ \A i \in 1 .. N : r[i] = list[i]
       /\ r[N + 1] = m1 /\ r[N + 2] = m2 /\ r[N + 3] = m3 /\ r[N + 4] = m4
  <2>1. r[N + 4] = m4 /\ r[N + 3] = m3
    BY <1>6, <1>8, <1>9
  <2>2. r[N + 2] = m2
    BY <1>6, <1>7, <1>8, <1>9
  <2>3. r[N + 1] = m1
    <3>1. l2[N + 1] = m1
      BY <1>6, <1>7
    <3>2. l3[N + 1] = m1
      BY <1>6, <1>8, <3>1
    <3> QED BY <1>6, <1>9, <3>2
  <2>4. ASSUME NEW i \in 1 .. N PROVE r[i] = list[i]
    <3>1. i \in 1 .. N + 1 /\ i \in 1 .. N + 2 /\ i \in 1 .. N + 3
      BY <1>6
    <3> QED BY <1>6, <1>7, <1>8, <1>9, <3>1
  <2> QED BY <2>1, <2>2, <2>3, <2>4
<1>11. \A i \in N + 1 .. N + 4 : i = N + 1 \/ i = N + 2 \/ i = N + 3 \/ i = N + 4
  BY <1>6
<1>12. N + 1 \in 1 .. N + 4 /\ N + 2 \in 1 .. N + 4 /\ N + 3 \in 1 .. N + 4 /\ N + 4 \in 1 .. N + 4
  BY <1>6
<1> HIDE DEF N
<1>13. \A i \in N + 1 .. N + 4 : r[i].of = of /\ r[i].path \in RoutePaths(here) /\ r[i].types \in {"ss", "ssi"}
  BY <1>2, <1>4, <1>10, <1>11
<1>14. \A path \in RoutePaths(here), types \in {"ss", "ssi"} :
          \E i \in 1 .. N + 4 : r[i].path = path /\ r[i].types = types /\ r[i].of = of
  BY <1>2, <1>4, <1>10, <1>12
<1> DEFINE q == RouteMethods(list, of, here)
<1>15. q = r
  BY <1>1
<1> HIDE DEF q
<1>16. N <= N + 4 /\ N + 4 \in Nat
  BY <1>6
<1>17. Routed(list, q, of, here)
  BY <1>6, <1>9, <1>10, <1>13, <1>14, <1>15, <1>16 DEF N, Routed
<1> QED BY <1>17 DEF q

(* A call that changes neither the methods nor who is there *)
LEMMA MgrKeeps ==
    ASSUME MgrGood, mgr' \in [Mgr -> ManagerState], UNCHANGED <<methods, lives>>,
           \A g \in Mgr : /\ mgr'[g].stage = mgr[g].stage /\ mgr'[g].addr = mgr[g].addr
                          /\ mgr'[g].mods = mgr[g].mods /\ mgr'[g].icon = mgr[g].icon
                          /\ mgr[g].info = Infos => mgr'[g].info = Infos
    PROVE  Requests' /\ Registered' /\ InOrder' /\ Answering' /\ Described'
<1>0. Requests /\ Registered /\ InOrder /\ Answering /\ Described
  BY DEF MgrGood
<1>1. lives' = lives /\ methods' = methods
  OBVIOUS
<1>2. \A g \in Mgr : MadeHere(g)' <=> MadeHere(g)
  BY DEF MadeHere
<1>3. lives.deaf \subseteq Mgr
  BY Records DEF MgrGood
<1>4. Requests'
  BY <1>0, <1>1, <1>2, <1>3 DEF Requests
<1>5. ASSUME NEW m
      PROVE  /\ ManagerRoute(m)' <=> ManagerRoute(m)
             /\ ManagerOrders(m)' <=> ManagerOrders(m)
             /\ ModuleRoute(m)' <=> ModuleRoute(m)
  <2>1. ManagerRoute(m)' <=> ManagerRoute(m)
    BY <1>2 DEF ManagerRoute
  <2>2. ManagerOrders(m)' <=> ManagerOrders(m)
    <3>1. CASE m.of \notin Mgr
      BY <3>1 DEF ManagerOrders
    <3>2. CASE m.of \in Mgr
      <4>1. mgr'[m.of].addr = mgr[m.of].addr /\ (MadeHere(m.of)' <=> MadeHere(m.of))
        BY <3>2, <1>2
      <4>2. \A a : Orders(m.of, a)' = Orders(m.of, a)
        BY DEF Orders
      <4> QED BY <4>1, <4>2, <1>1 DEF ManagerOrders
    <3> QED BY <3>1, <3>2
  <2>3. ModuleRoute(m)' <=> ModuleRoute(m)
    BY DEF ModuleRoute
  <2> QED BY <2>1, <2>2, <2>3
<1>6. Registered'
  <2> SUFFICES ASSUME NEW i \in 1 .. Len(methods.tcp)
               PROVE  LET m == methods.tcp[i] IN ManagerRoute(m)' \/ ManagerOrders(m)' \/ ModuleRoute(m)'
    BY <1>1 DEF Registered
  <2> QED BY <1>0, <1>5 DEF Registered
<1>7. InOrder'
  <2> SUFFICES ASSUME NEW i \in 1 .. Len(methods.tcp), NEW j \in 1 .. Len(methods.tcp), i <= j,
                      ManagerRoute(methods.tcp[i])', ManagerRoute(methods.tcp[j])'
               PROVE  Earlier(methods.tcp[i].of, methods.tcp[j].of)'
    BY <1>1 DEF InOrder
  <2> QED BY <1>0, <1>1, <1>5 DEF InOrder, Earlier
<1>8. Answering'
  BY <1>0, <1>1, <1>2 DEF Answering
<1>9. Described'
  BY <1>0, <1>1, <1>2 DEF Described
<1> QED BY <1>4, <1>6, <1>7, <1>8, <1>9

(* The small calls *)
LEMMA SmallCalls ==
    ASSUME MgrGood, NEW g \in Mgr,
           \/ \E which \in Infos : SetOneInfo(g, which)
           \/ \E n \in 1 .. 2 : SetOutNum(g, n)
           \/ \E outID \in 0 .. 2, float \in BOOLEAN : SendDataTo(g, outID, float)
           \/ \E h \in Mgr, outID \in 0 .. 2 : ConnectTo(g, h, outID)
    PROVE  MgrGood'
<1>0. MgrTyped /\ ReachedOldest /\ UndefinedExplained
  BY DEF MgrGood
<1> DEFINE Goal == /\ mgr' \in [Mgr -> ManagerState] /\ UNCHANGED <<methods, lives>>
                   /\ \A f \in Mgr : /\ mgr'[f].stage = mgr[f].stage /\ mgr'[f].addr = mgr[f].addr
                                     /\ mgr'[f].mods = mgr[f].mods /\ mgr'[f].icon = mgr[f].icon
                                     /\ mgr[f].info = Infos => mgr'[f].info = Infos
                   /\ reached' = reached /\ (undefined' = undefined \/ undefined' = "index")
<1>1. mgr[g] \in ManagerState /\ mgr \in [Mgr -> ManagerState]
  BY <1>0, Records DEF MgrTyped
<1>2. ASSUME NEW which \in Infos, SetOneInfo(g, which) PROVE Goal
  <2> DEFINE r == [mgr[g] EXCEPT !.info = mgr[g].info \union {which}]
  <2>1. mgr' = [mgr EXCEPT ![g] = r]
    BY <1>2 DEF SetOneInfo
  <2>2. /\ r \in ManagerState /\ r.stage = mgr[g].stage /\ r.addr = mgr[g].addr /\ r.mods = mgr[g].mods
        /\ r.icon = mgr[g].icon /\ r.info = mgr[g].info \union {which}
    BY <1>1 DEF ManagerState
  <2> HIDE DEF r
  <2>3. mgr[g].info = Infos => mgr[g].info \union {which} = Infos
    OBVIOUS
  <2>4. \A f \in Mgr : mgr'[f] = IF f = g THEN r ELSE mgr[f]
    BY <1>1, <2>1
  <2>5. mgr' \in [Mgr -> ManagerState]
    BY <1>1, <2>1, <2>2
  <2> QED BY <1>2, <2>2, <2>3, <2>4, <2>5 DEF SetOneInfo
<1>3. ASSUME NEW n \in 1 .. 2, SetOutNum(g, n) PROVE Goal
  <2> DEFINE r == [mgr[g] EXCEPT !.outNum = n, !.tables = mgr[g].tables + (n - 1)]
  <2>1. mgr' = [mgr EXCEPT ![g] = r]
    BY <1>1, <1>3 DEF SetOutNum
  <2>0. n \in Nat /\ mgr[g].tables + (n - 1) \in Nat
    <3>1. mgr[g].tables \in Nat
      BY <1>1 DEF ManagerState
    <3>2. \A t \in Nat : t + (n - 1) \in Nat
      BY <1>3
    <3> QED BY <3>1, <3>2
  <2>2. /\ r \in ManagerState /\ r.stage = mgr[g].stage /\ r.addr = mgr[g].addr /\ r.mods = mgr[g].mods
        /\ r.icon = mgr[g].icon /\ r.info = mgr[g].info
    BY <1>1, <2>0 DEF ManagerState
  <2> HIDE DEF r
  <2>4. \A f \in Mgr : mgr'[f] = IF f = g THEN r ELSE mgr[f]
    BY <1>1, <2>1
  <2>5. mgr' \in [Mgr -> ManagerState]
    BY <1>1, <2>1, <2>2
  <2> QED BY <1>3, <2>2, <2>4, <2>5 DEF SetOutNum
<1>4. ASSUME NEW outID \in 0 .. 2, NEW float \in BOOLEAN, SendDataTo(g, outID, float) PROVE Goal
  BY <1>1, <1>4 DEF SendDataTo
<1>5. ASSUME NEW h \in Mgr, NEW outID \in 0 .. 2, ConnectTo(g, h, outID) PROVE Goal
  BY <1>1, <1>5 DEF ConnectTo
<1>6. Goal
  BY <1>2, <1>3, <1>4, <1>5
<1>7. Requests' /\ Registered' /\ InOrder' /\ Answering' /\ Described'
  BY <1>6, MgrKeeps
<1>8. MgrTyped' /\ ReachedOldest' /\ UndefinedExplained'
  <2>1. MgrTyped'
    BY <1>0, <1>6 DEF MgrTyped
  <2>2. ReachedOldest'
    <3>1. (\A f \in Mgr : MadeHere(f)' <=> MadeHere(f)) /\ lives' = lives /\ reached' = reached
      BY <1>6 DEF MadeHere
    <3>2. reached \subseteq Mgr /\ lives.deaf \subseteq Mgr
      BY <1>0, Records DEF MgrTyped
    <3>3. \A f, h : Earlier(f, h)' <=> Earlier(f, h)
      BY <3>1 DEF Earlier
    <3>4. \A f \in Mgr : mgr'[f].stage = mgr[f].stage
      BY <1>6
    <3> QED BY <1>0, <3>1, <3>2, <3>3, <3>4 DEF ReachedOldest
  <2>3. UndefinedExplained'
    BY <1>0, <1>6 DEF UndefinedExplained
  <2> QED BY <2>1, <2>2, <2>3
<1> QED BY <1>7, <1>8 DEF MgrGood

(* Messages that change nothing but what was reached or undefined *)
LEMMA RequestKeeps ==
    ASSUME MgrGood, RequestML
    PROVE  MgrGood'
<1>0. MgrTyped /\ Requests /\ ReachedOldest /\ UndefinedExplained /\ Described
  BY DEF MgrGood
<1>1. UNCHANGED <<mgr, methods, reached, lives>>
  BY DEF RequestML
<1>2. \A i \in Found(methods.udp, Request, "i") : MadeHere(methods.udp[i].of) /\ methods.udp[i].of \in Mgr
  BY <1>0 DEF Requests, Found
<1>3. undefined' \in {undefined, "null"} /\ (undefined' = "null" => undefined = "null" \/ \E g \in Mgr : MadeHere(g) /\ ~ (mgr[g].info = Infos /\ mgr[g].icon))
  BY <1>2 DEF RequestML
<1>4. UndefinedExplained'
  <2>1. \A g \in Mgr : MadeHere(g) /\ ~ (mgr[g].info = Infos /\ mgr[g].icon) => ~ mgr[g].icon /\ mgr[g].stage # "none"
    BY <1>0 DEF Described, MadeHere
  <2> QED BY <1>0, <1>1, <1>3, <2>1 DEF UndefinedExplained
<1>5. Requests' /\ Registered' /\ InOrder' /\ Answering' /\ Described'
  BY <1>0, <1>1, MgrKeeps DEF MgrTyped
<1>6. MgrTyped'
  BY <1>0, <1>1, <1>3 DEF MgrTyped
<1>7. ReachedOldest'
  <2>1. \A f \in Mgr : MadeHere(f)' <=> MadeHere(f)
    BY <1>1 DEF MadeHere
  <2>3. \A f, h : Earlier(f, h)' <=> Earlier(f, h)
    BY <1>1 DEF Earlier
  <2>4. reached \subseteq Mgr /\ lives.deaf \subseteq Mgr
    BY <1>0, Records DEF MgrTyped
  <2> QED BY <1>0, <1>1, <2>1, <2>3, <2>4 DEF ReachedOldest
<1> QED BY <1>4, <1>5, <1>6, <1>7 DEF MgrGood

(* The first method that is found *)
LEMMA FirstIs ==
    ASSUME NEW list \in Seq(AMethod), NEW path, NEW types, Found(list, path, types) # {}
    PROVE  \E i \in Found(list, path, types) :
              /\ \A j \in Found(list, path, types) : i <= j
              /\ FirstFound(list, path, types) = list[i].of
<1> DEFINE S == Found(list, path, types)
           i == CHOOSE x \in S : \A j \in S : x <= j
<1>1. S \in SUBSET Nat
  BY DEF Found
<1>2. FirstFound(list, path, types) = list[i].of
  BY DEF FirstFound
<1> HIDE DEF S
<1>3. i \in S /\ \A j \in S : i <= j
  BY <1>1, LeastOf DEF S
<1> QED BY <1>2, <1>3 DEF S

LEMMA RouteOrdered ==
    ASSUME MgrGood, NEW osc \in {Osc[g] : g \in Mgr}, NEW types \in {"ss", "ssi"}, NEW outID \in 0 .. 2,
           OrderRoute(osc, types, outID)
    PROVE  MgrGood'
<1>0. MgrTyped /\ Registered /\ InOrder /\ Answering /\ ReachedOldest /\ UndefinedExplained
  BY DEF MgrGood
<1> DEFINE g == FirstFound(methods.tcp, Routes(osc), types)
<1>1. UNCHANGED <<mgr, methods, lives>> /\ reached' = {g} /\ g \in Mgr /\ undefined = "no"
  BY DEF OrderRoute, Defined
<1>2. methods.tcp \in Seq(AMethod)
  BY <1>0, Records
<1>3. PICK i \in Found(methods.tcp, Routes(osc), types) :
        g = methods.tcp[i].of /\ \A j \in Found(methods.tcp, Routes(osc), types) : i <= j
  BY <1>2, FirstIs DEF OrderRoute
<1> HIDE DEF g
<1>4. i \in 1 .. Len(methods.tcp) /\ methods.tcp[i].types = types
  BY <1>3 DEF Found
<1>5. ManagerRoute(methods.tcp[i]) \/ ManagerOrders(methods.tcp[i]) \/ ModuleRoute(methods.tcp[i])
  BY <1>0, <1>4 DEF Registered
<1>6. ManagerRoute(methods.tcp[i])
  <2>1. ~ ManagerOrders(methods.tcp[i])
    BY <1>4 DEF ManagerOrders
  <2>2. ~ ModuleRoute(methods.tcp[i])
    <3>1. g \notin NodeSet
      BY <1>1, ManagersAssumption DEF NodeSet
    <3> QED BY <1>3, <3>1 DEF ModuleRoute
  <2> QED BY <1>5, <2>1, <2>2
<1>7. MadeHere(g)
  BY <1>3, <1>6 DEF ManagerRoute
<1>8. undefined' \in {"no", "index"}
  BY <1>1, <1>7 DEF OrderRoute, g
<1>9. UndefinedExplained'
  BY <1>8 DEF UndefinedExplained
<1>10. ASSUME NEW h \in Mgr \ lives.deaf, MadeHere(h), Osc[h] = Osc[g] PROVE Earlier(g, h)
  <2>1. Routes(osc) = Append(<<osc>>, "/AddRoute")
    <3>1. <<osc>> \in Seq({osc, "/AddRoute"}) /\ Len(<<osc>>) = 1
      OBVIOUS
    <3> QED BY <3>1 DEF Routes
  <2>2. methods.tcp[i].path = Routes(osc)
    BY <1>3 DEF Found
  <2>3. Routes(osc) \in RoutePaths(<<Osc[h]>>)
    <3>1. methods.tcp[i].path \in RoutePaths(<<Osc[g]>>)
      BY <1>3, <1>6 DEF ManagerRoute
    <3> QED BY <2>2, <3>1, <1>10
  <2>4. PICK j \in 1 .. Len(methods.tcp) :
          methods.tcp[j].path = Routes(osc) /\ methods.tcp[j].types = types /\ methods.tcp[j].of = h
    BY <1>0, <1>10, <2>3 DEF Answering
  <2>5. i <= j
    BY <1>3, <2>4 DEF Found
  <2>6. ManagerRoute(methods.tcp[j])
    BY <2>3, <2>4, <1>10 DEF ManagerRoute
  <2> QED BY <1>0, <1>3, <1>4, <1>6, <2>4, <2>5, <2>6 DEF InOrder
<1>11. ReachedOldest'
  <2>1. \A f \in Mgr : MadeHere(f)' <=> MadeHere(f)
    BY <1>1 DEF MadeHere
  <2>3. \A f, h : Earlier(f, h)' <=> Earlier(f, h)
    BY <1>1 DEF Earlier
  <2>4. mgr'[g].stage # "none"
    BY <1>1, <1>7 DEF MadeHere
  <2> QED BY <1>1, <1>10, <2>1, <2>3, <2>4 DEF ReachedOldest
<1>12. Requests' /\ Registered' /\ InOrder' /\ Answering' /\ Described'
  BY <1>0, <1>1, MgrKeeps DEF MgrTyped
<1>13. MgrTyped'
  BY <1>0, <1>1, <1>8 DEF MgrTyped
<1> QED BY <1>9, <1>11, <1>12, <1>13 DEF MgrGood

(* setMInfo: another method for orders, at the new address *)
LEMMA MInfoSet ==
    ASSUME MgrGood, NEW g \in Mgr, NEW a \in MAddrs, NEW own \in BOOLEAN, NEW found \in BOOLEAN,
           SetMInfo(g, a, own, found)
    PROVE  MgrGood'
<1>0. MgrTyped /\ Requests /\ Registered /\ InOrder /\ Answering /\ ReachedOldest /\ Described
  BY DEF MgrGood
<1> DEFINE r == [mgr[g] EXCEPT !.addr = a, !.info = Infos, !.icon = mgr[g].icon \/ found]
           new == [path |-> Orders(g, a), types |-> "is", of |-> g]
           old == methods.tcp
           N == Len(old)
<1>1. /\ mgr[g] \in ManagerState /\ mgr \in [Mgr -> ManagerState] /\ old \in Seq(AMethod) /\ N \in Nat
      /\ lives.deaf \subseteq Mgr /\ reached \subseteq Mgr /\ MadeHere(g) /\ a # ""
  <2>1. old \in Seq(AMethod)
    BY <1>0, Records
  <2>2. N \in Nat
    BY <2>1
  <2>3. a # "" /\ MadeHere(g)
    BY ManagersAssumption DEF SetMInfo
  <2> QED BY <1>0, <2>1, <2>2, <2>3, Records DEF MgrTyped
<1>2. mgr' = [mgr EXCEPT ![g] = r]
  BY <1>1 DEF SetMInfo
<1>3. /\ r \in ManagerState /\ r.stage = mgr[g].stage /\ r.addr = a /\ r.mods = mgr[g].mods
      /\ r.icon = (mgr[g].icon \/ found) /\ r.info = Infos
  BY <1>1 DEF ManagerState
<1> HIDE DEF r
<1>4. mgr' \in [Mgr -> ManagerState] /\ \A f \in Mgr : mgr'[f] = IF f = g THEN r ELSE mgr[f]
  BY <1>1, <1>2, <1>3
<1>5. new \in AMethod /\ new.path = Orders(g, a) /\ new.types = "is" /\ new.of = g
  BY DEF AMethod, PathSet
<1>6. methods' = [methods EXCEPT !.tcp = Append(old, new)]
  BY DEF SetMInfo, AddMethod2
<1> HIDE DEF new
<1>7. /\ methods'.udp = methods.udp /\ methods'.tcp = Append(old, new)
      /\ methods' \in [udp : Seq(AMethod), tcp : Seq(AMethod)]
  <2>1. methods \in [udp : Seq(AMethod), tcp : Seq(AMethod)]
    BY <1>0 DEF MgrTyped
  <2>2. Append(old, new) \in Seq(AMethod)
    BY <1>1, <1>5, Appended
  <2> QED BY <1>6, <2>1, <2>2
<1>8. /\ Len(methods'.tcp) = N + 1 /\ methods'.tcp[N + 1] = new
      /\ \A i \in 1 .. N : methods'.tcp[i] = old[i]
      /\ \A i \in 1 .. N + 1 : i \in 1 .. N \/ i = N + 1
  <2>1. /\ Len(Append(old, new)) = N + 1 /\ Append(old, new)[N + 1] = new
        /\ \A i \in 1 .. N : Append(old, new)[i] = old[i]
        /\ \A i \in 1 .. N + 1 : i \in 1 .. N \/ i = N + 1
    <3>1. old \in Seq(AMethod) /\ new \in AMethod
      BY <1>1, <1>5
    <3> HIDE DEF old
    <3> QED BY <3>1, Appended
  <2> QED BY <1>7, <2>1
<1>n. N \in Nat /\ \A i \in 1 .. N : i \in 1 .. N + 1
  <2>1. N \in Nat
    BY <1>1
  <2> QED BY <2>1
<1> HIDE DEF N
<1>9. /\ lives' = [lives EXCEPT !.readdressed = IF mgr[g].addr \in {"", a} THEN lives.readdressed ELSE lives.readdressed \union {g}]
      /\ lives \in Memory
  BY <1>0 DEF SetMInfo, MgrTyped
<1>10. /\ lives' \in Memory /\ lives'.order = lives.order /\ lives'.deaf = lives.deaf
       /\ lives'.readdressed = IF mgr[g].addr \in {"", a} THEN lives.readdressed ELSE lives.readdressed \union {g}
  BY <1>9 DEF Memory
<1>11. \A f \in Mgr : (MadeHere(f)' <=> MadeHere(f)) /\ mgr'[f].mods = mgr[f].mods
  BY <1>3, <1>4 DEF MadeHere
<1>12. reached' = reached /\ undefined = "no"
  BY DEF SetMInfo, Defined
<1>13. MgrTyped' /\ UndefinedExplained'
  <2>1. undefined' = "no" \/ (undefined' = "null" /\ ~ mgr'[g].icon)
    <3>1. mgr'[g] = r
      BY <1>4
    <3> QED BY <1>3, <1>12, <3>1 DEF SetMInfo, sendModuleList
  <2>2. mgr'[g].stage # "none"
    BY <1>1, <1>11 DEF MadeHere
  <2> QED BY <1>1, <1>4, <1>7, <1>10, <1>12, <2>1, <2>2 DEF MgrTyped, UndefinedExplained
<1>14. Requests'
  <2>1. \A f \in Mgr : mgr'[f].stage = mgr[f].stage
    BY <1>3, <1>4
  <2> QED BY <1>0, <1>1, <1>7, <1>10, <1>11, <2>1 DEF Requests
<1>15. ASSUME NEW m
       PROVE  /\ ManagerRoute(m)' <=> ManagerRoute(m)
              /\ ModuleRoute(m)' <=> ModuleRoute(m)
              /\ ManagerOrders(m) => ManagerOrders(m)'
  <2>1. ManagerRoute(m)' <=> ManagerRoute(m)
    BY <1>11 DEF ManagerRoute
  <2>2. ModuleRoute(m)' <=> ModuleRoute(m)
    BY <1>11 DEF ModuleRoute
  <2>3. ASSUME ManagerOrders(m) PROVE ManagerOrders(m)'
    <3>1. \A f, b : Orders(f, b)' = Orders(f, b)
      BY DEF Orders
    <3>2. PICK b \in MAddrs : m.path = Orders(m.of, b) /\ (b = mgr[m.of].addr \/ m.of \in lives.readdressed)
      BY <2>3 DEF ManagerOrders
    <3>3. m.of \in Mgr /\ mgr[m.of].addr # "" /\ m.types = "is"
      BY <2>3 DEF ManagerOrders
    <3>4. CASE m.of = g
      <4>1. mgr'[g].addr = a /\ MadeHere(g)'
        BY <1>1, <1>3, <1>4, <1>11
      <4>2. b = a \/ g \in lives'.readdressed
        BY <1>10, <3>2, <3>3, <3>4
      <4> QED BY <1>1, <3>1, <3>2, <3>3, <3>4, <4>1, <4>2 DEF ManagerOrders
    <3>5. CASE m.of # g
      <4>1. mgr'[m.of] = mgr[m.of] /\ (MadeHere(m.of)' <=> MadeHere(m.of))
        BY <1>4, <1>11, <3>3, <3>5
      <4>2. lives.readdressed \subseteq lives'.readdressed
        BY <1>10
      <4>3. m.path # Orders(m.of, mgr[m.of].addr) \/ MadeHere(m.of)
        BY <2>3 DEF ManagerOrders
      <4>4. m.path # Orders(m.of, mgr'[m.of].addr) \/ MadeHere(m.of)'
        BY <4>1, <4>3
      <4>5. b = mgr'[m.of].addr \/ m.of \in lives'.readdressed
        BY <3>2, <4>1, <4>2
      <4>6. mgr'[m.of].addr # ""
        BY <3>3, <4>1
      <4> QED BY <3>1, <3>2, <3>3, <4>4, <4>5, <4>6 DEF ManagerOrders
    <3> QED BY <3>4, <3>5
  <2> QED BY <2>1, <2>2, <2>3
<1>16. ManagerOrders(new)'
  <2>1. new' = new /\ Orders(g, a)' = Orders(g, a) /\ mgr'[g].addr = a /\ MadeHere(g)'
    BY <1>1, <1>3, <1>4, <1>11 DEF new, Orders
  <2> QED BY <1>1, <1>5, <2>1 DEF ManagerOrders
<1>17. Registered'
  <2> SUFFICES ASSUME NEW i \in 1 .. N + 1
               PROVE  (LET m == methods.tcp[i] IN ManagerRoute(m) \/ ManagerOrders(m) \/ ModuleRoute(m))'
    BY <1>8 DEF Registered
  <2>1. CASE i \in 1 .. N
    <3>1. ManagerRoute(old[i]) \/ ManagerOrders(old[i]) \/ ModuleRoute(old[i])
      BY <1>0, <2>1 DEF Registered, N
    <3> QED BY <1>8, <1>15, <2>1, <3>1
  <2>2. CASE i = N + 1
    BY <1>8, <1>16, <2>2
  <2> QED BY <1>8, <2>1, <2>2
<1>18. \A f, h : Earlier(f, h)' <=> Earlier(f, h)
  BY <1>10 DEF Earlier
<1>19. InOrder'
  <2> SUFFICES ASSUME NEW i \in 1 .. N + 1, NEW j \in 1 .. N + 1, i <= j,
                      ManagerRoute(methods.tcp[i])', ManagerRoute(methods.tcp[j])'
               PROVE  Earlier(methods.tcp[i].of, methods.tcp[j].of)'
    BY <1>8 DEF InOrder
  <2>1. ~ ManagerRoute(new)'
    BY <1>5 DEF ManagerRoute, new
  <2>2. i \in 1 .. N /\ j \in 1 .. N
    BY <1>8, <2>1
  <2>3. ManagerRoute(old[i]) /\ ManagerRoute(old[j])
    BY <1>8, <1>15, <2>2
  <2>4. Earlier(old[i].of, old[j].of)
    BY <1>0, <2>2, <2>3 DEF InOrder, N
  <2> QED BY <1>8, <1>18, <2>2, <2>4
<1>20. Answering'
  <2> SUFFICES ASSUME NEW f \in Mgr \ lives.deaf, MadeHere(f),
                      NEW path \in RoutePaths(<<Osc[f]>>), NEW types \in {"ss", "ssi"}
               PROVE  \E i \in 1 .. N + 1 : /\ methods'.tcp[i].path = path /\ methods'.tcp[i].types = types
                                            /\ methods'.tcp[i].of = f
    <3>1. \A here : RoutePaths(here)' = RoutePaths(here)
      BY DEF RoutePaths
    <3>2. lives'.deaf = lives.deaf /\ \A f \in Mgr : MadeHere(f)' <=> MadeHere(f)
      BY <1>10, <1>11
    <3>3. Len(methods'.tcp) = N + 1
      BY <1>8
    <3> QED BY <3>1, <3>2, <3>3 DEF Answering
  <2>1. PICK i \in 1 .. N : old[i].path = path /\ old[i].types = types /\ old[i].of = f
    BY <1>0 DEF Answering, N
  <2>2. i \in 1 .. N + 1
    BY <1>n
  <2> QED BY <1>8, <2>1, <2>2
<1>21. ReachedOldest'
  <2>1. \A f \in Mgr : mgr'[f].stage = mgr[f].stage
    BY <1>3, <1>4
  <2> QED BY <1>0, <1>1, <1>10, <1>11, <1>12, <1>18, <2>1 DEF ReachedOldest
<1>22. Described'
  <2>1. mgr'[g].info = Infos /\ mgr'[g].stage = "made"
    BY <1>1, <1>3, <1>4 DEF MadeHere
  <2> SUFFICES ASSUME NEW f \in Mgr
               PROVE  /\ mgr'[f].stage = "made" /\ mgr'[f].icon => mgr'[f].info = Infos
                      /\ mgr'[f].stage = "none" => ~ mgr'[f].icon
                      /\ mgr'[f].stage = "made" => \E k \in 1 .. Len(lives.order) : lives.order[k] = f
    BY <1>10 DEF Described, MadeHere, Infos
  <2>2. CASE f = g
    BY <1>0, <1>1, <2>1, <2>2 DEF Described
  <2>3. CASE f # g
    BY <1>0, <1>4, <2>3 DEF Described, MadeHere
  <2> QED BY <2>2, <2>3
<1> QED BY <1>13, <1>14, <1>17, <1>19, <1>20, <1>21, <1>22 DEF MgrGood

(* A new manager: its routes, once or twice, are the last in the list.     *)
LEMMA RoutedTwice ==
    ASSUME NEW list, NEW once, NEW r, NEW of, NEW here, Routed(list, once, of, here), Routed(once, r, of, here)
    PROVE  Routed(list, r, of, here)
<1> DEFINE N == Len(list)
           M == Len(once)
           L == Len(r)
<1>1. N \in Nat /\ M \in Nat /\ L \in Nat /\ N <= M /\ M <= L
  BY DEF Routed
<1>2. N <= L /\ \A i \in 1 .. N : i \in 1 .. M
  BY <1>1
<1>3. \A i \in 1 .. N : r[i] = list[i]
  BY <1>2 DEF Routed
<1>4. ASSUME NEW i \in N + 1 .. L PROVE r[i].of = of /\ r[i].path \in RoutePaths(here) /\ r[i].types \in {"ss", "ssi"}
  <2>1. CASE i \in M + 1 .. L
    BY <2>1 DEF Routed
  <2>2. CASE i \in N + 1 .. M
    <3>1. i \in 1 .. M
      BY <1>1, <2>2
    <3> QED BY <2>2, <3>1 DEF Routed
  <2>3. i \in M + 1 .. L \/ i \in N + 1 .. M
    BY <1>1
  <2> QED BY <2>1, <2>2, <2>3
<1> QED BY <1>1, <1>2, <1>3, <1>4 DEF Routed

LEMMA RoutesOfNew ==
    ASSUME NEW list \in Seq(AMethod), NEW g \in Mgr, NEW twice \in BOOLEAN
    PROVE  LET once == RouteMethods(list, g, <<Osc[g]>>) IN
           Routed(list, IF twice THEN RouteMethods(once, g, <<Osc[g]>>) ELSE once, g, <<Osc[g]>>)
<1> DEFINE here == <<Osc[g]>>
           once == RouteMethods(list, g, here)
           second == RouteMethods(once, g, here)
<1>1. RoutePaths(here) \subseteq PathSet /\ g \in Mgr \union NodeSet
  BY DEF PathSet
<1>2. Routed(list, once, g, here)
  BY <1>1, RoutesAdded
<1>3. once \in Seq(AMethod)
  BY <1>2 DEF Routed
<1>4. Routed(once, second, g, here)
  BY <1>1, <1>3, RoutesAdded
<1>5. Routed(list, second, g, here)
  BY <1>2, <1>4, RoutedTwice
<1> QED BY <1>2, <1>5

(* Only the routes of a manager are for it and have these types. *)
LEMMA OnlyRoutes ==
    ASSUME NEW m, ManagerRoute(m) \/ ManagerOrders(m) \/ ModuleRoute(m), m.of \in Mgr, m.types \in {"ss", "ssi"}
    PROVE  ManagerRoute(m)
<1>1. m.of \notin NodeSet
  BY ManagersAssumption DEF NodeSet
<1> QED BY <1>1 DEF ManagerOrders, ModuleRoute

LEMMA NewMade ==
    ASSUME MgrGood, NEW g \in Mgr, NEW twice \in BOOLEAN, NewManager(g, twice)
    PROVE  MgrGood'
<1>0. MgrTyped /\ Requests /\ Registered /\ InOrder /\ Answering /\ ReachedOldest /\ Described
  BY DEF MgrGood
<1> DEFINE r == [mgr[g] EXCEPT !.stage = "made", !.outNum = 1, !.tables = IF twice THEN 2 ELSE 1]
           request == [path |-> Request, types |-> "i", of |-> g]
           old == methods.tcp
           now == methods'.tcp
           N == Len(old)
           Q == Len(methods.udp)
           P == Len(lives.order)
<1>1. /\ old \in Seq(AMethod) /\ methods.udp \in Seq(AMethod) /\ lives.order \in Seq(Mgr)
      /\ mgr[g] \in ManagerState /\ mgr \in [Mgr -> ManagerState]
      /\ lives.deaf \subseteq Mgr /\ reached \subseteq Mgr
  BY <1>0, Records DEF MgrTyped
<1>2. mgr[g].stage = "none" /\ ~ MadeHere(g) /\ g \notin lives.deaf
  BY <1>0 DEF NewManager, MadeHere, Requests
<1>3. N \in Nat /\ Q \in Nat /\ P \in Nat
  BY <1>1
<1>4. mgr' = [mgr EXCEPT ![g] = r]
  BY <1>1 DEF NewManager
<1>5. /\ r \in ManagerState /\ r.stage = "made" /\ r.addr = mgr[g].addr /\ r.mods = mgr[g].mods
      /\ r.icon = mgr[g].icon /\ r.info = mgr[g].info
  BY <1>1 DEF ManagerState
<1> HIDE DEF r
<1>6. mgr' \in [Mgr -> ManagerState] /\ \A f \in Mgr : mgr'[f] = IF f = g THEN r ELSE mgr[f]
  BY <1>1, <1>4, <1>5
<1>7. \A f \in Mgr : /\ MadeHere(f)' <=> MadeHere(f) \/ f = g
                     /\ mgr'[f].addr = mgr[f].addr /\ mgr'[f].mods = mgr[f].mods
                     /\ mgr'[f].icon = mgr[f].icon /\ mgr'[f].info = mgr[f].info
  BY <1>5, <1>6 DEF MadeHere
<1>8. /\ request \in AMethod /\ request.path = Request /\ request.types = "i" /\ request.of = g
  BY DEF AMethod, PathSet
<1>9. /\ now \in Seq(AMethod) /\ Len(now) \in Nat /\ N <= Len(now) /\ \A i \in 1 .. N : now[i] = old[i]
      /\ \A i \in N + 1 .. Len(now) :
            now[i].of = g /\ now[i].path \in RoutePaths(<<Osc[g]>>) /\ now[i].types \in {"ss", "ssi"}
      /\ \A path \in RoutePaths(<<Osc[g]>>), types \in {"ss", "ssi"} :
            \E i \in 1 .. Len(now) : now[i].path = path /\ now[i].types = types /\ now[i].of = g
  <2>1. Routed(old, now, g, <<Osc[g]>>)
    BY <1>1, RoutesOfNew DEF NewManager
  <2> QED BY <2>1 DEF Routed
<1>10. methods' = [udp |-> Append(methods.udp, request), tcp |-> now]
  BY DEF NewManager, AddMethod2
<1> HIDE DEF request
<1>11. /\ methods'.udp \in Seq(AMethod) /\ Len(methods'.udp) = Q + 1 /\ methods'.udp[Q + 1] = request
       /\ \A i \in 1 .. Q : methods'.udp[i] = methods.udp[i]
       /\ \A i \in 1 .. Q + 1 : i \in 1 .. Q \/ i = Q + 1
  <2> DEFINE u == methods.udp
  <2>1. u \in Seq(AMethod) /\ methods'.udp = Append(u, request)
    BY <1>1, <1>10
  <2> HIDE DEF u
  <2>2. /\ methods'.udp \in Seq(AMethod) /\ Len(methods'.udp) = Len(u) + 1 /\ methods'.udp[Len(u) + 1] = request
        /\ \A i \in 1 .. Len(u) : methods'.udp[i] = u[i]
        /\ \A i \in 1 .. Len(u) + 1 : i \in 1 .. Len(u) \/ i = Len(u) + 1
    BY <1>8, <2>1, Appended
  <2> QED BY <2>2 DEF u
<1>12. lives' = [lives EXCEPT !.order = Append(lives.order, g)] /\ lives \in Memory
  BY <1>0 DEF NewManager, MgrTyped
<1>13. Append(lives.order, g) \in Seq(Mgr)
  BY <1>1
<1>14. lives' \in Memory /\ lives'.order = Append(lives.order, g) /\ lives'.deaf = lives.deaf /\ lives'.readdressed = lives.readdressed
  BY <1>12, <1>13 DEF Memory
<1>15. /\ Len(lives'.order) = P + 1 /\ lives'.order[P + 1] = g /\ \A k \in 1 .. P : lives'.order[k] = lives.order[k]
  BY <1>1, <1>14
<1>16. P + 1 \in 1 .. P + 1 /\ \A k \in 1 .. P : k \in 1 .. P + 1 /\ k <= P + 1
  BY <1>3
<1>17. \A i \in 1 .. N : i \in 1 .. Len(now) /\ \A j \in N + 1 .. Len(now) : i < j
  BY <1>3, <1>9
<1>18. \A i \in 1 .. Len(now) : i \in 1 .. N \/ i \in N + 1 .. Len(now)
  BY <1>3, <1>9
<1>19. \A i \in 1 .. Q : i \in 1 .. Q + 1
  BY <1>3
<1>20. Q + 1 \in 1 .. Q + 1
  BY <1>3
<1> HIDE DEF N, Q, P
<1>21. reached' = reached /\ undefined' = undefined /\ undefined = "no"
  BY DEF NewManager, Defined
<1>22. MgrTyped' /\ UndefinedExplained'
  <2>1. methods' \in [udp : Seq(AMethod), tcp : Seq(AMethod)]
    BY <1>9, <1>10, <1>11
  <2> QED BY <1>1, <1>6, <1>14, <1>21, <2>1 DEF MgrTyped, UndefinedExplained
<1>23. Requests'
  <2>1. ASSUME NEW i \in 1 .. Q + 1
        PROVE  LET m == methods'.udp[i] IN m.path = Request /\ m.types = "i" /\ m.of \in Mgr \ lives.deaf /\ (MadeHere(m.of) \/ m.of = g)
    <3>1. CASE i \in 1 .. Q
      BY <1>0, <1>11, <3>1 DEF Requests, Q
    <3>2. CASE i = Q + 1
      BY <1>2, <1>8, <1>11, <3>2
    <3> QED BY <1>11, <3>1, <3>2
  <2>2. ASSUME NEW f \in Mgr \ lives.deaf, MadeHere(f) \/ f = g PROVE \E i \in 1 .. Q + 1 : methods'.udp[i].of = f
    <3>1. CASE f = g
      BY <1>8, <1>11, <1>20, <3>1
    <3>2. CASE MadeHere(f)
      BY <1>0, <1>11, <1>19, <3>2 DEF Requests, Q
    <3> QED BY <2>2, <3>1, <3>2
  <2>3. \A f \in lives.deaf : mgr'[f].stage # "none"
    BY <1>0, <1>1, <1>5, <1>6 DEF Requests
  <2>4. Request' = Request
    BY DEF Request
  <2>5. Len(methods'.udp) = Q + 1 /\ lives'.deaf = lives.deaf
    BY <1>11, <1>14
  <2> QED BY <1>7, <2>1, <2>2, <2>3, <2>4, <2>5 DEF Requests
<1>24. ASSUME NEW m
       PROVE  /\ ManagerRoute(m) => ManagerRoute(m)'
              /\ ManagerOrders(m) => ManagerOrders(m)'
              /\ ModuleRoute(m) => ModuleRoute(m)'
              /\ ManagerRoute(m)' /\ m.of # g => ManagerRoute(m)
  <2>1. (ManagerRoute(m) => ManagerRoute(m)') /\ (ManagerRoute(m)' /\ m.of # g => ManagerRoute(m))
    BY <1>7 DEF ManagerRoute
  <2>2. ModuleRoute(m) => ModuleRoute(m)'
    BY <1>7 DEF ModuleRoute
  <2>3. ASSUME ManagerOrders(m) PROVE ManagerOrders(m)'
    <3>1. m.of \in Mgr /\ mgr'[m.of].addr = mgr[m.of].addr /\ (MadeHere(m.of) => MadeHere(m.of)')
      BY <1>7, <2>3 DEF ManagerOrders
    <3>2. \A f, b : Orders(f, b)' = Orders(f, b)
      BY DEF Orders
    <3> QED BY <1>14, <2>3, <3>1, <3>2 DEF ManagerOrders
  <2> QED BY <2>1, <2>2, <2>3
<1>25. Registered'
  <2> SUFFICES ASSUME NEW i \in 1 .. Len(now)
               PROVE  (LET m == methods.tcp[i] IN ManagerRoute(m) \/ ManagerOrders(m) \/ ModuleRoute(m))'
    BY DEF Registered
  <2>1. CASE i \in 1 .. N
    <3>1. ManagerRoute(old[i]) \/ ManagerOrders(old[i]) \/ ModuleRoute(old[i])
      BY <1>0, <2>1 DEF Registered, N
    <3> QED BY <1>9, <1>24, <2>1, <3>1
  <2>2. CASE i \in N + 1 .. Len(now)
    <3>1. MadeHere(g)'
      BY <1>7
    <3>2. ManagerRoute(methods.tcp[i])'
      BY <1>9, <2>2, <3>1 DEF ManagerRoute, RoutePaths
    <3> QED BY <3>2
  <2> QED BY <1>18, <2>1, <2>2
<1>26. \A f, h : Earlier(f, h) => Earlier(f, h)'
  BY <1>15, <1>16 DEF Earlier, P
<1>27. \A f \in Mgr : MadeHere(f)' => Earlier(f, g)'
  <2> SUFFICES ASSUME NEW f \in Mgr, MadeHere(f)'
               PROVE  \E k, l \in 1 .. P + 1 : k <= l /\ lives'.order[k] = f /\ lives'.order[l] = g
    BY <1>15 DEF Earlier
  <2>1. CASE f = g
    BY <1>15, <1>16, <2>1, <1>3 DEF P
  <2>2. CASE f # g
    <3>1. PICK k \in 1 .. P : lives.order[k] = f
      BY <1>0, <1>7, <2>2 DEF Described, P
    <3> QED BY <1>15, <1>16, <3>1
  <2> QED BY <2>1, <2>2
<1>28. InOrder'
  <2> SUFFICES ASSUME NEW i \in 1 .. Len(now), NEW j \in 1 .. Len(now), i <= j,
                      ManagerRoute(methods.tcp[i])', ManagerRoute(methods.tcp[j])'
               PROVE  Earlier(methods.tcp[i].of, methods.tcp[j].of)'
    BY DEF InOrder
  <2>1. CASE j \in N + 1 .. Len(now)
    <3>1. now[j].of = g /\ now[i].of \in Mgr /\ MadeHere(methods.tcp[i].of)'
      BY <1>9, <2>1 DEF ManagerRoute
    <3> QED BY <1>27, <3>1
  <2>2. CASE j \in 1 .. N
    <3>1. i \in 1 .. N
      BY <1>17, <1>18, <2>2, <1>9, <1>3
    <3>2. ManagerRoute(old[i]) /\ ManagerRoute(old[j])
      <4>1. /\ old[i].of \in Mgr /\ old[i].types \in {"ss", "ssi"}
            /\ old[j].of \in Mgr /\ old[j].types \in {"ss", "ssi"}
        BY <1>9, <2>2, <3>1 DEF ManagerRoute
      <4>2. /\ ManagerRoute(old[i]) \/ ManagerOrders(old[i]) \/ ModuleRoute(old[i])
            /\ ManagerRoute(old[j]) \/ ManagerOrders(old[j]) \/ ModuleRoute(old[j])
        BY <1>0, <2>2, <3>1 DEF Registered, N
      <4> QED BY <4>1, <4>2, OnlyRoutes
    <3>3. Earlier(old[i].of, old[j].of)
      BY <1>0, <2>2, <3>1, <3>2 DEF InOrder, N
    <3> QED BY <1>9, <1>26, <2>2, <3>1, <3>3
  <2> QED BY <1>18, <2>1, <2>2
<1>29. Answering'
  <2>1. \A here : RoutePaths(here)' = RoutePaths(here)
    BY DEF RoutePaths
  <2> SUFFICES ASSUME NEW f \in Mgr \ lives.deaf, MadeHere(f) \/ f = g,
                      NEW path \in RoutePaths(<<Osc[f]>>), NEW types \in {"ss", "ssi"}
               PROVE  \E i \in 1 .. Len(now) : now[i].path = path /\ now[i].types = types /\ now[i].of = f
    BY <1>7, <1>14, <2>1 DEF Answering
  <2>2. CASE f = g
    BY <1>9, <2>2
  <2>3. CASE MadeHere(f)
    <3>1. PICK i \in 1 .. N : old[i].path = path /\ old[i].types = types /\ old[i].of = f
      BY <1>0, <2>3 DEF Answering, N
    <3> QED BY <1>9, <1>17, <3>1
  <2> QED BY <2>2, <2>3
<1>30. ReachedOldest'
  <2> SUFFICES ASSUME NEW f \in reached, MadeHere(f)', NEW h \in Mgr \ lives.deaf, MadeHere(h)', Osc[h] = Osc[f]
               PROVE  Earlier(f, h)'
    <3>1. \A f \in reached : mgr'[f].stage # "none"
      BY <1>0, <1>1, <1>5, <1>6 DEF ReachedOldest
    <3> QED BY <1>14, <1>21, <3>1 DEF ReachedOldest
  <2>1. CASE h = g
    BY <1>1, <1>27, <2>1
  <2>2. CASE h # g /\ f # g
    BY <1>0, <1>1, <1>7, <1>26, <2>2 DEF ReachedOldest
  <2>3. CASE f = g
    BY <1>0, <1>2, <2>3 DEF ReachedOldest
  <2> QED BY <2>1, <2>2, <2>3
<1>31. Described'
  <2>1. \A f \in Mgr : MadeHere(f)' => \E k \in 1 .. P + 1 : lives'.order[k] = f
    BY <1>27, <1>15 DEF Earlier
  <2> QED BY <1>0, <1>2, <1>6, <1>7, <1>15, <2>1 DEF Described
<1> QED BY <1>22, <1>23, <1>25, <1>28, <1>29, <1>30, <1>31 DEF MgrGood

(* Orders for modules: the first that has the address makes or deletes it. *)
LEMMA ModuleOrdered ==
    ASSUME MgrGood, NEW osc \in {Osc[g] : g \in Mgr}, NEW a \in MAddrs, NEW id \in Nodes, NEW create \in BOOLEAN,
           OrderModule(osc, a, id, create)
    PROVE  MgrGood'
<1>0. MgrTyped /\ Requests /\ Registered /\ InOrder /\ Answering /\ ReachedOldest /\ Described
  BY DEF MgrGood
<1> DEFINE g == FirstFound(methods.tcp, <<osc, a>>, "is")
           old == methods.tcp
           N == Len(old)
<1>1. /\ old \in Seq(AMethod) /\ N \in Nat /\ mgr \in [Mgr -> ManagerState]
      /\ lives.deaf \subseteq Mgr /\ reached \subseteq Mgr
  <2>1. old \in Seq(AMethod)
    BY <1>0, Records
  <2>2. N \in Nat
    BY <2>1
  <2> QED BY <1>0, <2>1, <2>2, Records DEF MgrTyped
<1>2. PICK i \in Found(old, <<osc, a>>, "is") : g = old[i].of
  BY <1>1, FirstIs DEF OrderModule
<1>3. undefined = "no" /\ UNCHANGED <<reached, lives>>
  BY DEF OrderModule, Defined
<1> DEFINE nd == Node(g, mgr[g].addr, id)
<1>4. \/ undefined' = "freed" /\ UNCHANGED <<mgr, methods>> /\ ~ MadeHere(g)
      \/ undefined' = undefined /\ UNCHANGED <<mgr, methods>>
      \/ /\ undefined' = undefined /\ MadeHere(g) /\ nd \notin mgr[g].mods
         /\ mgr' = [mgr EXCEPT ![g].mods = @ \union {nd}]
         /\ methods' = [methods EXCEPT !.tcp = RouteMethods(@, nd, nd)]
      \/ /\ undefined' = undefined /\ MadeHere(g) /\ nd \in mgr[g].mods
         /\ mgr' = [mgr EXCEPT ![g].mods = @ \ {nd}]
         /\ methods' = [methods EXCEPT !.tcp = NoRouteMethods(@, nd)]
  BY DEF OrderModule
<1> HIDE DEF g
<1>5. ManagerOrders(old[i])
  <2>1. i \in 1 .. N /\ old[i].types = "is"
    BY <1>2 DEF Found
  <2>2. ManagerRoute(old[i]) \/ ManagerOrders(old[i]) \/ ModuleRoute(old[i])
    BY <1>0, <2>1 DEF Registered
  <2> QED BY <2>1, <2>2 DEF ManagerRoute, ModuleRoute
<1>6. g \in Mgr /\ mgr[g].addr # ""
  BY <1>2, <1>5 DEF ManagerOrders
<1>7. mgr[g] \in ManagerState /\ nd \in NodeSet
  <2>1. mgr[g] \in ManagerState
    BY <1>1, <1>6
  <2>2. mgr[g].addr \in MAddrs
    BY <1>6, <2>1 DEF ManagerState
  <2> QED BY <1>6, <2>1, <2>2 DEF Node, NodeSet
<1>8. CASE undefined' = "freed" /\ UNCHANGED <<mgr, methods>> /\ ~ MadeHere(g)
  <2>1. g \in lives.readdressed
    BY <1>2, <1>5, <1>8 DEF ManagerOrders
  <2>2. Requests' /\ Registered' /\ InOrder' /\ Answering' /\ Described'
    BY <1>1, <1>3, <1>8, MgrKeeps
  <2>3. MgrTyped' /\ UndefinedExplained'
    BY <1>0, <1>3, <1>8, <2>1 DEF MgrTyped, UndefinedExplained
  <2>4. ReachedOldest'
    BY <1>0, <1>3, <1>8 DEF ReachedOldest, MadeHere, Earlier
  <2> QED BY <2>2, <2>3, <2>4 DEF MgrGood
<1>9. CASE undefined' = undefined /\ UNCHANGED <<mgr, methods>>
  <2>2. Requests' /\ Registered' /\ InOrder' /\ Answering' /\ Described'
    BY <1>1, <1>3, <1>9, MgrKeeps
  <2>3. MgrTyped' /\ UndefinedExplained'
    BY <1>0, <1>3, <1>9 DEF MgrTyped, UndefinedExplained
  <2>4. ReachedOldest'
    BY <1>0, <1>3, <1>9 DEF ReachedOldest, MadeHere, Earlier
  <2> QED BY <2>2, <2>3, <2>4 DEF MgrGood
<1> DEFINE Only(mods) == LET r == [mgr[g] EXCEPT !.mods = mods] IN mgr' = [mgr EXCEPT ![g] = r]
<1>10. ASSUME NEW mods \in SUBSET NodeSet, Only(mods)
       PROVE  /\ mgr' \in [Mgr -> ManagerState] /\ mgr'[g].mods = mods
              /\ \A f \in Mgr : /\ mgr'[f].stage = mgr[f].stage /\ mgr'[f].addr = mgr[f].addr
                                /\ mgr'[f].icon = mgr[f].icon /\ mgr'[f].info = mgr[f].info
                                /\ f # g => mgr'[f].mods = mgr[f].mods
  <2> DEFINE r == [mgr[g] EXCEPT !.mods = mods]
  <2>1. /\ r \in ManagerState /\ r.stage = mgr[g].stage /\ r.addr = mgr[g].addr /\ r.mods = mods
        /\ r.icon = mgr[g].icon /\ r.info = mgr[g].info
    BY <1>7, <1>10 DEF ManagerState
  <2>2. mgr' = [mgr EXCEPT ![g] = r]
    BY <1>10
  <2> HIDE DEF r
  <2>3. \A f \in Mgr : mgr'[f] = IF f = g THEN r ELSE mgr[f]
    BY <1>1, <2>2
  <2>4. mgr' \in [Mgr -> ManagerState]
    BY <1>1, <2>1, <2>2
  <2> QED BY <1>6, <2>1, <2>3, <2>4
<1> DEFINE Others == /\ mgr' \in [Mgr -> ManagerState] /\ undefined' = undefined /\ methods'.udp = methods.udp
                     /\ methods' \in [udp : Seq(AMethod), tcp : Seq(AMethod)]
                     /\ \A f \in Mgr : /\ mgr'[f].stage = mgr[f].stage /\ mgr'[f].addr = mgr[f].addr
                                       /\ mgr'[f].icon = mgr[f].icon /\ mgr'[f].info = mgr[f].info
<1>11. ASSUME Others
       PROVE  /\ \A f \in Mgr : MadeHere(f)' <=> MadeHere(f)
              /\ \A f, h : Earlier(f, h)' <=> Earlier(f, h)
              /\ Requests' /\ ReachedOldest' /\ Described' /\ UndefinedExplained' /\ MgrTyped'
  <2>1. \A f \in Mgr : MadeHere(f)' <=> MadeHere(f)
    BY <1>11 DEF MadeHere
  <2>2. \A f, h : Earlier(f, h)' <=> Earlier(f, h)
    BY <1>3 DEF Earlier
  <2>3. Requests'
    BY <1>0, <1>1, <1>3, <1>11, <2>1 DEF Requests
  <2>4. ReachedOldest'
    BY <1>0, <1>1, <1>3, <1>11, <2>1, <2>2 DEF ReachedOldest
  <2>5. Described'
    BY <1>0, <1>3, <1>11, <2>1 DEF Described
  <2>6. UndefinedExplained' /\ MgrTyped'
    BY <1>0, <1>3, <1>11 DEF UndefinedExplained, MgrTyped
  <2> QED BY <2>1, <2>2, <2>3, <2>4, <2>5, <2>6
<1>m. ASSUME Others, NEW m
      PROVE  (ManagerRoute(m)' <=> ManagerRoute(m)) /\ (ManagerOrders(m)' <=> ManagerOrders(m))
  <2>0. \A f \in Mgr : MadeHere(f)' <=> MadeHere(f)
    BY <1>m DEF MadeHere
  <2>1. ManagerRoute(m)' <=> ManagerRoute(m)
    BY <2>0 DEF ManagerRoute
  <2>2. ManagerOrders(m)' <=> ManagerOrders(m)
    <3>1. \A f, b : Orders(f, b)' = Orders(f, b)
      BY DEF Orders
    <3>2. CASE m.of \notin Mgr
      BY <3>2 DEF ManagerOrders
    <3>3. CASE m.of \in Mgr
      <4>1. mgr'[m.of].addr = mgr[m.of].addr /\ (MadeHere(m.of)' <=> MadeHere(m.of))
        BY <1>m, <2>0, <3>3
      <4> QED BY <1>3, <3>1, <4>1 DEF ManagerOrders
    <3> QED BY <3>2, <3>3
  <2> QED BY <2>1, <2>2
<1>12. methods \in [udp : Seq(AMethod), tcp : Seq(AMethod)]
  BY <1>0 DEF MgrTyped
<1>13. \A here : RoutePaths(here)' = RoutePaths(here)
  BY DEF RoutePaths
<1>14. nd \notin Mgr
  BY <1>7, ManagersAssumption DEF NodeSet
<1> DEFINE now == methods'.tcp
<1> HIDE DEF nd
<1>15. CASE /\ undefined' = undefined /\ MadeHere(g) /\ nd \notin mgr[g].mods
            /\ mgr' = [mgr EXCEPT ![g].mods = @ \union {nd}]
            /\ methods' = [methods EXCEPT !.tcp = RouteMethods(@, nd, nd)]
  <2> DEFINE mods == mgr[g].mods \union {nd}
  <2>1. mods \in SUBSET NodeSet
    BY <1>7 DEF ManagerState
  <2>2. Only(mods)
    BY <1>1, <1>15
  <2> HIDE DEF mods
  <2>3. /\ mgr' \in [Mgr -> ManagerState] /\ mgr'[g].mods = mods
        /\ \A f \in Mgr : /\ mgr'[f].stage = mgr[f].stage /\ mgr'[f].addr = mgr[f].addr
                          /\ mgr'[f].icon = mgr[f].icon /\ mgr'[f].info = mgr[f].info
                          /\ f # g => mgr'[f].mods = mgr[f].mods
    BY <1>10, <2>1, <2>2
  <2>4. Routed(old, now, nd, nd)
    <3>1. RoutePaths(nd) \subseteq PathSet /\ nd \in Mgr \union NodeSet
      <4>1. RoutePaths(nd) \in {RoutePaths(x) : x \in NodeSet}
        BY <1>7
      <4>2. RoutePaths(nd) \subseteq UNION {RoutePaths(x) : x \in NodeSet}
        BY <4>1
      <4>3. nd \in NodeSet
        BY <1>7
      <4> HIDE DEF nd
      <4>4. RoutePaths(nd) \subseteq PathSet
        BY <4>2 DEF PathSet
      <4> QED BY <4>3, <4>4
    <3>2. now = RouteMethods(old, nd, nd)
      BY <1>12, <1>15
    <3> QED BY <1>1, <3>1, <3>2, RoutesAdded
  <2>5. now \in Seq(AMethod)
    BY <2>4 DEF Routed
  <2>6. Others
    BY <1>12, <1>15, <2>3, <2>5
  <2> HIDE DEF Others, Only
  <2>m. \A m : (ManagerRoute(m)' <=> ManagerRoute(m)) /\ (ManagerOrders(m)' <=> ManagerOrders(m))
    BY <1>m, <2>6
  <2>7. ASSUME NEW m, ModuleRoute(m) PROVE ModuleRoute(m)'
    <3>1. \A f \in Mgr : mgr[f].mods \subseteq mgr'[f].mods
      BY <2>3 DEF mods
    <3> QED BY <1>13, <2>7, <3>1 DEF ModuleRoute
  <2>8. /\ \A k \in 1 .. N : k \in 1 .. Len(now) /\ now[k] = old[k]
        /\ \A k \in N + 1 .. Len(now) : now[k].of = nd /\ now[k].path \in RoutePaths(nd) /\ now[k].types \in {"ss", "ssi"}
        /\ \A k \in 1 .. Len(now) : k \in 1 .. N \/ k \in N + 1 .. Len(now)
    <3>1. Len(now) \in Nat /\ N <= Len(now)
      BY <2>4 DEF Routed
    <3>2. /\ \A k \in 1 .. N : k \in 1 .. Len(now)
          /\ \A k \in 1 .. Len(now) : k \in 1 .. N \/ k \in N + 1 .. Len(now)
      BY <1>1, <3>1
    <3> QED BY <2>4, <3>2 DEF Routed
  <2>9. Registered'
    <3> SUFFICES ASSUME NEW k \in 1 .. Len(now)
                 PROVE  (LET m == methods.tcp[k] IN ManagerRoute(m) \/ ManagerOrders(m) \/ ModuleRoute(m))'
      BY DEF Registered
    <3>1. CASE k \in 1 .. N
      <4>1. ManagerRoute(old[k]) \/ ManagerOrders(old[k]) \/ ModuleRoute(old[k])
        BY <1>0, <3>1 DEF Registered
      <4>2. now[k] = old[k]
        BY <2>8, <3>1
      <4> QED BY <2>m, <2>7, <4>1, <4>2
    <3>2. CASE k \in N + 1 .. Len(now)
      <4>1. nd \in mgr'[g].mods
        BY <2>3 DEF mods
      <4>2. ModuleRoute(methods.tcp[k])'
        BY <1>6, <1>7, <1>13, <2>8, <3>2, <4>1 DEF ModuleRoute
      <4> QED BY <4>2
    <3> QED BY <2>8, <3>1, <3>2
  <2>10. InOrder'
    <3> SUFFICES ASSUME NEW k \in 1 .. Len(now), NEW l \in 1 .. Len(now), k <= l,
                        ManagerRoute(methods.tcp[k])', ManagerRoute(methods.tcp[l])'
                 PROVE  Earlier(methods.tcp[k].of, methods.tcp[l].of)'
      BY DEF InOrder
    <3>1. k \in 1 .. N /\ l \in 1 .. N
      BY <1>14, <2>8 DEF ManagerRoute
    <3>2. ManagerRoute(old[k]) /\ ManagerRoute(old[l])
      <4>1. now[k] = old[k] /\ now[l] = old[l]
        BY <2>8, <3>1
      <4> QED BY <2>m, <4>1
    <3>3. Earlier(old[k].of, old[l].of)
      BY <1>0, <3>1, <3>2 DEF InOrder
    <3> QED BY <1>11, <2>6, <2>8, <3>1, <3>3
  <2>11. Answering'
    <3> SUFFICES ASSUME NEW f \in Mgr \ lives.deaf, MadeHere(f),
                        NEW path \in RoutePaths(<<Osc[f]>>), NEW types \in {"ss", "ssi"}
                 PROVE  \E k \in 1 .. Len(now) : now[k].path = path /\ now[k].types = types /\ now[k].of = f
      BY <1>3, <1>11, <1>13, <2>6 DEF Answering
    <3>1. PICK k \in 1 .. N : old[k].path = path /\ old[k].types = types /\ old[k].of = f
      BY <1>0 DEF Answering
    <3> QED BY <2>8, <3>1
  <2> QED BY <1>11, <2>6, <2>9, <2>10, <2>11 DEF MgrGood
<1>16. CASE /\ undefined' = undefined /\ MadeHere(g) /\ nd \in mgr[g].mods
            /\ mgr' = [mgr EXCEPT ![g].mods = @ \ {nd}]
            /\ methods' = [methods EXCEPT !.tcp = NoRouteMethods(@, nd)]
  <2> DEFINE mods == mgr[g].mods \ {nd}
             M == RoutesOf(old, nd)
  <2>1. mods \in SUBSET NodeSet
    BY <1>7 DEF ManagerState
  <2>2. Only(mods)
    BY <1>1, <1>16
  <2> HIDE DEF mods
  <2>3. /\ mgr' \in [Mgr -> ManagerState] /\ mgr'[g].mods = mods
        /\ \A f \in Mgr : /\ mgr'[f].stage = mgr[f].stage /\ mgr'[f].addr = mgr[f].addr
                          /\ mgr'[f].icon = mgr[f].icon /\ mgr'[f].info = mgr[f].info
                          /\ f # g => mgr'[f].mods = mgr[f].mods
    BY <1>10, <2>1, <2>2
  <2>4. now \in Seq(AMethod) /\ Left(old, now, M)
    <3>1. now = DelMethod2(old, M)
      BY <1>12, <1>16 DEF NoRouteMethods
    <3> QED BY <1>1, <3>1, DeletedIs
  <2>5. now \in Seq(AMethod)
    BY <2>4
  <2>6. Others
    BY <1>12, <1>16, <2>3, <2>5
  <2> HIDE DEF Others, Only, M
  <2>m. \A m : (ManagerRoute(m)' <=> ManagerRoute(m)) /\ (ManagerOrders(m)' <=> ManagerOrders(m))
    BY <1>m, <2>6
  <2>7. ASSUME NEW m, ModuleRoute(m), m.of # nd PROVE ModuleRoute(m)'
    <3>1. \A f \in Mgr : m.of \in mgr[f].mods => m.of \in mgr'[f].mods
      BY <2>3, <2>7 DEF mods
    <3> QED BY <1>13, <2>7, <3>1 DEF ModuleRoute
  <2>8. ASSUME NEW k \in 1 .. N, old[k] \notin M, ModuleRoute(old[k]) PROVE old[k].of # nd
    <3>1. old[k] \in ToSet(old)
      BY DEF ToSet
    <3> QED BY <2>8, <3>1 DEF ModuleRoute, M, RoutesOf
  <2>9. Registered'
    <3> SUFFICES ASSUME NEW j \in 1 .. Len(now)
                 PROVE  (LET m == methods.tcp[j] IN ManagerRoute(m) \/ ManagerOrders(m) \/ ModuleRoute(m))'
      BY DEF Registered
    <3>1. PICK k \in 1 .. N : now[j] = old[k] /\ old[k] \notin M
      BY <2>4 DEF Left
    <3>2. ManagerRoute(old[k]) \/ ManagerOrders(old[k]) \/ ModuleRoute(old[k])
      BY <1>0 DEF Registered
    <3>3. ModuleRoute(old[k]) => old[k].of # nd
      BY <2>8, <3>1
    <3> QED BY <2>m, <2>7, <3>1, <3>2, <3>3
  <2>10. InOrder'
    <3> SUFFICES ASSUME NEW k \in 1 .. Len(now), NEW l \in 1 .. Len(now), k <= l,
                        ManagerRoute(methods.tcp[k])', ManagerRoute(methods.tcp[l])'
                 PROVE  Earlier(methods.tcp[k].of, methods.tcp[l].of)'
      BY DEF InOrder
    <3>1. PICK i1 \in 1 .. N, j1 \in 1 .. N : i1 <= j1 /\ now[k] = old[i1] /\ now[l] = old[j1]
      BY <2>4 DEF Left
    <3>2. ManagerRoute(old[i1]) /\ ManagerRoute(old[j1])
      BY <2>m, <3>1
    <3>3. Earlier(old[i1].of, old[j1].of)
      BY <1>0, <3>1, <3>2 DEF InOrder
    <3> QED BY <1>11, <2>6, <3>1, <3>3
  <2>11. Answering'
    <3> SUFFICES ASSUME NEW f \in Mgr \ lives.deaf, MadeHere(f),
                        NEW path \in RoutePaths(<<Osc[f]>>), NEW types \in {"ss", "ssi"}
                 PROVE  \E k \in 1 .. Len(now) : now[k].path = path /\ now[k].types = types /\ now[k].of = f
      BY <1>3, <1>11, <1>13, <2>6 DEF Answering
    <3>1. PICK k \in 1 .. N : old[k].path = path /\ old[k].types = types /\ old[k].of = f
      BY <1>0 DEF Answering
    <3>2. old[k] \notin M
      BY <1>7, <3>1, PathsDiffer DEF M, RoutesOf
    <3> QED BY <2>4, <3>1, <3>2 DEF Left
  <2> QED BY <1>11, <2>6, <2>9, <2>10, <2>11 DEF MgrGood
<1> QED BY <1>4, <1>8, <1>9, <1>15, <1>16

LEMMA NodesGone ==
    ASSUME MgrGood, NEW g \in Mgr, DestroyManager(g)
    PROVE  MgrGood'
<1>0. MgrTyped /\ Requests /\ Registered /\ InOrder /\ Answering /\ ReachedOldest /\ Described
  BY DEF MgrGood
<1> DEFINE r == [Blank EXCEPT !.stage = "gone", !.addr = mgr[g].addr, !.icon = mgr[g].icon]
           old == methods.tcp
           M1 == Leaving(old, g)
           mid == DelMethod2(old, M1)
           M2 == RoutesOf(mid, <<Osc[g]>>)
           now == methods'.tcp
           R == {m \in ToSet(methods.udp) : m.path = Request /\ m.types = "i"}
           all == {h \in Mgr : MadeHere(h)}
<1>1. /\ old \in Seq(AMethod) /\ methods.udp \in Seq(AMethod) /\ mgr \in [Mgr -> ManagerState]
      /\ mgr[g] \in ManagerState /\ lives.deaf \subseteq Mgr /\ reached \subseteq Mgr /\ lives \in Memory
  BY <1>0, Records DEF MgrTyped
<1>2. MadeHere(g) /\ undefined = "no" /\ reached' = reached
  BY DEF DestroyManager, Defined
<1>3. mid \in Seq(AMethod) /\ Left(old, mid, M1)
  BY <1>1, DeletedIs
<1>4. /\ methods' = [udp |-> DelMethod2(methods.udp, R), tcp |-> DelMethod2(mid, M2)]
      /\ mgr' = [mgr EXCEPT ![g] = r]
      /\ lives' = [lives EXCEPT !.deaf = @ \union all]
      /\ sendModuleList(mgr[g])
  BY DEF DestroyManager, NoRouteMethods
<1> HIDE DEF mid
<1>5. now \in Seq(AMethod) /\ Left(mid, now, M2)
  BY <1>3, <1>4, DeletedIs
<1>6. methods'.udp \in Seq(AMethod) /\ Left(methods.udp, methods'.udp, R)
  BY <1>1, <1>4, DeletedIs
<1>7. /\ r \in ManagerState /\ r.stage = "gone" /\ r.addr = mgr[g].addr /\ r.icon = mgr[g].icon /\ r.mods = {}
  BY <1>1 DEF ManagerState, Blank
<1> HIDE DEF r
<1>8. mgr' \in [Mgr -> ManagerState] /\ \A f \in Mgr : mgr'[f] = IF f = g THEN r ELSE mgr[f]
  BY <1>1, <1>4, <1>7
<1>9. /\ lives' \in Memory /\ lives'.deaf = lives.deaf \union all /\ lives'.order = lives.order
      /\ lives'.readdressed = lives.readdressed
  BY <1>1, <1>4 DEF Memory
<1>10. \A f \in Mgr : MadeHere(f)' <=> MadeHere(f) /\ f # g
  BY <1>7, <1>8 DEF MadeHere
<1>11. \A f \in Mgr : MadeHere(f) => f \in lives'.deaf
  BY <1>9
<1>12. Len(methods'.udp) = 0
  <2> DEFINE u == methods'.udp
  <2>1. Len(u) \in Nat
    BY <1>6
  <2>2. ASSUME NEW i \in 1 .. Len(u) PROVE FALSE
    <3>1. PICK k \in 1 .. Len(methods.udp) : u[i] = methods.udp[k] /\ u[i] \notin R
      BY <1>6 DEF Left
    <3>2. methods.udp[k].path = Request /\ methods.udp[k].types = "i"
      BY <1>0 DEF Requests
    <3>3. methods.udp[k] \in ToSet(methods.udp)
      BY DEF ToSet
    <3> QED BY <3>1, <3>2, <3>3
  <2> QED BY <2>1, <2>2
<1>13. Requests'
  <2>1. \A f \in lives'.deaf : mgr'[f].stage # "none"
    BY <1>0, <1>1, <1>7, <1>8, <1>9 DEF Requests, MadeHere
  <2>2. \A i \in 1 .. Len(methods'.udp) : FALSE
    BY <1>12
  <2> QED BY <1>10, <1>11, <2>1, <2>2 DEF Requests
<1>14. Answering' /\ ReachedOldest'
  <2>1. \A f \in Mgr \ lives'.deaf : ~ MadeHere(f)'
    BY <1>10, <1>11
  <2>2. \A f \in reached : mgr'[f].stage # "none"
    BY <1>0, <1>1, <1>7, <1>8 DEF ReachedOldest
  <2> QED BY <1>2, <2>1, <2>2 DEF Answering, ReachedOldest
<1>15. Described'
  BY <1>0, <1>7, <1>8, <1>9, <1>10 DEF Described
<1>16. MgrTyped' /\ UndefinedExplained'
  <2>1. undefined' = "no" \/ (undefined' = "null" /\ ~ mgr[g].icon)
    <3>1. mgr[g].icon => mgr[g].info = Infos
      BY <1>0, <1>2 DEF Described
    <3> QED BY <1>2, <1>4, <3>1 DEF sendModuleList
  <2>2. mgr'[g].stage # "none" /\ mgr'[g].icon = mgr[g].icon
    BY <1>7, <1>8
  <2>3. methods' \in [udp : Seq(AMethod), tcp : Seq(AMethod)]
    BY <1>4, <1>5, <1>6
  <2> QED BY <1>1, <1>2, <1>8, <1>9, <2>1, <2>2, <2>3 DEF MgrTyped, UndefinedExplained
<1>17. ASSUME NEW i \in 1 .. Len(now), NEW j \in 1 .. Len(now), i <= j
       PROVE  \E k, l \in 1 .. Len(old) : /\ k <= l /\ now[i] = old[k] /\ now[j] = old[l]
                                          /\ old[k] \notin M1 \union M2 /\ old[l] \notin M1 \union M2
  <2>1. PICK k1 \in 1 .. Len(mid), l1 \in 1 .. Len(mid) : k1 <= l1 /\ now[i] = mid[k1] /\ now[j] = mid[l1]
    BY <1>5, <1>17 DEF Left
  <2>2. PICK k \in 1 .. Len(old), l \in 1 .. Len(old) : k <= l /\ mid[k1] = old[k] /\ mid[l1] = old[l]
    BY <1>3, <2>1 DEF Left
  <2>3. mid[k1] \notin M1 /\ mid[l1] \notin M1
    BY <1>3, <2>1 DEF Left
  <2>4. now[i] \notin M2 /\ now[j] \notin M2
    BY <1>5 DEF Left
  <2> HIDE DEF M1, M2
  <2> QED BY <2>1, <2>2, <2>3, <2>4
<1>18. ASSUME NEW i \in 1 .. Len(now)
       PROVE  \E k \in 1 .. Len(old) : now[i] = old[k] /\ old[k] \notin M1 /\ now[i] \in ToSet(mid) /\ old[k] \notin M2
  <2>1. PICK k1 \in 1 .. Len(mid) : now[i] = mid[k1] /\ now[i] \notin M2
    BY <1>5 DEF Left
  <2>2. PICK k \in 1 .. Len(old) : mid[k1] = old[k] /\ mid[k1] \notin M1
    BY <1>3 DEF Left
  <2>3. now[i] \in ToSet(mid)
    BY <2>1 DEF ToSet
  <2> HIDE DEF M1, M2
  <2> QED BY <2>1, <2>2, <2>3
<1> HIDE DEF M1, M2, R, all
<1>19. ASSUME NEW m, ManagerRoute(m)' PROVE ManagerRoute(m)
  BY <1>10, <1>19 DEF ManagerRoute
<1>20. ASSUME NEW m, ManagerRoute(m), m \in ToSet(mid), m \notin M2 PROVE ManagerRoute(m)'
  <2>1. m.of # g
    BY <1>20 DEF ManagerRoute, M2, RoutesOf
  <2> QED BY <1>10, <1>20, <2>1 DEF ManagerRoute
<1>21. ASSUME NEW m, ManagerOrders(m), m \in ToSet(old), m \notin M1 PROVE ManagerOrders(m)'
  <2>1. \A f, b : Orders(f, b)' = Orders(f, b)
    BY DEF Orders
  <2>2. m.of \in Mgr /\ m.types = "is" /\ mgr'[m.of].addr = mgr[m.of].addr
    BY <1>7, <1>8, <1>21 DEF ManagerOrders
  <2>3. CASE m.of = g
    <3>1. m.path # Orders(g, mgr[g].addr)
      BY <1>21, <2>2 DEF M1, Leaving
    <3> QED BY <1>9, <1>21, <2>1, <2>2, <2>3, <3>1 DEF ManagerOrders
  <2>4. CASE m.of # g
    <3>1. MadeHere(m.of)' <=> MadeHere(m.of)
      BY <1>10, <2>2, <2>4
    <3> QED BY <1>9, <1>21, <2>1, <2>2, <3>1 DEF ManagerOrders
  <2> QED BY <2>3, <2>4
<1>22. ASSUME NEW m, ModuleRoute(m), m \in ToSet(old), m \notin M1 PROVE ModuleRoute(m)'
  <2>1. PICK h \in Mgr : m.of \in mgr[h].mods
    BY <1>22 DEF ModuleRoute
  <2>2. h # g
    <3> SUFFICES ASSUME m.of \in mgr[g].mods PROVE FALSE
      BY <2>1
    <3>1. m \in RoutesOf(old, m.of)
      BY <1>22 DEF ModuleRoute, RoutesOf
    <3>2. m \in UNION {RoutesOf(old, nd) : nd \in mgr[g].mods}
      BY <3>1
    <3> QED BY <1>22, <3>2 DEF M1, Leaving
  <2>3. m.of \in mgr'[h].mods
    BY <1>8, <2>1, <2>2
  <2>4. \A here : RoutePaths(here)' = RoutePaths(here)
    BY DEF RoutePaths
  <2> QED BY <1>22, <2>3, <2>4 DEF ModuleRoute
<1>23. Registered'
  <2> SUFFICES ASSUME NEW i \in 1 .. Len(now)
               PROVE  (LET m == methods.tcp[i] IN ManagerRoute(m) \/ ManagerOrders(m) \/ ModuleRoute(m))'
    BY DEF Registered
  <2>1. PICK k \in 1 .. Len(old) : now[i] = old[k] /\ old[k] \notin M1 /\ now[i] \in ToSet(mid) /\ old[k] \notin M2
    BY <1>18
  <2>2. old[k] \in ToSet(old)
    BY DEF ToSet
  <2>3. ManagerRoute(old[k]) \/ ManagerOrders(old[k]) \/ ModuleRoute(old[k])
    BY <1>0 DEF Registered
  <2> QED BY <1>20, <1>21, <1>22, <2>1, <2>2, <2>3
<1>24. InOrder'
  <2> SUFFICES ASSUME NEW i \in 1 .. Len(now), NEW j \in 1 .. Len(now), i <= j,
                      ManagerRoute(methods.tcp[i])', ManagerRoute(methods.tcp[j])'
               PROVE  Earlier(methods.tcp[i].of, methods.tcp[j].of)'
    BY DEF InOrder
  <2>1. PICK k \in 1 .. Len(old), l \in 1 .. Len(old) : k <= l /\ now[i] = old[k] /\ now[j] = old[l]
    BY <1>17
  <2>2. ManagerRoute(old[k]) /\ ManagerRoute(old[l])
    BY <1>19, <2>1
  <2>3. Earlier(old[k].of, old[l].of)
    BY <1>0, <2>1, <2>2 DEF InOrder
  <2>4. \A f, h : Earlier(f, h)' <=> Earlier(f, h)
    BY <1>9 DEF Earlier
  <2> QED BY <2>1, <2>3, <2>4
<1> QED BY <1>13, <1>14, <1>15, <1>16, <1>23, <1>24 DEF MgrGood

-----------------------------------------------------------------------------
LEMMA ManagersStep ==
    ASSUME MgrGood, [ManagersNext]_managers
    PROVE  MgrGood'
<1>1. ASSUME NEW g \in Mgr, NEW twice \in BOOLEAN, NewManager(g, twice) PROVE MgrGood'
  BY <1>1, NewMade
<1>2. ASSUME NEW g \in Mgr, NEW a \in MAddrs, NEW own \in BOOLEAN, NEW found \in BOOLEAN, SetMInfo(g, a, own, found)
      PROVE  MgrGood'
  BY <1>2, MInfoSet
<1>3. ASSUME NEW g \in Mgr,
             \/ \E which \in Infos : SetOneInfo(g, which)
             \/ \E n \in 1 .. 2 : SetOutNum(g, n)
             \/ \E outID \in 0 .. 2, float \in BOOLEAN : SendDataTo(g, outID, float)
             \/ \E h \in Mgr, outID \in 0 .. 2 : ConnectTo(g, h, outID)
      PROVE  MgrGood'
  BY <1>3, SmallCalls
<1>4. ASSUME NEW g \in Mgr, DestroyManager(g) PROVE MgrGood'
  BY <1>4, NodesGone
<1>5. ASSUME RequestML PROVE MgrGood'
  BY <1>5, RequestKeeps
<1>6. ASSUME NEW osc \in {Osc[g] : g \in Mgr}, NEW a \in MAddrs, NEW id \in Nodes, NEW create \in BOOLEAN,
             OrderModule(osc, a, id, create)
      PROVE  MgrGood'
  BY <1>6, ModuleOrdered
<1>7. ASSUME NEW osc \in {Osc[g] : g \in Mgr}, NEW types \in {"ss", "ssi"}, NEW outID \in 0 .. 2,
             OrderRoute(osc, types, outID)
      PROVE  MgrGood'
  BY <1>7, RouteOrdered
<1>8. CASE UNCHANGED managers
  <2>1. UNCHANGED <<mgr, methods, reached, undefined, lives>>
    BY <1>8 DEF managers
  <2>2. MgrTyped' /\ UndefinedExplained' /\ ReachedOldest'
    BY <2>1 DEF MgrGood, MgrTyped, UndefinedExplained, ReachedOldest, MadeHere, Earlier
  <2>3. Requests' /\ Registered' /\ InOrder' /\ Answering' /\ Described'
    BY <2>1, MgrKeeps DEF MgrGood, MgrTyped
  <2> QED BY <2>2, <2>3 DEF MgrGood
<1>9. CASE ManagersNext
  BY <1>1, <1>2, <1>3, <1>4, <1>5, <1>6, <1>7, <1>9 DEF ManagersNext
<1> QED BY <1>8, <1>9

LEMMA ManagersBegin ==
    ASSUME NEW calls, ManagersInit(calls)
    PROVE  MgrGood
<1>1. \A g \in Mgr : mgr[g] = Blank
  BY DEF ManagersInit
<1>2. Blank \in ManagerState /\ Blank.stage = "none" /\ ~ Blank.icon
  BY DEF Blank, ManagerState
<1>3. MgrTyped
  BY <1>2 DEF ManagersInit, MgrTyped, Memory
<1>4. Len(methods.tcp) = 0 /\ Len(methods.udp) = 0 /\ lives.deaf = {} /\ reached = {} /\ undefined = "no"
  BY DEF ManagersInit
<1>5. \A g \in Mgr : ~ MadeHere(g)
  BY <1>1, <1>2 DEF MadeHere
<1>6. Requests /\ Registered /\ InOrder /\ Answering /\ ReachedOldest /\ Described /\ UndefinedExplained
  BY <1>1, <1>2, <1>4, <1>5 DEF Requests, Registered, InOrder, Answering, ReachedOldest, Described, UndefinedExplained
<1> QED BY <1>3, <1>6 DEF MgrGood

LEMMA ManagersAgree ==
    ASSUME MgrGood
    PROVE  ManagersInv
<1>0. MgrTyped /\ Requests /\ Registered /\ ReachedOldest /\ UndefinedExplained
  BY DEF MgrGood
<1>1. /\ \A g \in Mgr : mgr[g] \in ManagerState
      /\ methods.tcp \in Seq(AMethod) /\ methods.udp \in Seq(AMethod) /\ lives.deaf \subseteq Mgr
  BY <1>0, Records
<1>2. ManagersTypeOK
  BY <1>0, <1>1 DEF ManagersTypeOK, MgrTyped, ManagerState
<1>3. MethodsAlive
  <2> SUFFICES ASSUME NEW m \in ToSet(methods.udp) \union ToSet(methods.tcp), ~ OwnerAlive(m.of)
               PROVE  m.of \in lives.readdressed /\ m.types = "is" /\ m.path # Orders(m.of, mgr[m.of].addr)
    BY DEF MethodsAlive
  <2>1. CASE m \in ToSet(methods.udp)
    <3>1. PICK i \in 1 .. Len(methods.udp) : m = methods.udp[i]
      BY <2>1 DEF ToSet
    <3> QED BY <1>0, <3>1 DEF Requests, OwnerAlive
  <2>2. CASE m \in ToSet(methods.tcp)
    <3>1. PICK i \in 1 .. Len(methods.tcp) : m = methods.tcp[i]
      BY <2>2 DEF ToSet
    <3>2. ManagerRoute(m) \/ ManagerOrders(m) \/ ModuleRoute(m)
      BY <1>0, <3>1 DEF Registered
    <3>3. ~ ManagerRoute(m)
      BY DEF ManagerRoute, OwnerAlive
    <3>4. ~ ModuleRoute(m)
      BY ManagersAssumption DEF ModuleRoute, OwnerAlive, NodeSet
    <3>5. ManagerOrders(m)
      BY <3>2, <3>3, <3>4
    <3>6. ~ MadeHere(m.of)
      BY <3>5 DEF ManagerOrders, OwnerAlive
    <3> QED BY <3>5, <3>6 DEF ManagerOrders
  <2> QED BY <2>1, <2>2
<1>4. HeardUntilOther
  <2>1. ASSUME NEW g \in Mgr PROVE (g \in {m.of : m \in ToSet(methods.udp)}) <=> MadeHere(g) /\ g \notin lives.deaf
    <3>1. ASSUME NEW m \in ToSet(methods.udp), g = m.of PROVE MadeHere(g) /\ g \notin lives.deaf
      <4>1. PICK i \in 1 .. Len(methods.udp) : m = methods.udp[i]
        BY DEF ToSet
      <4> QED BY <1>0, <3>1, <4>1 DEF Requests
    <3>2. ASSUME MadeHere(g), g \notin lives.deaf PROVE \E m \in ToSet(methods.udp) : g = m.of
      <4>1. PICK i \in 1 .. Len(methods.udp) : methods.udp[i].of = g
        BY <1>0, <3>2 DEF Requests
      <4>2. methods.udp[i] \in ToSet(methods.udp)
        BY DEF ToSet
      <4> QED BY <4>1, <4>2
    <3> QED BY <3>1, <3>2
  <2>2. Found(methods.udp, Request, "i") = 1 .. Len(methods.udp)
    BY <1>0 DEF Found, Requests
  <2>3. Found(methods.udp, Request, "i") = {} <=> \A h \in Mgr : MadeHere(h) => h \in lives.deaf
    <3>1. ASSUME NEW i \in 1 .. Len(methods.udp) PROVE \E h \in Mgr : MadeHere(h) /\ h \notin lives.deaf
      BY <1>0 DEF Requests
    <3>2. ASSUME NEW h \in Mgr, MadeHere(h), h \notin lives.deaf PROVE \E i \in 1 .. Len(methods.udp) : TRUE
      BY <1>0, <3>2 DEF Requests
    <3> QED BY <2>2, <3>1, <3>2
  <2>4. ASSUME NEW g \in reached, MadeHere(g), NEW h \in Mgr, MadeHere(h), Osc[h] = Osc[g], h \notin lives.deaf
        PROVE  \E i, j \in 1 .. Len(lives.order) : i <= j /\ lives.order[i] = g /\ lives.order[j] = h
    BY <1>0, <2>4 DEF ReachedOldest, Earlier
  <2> QED BY <2>1, <2>3, <2>4 DEF HeardUntilOther
<1> QED BY <1>0, <1>2, <1>3, <1>4 DEF ManagersInv

-----------------------------------------------------------------------------
Token(g, k) == MToken(g.path, k, Split(g.in), Split(g.out))
ListEntry == {Token(g, k) : g \in Manager, k \in Nat}
States == {"up", "null", "index", "unassigned", "freed", "closed"}
Assigned == DOMAIN co.mListIDArray
InList(k) == k \in 0 .. Len(co.mList) - 1

AnOrder == [op : {"create", "delete"}, path : {g.path : g \in Manager}, text : {Text(id) : id \in 0 .. 127}]
AReport == [op : {"create", "delete"}, osc : {g.path : g \in Manager} \X {Text(id) : id \in 0 .. 127}, tID : 0 .. 127]
CoShape ==
    /\ co = [mList |-> co.mList, mtknMap |-> co.mtknMap, mListIDArray |-> co.mListIDArray, tID |-> co.tID, state |-> co.state]
    /\ co.mList \in Seq(ListEntry) /\ co.state \in States
    /\ use = [nid |-> use.nid, heard |-> use.heard, calls |-> use.calls]
    /\ use.nid \in 1 .. 128 /\ co.tID \in 0 .. use.nid
    /\ Assigned \subseteq Ids /\ DOMAIN co.mtknMap \subseteq Assigned
    /\ seen = [over |-> seen.over, lost |-> seen.lost, meant |-> seen.meant, routes |-> seen.routes,
               again |-> seen.again, left |-> seen.left]
    /\ seen.again \subseteq Assigned
    /\ ordered \in Seq(AnOrder) /\ reports \in Seq(AReport)

(* Modules are chosen as the application meant. *)
Chosen ==
    /\ \A id \in Assigned : /\ id \in DOMAIN seen.meant
                            /\ InList(co.mListIDArray[id]) \/ co.state = "null"
                            /\ seen.meant[id].listed => /\ InList(co.mListIDArray[id])
                                                        /\ co.mList[co.mListIDArray[id] + 1].osc \in Containing[seen.meant[id].part]
    /\ co.state \in {"null", "closed"} => co.mList = <<>>
    /\ co.state # "unassigned"

(* An order or a module is of the manager that the id was given out for, if *)
(* it was not given out again.                                             *)
Where(path, id) ==
    /\ id \in Assigned
    /\ id \in seen.again \/ (InList(co.mListIDArray[id]) /\ co.mList[co.mListIDArray[id] + 1].osc = path)
OrdersRight == \A k \in 1 .. Len(ordered) : \E id \in 0 .. 127 : ordered[k].text = Text(id) /\ Where(ordered[k].path, id)
ReportsRight == \A k \in 1 .. Len(reports) :
    LET r == reports[k] IN r.osc = <<r.osc[1], Text(r.tID)>> /\ Where(r.osc[1], r.tID)
MadeRight == \A n \in made : n = [osc |-> <<n.osc[1], Text(n.tID)>>, tID |-> n.tID] /\ n.tID \in 0 .. 127
Names(g) == Split(g.in) \o Split(g.out)
TokenRight(id, m) ==
    /\ m.tID = id /\ m.osc = <<m.osc[1], Text(id)>> /\ Where(m.osc[1], id)
    /\ id \in seen.again \/ \E g \in Manager : m.osc[1] = g.path /\ m.inputInfo = Names(g)
TokensKept == \A id \in DOMAIN co.mtknMap : TokenRight(id, co.mtknMap[id])
RoutesRight == \A r \in seen.routes :
    r[1] \in seen.again \/ \E g \in Manager : g.path = r[2][1] /\ r[4] = Names(g)[r[3] + 1] /\ r[3] \in 0 .. Len(Names(g)) - 1

(* What is still there after the coordinator has its deletion ordered. *)
OscOf(m) == <<m.path, m.text>>
Doomed(osc) ==
    \E k \in 1 .. Len(ordered) : /\ ordered[k].op = "delete" /\ OscOf(ordered[k]) = osc
                                 /\ \A j \in k .. Len(ordered) : ~ (ordered[j].op = "create" /\ OscOf(ordered[j]) = osc)
Answered(osc) == osc \in seen.left \/ (\E id \in seen.again : osc[2] = Text(id)) \/ Doomed(osc)
Ending == co.state \in {"freed", "closed"} =>
    /\ \A n \in made : Answered(n.osc)
    /\ \A k \in 1 .. Len(ordered) : ordered[k].op = "create" => Answered(OscOf(ordered[k]))

TokGood == CoShape /\ Chosen /\ OrdersRight /\ ReportsRight /\ MadeRight /\ TokensKept /\ RoutesRight /\ Ending /\ MemoryExplained

-----------------------------------------------------------------------------
DigitsOf(text, f) == f = [n \in 0 .. Len(text) |-> IF n = 0 THEN 0 ELSE 10 * f[n - 1] + text[n]]

LEMMA Digit ==
    ASSUME NEW text \in Seq(Nat), Len(text) \in 1 .. 3
    PROVE  Atoi(text) = IF Len(text) = 1 THEN text[1] ELSE IF Len(text) = 2 THEN 10 * text[1] + text[2]
                        ELSE 10 * (10 * text[1] + text[2]) + text[3]
<1> DEFINE v(n) == IF n = 0 THEN 0 ELSE IF n = 1 THEN text[1] ELSE IF n = 2 THEN 10 * text[1] + text[2]
                   ELSE 10 * (10 * text[1] + text[2]) + text[3]
           e == [n \in 0 .. Len(text) |-> v(n)]
           f == CHOOSE g : DigitsOf(text, g)
<1> DEFINE N == Len(text)
<1>0. N \in {1, 2, 3} /\ \A n \in 1 .. N : text[n] \in Nat
  OBVIOUS
<1>1. DigitsOf(text, e)
  <2>1. \A n \in 0 .. Len(text) : n \in 0 .. 3
    BY <1>0
  <2>2. \A n \in 0 .. Len(text) : n # 0 => n - 1 \in 0 .. Len(text)
    OBVIOUS
  <2>3. ASSUME NEW n \in 0 .. Len(text) PROVE v(n) = IF n = 0 THEN 0 ELSE 10 * e[n - 1] + text[n]
    <3>1. CASE n = 0
      BY <3>1
    <3>2. CASE n # 0
      <4>1. e[n - 1] = v(n - 1)
        BY <2>2, <3>2
      <4>2. text[1] \in Nat
        OBVIOUS
      <4>3. n \in {1, 2, 3}
        BY <2>1, <3>2
      <4>4. v(n) = 10 * v(n - 1) + text[n]
        BY <4>2, <4>3
      <4> QED BY <4>1, <4>4, <3>2
    <3> QED BY <3>1, <3>2
  <2>4. e = [n \in 0 .. Len(text) |-> IF n = 0 THEN 0 ELSE 10 * e[n - 1] + text[n]]
    BY <2>3
  <2> QED BY <2>4 DEF DigitsOf
<1>2. DigitsOf(text, f)
  BY <1>1
<1>3. Atoi(text) = f[Len(text)]
  BY DEF Atoi, DigitsOf
<1> HIDE DEF f
<1>4. \A n \in 0 .. N : f[n] = IF n = 0 THEN 0 ELSE 10 * f[n - 1] + text[n]
  BY <1>2 DEF DigitsOf
<1> HIDE DEF N
<1>5. \A n \in 1 .. N : f[n] = 10 * f[n - 1] + text[n]
  BY <1>0, <1>4
<1>6. f[0] = 0
  BY <1>0, <1>4
<1>7. f[1] = text[1]
  <2>1. 1 \in 1 .. N /\ 1 - 1 = 0 /\ text[1] \in Nat
    BY <1>0
  <2>2. f[1] = 10 * f[1 - 1] + text[1]
    BY <1>5, <2>1
  <2> QED BY <1>6, <2>1, <2>2
<1>8. N \in {2, 3} => f[2] = 10 * text[1] + text[2]
  <2> SUFFICES ASSUME N \in {2, 3} PROVE f[2] = 10 * text[1] + text[2]
    OBVIOUS
  <2>1. 2 \in 1 .. N /\ 2 - 1 = 1
    BY <1>0
  <2>2. f[2] = 10 * f[2 - 1] + text[2]
    BY <1>5, <2>1
  <2> QED BY <1>7, <2>1, <2>2
<1>9. N = 3 => f[3] = 10 * (10 * text[1] + text[2]) + text[3]
  <2> SUFFICES ASSUME N = 3 PROVE f[3] = 10 * (10 * text[1] + text[2]) + text[3]
    OBVIOUS
  <2>1. 3 \in 1 .. N /\ 3 - 1 = 2
    BY <1>0
  <2>2. f[3] = 10 * f[3 - 1] + text[3]
    BY <1>5, <2>1
  <2> QED BY <1>8, <2>1, <2>2
<1>10. Atoi(text) = IF N = 1 THEN text[1] ELSE IF N = 2 THEN 10 * text[1] + text[2]
                    ELSE 10 * (10 * text[1] + text[2]) + text[3]
  BY <1>0, <1>3, <1>7, <1>8, <1>9 DEF N
<1> QED BY <1>10 DEF N

LEMMA TextIs ==
    ASSUME NEW id \in 0 .. 199
    PROVE  Atoi(Text(id)) = id /\ (Text(id)[1] = 0 => Text(id) = <<0>>)
<1> DEFINE t == Text(id)
<1>1. CASE id < 10
  <2>1. t = <<id>> /\ id \in Nat
    BY <1>1 DEF Text
  <2> HIDE DEF t
  <2>2. t \in Seq(Nat) /\ Len(t) = 1 /\ t[1] = id
    BY <2>1
  <2>3. Atoi(t) = id
    BY <2>2, Digit
  <2> QED BY <2>1, <2>2, <2>3 DEF t
<1>2. CASE id \in 10 .. 99
  <2> DEFINE a == id \div 10
             b == id % 10
  <2>1. t = <<a, b>>
    BY <1>2 DEF Text
  <2>2. a \in Nat /\ b \in Nat /\ 10 * a + b = id /\ a # 0
    BY <1>2
  <2> HIDE DEF t, a, b
  <2>3. t \in Seq(Nat) /\ Len(t) = 2 /\ t[1] = a /\ t[2] = b
    BY <2>1, <2>2
  <2>4. Atoi(t) = id
    BY <2>2, <2>3, Digit
  <2> QED BY <2>2, <2>3, <2>4 DEF t
<1>3. CASE id > 99
  <2> DEFINE a == (id % 100) \div 10
             b == (id % 100) % 10
             c == id % 100
  <2>1. t = <<1, a, b>>
    BY <1>3 DEF Text
  <2>2. c \in Nat /\ c = id - 100
    BY <1>3
  <2>3. a \in Nat /\ b \in Nat /\ 10 * a + b = c
    BY <2>2
  <2>4. a \in Nat /\ b \in Nat /\ 10 * (10 * 1 + a) + b = id
    BY <2>2, <2>3
  <2> HIDE DEF t, a, b, c
  <2>5. t \in Seq(Nat) /\ Len(t) = 3 /\ t[1] = 1 /\ t[2] = a /\ t[3] = b
    BY <2>1, <2>4
  <2>6. Atoi(t) = id
    <3>1. 10 * (10 * 1 + a) + b = id /\ Len(t) \in 1 .. 3
      BY <2>4, <2>5
    <3>2. Atoi(t) = 10 * (10 * t[1] + t[2]) + t[3]
      <4>1. t \in Seq(Nat) /\ Len(t) \in 1 .. 3
        BY <2>5, <3>1
      <4>2. Atoi(t) = IF Len(t) = 1 THEN t[1] ELSE IF Len(t) = 2 THEN 10 * t[1] + t[2]
                      ELSE 10 * (10 * t[1] + t[2]) + t[3]
        BY <4>1, Digit, Zenon
      <4> QED BY <2>5, <4>2
    <3> QED BY <2>5, <3>1, <3>2
  <2> QED BY <2>5, <2>6 DEF t
<1> QED BY <1>1, <1>2, <1>3

LEMMA TextApart == \A i, j \in 0 .. 199 : Text(i) = Text(j) => i = j
  BY TextIs

LEMMA IsSeq ==
    ASSUME NEW T, NEW U, NEW s \in Seq(T), \A i \in 1 .. Len(s) : s[i] \in U
    PROVE  s \in Seq(U)
<1>1. s = [i \in 1 .. Len(s) |-> s[i]] /\ Len(s) \in Nat
  OBVIOUS
<1> QED BY <1>1

LEMMA AtIs ==
    ASSUME NEW T, NEW s \in Seq(T)
    PROVE  \A i \in 1 .. Len(s) : s[i] \in T
  OBVIOUS

LEMMA SplitIs ==
    ASSUME NEW g \in Manager
    PROVE  Split(g.in) \in Seq(DOMAIN Letters) /\ Split(g.out) \in Seq(DOMAIN Letters) /\ Names(g) \in Seq(DOMAIN Letters)
<1>1. ASSUME NEW text \in Seq(DOMAIN Letters \union {","}) PROVE Split(text) \in Seq(DOMAIN Letters)
  <2> DEFINE s == Split(text)
  <2>1. s \in Seq(DOMAIN Letters \union {","}) /\ Left(text, s, {","})
    BY RemainingIs DEF Split
  <2> HIDE DEF s
  <2>2. \A i \in 1 .. Len(s) : s[i] \notin {","}
    BY <2>1 DEF Left
  <2>3. \A i \in 1 .. Len(s) : s[i] \in DOMAIN Letters
    <3> TAKE i \in 1 .. Len(s)
    <3>1. s[i] \in DOMAIN Letters \union {","}
      BY <2>1, AtIs
    <3> QED BY <2>2, <3>1
  <2>4. s \in Seq(DOMAIN Letters)
    BY <2>1, <2>3, IsSeq
  <2> QED BY <2>4 DEF s
<1>2. Split(g.in) \in Seq(DOMAIN Letters) /\ Split(g.out) \in Seq(DOMAIN Letters)
  BY <1>1, TokensAssumption
<1> QED BY <1>2 DEF Names

-----------------------------------------------------------------------------
WhereKept == \A p, i : Where(p, i) => Where(p, i)'

LEMMA WhereStays ==
    ASSUME co'.mList = co.mList, co'.mListIDArray = co.mListIDArray, seen'.again = seen.again
    PROVE  WhereKept
  BY DEF WhereKept, Where, InList, Assigned

LEMMA OrdersKeep ==
    ASSUME OrdersRight, WhereKept, ordered' = ordered
    PROVE  OrdersRight'
  BY DEF OrdersRight, WhereKept

LEMMA OneOrder ==
    ASSUME OrdersRight, WhereKept, ordered \in Seq(AnOrder), NEW o \in AnOrder, ordered' = Append(ordered, o),
           NEW id \in 0 .. 127, o.text = Text(id), Where(o.path, id)'
    PROVE  OrdersRight'
<1>1. /\ ordered' \in Seq(AnOrder) /\ Len(ordered') = Len(ordered) + 1 /\ Len(ordered) \in Nat
      /\ ordered'[Len(ordered) + 1] = o /\ \A k \in 1 .. Len(ordered) : ordered'[k] = ordered[k]
  OBVIOUS
<1>2. ASSUME NEW k \in 1 .. Len(ordered')
      PROVE  \E i \in 0 .. 127 : (ordered[k].text = Text(i) /\ Where(ordered[k].path, i))'
  <2>1. CASE k \in 1 .. Len(ordered)
    <3>1. PICK i \in 0 .. 127 : ordered[k].text = Text(i) /\ Where(ordered[k].path, i)
      BY <2>1 DEF OrdersRight
    <3>2. PICK p : p = ordered[k].path
      OBVIOUS
    <3>3. Where(p, i)' /\ ordered'[k].path = p
      BY <1>1, <2>1, <3>1, <3>2 DEF WhereKept
    <3>4. Where(ordered[k].path, i)'
      BY <3>3
    <3> QED BY <1>1, <2>1, <3>1, <3>4
  <2>2. CASE k = Len(ordered) + 1
    BY <1>1, <2>2
  <2>3. k \in 1 .. Len(ordered) \/ k = Len(ordered) + 1
    BY <1>1
  <2> QED BY <2>1, <2>2, <2>3
<1> QED BY <1>2 DEF OrdersRight

LEMMA ReportsKeep ==
    ASSUME ReportsRight, WhereKept, reports' = reports
    PROVE  ReportsRight'
  BY DEF ReportsRight, WhereKept

LEMMA TokenStays ==
    ASSUME NEW id, NEW m, TokenRight(id, m), WhereKept, seen.again \subseteq seen'.again
    PROVE  TokenRight(id, m)'
  BY DEF TokenRight, WhereKept

LEMMA TokensKeep ==
    ASSUME TokensKept, WhereKept, co'.mtknMap = co.mtknMap, seen.again \subseteq seen'.again
    PROVE  TokensKept'
<1> SUFFICES ASSUME NEW i \in DOMAIN co'.mtknMap PROVE TokenRight(i, co.mtknMap[i])'
  BY DEF TokensKept
<1> PICK n : n = co.mtknMap[i]
  OBVIOUS
<1>1. TokenRight(i, n)
  BY DEF TokensKept
<1>2. TokenRight(i, n)'
  BY <1>1, TokenStays
<1> QED BY <1>2

LEMMA RoutesKeep ==
    ASSUME RoutesRight, seen'.routes = seen.routes, seen.again \subseteq seen'.again
    PROVE  RoutesRight'
  BY DEF RoutesRight

LEMMA MadeKeep ==
    ASSUME MadeRight, made' = made
    PROVE  MadeRight'
  BY DEF MadeRight

LEMMA OverrunIs ==
    ASSUME NEW names \in Seq(DOMAIN Letters)
    PROVE  \A name \in Overrun(names) : Letters[name] >= PointerSize
<1>1. \A i \in 1 .. Len(names) : names[i] \in DOMAIN Letters
  BY AtIs
<1>2. ASSUME NEW name \in Overrun(names) PROVE Letters[name] >= PointerSize
  <2>1. PICK i \in DOMAIN names : name = names[i]
    BY DEF Overrun, ToSet
  <2>2. name \in DOMAIN Letters
    BY <1>1, <2>1
  <2>3. Letters[name] \in Nat /\ PointerSize \in Nat
    BY <2>2, TokensAssumption, Zenon
  <2>4. Letters[name] + 1 > PointerSize
    BY Zenon DEF Overrun
  <2>5. \A a, b \in Nat : a + 1 > b => a >= b
    OBVIOUS
  <2> QED BY <2>3, <2>4, <2>5, Zenon
<1> QED BY <1>2

LEMMA EntryIs ==
    ASSUME NEW e \in ListEntry
    PROVE  \E g \in Manager, k \in Nat :
              /\ e = Token(g, k) /\ e.osc = g.path /\ e.inputInfo = Split(g.in) /\ e.outputInfo = Split(g.out)
              /\ e.inputInfo \o e.outputInfo = Names(g) /\ Names(g) \in Seq(DOMAIN Letters)
<1>1. PICK g \in Manager, k \in Nat : e = Token(g, k)
  BY DEF ListEntry
<1>2. e.osc = g.path /\ e.inputInfo = Split(g.in) /\ e.outputInfo = Split(g.out)
  BY <1>1 DEF Token, MToken
<1>3. e.inputInfo \o e.outputInfo = Names(g) /\ Names(g) \in Seq(DOMAIN Letters)
  BY <1>2, SplitIs DEF Names
<1> QED BY <1>1, <1>2, <1>3

-----------------------------------------------------------------------------
LEMMA ListGrows ==
    ASSUME TokGood, NEW g \in Manager, SetMList(g)
    PROVE  TokGood'
<1> DEFINE m == MToken(g.path, Len(co.mList), Split(g.in), Split(g.out))
           over == Overrun(m.inputInfo \o m.outputInfo)
<1>1. CoShape /\ Up /\ co.state = "up"
  BY DEF TokGood, SetMList, Up
<1>2. m \in ListEntry /\ m.osc = g.path /\ m.inputInfo \o m.outputInfo = Names(g)
  <2>1. m = Token(g, Len(co.mList)) /\ Len(co.mList) \in Nat
    BY <1>1 DEF Token, CoShape
  <2> QED BY <2>1 DEF ListEntry, MToken, Names, Token
<1>3. co' = [co EXCEPT !.mList = Append(@, m)] /\ seen' = [seen EXCEPT !.over = @ \union over]
  BY DEF SetMList
<1>4. ordered' = ordered /\ reports' = reports /\ made' = made /\ use' = use
  BY DEF SetMList
<1>5. \A name \in over : Letters[name] >= PointerSize
  BY <1>2, SplitIs, OverrunIs
<1> HIDE DEF m, over
<1>6. /\ co'.mList = Append(co.mList, m) /\ co'.mtknMap = co.mtknMap /\ co'.mListIDArray = co.mListIDArray
      /\ co'.tID = co.tID /\ co'.state = co.state
      /\ co' = [mList |-> co'.mList, mtknMap |-> co'.mtknMap, mListIDArray |-> co'.mListIDArray, tID |-> co'.tID, state |-> co'.state]
  BY <1>1, <1>3 DEF CoShape
<1>7. /\ seen'.over = seen.over \union over /\ seen'.lost = seen.lost /\ seen'.meant = seen.meant
      /\ seen'.routes = seen.routes /\ seen'.again = seen.again /\ seen'.left = seen.left
      /\ seen' = [over |-> seen'.over, lost |-> seen'.lost, meant |-> seen'.meant, routes |-> seen'.routes,
                   again |-> seen'.again, left |-> seen'.left]
  BY <1>1, <1>3 DEF CoShape
<1>8. co.mList \in Seq(ListEntry) /\ Len(co.mList) \in Nat
  BY <1>1 DEF CoShape
<1>9. /\ co'.mList \in Seq(ListEntry) /\ Len(co'.mList) = Len(co.mList) + 1
      /\ \A k \in 1 .. Len(co.mList) : co'.mList[k] = co.mList[k]
  BY <1>2, <1>6, <1>8
<1>10. \A k : InList(k) => InList(k)' /\ co'.mList[k + 1] = co.mList[k + 1]
  BY <1>8, <1>9 DEF InList
<1>11. WhereKept
  BY <1>6, <1>7, <1>10 DEF WhereKept, Where, Assigned
<1>12. CoShape'
  BY <1>1, <1>4, <1>6, <1>7, <1>9 DEF CoShape, Assigned, Ids
<1>13. Chosen'
  <2>1. Chosen
    BY DEF TokGood
  <2> QED BY <1>1, <1>6, <1>7, <1>10, <2>1 DEF Chosen, Assigned
<1>14. OrdersRight' /\ ReportsRight' /\ MadeRight' /\ TokensKept' /\ RoutesRight'
  BY <1>4, <1>6, <1>7, <1>11, OrdersKeep, ReportsKeep, MadeKeep, TokensKeep, RoutesKeep DEF TokGood
<1>15. Ending'
  BY <1>1, <1>6 DEF Ending
<1>16. MemoryExplained'
  BY <1>5, <1>7 DEF TokGood, MemoryExplained
<1> QED BY <1>12, <1>13, <1>14, <1>15, <1>16 DEF TokGood

LEMMA ModuleAsked ==
    ASSUME TokGood, NEW part, CreateModule(part)
    PROVE  TokGood'
<1>id. PICK id : id = IF co.tID = use.nid THEN 0 ELSE co.tID
  OBVIOUS
<1>mc. PICK mc : mc = mIDofOSCPath(part)
  OBVIOUS
<1>so. PICK some \in BOOLEAN : some <=> \E k \in 1 .. Len(co.mList) : co.mList[k].osc \in Containing[part]
  OBVIOUS
<1>1. CoShape /\ co.state = "up" /\ Chosen
  BY DEF TokGood, CreateModule, AppCalls, Up
<1>2. /\ co' = [co EXCEPT !.tID = id + 1, !.mListIDArray = Set(@, id, mc), !.state = IF Listed(mc) THEN @ ELSE "null"]
      /\ ordered' = IF Listed(mc) THEN Append(ordered, OrderFor("create", id, mc)) ELSE ordered
      /\ seen' = [seen EXCEPT !.meant = Set(@, id, [part |-> part, listed |-> some]),
                               !.again = IF id \in DOMAIN co.mListIDArray THEN @ \union {id} ELSE @]
      /\ reports' = reports /\ made' = made /\ use' = [use EXCEPT !.calls = @ - 1]
  BY <1>id, <1>mc, <1>so DEF CreateModule, AppCalls
<1>3. id \in Ids /\ id + 1 \in 0 .. use.nid /\ id \in 0 .. 127
  <2> PICK n : n = use.nid
    OBVIOUS
  <2>1. n = use.nid /\ n \in 1 .. 128 /\ co.tID \in 0 .. n
    BY <1>1 DEF CoShape
  <2>2. id \in 0 .. n - 1 /\ id + 1 \in 0 .. n
    BY <1>id, <2>1
  <2> QED BY <2>1, <2>2 DEF Ids
<1>4. co.mList \in Seq(ListEntry) /\ Len(co.mList) \in Nat
  BY <1>1 DEF CoShape
<1>5. /\ some => mc \in 0 .. Len(co.mList) - 1 /\ co.mList[mc + 1].osc \in Containing[part]
      /\ ~ some => mc = 0
  <2> DEFINE found == {k \in 1 .. Len(co.mList) : co.mList[k].osc \in Containing[part]}
             k == CHOOSE k \in found : \A l \in found : k <= l
  <2>1. mc = IF found = {} THEN 0 ELSE k - 1
    BY <1>mc DEF mIDofOSCPath
  <2>2. CASE some
    <3>1. found # {} /\ found \in SUBSET Nat
      BY <1>4, <1>so, <2>2
    <3> HIDE DEF found
    <3>2. k \in found
      BY <3>1, LeastOf
    <3> HIDE DEF k
    <3>3. k \in 1 .. Len(co.mList) /\ co.mList[k].osc \in Containing[part] /\ mc = k - 1
      BY <2>1, <3>1, <3>2 DEF found
    <3>4. mc + 1 = k /\ mc \in 0 .. Len(co.mList) - 1
      BY <1>4, <3>3
    <3> QED BY <2>2, <3>3, <3>4
  <2>3. CASE ~ some
    BY <1>so, <2>1, <2>3
  <2> QED BY <2>2, <2>3
<1>6. Listed(mc) <=> InList(mc)
  BY DEF Listed, InList
<1>7. ~ InList(mc) => co.mList = <<>> /\ ~ some
  BY <1>4, <1>5 DEF InList
<1>8. /\ co'.mList = co.mList /\ co'.mtknMap = co.mtknMap /\ co'.mListIDArray = Set(co.mListIDArray, id, mc)
      /\ co'.tID = id + 1 /\ co'.state = IF InList(mc) THEN "up" ELSE "null"
      /\ co' = [mList |-> co'.mList, mtknMap |-> co'.mtknMap, mListIDArray |-> co'.mListIDArray, tID |-> co'.tID, state |-> co'.state]
  BY <1>1, <1>2, <1>6 DEF CoShape
<1>9. /\ seen'.over = seen.over /\ seen'.lost = seen.lost /\ seen'.routes = seen.routes /\ seen'.left = seen.left
      /\ seen'.meant = Set(seen.meant, id, [part |-> part, listed |-> some])
      /\ seen'.again = IF id \in Assigned THEN seen.again \union {id} ELSE seen.again
      /\ seen' = [over |-> seen'.over, lost |-> seen'.lost, meant |-> seen'.meant, routes |-> seen'.routes,
                   again |-> seen'.again, left |-> seen'.left]
  BY <1>1, <1>2 DEF CoShape, Assigned
<1>10. Assigned' = Assigned \union {id} /\ co'.mListIDArray[id] = mc /\ \A i \in Assigned : i # id => co'.mListIDArray[i] = co.mListIDArray[i]
  BY <1>8 DEF Assigned, Set
<1>11. /\ \A i \in DOMAIN seen.meant : i \in DOMAIN seen'.meant /\ (i # id => seen'.meant[i] = seen.meant[i])
       /\ id \in DOMAIN seen'.meant /\ seen'.meant[id] = [part |-> part, listed |-> some]
  BY <1>9 DEF Set
<1>12. \A k : InList(k)' <=> InList(k)
  BY <1>8 DEF InList
<1>13. WhereKept
  <2> SUFFICES ASSUME NEW p, NEW i, Where(p, i) PROVE Where(p, i)'
    BY DEF WhereKept
  <2>1. i \in Assigned'
    BY <1>10 DEF Where
  <2>2. i \in seen'.again \/ (InList(co.mListIDArray[i])' /\ co'.mList[co'.mListIDArray[i] + 1].osc = p)
    <3>1. CASE i = id
      BY <1>9, <3>1 DEF Where
    <3>2. CASE i # id
      BY <1>8, <1>9, <1>10, <1>12, <3>2 DEF Where
    <3> QED BY <3>1, <3>2
  <2>3. (i \in Assigned /\ (i \in seen.again \/ (InList(co.mListIDArray[i]) /\ co.mList[co.mListIDArray[i] + 1].osc = p)))'
    BY <2>1, <2>2
  <2> QED BY <2>3 DEF Where
<1>14. seen.again \subseteq seen'.again
  BY <1>9
<1>15. InList(mc) => OrderFor("create", id, mc) \in AnOrder
  <2> SUFFICES ASSUME InList(mc) PROVE OrderFor("create", id, mc) \in AnOrder
    OBVIOUS
  <2>1. mc + 1 \in 1 .. Len(co.mList)
    BY <1>4 DEF InList
  <2>2. co.mList[mc + 1] \in ListEntry
    BY <1>4, <2>1, AtIs
  <2>3. co.mList[mc + 1].osc \in {g.path : g \in Manager}
    BY <2>2, EntryIs
  <2> QED BY <1>3, <2>3 DEF OrderFor, AnOrder
<1>16. CoShape'
  <2>1. ordered' \in Seq(AnOrder)
    BY <1>1, <1>2, <1>6, <1>15 DEF CoShape
  <2>2. use' = [nid |-> use'.nid, heard |-> use'.heard, calls |-> use'.calls] /\ use'.nid = use.nid
    BY <1>1, <1>2 DEF CoShape
  <2>3. co'.state \in States /\ co'.mList \in Seq(ListEntry)
    BY <1>4, <1>8 DEF States
  <2>4. co'.tID \in 0 .. use'.nid /\ Assigned' \subseteq Ids' /\ DOMAIN co'.mtknMap \subseteq Assigned'
    BY <1>1, <1>3, <1>8, <1>10, <2>2 DEF CoShape, Ids
  <2>5. seen'.again \subseteq Assigned'
    BY <1>1, <1>9, <1>10 DEF CoShape
  <2> QED BY <1>1, <1>2, <1>8, <1>9, <2>1, <2>2, <2>3, <2>4, <2>5 DEF CoShape
<1>17. Chosen'
  <2>1. ASSUME NEW i \in Assigned'
        PROVE  /\ i \in DOMAIN seen'.meant
               /\ InList(co.mListIDArray[i])' \/ co'.state = "null"
               /\ seen'.meant[i].listed => /\ InList(co.mListIDArray[i])'
                                            /\ co'.mList[co'.mListIDArray[i] + 1].osc \in Containing[seen'.meant[i].part]
    <3>1. CASE i = id
      <4>1. seen'.meant[i].listed = some /\ seen'.meant[i].part = part /\ i \in DOMAIN seen'.meant
        BY <1>11, <3>1
      <4>2. co'.mListIDArray[i] = mc
        BY <1>10, <3>1
      <4>3. InList(mc)' \/ co'.state = "null"
        BY <1>8, <1>12
      <4>4. some => InList(mc)' /\ co'.mList[mc + 1].osc \in Containing[part]
        BY <1>5, <1>8, <1>12 DEF InList
      <4> QED BY <4>1, <4>2, <4>3, <4>4
    <3>2. CASE i # id
      <4>1. i \in Assigned /\ co'.mListIDArray[i] = co.mListIDArray[i] /\ i \in DOMAIN seen'.meant /\ seen'.meant[i] = seen.meant[i]
        BY <1>1, <1>10, <1>11, <3>2 DEF Chosen
      <4>2. /\ InList(co.mListIDArray[i])
            /\ seen.meant[i].listed => co.mList[co.mListIDArray[i] + 1].osc \in Containing[seen.meant[i].part]
        BY <1>1, <4>1 DEF Chosen
      <4> QED BY <1>8, <1>12, <4>1, <4>2
    <3> QED BY <3>1, <3>2
  <2>2. (co'.state \in {"null", "closed"} => co'.mList = <<>>) /\ co'.state # "unassigned"
    BY <1>7, <1>8
  <2> QED BY <2>1, <2>2 DEF Chosen
<1>18. OrdersRight'
  <2>1. CASE InList(mc)
    <3>o. PICK o : o = OrderFor("create", id, mc)
      OBVIOUS
    <3>1. o \in AnOrder /\ o.text = Text(id) /\ o.path = co.mList[mc + 1].osc /\ ordered' = Append(ordered, o)
      BY <1>2, <1>6, <1>15, <2>1, <3>o DEF OrderFor
    <3>2. Where(o.path, id)'
      BY <1>8, <1>10, <1>12, <2>1, <3>1 DEF Where
    <3>3. ordered \in Seq(AnOrder) /\ OrdersRight
      BY <1>1 DEF CoShape, TokGood
    <3> QED BY <1>3, <1>13, <3>1, <3>2, <3>3, OneOrder
  <2>2. CASE ~ InList(mc)
    BY <1>2, <1>6, <1>13, <2>2, OrdersKeep DEF TokGood
  <2> QED BY <2>1, <2>2
<1>19. ReportsRight' /\ MadeRight' /\ TokensKept' /\ RoutesRight'
  BY <1>2, <1>8, <1>9, <1>13, <1>14, ReportsKeep, MadeKeep, TokensKeep, RoutesKeep DEF TokGood
<1>20. Ending'
  BY <1>8 DEF Ending
<1>21. MemoryExplained'
  BY <1>9 DEF TokGood, MemoryExplained
<1> QED BY <1>16, <1>17, <1>18, <1>19, <1>20, <1>21 DEF TokGood

LEMMA OrderIs ==
    ASSUME CoShape, NEW id \in 0 .. 127, InList(co.mListIDArray[id]), NEW op \in {"create", "delete"},
           NEW o, o = OrderFor(op, id, co.mListIDArray[id])
    PROVE  o \in AnOrder /\ o.op = op /\ o.text = Text(id) /\ o.path = co.mList[co.mListIDArray[id] + 1].osc
<1> PICK mc : mc = co.mListIDArray[id]
  OBVIOUS
<1>1. co.mList \in Seq(ListEntry) /\ mc \in 0 .. Len(co.mList) - 1
  BY DEF CoShape, InList
<1>2. mc + 1 \in 1 .. Len(co.mList)
  BY <1>1
<1>3. co.mList[mc + 1] \in ListEntry
  BY <1>1, <1>2, AtIs
<1>4. co.mList[mc + 1].osc \in {g.path : g \in Manager}
  BY <1>3, EntryIs
<1> QED BY <1>4 DEF OrderFor, AnOrder

LEMMA DeletionAsked ==
    ASSUME TokGood, NEW id \in DOMAIN co.mListIDArray, DeleteModule(id)
    PROVE  TokGood'
<1>1. CoShape /\ co.state = "up" /\ Chosen
  BY DEF TokGood, DeleteModule, AppCalls, Up
<1> PICK o : o = OrderFor("delete", id, co.mListIDArray[id])
  OBVIOUS
<1>2. /\ co' = co /\ seen' = seen /\ reports' = reports /\ made' = made /\ use' = [use EXCEPT !.calls = @ - 1]
      /\ ordered' = Append(ordered, o)
  BY DEF DeleteModule, AppCalls
<1>3. id \in 0 .. 127
  <2> PICK n : n = use.nid
    OBVIOUS
  <2>1. n \in 1 .. 128 /\ id \in 0 .. n - 1
    BY <1>1 DEF CoShape, Assigned, Ids
  <2> QED BY <2>1
<1>4. id \in Assigned /\ InList(co.mListIDArray[id])
  BY <1>1 DEF Assigned, Chosen
<1>5. o \in AnOrder /\ o.text = Text(id) /\ o.path = co.mList[co.mListIDArray[id] + 1].osc
  BY <1>1, <1>3, <1>4, OrderIs
<1>6. WhereKept
  BY <1>2, WhereStays
<1>7. Where(o.path, id)'
  BY <1>2, <1>4, <1>5 DEF Where, InList, Assigned
<1>8. ordered \in Seq(AnOrder) /\ OrdersRight
  BY <1>1 DEF CoShape, TokGood
<1>9. OrdersRight'
  BY <1>2, <1>3, <1>5, <1>6, <1>7, <1>8, OneOrder
<1>10. ordered' \in Seq(AnOrder)
  BY <1>2, <1>5, <1>8
<1>11. use' = [nid |-> use'.nid, heard |-> use'.heard, calls |-> use'.calls] /\ use'.nid = use.nid
  BY <1>1, <1>2 DEF CoShape
<1>12. CoShape'
  BY <1>1, <1>2, <1>10, <1>11 DEF CoShape, Assigned, Ids
<1>13. Chosen'
  BY <1>1, <1>2 DEF Chosen, Assigned, InList
<1>14. ReportsRight' /\ MadeRight' /\ TokensKept' /\ RoutesRight'
  BY <1>2, <1>6, ReportsKeep, MadeKeep, TokensKeep, RoutesKeep DEF TokGood
<1>15. Ending'
  BY <1>1, <1>2 DEF Ending
<1>16. MemoryExplained'
  BY <1>2 DEF TokGood, MemoryExplained
<1> QED BY <1>9, <1>12, <1>13, <1>14, <1>15, <1>16 DEF TokGood

LEMMA Connected ==
    ASSUME TokGood, NEW id, NEW inID \in 0 .. 2, Connect(id, inID)
    PROVE  TokGood'
<1> DEFINE names == co.mtknMap[id].inputInfo
<1>1. CoShape /\ co.state = "up" /\ Chosen /\ id \in DOMAIN co.mtknMap
  BY DEF TokGood, Connect, AppCalls, Up
<1>2. /\ ordered' = ordered /\ reports' = reports /\ made' = made /\ use' = [use EXCEPT !.calls = @ - 1]
      /\ \/ /\ inID < Len(names) /\ co' = co
            /\ seen' = [seen EXCEPT !.routes = @ \union {<<id, co.mtknMap[id].osc, inID, names[inID + 1]>>}]
         \/ co' = [co EXCEPT !.state = "index"] /\ seen' = seen
  BY DEF Connect, AppCalls
<1>3. /\ co'.mList = co.mList /\ co'.mtknMap = co.mtknMap /\ co'.mListIDArray = co.mListIDArray /\ co'.tID = co.tID
      /\ co'.state \in {"up", "index"}
      /\ co' = [mList |-> co'.mList, mtknMap |-> co'.mtknMap, mListIDArray |-> co'.mListIDArray, tID |-> co'.tID, state |-> co'.state]
  <2>1. CASE co' = co
    BY <1>1, <2>1 DEF CoShape
  <2>2. CASE co' = [co EXCEPT !.state = "index"]
    BY <1>1, <2>2 DEF CoShape
  <2> QED BY <1>2, <2>1, <2>2
<1>4. /\ seen'.over = seen.over /\ seen'.lost = seen.lost /\ seen'.meant = seen.meant /\ seen'.again = seen.again
      /\ seen' = [over |-> seen'.over, lost |-> seen'.lost, meant |-> seen'.meant, routes |-> seen'.routes,
                   again |-> seen'.again, left |-> seen'.left]
  BY <1>1, <1>2 DEF CoShape
<1>5. use' = [nid |-> use'.nid, heard |-> use'.heard, calls |-> use'.calls] /\ use'.nid = use.nid
  BY <1>1, <1>2 DEF CoShape
<1>6. WhereKept
  BY <1>3, <1>4, WhereStays
<1>7. CoShape'
  BY <1>1, <1>2, <1>3, <1>4, <1>5 DEF CoShape, Assigned, Ids, States
<1>8. Chosen'
  BY <1>1, <1>3, <1>4 DEF Chosen, Assigned, InList
<1>9. OrdersRight' /\ ReportsRight' /\ MadeRight' /\ TokensKept'
  BY <1>2, <1>3, <1>4, <1>6, OrdersKeep, ReportsKeep, MadeKeep, TokensKeep DEF TokGood
<1>10. RoutesRight'
  <2>1. CASE seen' = seen
    BY <2>1, RoutesKeep DEF TokGood
  <2>2. CASE inID < Len(names) /\ seen' = [seen EXCEPT !.routes = @ \union {<<id, co.mtknMap[id].osc, inID, names[inID + 1]>>}]
    <3> PICK r : r = <<id, co.mtknMap[id].osc, inID, names[inID + 1]>>
      OBVIOUS
    <3>1. seen'.routes = seen.routes \union {r} /\ r[1] = id /\ r[2] = co.mtknMap[id].osc /\ r[3] = inID /\ r[4] = names[inID + 1]
      BY <1>1, <2>2 DEF CoShape
    <3>2. CASE id \in seen.again
      BY <1>4, <3>1, <3>2 DEF TokGood, RoutesRight
    <3>3. CASE id \notin seen.again
      <4>1. PICK g \in Manager : co.mtknMap[id].osc[1] = g.path /\ names = Names(g)
        BY <1>1, <3>3 DEF TokGood, TokensKept, TokenRight
      <4>2. names \in Seq(DOMAIN Letters)
        BY <4>1, SplitIs
      <4>3. r[3] \in 0 .. Len(Names(g)) - 1 /\ r[4] = Names(g)[r[3] + 1] /\ g.path = r[2][1]
        <5> PICK n : n = Len(Names(g))
          OBVIOUS
        <5>1. n \in Nat /\ inID < n
          BY <2>2, <4>1, <4>2
        <5>2. inID \in 0 .. n - 1
          BY <5>1
        <5> QED BY <3>1, <4>1, <5>2
      <4> QED BY <1>4, <3>1, <4>3 DEF TokGood, RoutesRight
    <3> QED BY <3>2, <3>3
  <2> QED BY <1>2, <2>1, <2>2
<1>11. Ending'
  BY <1>3 DEF Ending
<1>12. MemoryExplained'
  BY <1>4 DEF TokGood, MemoryExplained
<1> QED BY <1>7, <1>8, <1>9, <1>10, <1>11, <1>12 DEF TokGood

LEMMA TailIs ==
    ASSUME NEW T, NEW s \in Seq(T), s # <<>>
    PROVE  /\ Tail(s) \in Seq(T) /\ Len(s) \in Nat \ {0} /\ Len(Tail(s)) = Len(s) - 1 /\ Head(s) = s[1] /\ s[1] \in T
           /\ \A k \in 1 .. Len(Tail(s)) : k + 1 \in 1 .. Len(s) /\ Tail(s)[k] = s[k + 1]
           /\ \A k \in 1 .. Len(s) : k # 1 => k - 1 \in 1 .. Len(Tail(s)) /\ Tail(s)[k - 1] = s[k]
  OBVIOUS

LEMMA ReportsLess ==
    ASSUME ReportsRight, WhereKept, reports \in Seq(AReport), reports # <<>>, reports' = Tail(reports)
    PROVE  ReportsRight'
<1>1. ASSUME NEW k \in 1 .. Len(reports')
      PROVE  (reports[k].osc = <<reports[k].osc[1], Text(reports[k].tID)>> /\ Where(reports[k].osc[1], reports[k].tID))'
  <2>1. k + 1 \in 1 .. Len(reports) /\ reports'[k] = reports[k + 1]
    BY TailIs
  <2> PICK r : r = reports[k + 1]
    OBVIOUS
  <2>2. r.osc = <<r.osc[1], Text(r.tID)>> /\ Where(r.osc[1], r.tID)
    BY <2>1 DEF ReportsRight
  <2>3. Where(r.osc[1], r.tID)'
    BY <2>2 DEF WhereKept
  <2>4. reports'[k] = r
    BY <2>1
  <2> QED BY <2>2, <2>3, <2>4
<1> QED BY <1>1 DEF ReportsRight

LEMMA NodeReported ==
    ASSUME TokGood, Reported
    PROVE  TokGood'
<1> PICK r : r = Head(reports)
  OBVIOUS
<1> PICK id : id = r.tID
  OBVIOUS
<1> PICK entry : entry = co.mList[co.mListIDArray[id] + 1]
  OBVIOUS
<1> PICK o : o = OrderFor("delete", id, co.mListIDArray[id])
  OBVIOUS
<1> PICK m : m = MToken(r.osc, id, entry.inputInfo \o entry.outputInfo, <<>>)
  OBVIOUS
<1> PICK known \in BOOLEAN : known <=> \E i \in DOMAIN co.mtknMap : co.mtknMap[i].osc = r.osc
  OBVIOUS
<1>1. CoShape /\ co.state = "up" /\ Chosen /\ reports # <<>> /\ reports' = Tail(reports) /\ reports \in Seq(AReport)
  BY DEF TokGood, Reported, Up, CoShape
<1>2. /\ made' = made /\ use' = use
      /\ \/ /\ r.op = "create" /\ ~ known /\ id \notin DOMAIN co.mListIDArray
            /\ co' = [co EXCEPT !.state = "unassigned"] /\ ordered' = ordered /\ seen' = seen
         \/ /\ r.op = "create" /\ ~ known /\ id \in DOMAIN co.mListIDArray
            /\ seen' = [seen EXCEPT !.over = @ \union Overrun(m.inputInfo),
                                    !.lost = IF id \in DOMAIN co.mtknMap THEN @ \union {r.osc} ELSE @]
            /\ IF id \in DOMAIN co.mtknMap THEN ordered' = Append(ordered, o) /\ co' = co
               ELSE co' = [co EXCEPT !.mtknMap = Set(@, id, m)] /\ ordered' = ordered
         \/ /\ r.op = "delete" /\ id \in DOMAIN co.mtknMap
            /\ co' = [co EXCEPT !.mtknMap = Dropped(@, id)] /\ ordered' = ordered /\ seen' = seen
         \/ co' = co /\ ordered' = ordered /\ seen' = seen
  BY DEF Reported
<1>3. /\ r \in AReport /\ id \in 0 .. 127 /\ r.osc \in {g.path : g \in Manager} \X {Text(i) : i \in 0 .. 127}
      /\ r.osc = <<r.osc[1], Text(id)>> /\ Where(r.osc[1], id) /\ reports' \in Seq(AReport)
  <2>1. r \in AReport /\ r = reports[1] /\ 1 \in 1 .. Len(reports) /\ reports' \in Seq(AReport)
    BY <1>1, TailIs
  <2> QED BY <2>1 DEF AReport, TokGood, ReportsRight
<1>4. id \in Assigned /\ InList(co.mListIDArray[id])
  BY <1>1, <1>3 DEF Where, Chosen
<1>5. \E g \in Manager : entry.osc = g.path /\ entry.inputInfo \o entry.outputInfo = Names(g) /\ Names(g) \in Seq(DOMAIN Letters)
  <2> PICK mc : mc = co.mListIDArray[id]
    OBVIOUS
  <2>1. co.mList \in Seq(ListEntry) /\ mc \in 0 .. Len(co.mList) - 1
    BY <1>1, <1>4 DEF CoShape, InList
  <2>2. mc + 1 \in 1 .. Len(co.mList)
    BY <2>1
  <2>3. entry \in ListEntry
    BY <2>1, <2>2, AtIs
  <2> QED BY <2>3, EntryIs
<1>6. PICK g \in Manager : entry.osc = g.path /\ m.inputInfo = Names(g) /\ Names(g) \in Seq(DOMAIN Letters)
  BY <1>5 DEF MToken
<1>7. id \in seen.again \/ r.osc[1] = g.path
  BY <1>3, <1>6 DEF Where
<1>8. m.tID = id /\ m.osc = r.osc
  BY DEF MToken
<1>9. /\ co'.mList = co.mList /\ co'.mListIDArray = co.mListIDArray /\ co'.tID = co.tID /\ co'.state = "up"
      /\ \/ co'.mtknMap = co.mtknMap
         \/ r.op = "create" /\ ~ known /\ id \notin DOMAIN co.mtknMap /\ co'.mtknMap = Set(co.mtknMap, id, m)
         \/ co'.mtknMap = Dropped(co.mtknMap, id)
      /\ co' = [mList |-> co'.mList, mtknMap |-> co'.mtknMap, mListIDArray |-> co'.mListIDArray, tID |-> co'.tID, state |-> co'.state]
  <2>1. CASE co' = co
    BY <1>1, <2>1 DEF CoShape
  <2>2. CASE r.op = "create" /\ ~ known /\ id \notin DOMAIN co.mtknMap /\ co' = [co EXCEPT !.mtknMap = Set(@, id, m)]
    BY <1>1, <2>2 DEF CoShape
  <2>3. CASE co' = [co EXCEPT !.mtknMap = Dropped(@, id)]
    BY <1>1, <2>3 DEF CoShape
  <2> QED BY <1>2, <1>4, <2>1, <2>2, <2>3 DEF Assigned
<1>10. /\ seen'.meant = seen.meant /\ seen'.again = seen.again /\ seen'.routes = seen.routes /\ seen'.left = seen.left
       /\ seen' = [over |-> seen'.over, lost |-> seen'.lost, meant |-> seen'.meant, routes |-> seen'.routes,
                    again |-> seen'.again, left |-> seen'.left]
       /\ seen'.over = seen.over \/ seen'.over = seen.over \union Overrun(m.inputInfo)
       /\ seen'.lost = seen.lost \/ (id \in DOMAIN co.mtknMap /\ ~ known)
  <2>1. CASE seen' = seen
    BY <1>1, <2>1 DEF CoShape
  <2>2. CASE ~ known /\ seen' = [seen EXCEPT !.over = @ \union Overrun(m.inputInfo),
                                    !.lost = IF id \in DOMAIN co.mtknMap THEN @ \union {r.osc} ELSE @]
    BY <1>1, <2>2 DEF CoShape
  <2> QED BY <1>2, <2>1, <2>2
<1>11. ordered' = ordered \/ ordered' = Append(ordered, o)
  BY <1>2
<1>12. o \in AnOrder /\ o.text = Text(id) /\ o.path = co.mList[co.mListIDArray[id] + 1].osc
  BY <1>1, <1>3, <1>4, OrderIs
<1>13. WhereKept
  BY <1>9, <1>10, WhereStays
<1>14. Where(o.path, id)'
  BY <1>4, <1>9, <1>12 DEF Where, InList, Assigned
<1>15. ordered \in Seq(AnOrder) /\ OrdersRight
  BY <1>1 DEF CoShape, TokGood
<1>16. OrdersRight'
  BY <1>3, <1>11, <1>12, <1>13, <1>14, <1>15, OneOrder, OrdersKeep
<1>17. ordered' \in Seq(AnOrder)
  BY <1>11, <1>12, <1>15
<1>18. DOMAIN co'.mtknMap \subseteq Assigned'
  <2>1. DOMAIN co.mtknMap \subseteq Assigned /\ Assigned' = Assigned
    BY <1>1, <1>9 DEF CoShape, Assigned
  <2>2. DOMAIN Set(co.mtknMap, id, m) = DOMAIN co.mtknMap \union {id} /\ DOMAIN Dropped(co.mtknMap, id) = DOMAIN co.mtknMap \ {id}
    BY DEF Set, Dropped
  <2> QED BY <1>4, <1>9, <2>1, <2>2
<1>19. CoShape'
  BY <1>1, <1>2, <1>3, <1>9, <1>10, <1>17, <1>18 DEF CoShape, Assigned, Ids, States
<1>20. Chosen'
  BY <1>1, <1>9, <1>10 DEF Chosen, Assigned, InList
<1>21. ReportsRight' /\ MadeRight' /\ RoutesRight'
  BY <1>1, <1>2, <1>10, <1>13, ReportsLess, MadeKeep, RoutesKeep DEF TokGood
<1>22. TokensKept'
  <2>1. CASE co'.mtknMap = co.mtknMap
    BY <2>1, <1>10, <1>13, TokensKeep DEF TokGood
  <2>2. CASE co'.mtknMap = Dropped(co.mtknMap, id)
    <3>1. \A i \in DOMAIN co'.mtknMap : i \in DOMAIN co.mtknMap /\ co'.mtknMap[i] = co.mtknMap[i]
      BY <2>2 DEF Dropped
    <3> SUFFICES ASSUME NEW i \in DOMAIN co'.mtknMap PROVE TokenRight(i, co.mtknMap[i])'
      BY DEF TokensKept
    <3> PICK n : n = co.mtknMap[i]
      OBVIOUS
    <3>2. TokenRight(i, n)
      BY <3>1 DEF TokGood, TokensKept, TokenRight
    <3>3. TokenRight(i, n)'
      BY <3>2, <1>10, <1>13, TokenStays
    <3> QED BY <3>1, <3>3
  <2>3. CASE co'.mtknMap = Set(co.mtknMap, id, m)
    <3>1. \A i \in DOMAIN co'.mtknMap : (i = id /\ co'.mtknMap[i] = m) \/ (i \in DOMAIN co.mtknMap /\ co'.mtknMap[i] = co.mtknMap[i])
      BY <2>3 DEF Set
    <3>2. Where(m.osc[1], id)' /\ m.osc = <<m.osc[1], Text(id)>>
      BY <1>3, <1>8, <1>13 DEF WhereKept
    <3>3. id \in seen'.again \/ \E h \in Manager : m.osc[1] = h.path /\ m.inputInfo = Names(h)
      BY <1>6, <1>7, <1>8, <1>10
    <3> SUFFICES ASSUME NEW i \in DOMAIN co'.mtknMap PROVE TokenRight(i, co.mtknMap[i])'
      BY DEF TokensKept
    <3>4. CASE i = id /\ co'.mtknMap[i] = m
      <4>1. TokenRight(id, m)'
        BY <3>2, <3>3, <1>8 DEF TokenRight
      <4> QED BY <3>4, <4>1
    <3>5. CASE i \in DOMAIN co.mtknMap /\ co'.mtknMap[i] = co.mtknMap[i]
      <4> PICK n : n = co.mtknMap[i]
        OBVIOUS
      <4>1. TokenRight(i, n)
        BY <3>5 DEF TokGood, TokensKept, TokenRight
      <4>2. TokenRight(i, n)'
        BY <4>1, <1>10, <1>13, TokenStays
      <4> QED BY <3>5, <4>2
    <3> QED BY <3>1, <3>4, <3>5
  <2> QED BY <1>9, <2>1, <2>2, <2>3
<1>23. Ending'
  BY <1>9 DEF Ending
<1>24. MemoryExplained'
  <2>1. \A name \in seen'.over : Letters[name] >= PointerSize
    BY <1>6, <1>10, OverrunIs DEF TokGood, MemoryExplained
  <2>2. CASE id \in DOMAIN co.mtknMap /\ ~ known
    <3>1. co.mtknMap[id].osc = <<co.mtknMap[id].osc[1], Text(id)>> /\ Where(co.mtknMap[id].osc[1], id)
      BY <2>2 DEF TokGood, TokensKept, TokenRight
    <3>2. co.mtknMap[id].osc # r.osc
      BY <2>2
    <3>3. id \in seen.again
      BY <1>3, <3>1, <3>2 DEF Where
    <3> QED BY <2>1, <3>3, <1>10 DEF MemoryExplained
  <2>3. CASE seen'.lost = seen.lost
    BY <2>1, <2>3, <1>10 DEF TokGood, MemoryExplained
  <2> QED BY <1>10, <2>2, <2>3
<1> QED BY <1>16, <1>19, <1>20, <1>21, <1>22, <1>23, <1>24 DEF TokGood

Concat(s, t, u) ==
    /\ Len(s) \in Nat /\ Len(t) \in Nat /\ Len(u) = Len(s) + Len(t)
    /\ \A k \in 1 .. Len(u) : \/ k \in 1 .. Len(s) /\ u[k] = s[k]
                              \/ k > Len(s) /\ k - Len(s) \in 1 .. Len(t) /\ u[k] = t[k - Len(s)]
    /\ \A k \in 1 .. Len(t) : Len(s) + k \in 1 .. Len(u) /\ u[Len(s) + k] = t[k]

LEMMA Concatenated ==
    ASSUME NEW T, NEW s \in Seq(T), NEW t \in Seq(T), NEW u, u = s \o t
    PROVE  u \in Seq(T) /\ Concat(s, t, u)
<1>1. \A k \in 1 .. Len(t) : Len(s) + k \in 1 .. Len(u) /\ u[Len(s) + k] = t[k]
  <2> TAKE k \in 1 .. Len(t)
  <2>1. Len(s) + k \in 1 .. Len(s) + Len(t) /\ Len(s) + k > Len(s) /\ (Len(s) + k) - Len(s) = k
    OBVIOUS
  <2> QED BY <2>1
<1> QED BY <1>1 DEF Concat

LEMMA Closed ==
    ASSUME TokGood, Close
    PROVE  TokGood'
<1>i. PICK ids : ids = Remaining([k \in 1 .. use.nid |-> k - 1], Ids \ DOMAIN co.mtknMap)
  OBVIOUS
<1>d. PICK D : D = [k \in 1 .. Len(ids) |-> OrderFor("delete", ids[k], co.mListIDArray[ids[k]])]
  OBVIOUS
<1>1. CoShape /\ co.state = "up" /\ Chosen
  BY DEF TokGood, Close, AppCalls, Up
<1>2. /\ ordered' = ordered \o D /\ reports' = reports /\ made' = made /\ use' = [use EXCEPT !.calls = @ - 1]
      /\ co' = [co EXCEPT !.mtknMap = <<>>, !.state = IF co.mList = <<>> THEN "closed" ELSE "freed"]
      /\ seen' = [seen EXCEPT !.left =
                   ({n.osc : n \in made} \union {<<m.path, m.text>> : m \in {m \in ToSet(ordered) : m.op = "create"}})
                   \ {co.mtknMap[id].osc : id \in DOMAIN co.mtknMap}]
  BY <1>i, <1>d DEF Close, AppCalls
<1>3. use.nid \in 1 .. 128 /\ Ids = 0 .. use.nid - 1 /\ Ids \subseteq 0 .. 127 /\ Assigned \subseteq Ids /\ DOMAIN co.mtknMap \subseteq Assigned
  <2>n. PICK n : n = use.nid
    OBVIOUS
  <2>1. n \in 1 .. 128 /\ Ids = 0 .. n - 1
    BY <2>n, <1>1 DEF CoShape, Ids
  <2>2. 0 .. n - 1 \subseteq 0 .. 127
    <3> SUFFICES ASSUME NEW x \in 0 .. n - 1 PROVE x \in 0 .. 127
      OBVIOUS
    <3>1. n \in Int /\ n <= 128 /\ x \in Int /\ 0 <= x /\ x <= n - 1
      BY <2>1
    <3> QED BY <3>1
  <2> QED BY <1>1, <2>n, <2>1, <2>2 DEF CoShape
<1>4. /\ ids \in Seq(Ids) /\ \A k \in 1 .. Len(ids) : ids[k] \in DOMAIN co.mtknMap
      /\ \A id \in DOMAIN co.mtknMap : \E k \in 1 .. Len(ids) : ids[k] = id
  <2>n. PICK n : n = use.nid
    OBVIOUS
  <2>l. PICK list : list = [k \in 1 .. n |-> k - 1]
    OBVIOUS
  <2>1. n \in 1 .. 128 /\ Ids = 0 .. n - 1
    BY <1>3, <2>n
  <2>2. list \in Seq(Ids) /\ Len(list) = n /\ \A k \in 1 .. n : list[k] = k - 1
    <3>1. n \in Nat /\ \A k \in 1 .. n : k - 1 \in 0 .. n - 1
      BY <2>1
    <3>2. list \in [1 .. n -> Ids]
      BY <2>1, <2>l, <3>1
    <3> QED BY <2>l, <3>1, <3>2
  <2>3. ids \in Seq(Ids) /\ Left(list, ids, Ids \ DOMAIN co.mtknMap)
    BY <1>i, <2>1, <2>2, <2>n, <2>l, RemainingIs
  <2>4. \A k \in 1 .. Len(ids) : ids[k] \in Ids /\ ids[k] \notin Ids \ DOMAIN co.mtknMap
    BY <2>3, AtIs DEF Left
  <2>5. ASSUME NEW id \in DOMAIN co.mtknMap PROVE \E k \in 1 .. Len(ids) : ids[k] = id
    <3>1. id \in 0 .. n - 1
      BY <1>3, <2>1
    <3>2. id + 1 \in 1 .. n /\ (id + 1) - 1 = id
      <4>1. n \in 1 .. 128
        BY <2>1
      <4> QED BY <3>1, <4>1
    <3>3. list[id + 1] = id
      BY <2>2, <3>2
    <3>4. \A k \in 1 .. Len(list) : list[k] \notin Ids \ DOMAIN co.mtknMap => \E i \in 1 .. Len(ids) : ids[i] = list[k]
      BY <2>3 DEF Left
    <3> QED BY <2>2, <3>2, <3>3, <3>4
  <2> QED BY <2>3, <2>4, <2>5
<1>5. /\ co'.mList = co.mList /\ co'.mtknMap = <<>> /\ co'.mListIDArray = co.mListIDArray /\ co'.tID = co.tID
      /\ co'.state = (IF co.mList = <<>> THEN "closed" ELSE "freed")
      /\ co' = [mList |-> co'.mList, mtknMap |-> co'.mtknMap, mListIDArray |-> co'.mListIDArray, tID |-> co'.tID, state |-> co'.state]
  BY <1>1, <1>2 DEF CoShape
<1>6. /\ seen'.over = seen.over /\ seen'.lost = seen.lost /\ seen'.meant = seen.meant /\ seen'.again = seen.again
      /\ seen'.routes = seen.routes
      /\ seen' = [over |-> seen'.over, lost |-> seen'.lost, meant |-> seen'.meant, routes |-> seen'.routes,
                   again |-> seen'.again, left |-> seen'.left]
      /\ \A osc : (\A id \in DOMAIN co.mtknMap : co.mtknMap[id].osc # osc) =>
            /\ \A n \in made : n.osc = osc => osc \in seen'.left
            /\ \A k \in 1 .. Len(ordered) : ordered[k].op = "create" /\ OscOf(ordered[k]) = osc => osc \in seen'.left
  <2>1. seen'.left = ({n.osc : n \in made} \union {<<m.path, m.text>> : m \in {m \in ToSet(ordered) : m.op = "create"}})
                   \ {co.mtknMap[id].osc : id \in DOMAIN co.mtknMap}
    BY <1>1, <1>2 DEF CoShape
  <2>2. \A k \in 1 .. Len(ordered) : ordered[k] \in ToSet(ordered)
    BY <1>1 DEF CoShape, ToSet
  <2>3. ASSUME NEW osc, \A id \in DOMAIN co.mtknMap : co.mtknMap[id].osc # osc
        PROVE  /\ \A n \in made : n.osc = osc => osc \in seen'.left
               /\ \A k \in 1 .. Len(ordered) : ordered[k].op = "create" /\ OscOf(ordered[k]) = osc => osc \in seen'.left
    <3>1. osc \notin {co.mtknMap[id].osc : id \in DOMAIN co.mtknMap}
      BY <2>3
    <3>2. \A n \in made : n.osc = osc => osc \in seen'.left
      BY <2>1, <3>1
    <3>3. ASSUME NEW k \in 1 .. Len(ordered), ordered[k].op = "create", OscOf(ordered[k]) = osc PROVE osc \in seen'.left
      <4>1. ordered[k] \in {m \in ToSet(ordered) : m.op = "create"}
        BY <2>2, <3>3
      <4>2. <<ordered[k].path, ordered[k].text>> \in {<<m.path, m.text>> : m \in {m \in ToSet(ordered) : m.op = "create"}}
        BY <4>1
      <4> QED BY <2>1, <3>1, <3>3, <4>2 DEF OscOf
    <3> QED BY <3>2, <3>3
  <2> QED BY <1>1, <1>2, <2>3 DEF CoShape
<1>7. use' = [nid |-> use'.nid, heard |-> use'.heard, calls |-> use'.calls] /\ use'.nid = use.nid
  BY <1>1, <1>2 DEF CoShape
<1>8. WhereKept
  BY <1>5, <1>6, WhereStays
<1>9. Len(ids) \in Nat /\ Len(D) = Len(ids) /\ D = [k \in 1 .. Len(D) |-> D[k]]
  BY <1>4, <1>d
<1>10. ASSUME NEW k \in 1 .. Len(D)
       PROVE  /\ ids[k] \in 0 .. 127 /\ ids[k] \in Assigned /\ InList(co.mListIDArray[ids[k]])
              /\ D[k] \in AnOrder /\ D[k].op = "delete" /\ D[k].text = Text(ids[k])
              /\ D[k].path = co.mList[co.mListIDArray[ids[k]] + 1].osc
  <2> PICK id : id = ids[k]
    OBVIOUS
  <2>1. id \in DOMAIN co.mtknMap /\ id \in 0 .. 127 /\ id \in Assigned
    BY <1>3, <1>4, <1>9
  <2>2. InList(co.mListIDArray[id])
    BY <1>1, <2>1 DEF Chosen
  <2> PICK o : o = D[k]
    OBVIOUS
  <2>3. o = OrderFor("delete", id, co.mListIDArray[id])
    BY <1>9, <1>d
  <2>4. o \in AnOrder /\ o.op = "delete" /\ o.text = Text(id) /\ o.path = co.mList[co.mListIDArray[id] + 1].osc
    BY <1>1, <2>1, <2>2, <2>3, OrderIs
  <2> QED BY <2>1, <2>2, <2>4
<1>11. D \in Seq(AnOrder)
  <2>n. PICK n : n = Len(D)
    OBVIOUS
  <2>1. n \in Nat /\ D = [k \in 1 .. n |-> D[k]] /\ \A k \in 1 .. n : D[k] \in AnOrder
    BY <2>n, <1>9, <1>10
  <2>2. D \in [1 .. n -> AnOrder]
    BY <2>1
  <2> QED BY <2>1, <2>2
<1>12. ordered \in Seq(AnOrder) /\ OrdersRight
  BY <1>1 DEF CoShape, TokGood
<1>l. PICK L : L = Len(ordered)
  OBVIOUS
<1>13. /\ ordered' \in Seq(AnOrder) /\ L \in Nat /\ Len(ordered') = L + Len(D)
       /\ \A k \in 1 .. Len(ordered') : \/ k \in 1 .. L /\ ordered'[k] = ordered[k]
                                        \/ k > L /\ k - L \in 1 .. Len(D) /\ ordered'[k] = D[k - L]
       /\ \A k \in 1 .. Len(D) : L + k \in 1 .. Len(ordered') /\ ordered'[L + k] = D[k]
  <2>1. ordered' = ordered \o D
    BY <1>2
  <2>2. ordered' \in Seq(AnOrder) /\ Concat(ordered, D, ordered')
    BY <1>11, <1>12, <2>1, Concatenated
  <2>3. L \in Nat /\ Len(ordered') = L + Len(D)
    BY <1>l, <2>2 DEF Concat
  <2>4. \A k \in 1 .. Len(ordered') : \/ k \in 1 .. L /\ ordered'[k] = ordered[k]
                                      \/ k > L /\ k - L \in 1 .. Len(D) /\ ordered'[k] = D[k - L]
    BY <1>l, <2>2, Zenon DEF Concat
  <2>5. \A k \in 1 .. Len(D) : L + k \in 1 .. Len(ordered') /\ ordered'[L + k] = D[k]
    BY <1>l, <2>2, Zenon DEF Concat
  <2>6. ordered' \in Seq(AnOrder)
    BY <2>2
  <2> QED BY <2>3, <2>4, <2>5, <2>6, Zenon
<1>14. OrdersRight'
  <2>1. ASSUME NEW k \in 1 .. Len(ordered')
        PROVE  \E i \in 0 .. 127 : (ordered[k].text = Text(i) /\ Where(ordered[k].path, i))'
    <3>1. CASE k \in 1 .. L /\ ordered'[k] = ordered[k]
      <4>1. PICK i \in 0 .. 127 : ordered[k].text = Text(i) /\ Where(ordered[k].path, i)
        BY <1>l, <1>12, <3>1 DEF OrdersRight
      <4> PICK p : p = ordered[k].path
        OBVIOUS
      <4>2. Where(p, i)'
        BY <1>8, <4>1 DEF WhereKept
      <4> QED BY <3>1, <4>1, <4>2
    <3>2. CASE k - L \in 1 .. Len(D) /\ ordered'[k] = D[k - L]
      <4> PICK d : d = D[k - L]
        OBVIOUS
      <4> PICK i : i = ids[k - L]
        OBVIOUS
      <4>1. i \in 0 .. 127 /\ i \in Assigned /\ InList(co.mListIDArray[i]) /\ d.text = Text(i) /\ d.path = co.mList[co.mListIDArray[i] + 1].osc
        BY <1>10, <3>2
      <4>2. Where(d.path, i)'
        BY <1>5, <4>1 DEF Where, InList, Assigned
      <4> QED BY <3>2, <4>1, <4>2
    <3> QED BY <1>13, <3>1, <3>2
  <2> QED BY <2>1 DEF OrdersRight
<1>15. CoShape'
  <2>1. DOMAIN co'.mtknMap \subseteq Assigned'
    BY <1>5
  <2>2. co'.state \in States
    BY <1>5 DEF States
  <2> QED BY <1>1, <1>2, <1>5, <1>6, <1>7, <1>13, <2>1, <2>2 DEF CoShape, Assigned, Ids
<1>16. Chosen'
  BY <1>1, <1>5, <1>6 DEF Chosen, Assigned, InList
<1>17. ReportsRight' /\ MadeRight' /\ RoutesRight'
  BY <1>2, <1>6, <1>8, ReportsKeep, MadeKeep, RoutesKeep DEF TokGood
<1>18. TokensKept'
  BY <1>5 DEF TokensKept
<1>19. ASSUME NEW osc,
              \/ \E n \in made : n.osc = osc
              \/ \E k \in 1 .. L : ordered[k].op = "create" /\ OscOf(ordered[k]) = osc
       PROVE  Answered(osc)'
  <2>1. CASE \A id \in DOMAIN co.mtknMap : co.mtknMap[id].osc # osc
    <3>1. osc \in seen'.left
      BY <1>l, <1>6, <1>19, <2>1
    <3> QED BY <3>1 DEF Answered
  <2>2. ASSUME NEW id \in DOMAIN co.mtknMap, co.mtknMap[id].osc = osc PROVE Answered(osc)'
    <3>1. osc = <<osc[1], Text(id)>> /\ Where(osc[1], id)
      BY <2>2 DEF TokGood, TokensKept, TokenRight
    <3>2. CASE id \in seen.again
      <4>1. osc[2] = Text(id) /\ id \in seen'.again
        BY <1>6, <3>1, <3>2
      <4> QED BY <4>1 DEF Answered
    <3>3. CASE id \notin seen.again
      <4>1. PICK j \in 1 .. Len(ids) : ids[j] = id
        BY <1>4
      <4>2. D[j].op = "delete" /\ OscOf(D[j]) = osc
        <5>1. D[j].text = Text(id) /\ D[j].path = osc[1] /\ D[j].op = "delete"
          BY <1>9, <1>10, <3>1, <3>3, <4>1 DEF Where
        <5> QED BY <3>1, <5>1 DEF OscOf
      <4>3. L + j \in 1 .. Len(ordered') /\ ordered'[L + j] = D[j]
        BY <1>9, <1>13, <4>1
      <4>4. ASSUME NEW k \in L + j .. Len(ordered') PROVE ordered'[k].op = "delete"
        <5>1. k \in 1 .. Len(ordered') /\ ~ (k \in 1 .. L)
          <6> PICK n : n = Len(D)
            OBVIOUS
          <6>1. n \in Nat /\ j \in 1 .. n /\ k \in L + j .. L + n /\ L \in Nat
            BY <1>9, <1>13, <4>1
          <6>2. k \in 1 .. L + n /\ ~ (k \in 1 .. L)
            BY <6>1
          <6> QED BY <1>13, <6>2
        <5>2. k - L \in 1 .. Len(D) /\ ordered'[k] = D[k - L]
          BY <1>13, <5>1
        <5>3. D[k - L].op = "delete"
          BY <1>10, <5>2
        <5> QED BY <5>2, <5>3
      <4>5. (ordered'[L + j].op = "delete" /\ OscOf(ordered'[L + j]) = osc)
            /\ \A k \in L + j .. Len(ordered') : ~ (ordered'[k].op = "create" /\ OscOf(ordered'[k]) = osc)
        BY <4>2, <4>3, <4>4
      <4>6. Doomed(osc)'
        BY <4>3, <4>5 DEF Doomed, OscOf
      <4> QED BY <4>6 DEF Answered
    <3> QED BY <3>2, <3>3
  <2> QED BY <2>1, <2>2
<1>20. Ending'
  <2>1. \A n \in made' : Answered(n.osc)'
    BY <1>2, <1>19
  <2>2. ASSUME NEW k \in 1 .. Len(ordered'), ordered'[k].op = "create" PROVE Answered(OscOf(ordered[k]))'
    <3>1. k \in 1 .. L /\ ordered'[k] = ordered[k]
      BY <1>10, <1>13, <2>2
    <3>o. PICK osc : osc = OscOf(ordered[k])
      OBVIOUS
    <3>2. Answered(osc)'
      <4>1. ordered[k].op = "create" /\ OscOf(ordered[k]) = osc
        BY <2>2, <3>1, <3>o
      <4>2. \E l \in 1 .. L : ordered[l].op = "create" /\ OscOf(ordered[l]) = osc
        BY <3>1, <4>1
      <4> PICK l \in 1 .. L : ordered[l].op = "create" /\ OscOf(ordered[l]) = osc
        BY <4>2
      <4> QED BY <1>19
    <3>3. OscOf(ordered[k])' = osc
      BY <3>1, <3>o DEF OscOf
    <3> QED BY <3>2, <3>3
  <2> QED BY <2>1, <2>2 DEF Ending
<1>21. MemoryExplained'
  BY <1>6 DEF TokGood, MemoryExplained
<1> QED BY <1>14, <1>15, <1>16, <1>17, <1>18, <1>20, <1>21 DEF TokGood

(* Without its first order, what was settled is settled still, except the  *)
(* module that this order deletes.                                         *)
LEMMA DoomedOn ==
    ASSUME NEW osc, ordered \in Seq(AnOrder), ordered # <<>>, ordered' = Tail(ordered), seen' = seen, Answered(osc),
           ~ (Head(ordered).op = "delete" /\ OscOf(Head(ordered)) = osc)
           \/ \E k \in 1 .. Len(ordered) : ordered[k].op = "create" /\ OscOf(ordered[k]) = osc
    PROVE  Answered(osc)'
<1> PICK n : n = Len(ordered)
  OBVIOUS
<1>1. /\ n \in Nat \ {0} /\ Len(ordered') = n - 1 /\ Head(ordered) = ordered[1]
      /\ \A k \in 1 .. n - 1 : k + 1 \in 1 .. n /\ ordered'[k] = ordered[k + 1]
      /\ \A k \in 1 .. n : k # 1 => k - 1 \in 1 .. n - 1 /\ ordered'[k - 1] = ordered[k]
  BY TailIs
<1>2. CASE ~ Doomed(osc)
  BY <1>2 DEF Answered
<1>3. CASE Doomed(osc)
  <2>1. PICK k \in 1 .. n : /\ ordered[k].op = "delete" /\ OscOf(ordered[k]) = osc
                            /\ \A j \in k .. n : ~ (ordered[j].op = "create" /\ OscOf(ordered[j]) = osc)
    BY <1>3 DEF Doomed
  <2>2. k # 1
    <3> SUFFICES ASSUME k = 1 PROVE FALSE
      OBVIOUS
    <3>1. PICK l \in 1 .. n : ordered[l].op = "create" /\ OscOf(ordered[l]) = osc
      BY <1>1, <2>1
    <3> QED BY <2>1, <3>1
  <2>3. k - 1 \in 1 .. n - 1 /\ ordered'[k - 1] = ordered[k]
    BY <1>1, <2>2
  <2>4. \A j \in k - 1 .. n - 1 : ~ (ordered'[j].op = "create" /\ OscOf(ordered'[j]) = osc)
    <3> TAKE j \in k - 1 .. n - 1
    <3>1. j \in 1 .. n - 1 /\ j + 1 \in k .. n
      BY <1>1, <2>3
    <3>2. ordered'[j] = ordered[j + 1]
      BY <1>1, <3>1
    <3> QED BY <2>1, <3>1, <3>2
  <2>5. ordered'[k - 1].op = "delete" /\ OscOf(ordered'[k - 1]) = osc
    BY <2>1, <2>3
  <2>6. Doomed(osc)'
    BY <1>1, <2>3, <2>4, <2>5 DEF Doomed, OscOf
  <2> QED BY <2>6 DEF Answered
<1> QED BY <1>2, <1>3

LEMMA NodeManaged ==
    ASSUME TokGood, Manage
    PROVE  TokGood'
<1>m. PICK m : m = Head(ordered)
  OBVIOUS
<1>n. PICK node : node = [osc |-> <<m.path, m.text>>, tID |-> Atoi(m.text)]
  OBVIOUS
<1>r. PICK report : report = [op |-> m.op, osc |-> node.osc, tID |-> node.tID]
  OBVIOUS
<1>1. /\ ordered # <<>> /\ ordered' = Tail(ordered) /\ co' = co /\ use' = use /\ seen' = seen
      /\ \/ m.op = "create" /\ made' = made \union {node} /\ reports' = Append(reports, report)
         \/ m.op = "delete" /\ made' = made \ {node} /\ reports' = Append(reports, report)
         \/ (m.op = "create" <=> node \in made) /\ made' = made /\ reports' = reports
  BY <1>m, <1>n, <1>r DEF Manage
<1>2. CoShape /\ OrdersRight /\ ReportsRight /\ MadeRight /\ Ending /\ ordered \in Seq(AnOrder) /\ reports \in Seq(AReport)
  BY DEF TokGood, CoShape
<1>3. m \in AnOrder /\ m = ordered[1] /\ 1 \in 1 .. Len(ordered) /\ ordered' \in Seq(AnOrder)
  BY <1>m, <1>1, <1>2, TailIs
<1>4. PICK id \in 0 .. 127 : m.text = Text(id) /\ Where(m.path, id)
  BY <1>2, <1>3 DEF OrdersRight
<1>5. Atoi(m.text) = id
  <2>1. id \in 0 .. 199
    OBVIOUS
  <2>2. Atoi(Text(id)) = id
    BY <2>1, TextIs
  <2> QED BY <1>4, <2>2
<1>6. node.osc = <<m.path, Text(id)>> /\ node.tID = id /\ node.osc[1] = m.path /\ node = [osc |-> <<m.path, Text(id)>>, tID |-> id]
  BY <1>n, <1>4, <1>5
<1>7. report \in AReport /\ report.osc = <<m.path, Text(id)>> /\ report.osc[1] = m.path /\ report.tID = id
  <2>1. m.op \in {"create", "delete"} /\ m.path \in {g.path : g \in Manager}
    BY <1>3 DEF AnOrder
  <2>2. report = [op |-> m.op, osc |-> <<m.path, Text(id)>>, tID |-> id]
    BY <1>r, <1>6
  <2>3. <<m.path, Text(id)>> \in {g.path : g \in Manager} \X {Text(i) : i \in 0 .. 127}
    BY <2>1
  <2>4. report \in AReport
    BY <2>1, <2>2, <2>3 DEF AReport
  <2> QED BY <2>2, <2>4
<1>8. WhereKept
  BY <1>1, WhereStays
<1>9. reports' \in Seq(AReport)
  <2>1. reports' = reports \/ reports' = Append(reports, report)
    BY <1>1
  <2> QED BY <1>2, <1>7, <2>1
<1>10. CoShape'
  BY <1>1, <1>2, <1>3, <1>9 DEF CoShape, Assigned, Ids
<1>11. Chosen'
  BY <1>1 DEF TokGood, Chosen, Assigned, InList
<1>12. OrdersRight'
  <2>1. ASSUME NEW k \in 1 .. Len(ordered')
        PROVE  \E i \in 0 .. 127 : (ordered[k].text = Text(i) /\ Where(ordered[k].path, i))'
    <3>1. k + 1 \in 1 .. Len(ordered) /\ ordered'[k] = ordered[k + 1]
      BY <1>1, <1>2, TailIs
    <3> PICK o : o = ordered[k + 1]
      OBVIOUS
    <3>2. PICK i \in 0 .. 127 : o.text = Text(i) /\ Where(o.path, i)
      BY <1>2, <3>1 DEF OrdersRight
    <3>3. Where(o.path, i)'
      BY <1>8, <3>2 DEF WhereKept
    <3> QED BY <3>1, <3>2, <3>3
  <2> QED BY <2>1 DEF OrdersRight
<1>13. ReportsRight'
  <2>1. CASE reports' = reports
    BY <1>2, <1>8, <2>1, ReportsKeep
  <2>2. CASE reports' = Append(reports, report)
    <3>1. /\ Len(reports') = Len(reports) + 1 /\ Len(reports) \in Nat
          /\ reports'[Len(reports) + 1] = report /\ \A k \in 1 .. Len(reports) : reports'[k] = reports[k]
      BY <1>2, <1>7, <2>2
    <3>2. ASSUME NEW k \in 1 .. Len(reports')
          PROVE  (reports[k].osc = <<reports[k].osc[1], Text(reports[k].tID)>> /\ Where(reports[k].osc[1], reports[k].tID))'
      <4> PICK r : r = reports'[k]
        OBVIOUS
      <4>1. r.osc = <<r.osc[1], Text(r.tID)>> /\ Where(r.osc[1], r.tID)
        <5>1. CASE k \in 1 .. Len(reports)
          BY <1>2, <3>1, <5>1 DEF ReportsRight
        <5>2. CASE k = Len(reports) + 1
          BY <1>4, <1>7, <3>1, <5>2
        <5> QED BY <3>1, <5>1, <5>2
      <4>2. Where(r.osc[1], r.tID)'
        BY <1>8, <4>1 DEF WhereKept
      <4> QED BY <4>1, <4>2
    <3> QED BY <3>2 DEF ReportsRight
  <2> QED BY <1>1, <2>1, <2>2
<1>14. MadeRight'
  <2>1. \A n \in made' : n \in made \/ n = node
    BY <1>1
  <2>2. node = [osc |-> <<node.osc[1], Text(node.tID)>>, tID |-> node.tID] /\ node.tID \in 0 .. 127
    BY <1>6
  <2> QED BY <1>2, <2>1, <2>2 DEF MadeRight
<1>15. TokensKept' /\ RoutesRight'
  BY <1>1, <1>8, TokensKeep, RoutesKeep DEF TokGood
<1>16. Ending'
  <2> SUFFICES ASSUME co.state \in {"freed", "closed"}
               PROVE  /\ \A n \in made' : Answered(n.osc)'
                      /\ \A k \in 1 .. Len(ordered') : ordered'[k].op = "create" => Answered(OscOf(ordered[k]))'
    BY <1>1 DEF Ending
  <2>1. /\ \A n \in made : Answered(n.osc)
        /\ \A k \in 1 .. Len(ordered) : ordered[k].op = "create" => Answered(OscOf(ordered[k]))
    BY <1>2 DEF Ending
  <2>2. OscOf(m) = node.osc
    BY <1>4, <1>6 DEF OscOf
  <2>3. ASSUME NEW n \in made' PROVE Answered(n.osc)'
    <3>1. CASE n = node /\ m.op = "create"
      <4>1. Answered(node.osc) /\ ordered[1].op = "create" /\ OscOf(ordered[1]) = node.osc
        BY <1>3, <2>1, <2>2, <3>1
      <4>2. \E k \in 1 .. Len(ordered) : ordered[k].op = "create" /\ OscOf(ordered[k]) = node.osc
        BY <1>3, <4>1
      <4> QED BY <1>1, <1>2, <1>3, <3>1, <4>1, <4>2, DoomedOn
    <3>2. CASE n \in made /\ ~ (m.op = "delete" /\ n = node)
      <4>1. Answered(n.osc)
        BY <2>1, <3>2
      <4>2. m.op = "delete" => OscOf(m) # n.osc
        <5> SUFFICES ASSUME m.op = "delete", OscOf(m) = n.osc PROVE FALSE
          OBVIOUS
        <5>1. n = [osc |-> <<n.osc[1], Text(n.tID)>>, tID |-> n.tID] /\ n.tID \in 0 .. 127
          BY <1>2, <3>2 DEF MadeRight
        <5>2. n.osc = <<m.path, Text(id)>>
          BY <1>6, <2>2
        <5>3. n.osc = <<n.osc[1], Text(n.tID)>>
          BY <5>1
        <5>4. Text(n.tID) = Text(id) /\ n.osc[1] = m.path
          BY <5>2, <5>3
        <5>5. n.tID = id
          BY <5>1, <5>4, TextApart
        <5> QED BY <1>6, <3>2, <5>1, <5>4, <5>5
      <4> QED BY <1>1, <1>2, <1>m, <4>1, <4>2, DoomedOn
    <3>3. n \in made \/ (n = node /\ m.op = "create")
      BY <1>1
    <3>4. m.op = "delete" => n # node
      <4>1. node \in made' => ~ (m.op = "delete")
        BY <1>1
      <4> QED BY <4>1
    <3> QED BY <3>1, <3>2, <3>3, <3>4
  <2>4. ASSUME NEW k \in 1 .. Len(ordered'), ordered'[k].op = "create" PROVE Answered(OscOf(ordered[k]))'
    <3>1. k + 1 \in 1 .. Len(ordered) /\ ordered'[k] = ordered[k + 1]
      BY <1>1, <1>2, TailIs
    <3> PICK osc : osc = OscOf(ordered[k + 1])
      OBVIOUS
    <3>2. Answered(osc) /\ ordered[k + 1].op = "create"
      BY <2>1, <2>4, <3>1
    <3>3. Answered(osc)'
      <4>1. \E l \in 1 .. Len(ordered) : ordered[l].op = "create" /\ OscOf(ordered[l]) = osc
        BY <3>1, <3>2
      <4> QED BY <1>1, <1>2, <3>2, <4>1, DoomedOn
    <3>4. OscOf(ordered[k])' = osc
      BY <3>1 DEF OscOf
    <3> QED BY <3>3, <3>4
  <2> QED BY <2>3, <2>4
<1>17. MemoryExplained'
  BY <1>1 DEF TokGood, MemoryExplained
<1> QED BY <1>10, <1>11, <1>12, <1>13, <1>14, <1>15, <1>16, <1>17 DEF TokGood

-----------------------------------------------------------------------------
LEMMA TokensStep ==
    ASSUME TokGood, [TokensNext]_tokens
    PROVE  TokGood'
<1>1. CASE UNCHANGED tokens
  <2>1. co' = co /\ ordered' = ordered /\ reports' = reports /\ made' = made /\ use' = use /\ seen' = seen
    BY <1>1 DEF tokens
  <2>2. WhereKept
    BY <2>1, WhereStays
  <2>3. CoShape' /\ Chosen'
    BY <2>1 DEF TokGood, CoShape, Assigned, Ids, Chosen, InList
  <2>4. OrdersRight' /\ ReportsRight' /\ MadeRight' /\ TokensKept' /\ RoutesRight'
    BY <2>1, <2>2, OrdersKeep, ReportsKeep, MadeKeep, TokensKeep, RoutesKeep DEF TokGood
  <2>5. Ending' /\ MemoryExplained'
    BY <2>1 DEF TokGood, Ending, Answered, Doomed, OscOf, MemoryExplained
  <2> QED BY <2>3, <2>4, <2>5 DEF TokGood
<1>2. CASE TokensNext
  <2>1. ASSUME NEW g \in Manager, SetMList(g) PROVE TokGood'
    BY <2>1, ListGrows
  <2>2. ASSUME NEW part \in DOMAIN Containing, CreateModule(part) PROVE TokGood'
    BY <2>2, ModuleAsked
  <2>3. ASSUME NEW id \in DOMAIN co.mListIDArray, DeleteModule(id) PROVE TokGood'
    BY <2>3, DeletionAsked
  <2>4. ASSUME NEW id, NEW inID \in 0 .. 2, Connect(id, inID) PROVE TokGood'
    BY <2>4, Connected
  <2>5. CASE Close
    BY <2>5, Closed
  <2>6. CASE Manage
    BY <2>6, NodeManaged
  <2>7. CASE Reported
    BY <2>7, NodeReported
  <2> QED BY <1>2, <2>1, <2>2, <2>3, <2>4, <2>5, <2>6, <2>7 DEF TokensNext
<1> QED BY <1>1, <1>2

LEMMA TokensBegin ==
    ASSUME NEW usage, usage.nid \in 1 .. 128, usage.tID \in 0 .. usage.nid, TokensInit(usage)
    PROVE  TokGood
<1>1. /\ co = [mList |-> <<>>, mtknMap |-> <<>>, mListIDArray |-> <<>>, tID |-> usage.tID, state |-> "up"]
      /\ ordered = <<>> /\ reports = <<>>
      /\ made \subseteq {[osc |-> <<g.path, <<0>>>>, tID |-> 0] : g \in Manager}
      /\ use = [nid |-> usage.nid, heard |-> usage.heard, calls |-> usage.calls]
      /\ seen = [over |-> {}, lost |-> {}, meant |-> <<>>, routes |-> {}, again |-> {}, left |-> {}]
  BY DEF TokensInit
<1>2. DOMAIN co.mListIDArray = {} /\ DOMAIN co.mtknMap = {} /\ co.state = "up" /\ co.mList = <<>> /\ co.tID = usage.tID
  BY <1>1
<1>3. CoShape
  <2>1. ordered \in Seq(AnOrder) /\ reports \in Seq(AReport) /\ co.mList \in Seq(ListEntry)
    BY <1>1, <1>2
  <2>2. use.nid \in 1 .. 128 /\ co.tID \in 0 .. use.nid
    BY <1>1, <1>2
  <2> QED BY <1>1, <1>2, <2>1, <2>2 DEF CoShape, Assigned, States
<1>4. Chosen
  BY <1>2 DEF Chosen, Assigned
<1>5. OrdersRight /\ ReportsRight
  BY <1>1 DEF OrdersRight, ReportsRight
<1>6. MadeRight
  <2>1. Text(0) = <<0>>
    BY DEF Text
  <2>2. ASSUME NEW n \in made PROVE n = [osc |-> <<n.osc[1], Text(n.tID)>>, tID |-> n.tID] /\ n.tID \in 0 .. 127
    <3>1. PICK g \in Manager : n = [osc |-> <<g.path, <<0>>>>, tID |-> 0]
      BY <1>1
    <3> QED BY <2>1, <3>1
  <2> QED BY <2>2 DEF MadeRight
<1>7. TokensKept /\ RoutesRight /\ Ending /\ MemoryExplained
  BY <1>1, <1>2 DEF TokensKept, RoutesRight, Ending, MemoryExplained
<1> QED BY <1>3, <1>4, <1>5, <1>6, <1>7 DEF TokGood

LEMMA TokensAgree ==
    ASSUME TokGood
    PROVE  TokensInv
<1>1. CoShape /\ Chosen /\ MadeRight
  BY DEF TokGood
<1>2. TokensTypeOK
  BY <1>1 DEF TokensTypeOK, CoShape, Assigned, States
<1>3. \A g \in Manager : ManagerAt(g.path) = g
  BY TokensAssumption DEF ManagerAt
<1>4. ASSUME NEW n \in made PROVE Atoi(n.osc[2]) = n.tID /\ (n.osc[2][1] = 0 => n.osc[2] = <<0>>) /\ n.osc[2] = Text(n.tID) /\ n.tID \in 0 .. 127
  <2>1. n.tID \in 0 .. 127 /\ n.osc = <<n.osc[1], Text(n.tID)>>
    BY <1>1 DEF MadeRight
  <2>2. n.osc[2] = Text(n.tID)
    BY <2>1
  <2> PICK id \in 0 .. 199 : id = n.tID
    BY <2>1
  <2>3. Atoi(Text(id)) = id /\ (Text(id)[1] = 0 => Text(id) = <<0>>)
    BY TextIs
  <2> QED BY <2>1, <2>2, <2>3
<1>5. ASSUME NEW id \in DOMAIN co.mtknMap
      PROVE  LET g == ManagerAt(co.mtknMap[id].osc[1]) IN
             /\ co.mtknMap[id].tID = id /\ Atoi(co.mtknMap[id].osc[2]) = id
             /\ co.mtknMap[id].inputInfo = Split(g.in) \o Split(g.out) \/ id \in seen.again
  <2>1. TokenRight(id, co.mtknMap[id])
    BY DEF TokGood, TokensKept
  <2>2. id \in 0 .. 127
    <3> PICK n : n = use.nid
      OBVIOUS
    <3>1. n \in 1 .. 128 /\ id \in 0 .. n - 1
      BY <1>1 DEF CoShape, Assigned, Ids
    <3> QED BY <3>1
  <2>3. co.mtknMap[id].osc[2] = Text(id) /\ co.mtknMap[id].tID = id
    BY <2>1 DEF TokenRight
  <2>4. Atoi(co.mtknMap[id].osc[2]) = id
    <3>1. id \in 0 .. 199
      BY <2>2
    <3>2. Atoi(Text(id)) = id
      BY <3>1, TextIs
    <3> QED BY <2>3, <3>2
  <2>5. id \in seen.again \/ \E g \in Manager : co.mtknMap[id].osc[1] = g.path /\ co.mtknMap[id].inputInfo = Names(g)
    BY <2>1 DEF TokenRight
  <2> QED BY <1>3, <2>3, <2>4, <2>5 DEF Names
<1>6. ASSUME NEW r \in seen.routes
      PROVE  LET in  == Split(ManagerAt(r[2][1]).in)
                 out == Split(ManagerAt(r[2][1]).out)
             IN r[1] \in seen.again \/ r[4] = IF r[3] < Len(in) THEN in[r[3] + 1] ELSE out[r[3] - Len(in) + 1]
  <2>1. CASE r[1] \in seen.again
    BY <2>1
  <2>2. CASE r[1] \notin seen.again
    <3>1. PICK g \in Manager : g.path = r[2][1] /\ r[4] = Names(g)[r[3] + 1] /\ r[3] \in 0 .. Len(Names(g)) - 1
      BY <2>2 DEF TokGood, RoutesRight
    <3>2. ManagerAt(r[2][1]) = g
      BY <1>3, <3>1
    <3>s. PICK s : s = Split(g.in)
      OBVIOUS
    <3>t. PICK t : t = Split(g.out)
      OBVIOUS
    <3>u. PICK u : u = s \o t
      OBVIOUS
    <3>k. PICK k : k = r[3]
      OBVIOUS
    <3>3. s \in Seq(DOMAIN Letters) /\ t \in Seq(DOMAIN Letters) /\ u = Names(g)
      BY <3>s, <3>t, <3>u, SplitIs DEF Names
    <3>4. /\ Len(s) \in Nat /\ Len(t) \in Nat /\ Len(u) = Len(s) + Len(t)
          /\ \A i \in 1 .. Len(u) : \/ i \in 1 .. Len(s) /\ u[i] = s[i]
                                    \/ i > Len(s) /\ i - Len(s) \in 1 .. Len(t) /\ u[i] = t[i - Len(s)]
      <4>1. Concat(s, t, u)
        BY <3>u, <3>3, Concatenated
      <4> QED BY <4>1 DEF Concat
    <3>5. k \in 0 .. Len(u) - 1 /\ r[4] = u[k + 1]
      BY <3>k, <3>1, <3>3
    <3>6. k + 1 \in 1 .. Len(u) /\ (k + 1) - Len(s) = k - Len(s) + 1 /\ (k + 1 \in 1 .. Len(s) <=> k < Len(s))
      BY <3>4, <3>5
    <3>7. u[k + 1] = IF k < Len(s) THEN s[k + 1] ELSE t[k - Len(s) + 1]
      <4>1. CASE k < Len(s)
        BY <3>4, <3>6, <4>1
      <4>2. CASE ~ (k < Len(s))
        BY <3>4, <3>6, <4>2
      <4> QED BY <4>1, <4>2
    <3> QED BY <3>s, <3>t, <3>k, <3>2, <3>5, <3>7
  <2> QED BY <2>1, <2>2
<1>7. TokensRight
  BY <1>4, <1>5, <1>6 DEF TokensRight
<1>8. MadeAsMeant
  BY <1>1 DEF MadeAsMeant, Chosen, Assigned
<1>9. EndsAll
  <2>1. co.state = "closed" => co.mList = <<>>
    BY <1>1 DEF Chosen
  <2>2. ASSUME co.state \in {"freed", "closed"}, ordered = <<>>, NEW n \in made PROVE n.osc \in seen.left \/ n.tID \in seen.again
    <3>1. Answered(n.osc)
      BY <2>2 DEF TokGood, Ending
    <3>2. ~ Doomed(n.osc)
      BY <2>2 DEF Doomed
    <3>3. ASSUME NEW id \in seen.again, n.osc[2] = Text(id) PROVE n.tID = id
      <4>1. id \in 0 .. 127
        <5> PICK k : k = use.nid
          OBVIOUS
        <5>1. k \in 1 .. 128 /\ id \in 0 .. k - 1
          BY <1>1 DEF CoShape, Assigned, Ids
        <5> QED BY <5>1
      <4> QED BY <1>4, <3>3, <4>1, TextApart
    <3> QED BY <3>1, <3>2, <3>3 DEF Answered
  <2> QED BY <2>1, <2>2 DEF EndsAll
<1> QED BY <1>2, <1>7, <1>8, <1>9 DEF TokensInv, TokGood



-----------------------------------------------------------------------------
(* The Serial: ports that were opened for a device *)
Openings(d) == Cardinality({k \in 1 .. Len(files) : files[k] = d})

PortState == [fd : Nat, active : BOOLEAN, thread : {"unset", "live", "joined"}, cb : BOOLEAN,
                 ud : BOOLEAN, oldtio : {"unset", "own", "raw"}]
ReaderState == [pc : {"none", "test", "read", "call", "ended"}, got : BOOLEAN]

PortShape ==
    /\ port \in PortState
    /\ reader \in ReaderState
    /\ app = [pc |-> app.pc, next |-> app.next] /\ app.next \in Dev \union {NOBODY}
    /\ app.pc \in {"none", "new", "idle", "join", "stopped", "gone", "ud", "writer"}
    /\ manager \in [objectID : BOOLEAN, writeData : BOOLEAN, ud : BOOLEAN]
    /\ setting \in [Dev -> {"own", "raw"}]
    /\ files \in Seq(Dev) /\ there \subseteq Dev
    /\ wrong \in {"no", "join", "callback", "object", "write", "port"}

(* The two threads *)
ThreadGood ==
    /\ ReaderRuns => port.thread = "live" /\ (port.active \/ app.pc = "join")
    /\ ReaderRuns /\ port.fd = 0 => absent
    /\ app.pc \in {"none", "new", "stopped", "gone"} => ~ ReaderRuns
    /\ port.cb /\ ~ port.ud => app.pc = "ud"
    /\ app.pc = "writer" \/ manager.ud => manager.writeData
    /\ wrong = "join" => app.pc = "join"

(* What a device was set to when it was opened last *)
SettingGood ==
    /\ port.fd \in {0, Len(files)}
    /\ app.pc # "gone" => \A d \in Dev : setting[d] = "own" <=> Openings(d) = 0
    /\ port.fd # 0 => (port.oldtio \in {"own", "raw"} /\ (port.oldtio = "own" <=> Openings(files[port.fd]) = 1))

PortGood == PortShape /\ ThreadGood /\ SettingGood /\ WrongExplained /\ SettingsRestored

LEMMA OpeningsAre ==
    ASSUME files \in Seq(Dev)
    PROVE  /\ \A d : Openings(d) \in Nat
           /\ \A k \in 1 .. Len(files) : Openings(files[k]) # 0
  <1>1. \A d : IsFiniteSet({k \in 1 .. Len(files) : files[k] = d})
    <2> Len(files) \in Nat
      OBVIOUS
    <2>1. IsFiniteSet(1 .. Len(files))
      BY FS_Interval
    <2> QED BY <2>1, FS_Subset
  <1>2. ASSUME NEW k \in 1 .. Len(files) PROVE Openings(files[k]) # 0
    <2> DEFINE S == {i \in 1 .. Len(files) : files[i] = files[k]}
    <2>1. S # {}
      OBVIOUS
    <2>2. IsFiniteSet(S)
      BY <1>1
    <2> QED BY <2>1, <2>2, FS_EmptySet DEF Openings
  <1> QED BY <1>1, <1>2, FS_CardinalityType DEF Openings

LEMMA OneOpening ==
    ASSUME files \in Seq(Dev), NEW d \in Dev, files' = Append(files, d)
    PROVE  /\ Openings(d)' = Openings(d) + 1
           /\ \A e \in Dev \ {d} : Openings(e)' = Openings(e)
           /\ Len(files') = Len(files) + 1 /\ files'[Len(files')] = d
  <1> DEFINE S(e) == {k \in 1 .. Len(files) : files[k] = e}
             T(e) == {k \in 1 .. Len(files') : files'[k] = e}
  <1>0. Len(files) \in Nat /\ Len(files') = Len(files) + 1 /\ files'[Len(files) + 1] = d
        /\ \A k \in 1 .. Len(files) : files'[k] = files[k]
    OBVIOUS
  <1>1. T(d) = S(d) \union {Len(files) + 1} /\ Len(files) + 1 \notin S(d)
    BY <1>0
  <1>2. \A e \in Dev \ {d} : T(e) = S(e)
    BY <1>0
  <1>3. IsFiniteSet(S(d))
    <2>1. IsFiniteSet(1 .. Len(files))
      BY <1>0, FS_Interval
    <2> QED BY <2>1, FS_Subset
  <1>4. Cardinality(T(d)) = Cardinality(S(d)) + 1
    BY <1>1, <1>3, FS_AddElement
  <1> QED BY <1>0, <1>2, <1>4 DEF Openings

LEMMA PortBegins == ASSUME NEW uses, uses.there \subseteq Dev, PortInit(uses) PROVE PortGood
  <1>1. PortShape /\ ThreadGood
    BY PortAssumption DEF PortInit, PortShape, PortState, ReaderState, ThreadGood, ReaderRuns
  <1>2. \A d : Openings(d) = 0
    <2>1. \A d : {k \in 1 .. Len(files) : files[k] = d} = {}
      BY DEF PortInit
    <2> QED BY <2>1, FS_EmptySet DEF Openings
  <1> QED BY <1>1, <1>2 DEF PortInit, PortGood, SettingGood, WrongExplained, SettingsRestored

(* A step that opens nothing *)
LEMMA PortKeeps ==
    ASSUME PortGood, UNCHANGED <<files, setting>>, there' \subseteq there,
           port'.fd = port.fd, port'.oldtio = port.oldtio, app'.pc = "gone" => app.pc = "gone",
           app.pc = "gone" => app'.pc = "gone"
    PROVE  SettingGood' /\ SettingsRestored'
  BY DEF PortGood, SettingGood, SettingsRestored, Openings, PortShape

LEMMA StartedSo ==
    ASSUME PortShape, NEW p \in PortState, threadStart(p)
    PROVE  /\ port' \in PortState /\ port'.fd = p.fd /\ port'.oldtio = p.oldtio
           /\ port'.cb = p.cb /\ port'.ud = p.ud /\ port'.active
           /\ ((port'.thread = "live" /\ reader'.pc = "test") \/ reader' = reader)
           /\ reader' \in ReaderState
  <1>1. CASE port' = [p EXCEPT !.active = TRUE, !.thread = "live"] /\ reader' = [pc |-> "test", got |-> FALSE]
    BY <1>1 DEF PortState, ReaderState
  <1>2. CASE port' = [p EXCEPT !.active = TRUE] /\ UNCHANGED reader
    BY <1>2 DEF PortState, PortShape
  <1> QED BY <1>1, <1>2 DEF threadStart

LEMMA PreparedIs ==
    ASSUME PortGood, NEW d \in Dev
    PROVE  Prepared(d) \in PortState /\ Prepared(d).cb = port.cb /\ Prepared(d).ud = port.ud
  <1>1. port \in PortState /\ Len(files) + 1 \in Nat /\ setting[d] \in {"own", "raw"}
    BY DEF PortGood, PortShape
  <1> QED BY <1>1 DEF Prepared, PortState

LEMMA OpeningPort ==
    ASSUME PortGood, NEW d \in Dev, prepareSerial(d), NEW p, p = Prepared(d),
           port' \in PortState,
           port'.fd = p.fd, port'.oldtio = p.oldtio, app.pc # "gone", app'.pc # "gone"
    PROVE  SettingGood' /\ SettingsRestored' /\ files' \in Seq(Dev) /\ setting' \in [Dev -> {"own", "raw"}]
           /\ (port'.fd = 0 <=> d \notin there)
  <1>1. CASE d \notin there
    BY <1>1 DEF PortGood, SettingGood, SettingsRestored, Openings, PortShape, prepareSerial, Prepared
  <1>2. CASE d \in there
    <2>1. /\ files' = Append(files, d) /\ setting' = [setting EXCEPT ![d] = "raw"]
          /\ port'.fd = Len(files) + 1 /\ port'.oldtio = setting[d]
      BY <1>2 DEF prepareSerial, Prepared, PortGood, PortShape
    <2>2. /\ Openings(d)' = Openings(d) + 1 /\ Openings(d) \in Nat
          /\ \A e \in Dev \ {d} : Openings(e)' = Openings(e)
          /\ Len(files') = Len(files) + 1 /\ files'[Len(files')] = d /\ Len(files) \in Nat
      BY <2>1, OneOpening, OpeningsAre DEF PortGood, PortShape
    <2>3. \A e \in Dev : setting[e] = "own" <=> Openings(e) = 0
      BY DEF PortGood, SettingGood
    <2>4. setting \in [Dev -> {"own", "raw"}] /\ files \in Seq(Dev)
      BY DEF PortGood, PortShape
    <2>5. \A e \in Dev : (setting[e] = "own" <=> Openings(e) = 0)'
      BY <2>1, <2>2, <2>3, <2>4
    <2>6. files'[port'.fd] = d /\ port'.fd = Len(files') /\ port'.fd # 0
      BY <2>1, <2>2
    <2>7. port'.oldtio \in {"own", "raw"} /\ (port'.oldtio = "own" <=> Openings(d)' = 1)
      BY <2>1, <2>2, <2>3, <2>4
    <2>8. Openings(files[port.fd])' = Openings(d)'
      BY <2>6
    <2>9. SettingGood'
      BY <2>5, <2>6, <2>7, <2>8 DEF SettingGood
    <2> QED BY <2>1, <2>4, <2>6, <2>9, <1>2 DEF SettingsRestored
  <1> QED BY <1>1, <1>2

LEMMA PortStep == PortGood /\ [SerialDeviceNext]_serialDevice => PortGood'
  <1> SUFFICES ASSUME PortGood, [SerialDeviceNext]_serialDevice PROVE PortGood'
    OBVIOUS
  <1> USE DEF PortShape, PortState, ReaderState
  <1>0. PortShape /\ ThreadGood /\ WrongExplained
    BY DEF PortGood
  <1>1. CASE NewSerial
    <2>1. CASE Modem \in there
      <3>1. threadStart(Prepared(Modem)) /\ prepareSerial(Modem)
        BY <1>1, <2>1 DEF NewSerial
      <3>2. port' \in PortState
            /\ port'.fd = Prepared(Modem).fd /\ port'.oldtio = Prepared(Modem).oldtio
            /\ port'.cb = port.cb /\ port'.ud = port.ud /\ port'.active
            /\ ((port'.thread = "live" /\ reader'.pc = "test") \/ reader' = reader)
            /\ reader' \in ReaderState
        BY <1>0, <3>1, PreparedIs, StartedSo, PortAssumption
      <3>3. SettingGood' /\ SettingsRestored' /\ files' \in Seq(Dev) /\ setting' \in [Dev -> {"own", "raw"}]
            /\ (port'.fd = 0 <=> Modem \notin there)
        <4>1. app.pc # "gone" /\ app'.pc # "gone"
          BY <1>0, <1>1 DEF NewSerial
        <4> HIDE DEF PortShape
        <4> QED BY <3>1, <3>2, <4>1, OpeningPort, PortAssumption
      <3> QED BY <1>0, <1>1, <2>1, <3>2, <3>3 DEF NewSerial, PortGood, ThreadGood, WrongExplained, ReaderRuns, PortOutside
    <2>2. CASE Modem \notin there
      <3>1. port' = Prepared(Modem) /\ prepareSerial(Modem) /\ reader' = reader
        BY <1>1, <2>2 DEF NewSerial
      <3>2. port' = [port EXCEPT !.fd = 0]
        BY <2>2, <3>1 DEF Prepared
      <3>5. port' \in PortState /\ port'.cb = port.cb /\ port'.ud = port.ud
        BY <3>1, PreparedIs, PortAssumption
      <3>3. SettingGood' /\ SettingsRestored' /\ files' \in Seq(Dev) /\ setting' \in [Dev -> {"own", "raw"}]
        <4>1. app.pc # "gone" /\ app'.pc # "gone"
          BY <1>0, <1>1 DEF NewSerial
        <4>2. port' \in PortState
          BY <3>1, PreparedIs, PortAssumption
        <4> HIDE DEF PortShape
        <4> QED BY <3>1, <4>1, <4>2, OpeningPort, PortAssumption
      <3> QED BY <1>0, <1>1, <3>1, <3>5, <3>3 DEF NewSerial, PortGood, ThreadGood, WrongExplained, ReaderRuns, PortOutside
    <2> QED BY <2>1, <2>2
  <1>2. ASSUME NEW d \in Dev \union {NOBODY}, threadStop(d) PROVE PortGood'
    <2>1. SettingGood' /\ SettingsRestored'
      BY <1>0, <1>2, PortKeeps DEF threadStop, ByApp, PortOutside
    <2> QED BY <1>0, <1>2, <2>1 DEF threadStop, ByApp, PortOutside, PortGood, ThreadGood, WrongExplained, ReaderRuns, PortFine
  <1>3. CASE Join
    <2>1. SettingGood' /\ SettingsRestored'
      BY <1>0, <1>3, PortKeeps DEF Join
    <2> QED BY <1>0, <1>3, <2>1 DEF Join, PortGood, ThreadGood, WrongExplained, ReaderRuns, PortFine
  <1>4. CASE Reopen
    <2>1. threadStart(Prepared(app.next)) /\ prepareSerial(app.next) /\ app.next \in Dev
      BY <1>0, <1>4, PortAssumption DEF Reopen
    <2>2. port' \in PortState
          /\ port'.fd = Prepared(app.next).fd /\ port'.oldtio = Prepared(app.next).oldtio
          /\ port'.cb = port.cb /\ port'.ud = port.ud /\ port'.active
          /\ ((port'.thread = "live" /\ reader'.pc = "test") \/ reader' = reader)
          /\ reader' \in ReaderState
      BY <1>0, <2>1, PreparedIs, StartedSo
    <2>3. SettingGood' /\ SettingsRestored' /\ files' \in Seq(Dev) /\ setting' \in [Dev -> {"own", "raw"}]
          /\ (port'.fd = 0 <=> app.next \notin there)
      <3>1. app.pc # "gone" /\ app'.pc # "gone"
        BY <1>0, <1>4 DEF Reopen
      <3> HIDE DEF PortShape
      <3> QED BY <2>1, <2>2, <3>1, OpeningPort
    <2> QED BY <1>0, <1>4, <2>2, <2>3 DEF Reopen, PortGood, ThreadGood, WrongExplained, ReaderRuns, PortOutside, PortFine
  <1>5. CASE Destroyed
    <2>1. \A d \in Dev : setting[d] = "own" <=> Openings(d) = 0
      BY <1>5 DEF Destroyed, PortGood, SettingGood
    <2>2. /\ port.fd \in {0, Len(files)}
          /\ port.fd # 0 => port.fd \in 1 .. Len(files) /\ files[port.fd] \in Dev /\ Openings(files[port.fd]) # 0
          /\ port.fd # 0 => (port.oldtio \in {"own", "raw"} /\ (port.oldtio = "own" <=> Openings(files[port.fd]) = 1))
      <3>1. /\ port.fd \in {0, Len(files)} /\ Len(files) \in Nat
            /\ port.fd # 0 => (port.oldtio \in {"own", "raw"} /\ (port.oldtio = "own" <=> Openings(files[port.fd]) = 1))
        BY <1>0 DEF PortGood, SettingGood
      <3>2. port.fd # 0 => port.fd \in 1 .. Len(files)
        BY <3>1
      <3> QED BY <1>0, <3>1, <3>2, OpeningsAre
    <2>3. /\ UNCHANGED <<port, files, there>> /\ app'.pc = "gone"
          /\ \A d \in Dev : Openings(d)' = Openings(d)
      BY <1>0, <1>5 DEF Destroyed, PortOutside, Openings
    <2>4. setting' = IF port.fd # 0 /\ files[port.fd] \in there
                     THEN [setting EXCEPT ![files[port.fd]] = port.oldtio] ELSE setting
      BY <1>5 DEF Destroyed
    <2>5. setting' \in [Dev -> {"own", "raw"}]
      BY <1>0, <2>2, <2>4
    <2>6. SettingsRestored'
      <3> SUFFICES ASSUME NEW d \in there
                   PROVE  setting'[d] = "own" <=> (Openings(d) = 0 \/ (Openings(d) = 1 /\ port.fd # 0 /\ files[port.fd] = d))
        BY <2>3 DEF SettingsRestored, Openings
      <3>1. d \in Dev /\ setting[d] \in {"own", "raw"} /\ Openings(d) \in Nat
        BY <1>0, OpeningsAre
      <3>2. CASE port.fd # 0 /\ files[port.fd] = d
        BY <1>0, <2>1, <2>2, <2>4, <3>1, <3>2
      <3>3. CASE ~ (port.fd # 0 /\ files[port.fd] = d)
        <4>1. setting'[d] = setting[d]
          BY <1>0, <2>2, <2>4, <3>1, <3>3
        <4> QED BY <2>1, <3>1, <3>3, <4>1
      <3> QED BY <3>2, <3>3
    <2>7. SettingGood'
      <3>1. Openings(files[port.fd])' = Openings(files[port.fd])
        BY <2>3 DEF Openings
      <3> QED BY <2>2, <2>3, <3>1 DEF SettingGood
    <2> QED BY <1>0, <1>5, <2>5, <2>6, <2>7 DEF Destroyed, PortGood, ThreadGood, WrongExplained, ReaderRuns, PortOutside, PortFine
  <1>6. CASE SetCallback
    <2>1. SettingGood' /\ SettingsRestored'
      BY <1>0, <1>6, PortKeeps DEF SetCallback, ByApp, PortOutside
    <2>2. port' \in PortState /\ app' = [pc |-> app'.pc, next |-> app.next]
      BY <1>0, <1>6 DEF SetCallback, ByApp, PortState
    <2>3. \/ app.pc = "idle" /\ app'.pc = "ud" /\ port'.cb /\ port'.ud = port.ud
          \/ app.pc = "ud" /\ app'.pc = "idle" /\ port'.cb = port.cb /\ port'.ud
      BY <1>0, <1>6 DEF SetCallback, ByApp, PortState
    <2>4. port'.active = port.active /\ port'.thread = port.thread /\ port'.fd = port.fd
      BY <1>0, <1>6 DEF SetCallback, ByApp, PortState
    <2> QED BY <1>0, <1>6, <2>1, <2>2, <2>3, <2>4 DEF SetCallback, ByApp, PortOutside, PortGood, ThreadGood, WrongExplained, ReaderRuns, PortFine
  <1>7. CASE SetManager
    <2>1. SettingGood' /\ SettingsRestored'
      BY <1>0, <1>7, PortKeeps DEF SetManager, ByApp
    <2>2. /\ manager' \in [objectID : BOOLEAN, writeData : BOOLEAN, ud : BOOLEAN]
          /\ app' = [pc |-> app'.pc, next |-> app.next]
      BY <1>0, <1>7 DEF SetManager, ByApp
    <2>3. \/ app.pc = "idle" /\ app'.pc = "idle" /\ manager'.ud = manager.ud /\ manager'.writeData = manager.writeData
          \/ app.pc = "idle" /\ app'.pc = "writer" /\ manager'.ud = manager.ud /\ manager'.writeData
          \/ app.pc = "writer" /\ app'.pc = "idle" /\ manager'.ud /\ manager'.writeData = manager.writeData
      BY <1>0, <1>7 DEF SetManager, ByApp
    <2> QED BY <1>0, <1>7, <2>1, <2>2, <2>3 DEF SetManager, ByApp, PortGood, ThreadGood, WrongExplained, ReaderRuns, PortFine
  <1>8. CASE TestActive \/ ReadDevice \/ CallBack
    <2>1. SettingGood' /\ SettingsRestored'
      BY <1>0, <1>8, PortKeeps DEF TestActive, ReadDevice, CallBack, Unheard
    <2>2. reader' \in ReaderState
      <3>1. CASE TestActive
        BY <1>0, <3>1 DEF TestActive
      <3>2. CASE ReadDevice
        <4>1. reader' = [pc |-> "call", got |-> FALSE] \/ reader' = [pc |-> "call", got |-> TRUE]
          BY <3>2 DEF ReadDevice
        <4>2. /\ [pc |-> "call", got |-> FALSE] \in ReaderState
              /\ [pc |-> "call", got |-> TRUE] \in ReaderState
          BY DEF ReaderState
        <4> HIDE DEF ReaderState
        <4> QED BY <4>1, <4>2
      <3>3. CASE CallBack
        BY <1>0, <3>3 DEF CallBack
      <3> QED BY <1>8, <3>1, <3>2, <3>3
    <2>3. ReaderRuns' => ReaderRuns /\ (reader'.pc = "read" => port.active \/ app.pc = "join")
      BY <1>0, <1>8 DEF TestActive, ReadDevice, CallBack, ReaderState, ReaderRuns, ThreadGood
    <2> HIDE DEF PortShape, PortState, ReaderState
    <2>4. PortShape'
      BY <1>0, <1>8, <2>2 DEF TestActive, ReadDevice, CallBack, Unheard, PortShape
    <2> QED BY <1>0, <1>8, <2>1, <2>3, <2>4 DEF TestActive, ReadDevice, CallBack, Unheard, PortGood, ThreadGood, WrongExplained, ReaderRuns, PortFine
  <1>9. ASSUME NEW o \in Knobs, MakeKnob(o) \/ DeleteKnob(o) PROVE PortGood'
    <2>1. SettingGood' /\ SettingsRestored'
      BY <1>0, <1>9, PortKeeps DEF MakeKnob, DeleteKnob
    <2> QED BY <1>0, <1>9, <2>1 DEF MakeKnob, DeleteKnob, PortGood, ThreadGood, WrongExplained, ReaderRuns, PortFine, KnobOrder
  <1>10. ASSUME NEW o \in Knobs, Intensity(o) PROVE PortGood'
    <2>1. SettingGood' /\ SettingsRestored'
      BY <1>0, <1>10, PortKeeps DEF Intensity
    <2> QED BY <1>0, <1>10, <2>1 DEF Intensity, PortGood, ThreadGood, WrongExplained, ReaderRuns, PortFine, KnobOrder, Unset, WriteData
  <1>11. ASSUME NEW d \in Dev, DeviceLine(d) \/ Unplug(d) PROVE PortGood'
    <2>1. SettingGood' /\ SettingsRestored'
      BY <1>0, <1>11, PortKeeps DEF DeviceLine, Unplug, PortRest
    <2> QED BY <1>0, <1>11, <2>1 DEF DeviceLine, Unplug, PortRest, PortGood, ThreadGood, WrongExplained, ReaderRuns, PortFine, AtDevice
  <1>12. CASE UNCHANGED serialDevice
    <2>1. SettingGood' /\ SettingsRestored'
      BY <1>0, <1>12, PortKeeps DEF serialDevice
    <2> QED BY <1>0, <1>12, <2>1 DEF serialDevice, PortGood, ThreadGood, WrongExplained, ReaderRuns
  <1> QED BY <1>1, <1>2, <1>3, <1>4, <1>5, <1>6, <1>7, <1>8, <1>9, <1>10, <1>11, <1>12 DEF SerialDeviceNext

LEMMA PortAgrees == PortGood => PortInv
  <1> SUFFICES ASSUME PortGood PROVE PortInv
    OBVIOUS
  <1>1. PortTypeOK
    BY DEF PortGood, PortShape, PortState, ReaderState, PortTypeOK, SettingGood
  <1> QED BY <1>1 DEF PortGood, ThreadGood, PortInv, ThreadKnown

-----------------------------------------------------------------------------
(* What modules belong to, and what reads the line for them: a token has   *)
(* the names its manager announced, and the end of a coordinator leaves no *)
(* module it knew of (MToken.cpp, Coordinator.cpp); a method outlives what *)
(* it belongs to only at a manager's first address, and requests are heard *)
(* until another manager is destroyed (ModuleManager.h, Module.cpp); and a *)
(* Serial knows of each thread that reads for it (Serial.cpp).             *)
THEOREM Objects == Spec => []ObjectsInv
  <1> DEFINE Good3 == TokGood /\ MgrGood /\ PortGood
  <1>1. Init => Good3
    <2> SUFFICES ASSUME Init PROVE Good3
      OBVIOUS
    <2>1. PICK s \in Scenario : TokensInit(s[8]) /\ PortInit(s[9]) /\ ManagersInit(s[10])
      BY DEF Init
    <2>2. s[8].nid \in 1 .. 128 /\ s[8].tID \in 0 .. s[8].nid /\ s[9].there \subseteq Dev
      BY ScenarioAssumption
    <2> QED BY <2>1, <2>2, TokensBegin, PortBegins, ManagersBegin
  <1>2. Good3 /\ [Next]_vars => Good3'
    <2> SUFFICES ASSUME Good3, [Next]_vars PROVE Good3'
      OBVIOUS
    <2>1. [TokensNext]_tokens /\ [SerialDeviceNext]_serialDevice /\ [ManagersNext]_managers
      BY DEF Next, vars, apart
    <2> QED BY <2>1, TokensStep, PortStep, ManagersStep
  <1>3. Good3 => ObjectsInv
    BY TokensAgree, PortAgrees, ManagersAgree DEF ObjectsInv
  <1> QED BY <1>1, <1>2, <1>3, PTL DEF Spec

(* The sockets of liblo.  A socket is closed by whoever keeps it and       *)
(* nothing is done to a descriptor that has become another's, unless an    *)
(* address gave its socket to a server or an answer failed (create_socket, *)
(* send_data in send.c); sockets get lost in these two ways, with a port   *)
(* that is in use and with an interface that is not found (server.c);      *)
(* datagrams go out through a live server's socket; and no thread runs in  *)
(* a server that is freed, nor two in one, unless a handler stops its own  *)
(* (server_thread.c).                                                      *)
THEOREM Sockets == Spec => []SocketsInv
  <1>1. Init => SocketsGood
    BY InitSockets DEF Init
  <1>2. SocketsGood /\ [Next]_vars => SocketsGood'
    <2> SUFFICES ASSUME SocketsGood, [Next]_vars PROVE SocketsGood'
      OBVIOUS
    <2>1. [SocketsNext]_sockets
      BY DEF Next, vars, apart
    <2> QED BY <2>1, NextSockets
  <1>3. SocketsGood => SocketsInv
    BY GoodSockets
  <1> QED BY <1>1, <1>2, <1>3, PTL DEF Spec

-----------------------------------------------------------------------------
(* AudioSource.  How often a packet was sent                               *)
SentAt(s, p) == {k \in 1 .. Len(s) : s[k] = p}
Times(s, p) == Cardinality(SentAt(s, p))

LEMMA SentFinite ==
    ASSUME NEW T, NEW s \in Seq(T), NEW p
    PROVE  IsFiniteSet(SentAt(s, p))
<1>1. IsFiniteSet(1 .. Len(s))
  BY FS_Interval
<1>2. SentAt(s, p) \subseteq 1 .. Len(s)
  BY DEF SentAt
<1> QED BY <1>1, <1>2, FS_Subset

LEMMA SentAgain ==
    ASSUME NEW T, NEW s \in Seq(T), NEW p, NEW x \in T
    PROVE  /\ x = p => Times(Append(s, x), p) = Times(s, p) + 1
           /\ x # p => Times(Append(s, x), p) = Times(s, p)
<1>1. Len(Append(s, x)) = Len(s) + 1 /\ Len(s) \in Nat /\ Append(s, x)[Len(s) + 1] = x
      /\ \A k \in 1 .. Len(s) : Append(s, x)[k] = s[k]
  OBVIOUS
<1>2. CASE x = p
  <2>1. SentAt(Append(s, x), p) = SentAt(s, p) \union {Len(s) + 1}
    BY <1>1, <1>2 DEF SentAt
  <2>2. Len(s) + 1 \notin SentAt(s, p)
    BY <1>1 DEF SentAt
  <2>3. IsFiniteSet(SentAt(s, p))
    BY SentFinite
  <2> QED BY <1>2, <2>1, <2>2, <2>3, FS_AddElement DEF Times
<1>3. CASE x # p
  <2>1. SentAt(Append(s, x), p) = SentAt(s, p)
    BY <1>1, <1>3 DEF SentAt
  <2> QED BY <1>3, <2>1 DEF Times
<1> QED BY <1>2, <1>3

LEMMA NeverSent ==
    ASSUME NEW n \in Nat, NEW s \in Seq(0 .. n), NEW p, p \notin 0 .. n
    PROVE  Times(s, p) = 0
<1>1. SentAt(s, p) = {}
  BY DEF SentAt
<1> QED BY <1>1, FS_EmptySet DEF Times

Sounds == [file : Nat, timer : BOOLEAN, looping : BOOLEAN, ctor : BOOLEAN, orders : Nat, beats : Nat, life : Nat]
Handling == upc \in {"realloc", "null", "size"}

SoundTyped ==
    /\ sound \in Sounds /\ AudioTypeOK
    /\ packets \in Nat /\ silent \subseteq 1 .. packets
    /\ \A t \in Thread : rpc[t] = "sample" => count[t] < NumPackets

(* What the threads do at one time                                         *)
InTurn ==
    /\ rpc["UDP"] # "idle" => upc = "idle" /\ packets > 0 /\ inBuf \in {0, packets}
    /\ upc \in {"realloc", "fill"} => packets > 0 /\ inBuf # packets
    /\ Handling /\ rpc["timer"] # "idle" => met
    /\ ~ Wrong /\ stage = "methods" => \A t \in Thread : rpc[t] \in {"idle", "start"}

(* What is known of the recording's memory                                 *)
Recorded ==
    /\ data = FREED /\ stage # "gone" => upc = "null"
    /\ data \in Nat /\ upc \in {"idle", "fill"} => packetSize = 0 \/ data = packetSize
    /\ \A t \in Thread : rpc[t] = "sample" /\ stage # "gone" => data \in Nat \/ met

(* Where render reads                                                      *)
Inside == location = 0 \/ location < packetSize * Part
Reads == isPlaying \/ ~ BeingRecorded \/ \E t \in Thread : rpc[t] = "sample"
Placed ==
    ~ met /\ ~ resumed =>
       /\ upc \in {"null", "size"} /\ isPlaying => location = 0
       /\ ~ short /\ Reads => Inside

(* A packet is on its way through the UDP thread, or has been passed on    *)
Underway(p) == p = packets /\ (rpc["UDP"] # "idle" \/ upc \in {"realloc", "fill"})
PacketGood(p) ==
    \/ p \in mixed
    \/ /\ p = packets /\ upc \in {"realloc", "fill"}
       /\ p \notin silent /\ Times(passedOn, p) = 0
    \/ /\ p = packets /\ rpc["UDP"] # "idle" /\ rpc["timer"] = "idle" /\ inBuf = p
       /\ p \notin silent /\ Times(passedOn, p) = IF rpc["UDP"] = "clear" THEN 1 ELSE 0
    \/ /\ ~ Underway(p) /\ p \notin silent /\ Times(passedOn, p) = 1 /\ inBuf # p
    \/ /\ ~ Underway(p) /\ p \in silent
       /\ Times(passedOn, p) = 0 \/ (Times(passedOn, p) = 1 /\ (inBuf = p => rpc["timer"] = "clear"))
PacketsGood == ~ Wrong => \A p \in 1 .. packets : PacketGood(p)

SoundGood == SoundTyped /\ InTurn /\ Recorded /\ Placed /\ FaultExplained /\ PacketsGood

LEMMA SoundBegins == Init => SoundGood
<1> SUFFICES ASSUME Init PROVE SoundGood
  OBVIOUS
<1>0. AudioInit /\ SoundAssumption
  BY SoundAssumption DEF Init
<1>1. SoundTyped
  <2>1. sound \in Sounds /\ sound.file \in Nat
    BY <1>0 DEF AudioInit, SoundAssumption, Sounds
  <2>2. AudioTypeOK
    <3>1. data \in Nat \union {NONE, FREED} /\ packetSize \in Nat
      BY <1>0, <2>1 DEF AudioInit
    <3>2. passedOn \in Seq(0 .. packets) /\ inBuf \in 0 .. packets
      BY <1>0 DEF AudioInit
    <3>3. count \in [Thread -> 0 .. NumPackets] /\ rpc \in [Thread -> {"idle", "start", "sample", "mix", "clear"}]
      BY <1>0 DEF AudioInit, SoundAssumption
    <3> QED BY <1>0, <3>1, <3>2, <3>3 DEF AudioInit, SoundAssumption, AudioTypeOK
  <2> QED BY <1>0, <2>1, <2>2 DEF AudioInit, SoundTyped, Thread
<1>2. InTurn /\ Recorded /\ FaultExplained /\ PacketsGood
  BY <1>0 DEF AudioInit, SoundAssumption, InTurn, Recorded, Wrong, FaultExplained, PacketsGood, Thread, Handling, Sounds
<1>3. Placed
  BY <1>0 DEF AudioInit, Placed, Inside
<1> QED BY <1>1, <1>2, <1>3 DEF SoundGood

(* Steps that leave the packets alone *)
LEMMA PacketsStay ==
    ASSUME PacketsGood, ~ Wrong, UNCHANGED <<packets, silent, passedOn, inBuf, mixed, rpc>>,
           upc' = upc \/ {upc, upc'} \intersect {"realloc", "fill"} = {} \/ <<upc, upc'>> = <<"realloc", "fill">>
    PROVE  PacketsGood'
<1> SUFFICES ASSUME NEW p \in 1 .. packets PROVE PacketGood(p)'
  BY DEF PacketsGood
<1>1. PacketGood(p)
  BY DEF PacketsGood
<1> QED BY <1>1 DEF PacketGood, Underway

LEMMA Bounded ==
    ASSUME sound \in Sounds,
           \/ Order
           \/ sound.beats > 0 /\ sound' = [sound EXCEPT !.beats = @ - 1]
           \/ sound.life > 0 /\ sound' = [sound EXCEPT !.life = @ - 1]
    PROVE  /\ sound' \in Sounds
           /\ sound'.looping = sound.looping /\ sound'.ctor = sound.ctor /\ sound'.file = sound.file
<1>1. sound = [file |-> sound.file, timer |-> sound.timer, looping |-> sound.looping, ctor |-> sound.ctor,
               orders |-> sound.orders, beats |-> sound.beats, life |-> sound.life]
      /\ sound.file \in Nat /\ sound.timer \in BOOLEAN /\ sound.looping \in BOOLEAN /\ sound.ctor \in BOOLEAN
      /\ sound.orders \in Nat /\ sound.beats \in Nat /\ sound.life \in Nat
  BY DEF Sounds
<1> DEFINE R(o, b, l) == [file |-> sound.file, timer |-> sound.timer, looping |-> sound.looping, ctor |-> sound.ctor,
                          orders |-> o, beats |-> b, life |-> l]
<1>2. \E o, b, l \in Nat : sound' = R(o, b, l)
  <2>1. CASE Order
    <3>1. sound.orders - 1 \in Nat /\ sound' = R(sound.orders - 1, sound.beats, sound.life)
      BY <1>1, <2>1 DEF Order
    <3> QED BY <1>1, <3>1
  <2>2. CASE sound.beats > 0 /\ sound' = [sound EXCEPT !.beats = @ - 1]
    <3>1. sound.beats - 1 \in Nat /\ sound' = R(sound.orders, sound.beats - 1, sound.life)
      BY <1>1, <2>2
    <3> QED BY <1>1, <3>1
  <2>3. CASE sound.life > 0 /\ sound' = [sound EXCEPT !.life = @ - 1]
    <3>1. sound.life - 1 \in Nat /\ sound' = R(sound.orders, sound.beats, sound.life - 1)
      BY <1>1, <2>3
    <3> QED BY <1>1, <3>1
  <2> QED BY <2>1, <2>2, <2>3
<1> QED BY <1>1, <1>2 DEF Sounds

LEMMA SoundHandles ==
    ASSUME SoundGood, Audio \/ Realloc \/ Record \/ ResetNull \/ ResetSize
    PROVE  SoundTyped' /\ InTurn' /\ Recorded' /\ FaultExplained'
<1> USE SoundAssumption DEF SoundAssumption, SoundGood, render, player, rec, past
<1>1. CASE Audio
  <2>1. SoundTyped'
    <3>1. sound' \in Sounds
      BY <1>1, Bounded DEF Audio, SoundTyped
    <3>2. passedOn' \in Seq(0 .. packets') /\ inBuf' \in 0 .. packets' /\ packets' \in Nat /\ silent' \subseteq 1 .. packets'
      <4>1. packets' = packets + 1 /\ packets \in Nat /\ passedOn \in Seq(0 .. packets) /\ passedOn' = passedOn
        BY <1>1 DEF Audio, SoundTyped, AudioTypeOK
      <4>2. \A i \in 1 .. Len(passedOn) : passedOn[i] \in 0 .. packets'
        BY <4>1
      <4>3. passedOn' \in Seq(0 .. packets')
        BY <4>1, <4>2, IsSeq
      <4> QED BY <1>1, <4>1, <4>3 DEF Audio, SoundTyped, AudioTypeOK
    <3> QED BY <1>1, <3>1, <3>2 DEF Audio, Idle, Order, SoundTyped, AudioTypeOK, Thread
  <2>2. InTurn'
    BY <1>1 DEF Audio, Idle, Order, Changes, Rendering, SoundTyped, AudioTypeOK, InTurn, Handling, Wrong, Thread
  <2>3. Recorded'
    BY <1>1 DEF Audio, Idle, Order, Changes, Rendering, SoundTyped, AudioTypeOK, Recorded, Wrong, Thread
  <2>4. FaultExplained'
    BY <1>1 DEF Audio, Idle, Order, SoundTyped, Sounds, Wrong, FaultExplained, HasBuffers
  <2> QED BY <2>1, <2>2, <2>3, <2>4
<1>2. CASE Realloc
  <2>1. SoundTyped'
    BY <1>2 DEF Realloc, SoundTyped, AudioTypeOK, Thread
  <2>2. InTurn'
    BY <1>2 DEF Realloc, Changes, Rendering, InTurn, Handling, Wrong, Thread
  <2>3. Recorded'
    BY <1>2 DEF Realloc, Changes, Rendering, SoundTyped, AudioTypeOK, Recorded, Thread
  <2>4. FaultExplained'
    BY <1>2 DEF Realloc, Wrong, FaultExplained
  <2> QED BY <2>1, <2>2, <2>3, <2>4
<1>3. CASE Record
  <2>1. SoundTyped'
    <3>1. sound' \in Sounds
      BY <1>3, Bounded DEF Record, SoundTyped
    <3> QED BY <1>3, <3>1 DEF Record, Heard, Order, SoundTyped, AudioTypeOK, Thread
  <2>2. InTurn'
    BY <1>3 DEF Record, Heard, Idle, Changes, Rendering, InTurn, Handling, Wrong, Thread
  <2>3. Recorded'
    BY <1>3 DEF Record, Heard, Idle, Changes, Rendering, SoundTyped, AudioTypeOK, Recorded, Thread
  <2>4. FaultExplained'
    BY <1>3 DEF Record, Heard, Idle, Wrong, FaultExplained
  <2> QED BY <2>1, <2>2, <2>3, <2>4
<1>4. CASE ResetNull
  <2>1. SoundTyped'
    BY <1>4 DEF ResetNull, SoundTyped, AudioTypeOK, Thread
  <2>2. InTurn'
    BY <1>4 DEF ResetNull, Changes, Rendering, InTurn, Handling, Wrong, Thread
  <2>3. Recorded'
    BY <1>4 DEF ResetNull, Changes, Rendering, SoundTyped, AudioTypeOK, InTurn, Recorded, Thread
  <2>4. FaultExplained'
    BY <1>4 DEF ResetNull, Wrong, FaultExplained
  <2> QED BY <2>1, <2>2, <2>3, <2>4
<1>5. CASE ResetSize
  <2>1. SoundTyped'
    BY <1>5 DEF ResetSize, SoundTyped, AudioTypeOK, Thread
  <2>2. InTurn'
    BY <1>5 DEF ResetSize, Changes, Rendering, InTurn, Handling, Wrong, Thread
  <2>3. Recorded'
    BY <1>5 DEF ResetSize, Changes, Rendering, SoundTyped, AudioTypeOK, InTurn, Recorded, Thread
  <2>4. FaultExplained'
    BY <1>5 DEF ResetSize, Wrong, FaultExplained
  <2> QED BY <2>1, <2>2, <2>3, <2>4
<1> QED BY <1>1, <1>2, <1>3, <1>4, <1>5

LEMMA SoundGoesOn ==
    ASSUME SoundGood, Fill \/ Beat \/ Stop \/ Data \/ (\E v \in Int : SettingRate(v))
    PROVE  SoundTyped' /\ InTurn' /\ Recorded' /\ FaultExplained'
<1> USE SoundAssumption DEF SoundAssumption, SoundGood, render, player, rec, past
<1>1. CASE Fill
  <2>1. SoundTyped'
    BY <1>1 DEF Fill, SoundTyped, AudioTypeOK, Thread
  <2>2. InTurn'
    BY <1>1 DEF Fill, SoundTyped, AudioTypeOK, InTurn, Handling, Wrong, Thread
  <2>3. Recorded'
    BY <1>1 DEF Fill, SoundTyped, AudioTypeOK, Recorded, Thread
  <2>4. FaultExplained'
    BY <1>1 DEF Fill, Wrong, FaultExplained, HasBuffers
  <2> QED BY <2>1, <2>2, <2>3, <2>4
<1>2. CASE Beat
  <2>0. sound' \in Sounds
    BY <1>2, Bounded DEF Beat, SoundTyped
  <2>1. SoundTyped'
    BY <1>2, <2>0 DEF Beat, SoundTyped, AudioTypeOK, Thread
  <2>2. InTurn'
    BY <1>2 DEF Beat, SoundTyped, AudioTypeOK, InTurn, Handling, Wrong, Thread
  <2>3. Recorded'
    BY <1>2 DEF Beat, SoundTyped, AudioTypeOK, Recorded, Thread
  <2>4. FaultExplained'
    BY <1>2 DEF Beat, Wrong, FaultExplained
  <2> QED BY <2>1, <2>2, <2>3, <2>4
<1>3. CASE Stop
  <2>0. sound' \in Sounds
    BY <1>3, Bounded DEF Stop, SoundTyped
  <2>1. SoundTyped'
    BY <1>3, <2>0 DEF Stop, SoundTyped, AudioTypeOK, Thread
  <2>2. InTurn'
    BY <1>3 DEF Stop, InTurn, Handling, Wrong, Thread
  <2>3. Recorded'
    BY <1>3 DEF Stop, Recorded, Thread
  <2>4. FaultExplained'
    BY <1>3 DEF Stop, Heard, Idle, Wrong, FaultExplained
  <2> QED BY <2>1, <2>2, <2>3, <2>4
<1>4. CASE Data \/ \E v \in Int : SettingRate(v)
  <2>0. sound' \in Sounds /\ sound'.ctor = sound.ctor
    BY <1>4, Bounded DEF Data, SettingRate, SoundTyped
  <2>1. location' \in Nat /\ rate' \in Nat /\ isPlaying' \in BOOLEAN
    <3>1. ASSUME NEW v \in Int, data1(v) \/ data2(v) PROVE location' \in Nat /\ rate' \in Nat /\ isPlaying' \in BOOLEAN
      <4> DEFINE a == (Part * v) \div 64
                 b == (Part * (63 + v)) \div 127
      <4>1. v > 0 => a \in Nat /\ b \in Nat
        <5> SUFFICES ASSUME v > 0 PROVE a \in Nat /\ b \in Nat
          OBVIOUS
        <5>1. Part * v \in Nat /\ Part * (63 + v) \in Nat
          OBVIOUS
        <5> HIDE DEF SoundAssumption
        <5> QED BY <5>1
      <4>2. data2(v) => rate' = IF v > 64 THEN a ELSE IF v > 0 THEN b ELSE Part
        BY DEF data2
      <4>3. data1(v) => rate' = rate
        BY DEF data1
      <4> HIDE DEF a, b
      <4>4. rate' \in Nat
        BY <3>1, <4>1, <4>2, <4>3 DEF SoundTyped, AudioTypeOK
      <4>5. location' \in {location, 0} /\ isPlaying' = (v > 0)
        BY <3>1 DEF data1, data2
      <4> QED BY <4>4, <4>5 DEF SoundTyped, AudioTypeOK
    <3>2. ASSUME NEW bits \in FloatBits, fdata(bits) PROVE location' \in Nat /\ rate' \in Nat /\ isPlaying' \in BOOLEAN
      <4>1. Part * bits \in Nat
        OBVIOUS
      <4> QED BY <3>2, <4>1 DEF fdata, SoundTyped, AudioTypeOK
    <3>3. CASE UNCHANGED <<location, rate, isPlaying>>
      BY <3>3 DEF SoundTyped, AudioTypeOK
    <3>4. CASE Data
      BY <3>1, <3>2, <3>4 DEF Data
    <3>5. ASSUME NEW v \in Int, SettingRate(v) PROVE location' \in Nat /\ rate' \in Nat /\ isPlaying' \in BOOLEAN
      BY <3>1, <3>3, <3>5 DEF SettingRate
    <3> QED BY <1>4, <3>4, <3>5
  <2>2. UNCHANGED <<stage, data, packetSize, isRecording, inBuf, upc, rpc, count, passedOn, fault, packets, silent, met, mixed, short>>
    BY <1>4 DEF Data, SettingRate
  <2>3. SoundTyped'
    BY <2>0, <2>1, <2>2 DEF SoundTyped, AudioTypeOK
  <2>4. InTurn'
    BY <2>2 DEF InTurn, Handling, Wrong
  <2>5. Recorded'
    BY <2>2 DEF Recorded
  <2>6. FaultExplained'
    <3>1. resumed => resumed'
      BY <1>4 DEF Data, SettingRate, SwitchedOn
    <3> QED BY <2>0, <2>2, <3>1 DEF FaultExplained, HasBuffers
  <2> QED BY <2>3, <2>4, <2>5, <2>6
<1> QED BY <1>1, <1>2, <1>3, <1>4

LEMMA SoundLives ==
    ASSUME SoundGood, TCPThread
    PROVE  SoundTyped' /\ InTurn' /\ Recorded' /\ FaultExplained' /\ Placed' /\ PacketsGood'
<1> USE SoundAssumption DEF SoundAssumption, SoundGood, render, player, rec, past
<1>0. sound' \in Sounds /\ sound'.ctor = sound.ctor /\ sound'.file = sound.file /\ sound.file \in Nat /\ ~ Wrong
  <2>1. sound.life > 0 /\ sound' = [sound EXCEPT !.life = @ - 1] /\ ~ Wrong /\ sound \in Sounds
    BY DEF TCPThread, Buffers, Load, Free, Deaf, Gone, Live, SoundTyped
  <2> QED BY <2>1, Bounded DEF Sounds
<1>1. UNCHANGED <<packets, silent, passedOn, inBuf, mixed, rpc, count, upc, isRecording, resumed, short>>
  BY DEF TCPThread, Buffers, Load, Free, Deaf, Gone, Unused
<1>2. PacketsGood'
  BY <1>0, <1>1, PacketsStay
<1>3. CASE Buffers
  <2>1. SoundTyped'
    BY <1>0, <1>1, <1>3 DEF Buffers, Live, SoundTyped, AudioTypeOK, Thread
  <2>2. InTurn'
    BY <1>0, <1>1, <1>3 DEF Buffers, Live, InTurn, Handling, Wrong, Thread
  <2>3. Recorded'
    BY <1>0, <1>1, <1>3 DEF Buffers, Live, InTurn, Recorded, Thread
  <2>4. FaultExplained'
    BY <1>0, <1>3 DEF Buffers, Live, Wrong, Recorded, FaultExplained
  <2>5. Placed'
    BY <1>3 DEF Buffers, Placed, Inside
  <2> QED BY <1>2, <2>1, <2>2, <2>3, <2>4, <2>5
<1>4. CASE Load \/ Free \/ Deaf \/ Gone
  <2>1. SoundTyped'
    BY <1>0, <1>1, <1>4 DEF Load, Free, Deaf, Gone, Unused, Live, SoundTyped, AudioTypeOK, Thread
  <2>2. InTurn'
    BY <1>0, <1>1, <1>4 DEF Load, Free, Deaf, Gone, Unused, Live, InTurn, Handling, Wrong, Thread
  <2>3. Recorded'
    BY <1>0, <1>1, <1>4 DEF Load, Free, Deaf, Gone, Unused, Live, SoundTyped, AudioTypeOK, InTurn, Recorded, Thread
  <2>4. FaultExplained'
    BY <1>0, <1>4 DEF Load, Free, Deaf, Gone, Unused, Live, Wrong, Recorded, FaultExplained
  <2>5. Placed'
    BY <1>1, <1>4 DEF Load, Free, Deaf, Gone, Unused, Placed, Inside, Reads, BeingRecorded
  <2> QED BY <1>2, <2>1, <2>2, <2>3, <2>4, <2>5
<1> QED BY <1>3, <1>4 DEF TCPThread

(* Where render reads, while handlers are at work                          *)
LEMMA PlacedHandling ==
    ASSUME SoundGood, Audio \/ Realloc \/ Record \/ ResetNull \/ ResetSize \/ Fill \/ Beat \/ Stop
    PROVE  Placed'
<1> USE SoundAssumption DEF SoundAssumption, SoundGood, render, player, rec, past
<1>1. CASE Audio
  <2>1. /\ location' = location /\ isPlaying' = isPlaying /\ isRecording' = isRecording /\ rpc' = rpc
        /\ resumed' = resumed /\ short' = short /\ (met => met') /\ upc = "idle" /\ upc' \in {"idle", "realloc", "fill"}
        /\ packetSize' \in {packetSize, packetSize + NumPackets}
    BY <1>1 DEF Audio, Idle, Changes
  <2>2. location < packetSize * Part => location < packetSize' * Part
    <3>1. packetSize \in Nat /\ location \in Nat /\ NumPackets \in Nat /\ Part \in Nat
      BY DEF SoundTyped, AudioTypeOK
    <3> DEFINE a == packetSize * Part
               b == NumPackets * Part
               c == packetSize' * Part
    <3>2. a \in Nat /\ b \in Nat
      BY <3>1
    <3>3. c = a \/ c = a + b
      <4>1. CASE packetSize' = packetSize
        BY <4>1
      <4>2. CASE packetSize' = packetSize + NumPackets
        <5>1. (packetSize + NumPackets) * Part = packetSize * Part + NumPackets * Part
          BY <3>1
        <5> QED BY <4>2, <5>1
      <4> QED BY <2>1, <4>1, <4>2
    <3> HIDE DEF a, b, c
    <3>4. location < a => location < c
      BY <3>1, <3>2, <3>3
    <3> QED BY <3>4 DEF a, c
  <2>3. Inside => Inside'
    BY <2>1, <2>2 DEF Inside
  <2> QED BY <2>1, <2>3 DEF Placed, Reads, BeingRecorded
<1>2. CASE Realloc \/ Fill
  <2>1. /\ UNCHANGED <<location, isPlaying, isRecording, resumed, short, packetSize>> /\ (met => met')
        /\ upc' \in {"idle", "fill"} /\ upc \in {"realloc", "fill"}
        /\ \A t \in Thread : rpc'[t] = "sample" => rpc[t] = "sample"
    <3>1. CASE Realloc
      BY <3>1 DEF Realloc, Changes
    <3>2. CASE Fill
      BY <3>2 DEF Fill, SoundTyped, AudioTypeOK, Thread
    <3> QED BY <1>2, <3>1, <3>2
  <2> QED BY <2>1 DEF Placed, Inside, Reads, BeingRecorded
<1>3. CASE Record
  <2>1. /\ UNCHANGED <<location, isRecording, resumed, short, packetSize, rpc>> /\ (met => met')
        /\ upc = "idle" /\ isPlaying' = FALSE /\ (isRecording \/ upc' = "null")
    BY <1>3 DEF Record, Heard, Idle, Changes
  <2> QED BY <2>1 DEF Placed, Inside, Reads, BeingRecorded
<1>4. CASE ResetNull
  <2>1. UNCHANGED <<location, isPlaying, isRecording, resumed, short, packetSize, rpc>> /\ (met => met') /\ upc = "null" /\ upc' = "size"
    BY <1>4 DEF ResetNull, Changes
  <2> QED BY <2>1 DEF Placed, Inside, Reads, BeingRecorded
<1>5. CASE ResetSize
  <2>1. UNCHANGED <<location, isPlaying, resumed, short, rpc>> /\ (met => met') /\ upc = "size" /\ upc' = "idle" /\ isRecording'
    BY <1>5 DEF ResetSize, Changes
  <2>2. ~ met' => \A t \in Thread : rpc[t] = "idle"
    BY <1>5 DEF ResetSize, Changes, Rendering, InTurn, Thread
  <2> QED BY <2>1, <2>2 DEF Placed, Inside, Reads, BeingRecorded
<1>6. CASE Beat
  <2>1. UNCHANGED <<location, isPlaying, isRecording, resumed, short, packetSize, upc>> /\ (met => met')
        /\ \A t \in Thread : rpc'[t] = "sample" => rpc[t] = "sample"
    BY <1>6 DEF Beat, SoundTyped, AudioTypeOK, Thread
  <2> QED BY <2>1 DEF Placed, Inside, Reads, BeingRecorded
<1>7. CASE Stop
  BY <1>7 DEF Stop, Placed, Inside
<1> QED BY <1>1, <1>2, <1>3, <1>4, <1>5, <1>6, <1>7

(* An order that sets the player                                           *)
LEMMA PlacedOrdered ==
    ASSUME SoundGood, Data \/ \E v \in Int : SettingRate(v)
    PROVE  Placed'
<1> USE SoundGood DEF SoundGood
<1>1. UNCHANGED <<stage, data, packetSize, isRecording, inBuf, upc, rpc, passedOn, fault, packets, met, mixed, short>>
  BY DEF Data, SettingRate, render, rec
<1>2. CASE UNCHANGED <<location, isPlaying, resumed>>
  BY <1>1, <1>2 DEF Placed, Inside, Reads, BeingRecorded
<1>3. CASE SwitchedOn /\ location' = 0
  BY <1>3 DEF Placed, Inside
<1>4. CASE SwitchedOn /\ location' = location /\ isPlaying' = TRUE
  <2>1. CASE isPlaying
    BY <1>1, <1>4, <2>1 DEF SwitchedOn, Placed, Inside, Reads, BeingRecorded
  <2>2. CASE ~ isPlaying
    BY <1>1, <1>4, <2>2 DEF SwitchedOn, Placed, Inside, Reads, BeingRecorded
  <2> QED BY <2>1, <2>2
<1>5. (\E v \in Int : data1(v) \/ data2(v)) \/ (\E bits \in FloatBits : fdata(bits))
      => location' = 0 \/ (location' = location /\ isPlaying' = TRUE)
  BY DEF data1, data2, fdata
<1>6. CASE Data
  BY <1>3, <1>4, <1>5, <1>6, SoundAssumption DEF Data, SoundAssumption
<1>7. ASSUME NEW v \in Int, SettingRate(v) PROVE Placed'
  BY <1>2, <1>3, <1>4, <1>5, <1>7 DEF SettingRate, player
<1> QED BY <1>6, <1>7

-----------------------------------------------------------------------------
(* Packets, while handlers are at work                                     *)
LEMMA PacketsHandled ==
    ASSUME SoundGood, Audio \/ Realloc \/ Record \/ ResetNull \/ ResetSize \/ Fill \/ Beat \/ Stop
                      \/ Data \/ \E v \in Int : SettingRate(v)
    PROVE  PacketsGood'
<1> USE SoundGood DEF SoundGood, render, player, rec, past
<1>0. CASE Wrong
  <2>1. UNCHANGED <<fault>>
    BY <1>0 DEF Audio, Realloc, Record, ResetNull, ResetSize, Fill, Beat, Stop, Data, SettingRate, Heard, Idle
  <2> QED BY <1>0, <2>1 DEF PacketsGood, Wrong
<1>1. CASE ~ Wrong /\ Audio
  <2>1. PacketsGood /\ rpc["UDP"] = "idle" /\ upc = "idle" /\ packets' = packets + 1 /\ packets \in Nat
        /\ UNCHANGED <<silent, passedOn, inBuf, mixed, rpc>>
        /\ (fault' = "no" => upc' \in {"realloc", "fill"})
    BY <1>1 DEF Audio, Idle, Rendering, SoundTyped
  <2>2. ASSUME NEW p \in 1 .. packets PROVE PacketGood(p)'
    <3>1. PacketGood(p) /\ p # packets'
      BY <1>1, <2>1 DEF PacketsGood
    <3> QED BY <2>1, <3>1 DEF PacketGood, Underway
  <2>3. ASSUME fault' = "no" , NEW q, q = packets' PROVE PacketGood(q)'
    <3>1. Times(passedOn, q) = 0
      <4>1. passedOn \in Seq(0 .. packets) /\ q \notin 0 .. packets
        BY <2>1, <2>3 DEF SoundTyped, AudioTypeOK
      <4> QED BY <2>1, <4>1, NeverSent
    <3>2. q \notin silent
      BY <2>1, <2>3 DEF SoundTyped
    <3> QED BY <2>1, <2>3, <3>1, <3>2 DEF PacketGood
  <2>4. \A p \in 1 .. packets' : p = packets' \/ p \in 1 .. packets
    BY <2>1
  <2>5. ASSUME fault' = "no", NEW p \in 1 .. packets' PROVE PacketGood(p)'
    BY <2>2, <2>3, <2>4, <2>5
  <2> QED BY <2>5 DEF PacketsGood, Wrong
<1>2. CASE ~ Wrong /\ (Realloc \/ Record \/ ResetNull \/ ResetSize \/ Stop \/ Data \/ \E v \in Int : SettingRate(v))
  <2>1. UNCHANGED <<packets, silent, passedOn, inBuf, mixed, rpc>>
    BY <1>2 DEF Realloc, Record, ResetNull, ResetSize, Stop, Data, SettingRate
  <2>2. upc' = upc \/ {upc, upc'} \intersect {"realloc", "fill"} = {} \/ <<upc, upc'>> = <<"realloc", "fill">>
    BY <1>2 DEF Realloc, Record, ResetNull, ResetSize, Stop, Data, SettingRate, Heard, Idle
  <2> QED BY <1>2, <2>1, <2>2, PacketsStay
<1>3. CASE ~ Wrong /\ Fill
  <2>1. upc = "fill" /\ upc' = "idle" /\ inBuf' = packets /\ rpc'["UDP"] = "start" /\ rpc'["timer"] = rpc["timer"]
        /\ UNCHANGED <<packets, passedOn, silent>> /\ mixed' = IF rpc["timer"] # "idle" THEN mixed \union {packets} ELSE mixed
    BY <1>3 DEF Fill, Rendering, SoundTyped, AudioTypeOK, Thread
  <2>2. ASSUME NEW p \in 1 .. packets PROVE PacketGood(p)'
    <3>1. PacketGood(p)
      BY <1>3 DEF PacketsGood
    <3>2. CASE p = packets
      <4>1. p \in mixed \/ (p \notin silent /\ Times(passedOn, p) = 0)
        BY <2>1, <3>1, <3>2 DEF PacketGood, Underway, InTurn
      <4> QED BY <2>1, <3>2, <4>1 DEF PacketGood
    <3>3. CASE p # packets
      BY <2>1, <3>1, <3>3 DEF PacketGood, Underway
    <3> QED BY <3>2, <3>3
  <2> QED BY <2>1, <2>2 DEF PacketsGood
<1>4. CASE ~ Wrong /\ Beat
  <2>1. UNCHANGED <<upc, inBuf, packets, passedOn, silent>> /\ rpc'["UDP"] = rpc["UDP"] /\ rpc["timer"] = "idle"
        /\ mixed' = IF rpc["UDP"] # "idle" THEN mixed \union {packets} ELSE mixed
    BY <1>4 DEF Beat, Rendering, SoundTyped, AudioTypeOK, Thread
  <2>2. ASSUME NEW p \in 1 .. packets PROVE PacketGood(p)'
    <3>1. PacketGood(p)
      BY <1>4 DEF PacketsGood
    <3> QED BY <2>1, <3>1 DEF PacketGood, Underway
  <2> QED BY <2>1, <2>2 DEF PacketsGood
<1> QED BY <1>0, <1>1, <1>2, <1>3, <1>4

-----------------------------------------------------------------------------
(* render                                                                  *)
LEMMA SoundRenders ==
    ASSUME SoundGood, ~ Wrong, NEW t \in Thread, RenderStart(t) \/ Mix(t) \/ Clear(t)
    PROVE  SoundTyped' /\ InTurn' /\ Recorded' /\ FaultExplained' /\ Placed'
<1> USE SoundAssumption DEF SoundAssumption, SoundGood, render, player, rec, past
<1>0. t = "UDP" \/ t = "timer"
  BY DEF Thread
<1>1. UNCHANGED <<sound, stage, data, packetSize, isRecording, location, rate, isPlaying, upc, packets, met, resumed, short, mixed>>
  BY DEF RenderStart, Mix, Clear
<1>2. rpc[t] # "idle" /\ rpc' \in [Thread -> {"idle", "start", "sample", "mix", "clear"}]
      /\ (\A u \in Thread : u # t => rpc'[u] = rpc[u])
      /\ (rpc'[t] = "sample" => data # NONE /\ isPlaying)
  BY DEF RenderStart, Mix, Clear, SoundTyped, AudioTypeOK
<1>3. fault' \in {fault, "buffers"} /\ (fault' = "buffers" => ~ HasBuffers) /\ (rpc'[t] \notin {"idle", "start"} => HasBuffers \/ fault' # "no")
  BY DEF RenderStart, Mix, Clear, Wrong, SoundTyped, AudioTypeOK
<1>4. inBuf' \in {inBuf, 0}
  BY DEF RenderStart, Mix, Clear
<1>5. SoundTyped'
  <2>1. packets > 0 \/ t = "timer"
    BY <1>0, <1>2 DEF InTurn
  <2>2. silent' \subseteq 1 .. packets'
    <3>1. silent' = silent \/ (t = "UDP" /\ silent' = silent \union {packets})
      BY DEF RenderStart, Mix, Clear
    <3>2. packets \in Nat /\ silent \subseteq 1 .. packets
      BY DEF SoundTyped
    <3>3. packets > 0 => packets \in 1 .. packets
      BY <3>2
    <3> QED BY <1>1, <2>1, <3>1, <3>2, <3>3
  <2>3. passedOn' \in Seq(0 .. packets')
    <3>1. passedOn' = passedOn \/ passedOn' = Append(passedOn, inBuf)
      BY DEF RenderStart, Mix, Clear
    <3>2. passedOn \in Seq(0 .. packets) /\ inBuf \in 0 .. packets
      BY DEF SoundTyped, AudioTypeOK
    <3>3. Append(passedOn, inBuf) \in Seq(0 .. packets)
      BY <3>2
    <3>4. passedOn' \in Seq(0 .. packets)
      BY <3>1, <3>2, <3>3
    <3> QED BY <1>1, <3>4
  <2>4. count' \in [Thread -> 0 .. NumPackets] /\ \A u \in Thread : rpc'[u] = "sample" => count'[u] < NumPackets
    BY DEF RenderStart, Mix, Clear, SoundTyped, AudioTypeOK
  <2>5. inBuf' \in 0 .. packets'
    BY <1>1, <1>4 DEF SoundTyped, AudioTypeOK
  <2> QED BY <1>1, <1>2, <1>3, <2>2, <2>3, <2>4, <2>5 DEF SoundTyped, AudioTypeOK
<1>6. InTurn'
  <2>1. rpc["UDP"] = "idle" => rpc'["UDP"] = "idle"
    BY <1>0, <1>2 DEF Thread
  <2>2. rpc["timer"] = "idle" => rpc'["timer"] = "idle"
    BY <1>0, <1>2 DEF Thread
  <2>3. fault' = "no" /\ stage = "methods" => \A u \in Thread : rpc'[u] \in {"idle", "start"}
    BY <1>2, <1>3 DEF InTurn, HasBuffers, Wrong
  <2> QED BY <1>1, <1>4, <2>1, <2>2, <2>3 DEF InTurn, Handling, Wrong
<1>7. Recorded'
  <2>1. CASE rpc'[t] = "sample" /\ stage # "gone"
    <3>1. data \in Nat \/ met
      <4>1. data \in Nat \union {NONE, FREED}
        BY DEF SoundTyped, AudioTypeOK
      <4>2. CASE data = FREED
        BY <1>0, <1>2, <2>1, <4>2 DEF Recorded, InTurn, Handling
      <4> QED BY <1>2, <2>1, <4>1, <4>2
    <3> QED BY <1>1, <1>2, <3>1 DEF Recorded
  <2>2. CASE ~ (rpc'[t] = "sample" /\ stage # "gone")
    BY <1>1, <1>2, <2>2 DEF Recorded
  <2> QED BY <2>1, <2>2
<1>8. FaultExplained'
  BY <1>1, <1>3 DEF FaultExplained, HasBuffers, Wrong
<1>9. Placed'
  BY <1>1, <1>2 DEF Placed, Inside, Reads, BeingRecorded
<1> QED BY <1>5, <1>6, <1>7, <1>8, <1>9

(* A sample, in the recording                                              *)
LEMMA SampleInside ==
    ASSUME SoundGood, ~ Wrong, NEW t \in Thread, Sample(t),
           ~ met, ~ resumed, ~ short'
    PROVE  /\ stage # "gone" => fault' = "no"
           /\ location' = 0 \/ location' < packetSize * Part
<1> USE SoundGood DEF SoundGood
<1>1. location \in Nat /\ packetSize \in Nat /\ packetSize # 0 /\ rate \in Nat /\ Part \in Nat /\ Part # 0 /\ ~ short /\ rpc[t] = "sample"
  BY SoundAssumption DEF Sample, SoundTyped, AudioTypeOK, SoundAssumption
<1>2. Inside
  BY <1>1 DEF Placed, Reads
<1> DEFINE a == packetSize * Part
           l == location \div Part
           next == IF l + 1 >= packetSize THEN l + 1 - packetSize ELSE l + 1
           end  == location + rate + Part >= a
<1>3. a \in Nat /\ a >= Part
  BY <1>1
<1>4. l \in Nat /\ l < packetSize
  <2>1. l \in Nat /\ l * Part <= location
    BY <1>1
  <2>2. location < a
    BY <1>1, <1>2, <1>3 DEF Inside
  <2>3. l * Part < packetSize * Part
    BY <1>1, <2>1, <2>2
  <2> HIDE DEF l
  <2> QED BY <1>1, <2>1, <2>3
<1>5. upc \in {"idle", "fill"}
  BY <1>1 DEF InTurn, Handling, SoundTyped, AudioTypeOK, Thread
<1>6. stage # "gone" => data \in Nat /\ data = packetSize
  BY <1>1, <1>5 DEF Recorded
<1>7. next \in Nat /\ next < packetSize
  <2> HIDE DEF l
  <2> QED BY <1>1, <1>4, <1>6
<1>8. NONE \notin Nat /\ FREED \notin Nat
  BY SoundAssumption DEF SoundAssumption
<1>9. stage # "gone" => ~ (data \in {NONE, FREED} \/ ~ (l < data /\ next < data))
  BY <1>4, <1>6, <1>7, <1>8
<1>10. \/ fault' = "read" /\ location' = location
       \/ fault' = fault /\ location' = IF end THEN Wrapped(location + rate) ELSE location + rate
  BY DEF Sample, player
<1>15. stage # "gone" => fault' = fault
  BY <1>9 DEF Sample
<1>11. ~ (sound.looping /\ rate + Part > a)
  BY DEF Sample
<1>12. \/ location' = location
       \/ location' = IF end THEN (IF sound.looping THEN location + rate + Part - a ELSE 0) ELSE location + rate
  BY <1>10 DEF Wrapped
<1>13. location = 0 \/ location < a
  BY <1>2 DEF Inside
<1> HIDE DEF a
<1>14. location' = 0 \/ location' < a
  BY <1>1, <1>3, <1>11, <1>12, <1>13
<1> QED BY <1>14, <1>15 DEF Wrong, a

LEMMA SoundSamples ==
    ASSUME SoundGood, ~ Wrong, NEW t \in Thread, Sample(t)
    PROVE  SoundTyped' /\ InTurn' /\ Recorded' /\ FaultExplained' /\ Placed'
<1> USE SoundAssumption DEF SoundAssumption, SoundGood, render, player, rec
<1>0. t = "UDP" \/ t = "timer"
  BY DEF Thread
<1>1. UNCHANGED <<sound, stage, data, packetSize, isRecording, inBuf, upc, passedOn, packets, silent, met, resumed, mixed, rate>>
      /\ (short => short')
  BY DEF Sample
<1>2. rpc[t] = "sample" /\ rpc' \in [Thread -> {"idle", "start", "sample", "mix", "clear"}] /\ rpc'[t] \in {"sample", "mix"}
      /\ (\A u \in Thread : u # t => rpc'[u] = rpc[u])
  BY DEF Sample, SoundTyped, AudioTypeOK
<1>3. fault' = fault \/ (fault' = "read" /\ UNCHANGED <<location, isPlaying, rpc, count>>)
  BY DEF Sample
<1>4. SoundTyped'
  <2>1. location' \in Nat /\ isPlaying' \in BOOLEAN
    <3> DEFINE a == packetSize * Part
               end == location + rate + Part >= a
    <3>1. location' = location \/ location' = IF end THEN (IF sound.looping THEN location + rate + Part - a ELSE 0) ELSE location + rate
      BY DEF Sample, Wrapped
    <3>2. location \in Nat /\ rate \in Nat /\ a \in Nat /\ Part \in Nat
      BY DEF SoundTyped, AudioTypeOK
    <3>3. isPlaying' \in BOOLEAN
      BY DEF Sample, SoundTyped, AudioTypeOK
    <3> HIDE DEF a
    <3> QED BY <3>1, <3>2, <3>3
  <2>2. count' \in [Thread -> 0 .. NumPackets] /\ \A u \in Thread : rpc'[u] = "sample" => count'[u] < NumPackets
    <3>1. count \in [Thread -> 0 .. NumPackets] /\ \A u \in Thread : rpc[u] = "sample" => count[u] < NumPackets
      BY DEF SoundTyped, AudioTypeOK
    <3>2. CASE UNCHANGED <<rpc, count>>
      BY <3>1, <3>2
    <3>3. CASE count' = [count EXCEPT ![t] = @ + 1] /\ (count'[t] = NumPackets => rpc'[t] = "mix")
      <4>1. count[t] + 1 \in 0 .. NumPackets
        BY <1>2, <3>1
      <4>2. count'[t] = count[t] + 1 /\ \A u \in Thread : u # t => count'[u] = count[u]
        BY <3>1, <3>3
      <4>3. count' \in [Thread -> 0 .. NumPackets]
        BY <3>1, <3>3, <4>1
      <4>4. rpc'[t] = "sample" => count'[t] < NumPackets
        BY <3>3, <4>1, <4>2
      <4> QED BY <1>2, <3>1, <4>2, <4>3, <4>4
    <3>4. UNCHANGED <<rpc, count>> \/ (count' = [count EXCEPT ![t] = @ + 1] /\ (count'[t] = NumPackets => rpc'[t] = "mix"))
      BY DEF Sample, SoundTyped, AudioTypeOK
    <3> QED BY <3>2, <3>3, <3>4
  <2> QED BY <1>1, <1>2, <1>3, <2>1, <2>2 DEF SoundTyped, AudioTypeOK
<1>5. InTurn'
  BY <1>0, <1>1, <1>2, <1>3 DEF InTurn, Handling, Wrong, Thread
<1>6. Recorded'
  BY <1>1, <1>2 DEF Recorded
<1>7. FaultExplained'
  <2>1. fault' = "read" => met' \/ resumed' \/ short' \/ stage' = "gone"
    BY <1>1, SampleInside
  <2> QED BY <1>1, <1>3, <2>1 DEF FaultExplained, Wrong
<1>8. Placed'
  <2>1. ~ met /\ ~ resumed /\ ~ short' => Inside'
    BY <1>1, SampleInside DEF Inside
  <2>2. ~ met /\ ~ resumed => upc \notin {"null", "size"}
    BY <1>0, <1>2 DEF InTurn, Handling
  <2> QED BY <1>1, <2>1, <2>2 DEF Placed
<1> QED BY <1>4, <1>5, <1>6, <1>7, <1>8

LEMMA PacketsRendered ==
    ASSUME SoundGood, ~ Wrong, NEW t \in Thread, RenderStart(t) \/ Sample(t) \/ Mix(t) \/ Clear(t)
    PROVE  PacketsGood'
<1> USE SoundGood DEF SoundGood
<1> SUFFICES ASSUME fault' = "no", NEW p \in 1 .. packets PROVE PacketGood(p)'
  <2>1. packets' = packets
    BY DEF RenderStart, Sample, Mix, Clear, past
  <2> QED BY <2>1 DEF PacketsGood, Wrong
<1>0. PacketGood(p) /\ p \in Nat /\ p # 0
  BY DEF PacketsGood, SoundTyped
<1>1. UNCHANGED <<packets, mixed, upc>>
  BY DEF RenderStart, Sample, Mix, Clear, past
<1>2. rpc[t] # "idle" /\ rpc' \in [Thread -> {"idle", "start", "sample", "mix", "clear"}]
      /\ (\A u \in Thread : u # t => rpc'[u] = rpc[u])
  BY DEF RenderStart, Sample, Mix, Clear, SoundTyped, AudioTypeOK, render
<1>3. CASE p \in mixed
  BY <1>1, <1>3 DEF PacketGood
<1>4. CASE p \notin mixed /\ t = "UDP"
  <2>0. upc = "idle" /\ rpc'["timer"] = rpc["timer"] /\ inBuf \in {0, packets} /\ rpc["UDP"] # "idle"
    BY <1>2, <1>4 DEF InTurn, Thread
  <2>1. CASE p = packets
    <3>1. rpc["timer"] = "idle" /\ inBuf = p /\ p \notin silent /\ Times(passedOn, p) = IF rpc["UDP"] = "clear" THEN 1 ELSE 0
      BY <1>0, <1>4, <2>0, <2>1 DEF PacketGood, Underway
    <3>2. CASE RenderStart(t)
      <4>1. CASE rpc'["UDP"] = "idle"
        <5>1. p \in silent' /\ UNCHANGED <<passedOn, inBuf>>
          BY <1>4, <2>1, <3>2, <4>1 DEF RenderStart, SoundTyped, AudioTypeOK, Thread
        <5> QED BY <1>1, <2>0, <3>1, <3>2, <4>1, <5>1 DEF RenderStart, PacketGood, Underway
      <4>2. CASE rpc'["UDP"] # "idle"
        <5>1. rpc'["UDP"] \in {"sample", "mix"} /\ UNCHANGED <<silent, passedOn, inBuf>> /\ rpc["UDP"] = "start"
          BY <1>4, <3>2, <4>2 DEF RenderStart, SoundTyped, AudioTypeOK, Thread
        <5> QED BY <1>1, <2>0, <2>1, <3>1, <5>1 DEF PacketGood
      <4> QED BY <4>1, <4>2
    <3>3. CASE Sample(t)
      <4>1. rpc'["UDP"] \in {"sample", "mix"} /\ UNCHANGED <<silent, passedOn, inBuf>> /\ rpc["UDP"] = "sample"
        BY <1>4, <3>3 DEF Sample, SoundTyped, AudioTypeOK, Thread, render
      <4> QED BY <1>1, <2>0, <2>1, <3>1, <4>1 DEF PacketGood
    <3>4. CASE Mix(t)
      <4>1. rpc'["UDP"] = "clear" /\ passedOn' = Append(passedOn, inBuf) /\ UNCHANGED <<silent, inBuf>> /\ rpc["UDP"] = "mix"
        BY <1>4, <3>4 DEF Mix, SoundTyped, AudioTypeOK, Thread, past
      <4>2. Times(passedOn', p) = 1
        <5>1. passedOn \in Seq(0 .. packets) /\ inBuf \in 0 .. packets
          BY DEF SoundTyped, AudioTypeOK
        <5>2. Times(Append(passedOn, inBuf), p) = Times(passedOn, p) + 1
          BY <3>1, <5>1, SentAgain
        <5> QED BY <3>1, <4>1, <5>2
      <4> QED BY <1>1, <2>0, <2>1, <3>1, <4>1, <4>2 DEF PacketGood
    <3>5. CASE Clear(t)
      <4>1. rpc'["UDP"] = "idle" /\ inBuf' = 0 /\ UNCHANGED <<silent, passedOn>> /\ rpc["UDP"] = "clear"
        BY <1>4, <3>5 DEF Clear, SoundTyped, AudioTypeOK, Thread, past
      <4> QED BY <1>0, <1>1, <2>0, <2>1, <3>1, <4>1 DEF PacketGood, Underway
    <3> QED BY <3>2, <3>3, <3>4, <3>5
  <2>2. CASE p # packets
    <3>1. inBuf # p /\ inBuf' # p /\ (p \in silent <=> p \in silent')
      BY <1>0, <1>4, <2>0, <2>2 DEF RenderStart, Sample, Mix, Clear, past
    <3>2. Times(passedOn', p) = Times(passedOn, p)
      <4>1. passedOn' = passedOn \/ passedOn' = Append(passedOn, inBuf)
        BY DEF RenderStart, Sample, Mix, Clear
      <4>2. passedOn \in Seq(0 .. packets) /\ inBuf \in 0 .. packets
        BY DEF SoundTyped, AudioTypeOK
      <4>3. Times(Append(passedOn, inBuf), p) = Times(passedOn, p)
        BY <3>1, <4>2, SentAgain
      <4> QED BY <4>1, <4>3
    <3> QED BY <1>0, <1>1, <1>4, <2>2, <3>1, <3>2 DEF PacketGood, Underway
  <2> QED BY <2>1, <2>2
<1>5. CASE p \notin mixed /\ t = "timer"
  <2>0. rpc'["UDP"] = rpc["UDP"] /\ rpc["timer"] # "idle" /\ silent' = silent
    BY <1>2, <1>5 DEF RenderStart, Sample, Mix, Clear, past, Thread
  <2>1. CASE RenderStart(t) \/ Sample(t)
    <3>1. UNCHANGED <<passedOn, inBuf>> /\ (rpc["timer"] # "clear")
      BY <1>5, <2>1 DEF RenderStart, Sample
    <3> QED BY <1>0, <1>1, <1>5, <2>0, <3>1 DEF PacketGood, Underway
  <2>2. CASE Mix(t)
    <3>1. passedOn' = Append(passedOn, inBuf) /\ inBuf' = inBuf /\ rpc["timer"] = "mix" /\ rpc'["timer"] = "clear"
      BY <1>5, <2>2 DEF Mix, SoundTyped, AudioTypeOK, Thread
    <3>2. Times(passedOn', p) = IF inBuf = p THEN Times(passedOn, p) + 1 ELSE Times(passedOn, p)
      <4>2. passedOn \in Seq(0 .. packets) /\ inBuf \in 0 .. packets
        BY DEF SoundTyped, AudioTypeOK
      <4>3. /\ inBuf = p => Times(Append(passedOn, inBuf), p) = Times(passedOn, p) + 1
            /\ inBuf # p => Times(Append(passedOn, inBuf), p) = Times(passedOn, p)
        BY <4>2, SentAgain
      <4> QED BY <3>1, <4>3
    <3>3. upc \in {"realloc", "fill"} => inBuf # packets
      BY DEF InTurn
    <3> QED BY <1>0, <1>1, <1>5, <2>0, <3>1, <3>2, <3>3 DEF PacketGood, Underway
  <2>3. CASE Clear(t)
    <3>1. passedOn' = passedOn /\ inBuf' = 0 /\ rpc["timer"] = "clear"
      BY <1>5, <2>3 DEF Clear
    <3> QED BY <1>0, <1>1, <1>5, <2>0, <3>1 DEF PacketGood, Underway
  <2> QED BY <2>1, <2>2, <2>3
<1> QED BY <1>3, <1>4, <1>5 DEF Thread

-----------------------------------------------------------------------------
LEMMA SoundStep ==
    ASSUME SoundGood, AudioThreads \/ (\E v \in Int : SettingRate(v)) \/ UNCHANGED audio
    PROVE  SoundGood'
<1>1. CASE Audio \/ Realloc \/ Record \/ ResetNull \/ ResetSize
  BY <1>1, SoundHandles, PlacedHandling, PacketsHandled DEF SoundGood
<1>2. CASE Fill \/ Beat \/ Stop
  BY <1>2, SoundGoesOn, PlacedHandling, PacketsHandled DEF SoundGood
<1>3. CASE Data \/ \E v \in Int : SettingRate(v)
  BY <1>3, SoundGoesOn, PlacedOrdered, PacketsHandled DEF SoundGood
<1>4. CASE TCPThread
  BY <1>4, SoundLives DEF SoundGood
<1>5. ASSUME NEW t \in Thread, Render(t) PROVE SoundGood'
  <2>1. SoundTyped' /\ InTurn' /\ Recorded' /\ FaultExplained' /\ Placed'
    BY <1>5, SoundRenders, SoundSamples DEF Render
  <2>2. PacketsGood'
    BY <1>5, PacketsRendered DEF Render
  <2> QED BY <2>1, <2>2 DEF SoundGood
<1>6. CASE UNCHANGED audio
  <2>1. UNCHANGED <<sound, stage, rec, player, inBuf, upc, render, passedOn, fault, past>>
    BY <1>6 DEF audio
  <2>2. SoundTyped'
    BY <2>1 DEF SoundGood, SoundTyped, AudioTypeOK, rec, player, render, past
  <2>3. InTurn' /\ Recorded' /\ FaultExplained'
    BY <2>1 DEF SoundGood, InTurn, Recorded, FaultExplained, rec, player, render, past, Handling, Wrong, HasBuffers
  <2>4. Placed'
    BY <2>1 DEF SoundGood, Placed, Inside, Reads, BeingRecorded, rec, player, render, past
  <2>5. PacketsGood'
    BY <2>1 DEF SoundGood, PacketsGood, PacketGood, Underway, Wrong, render, past
  <2> QED BY <2>2, <2>3, <2>4, <2>5 DEF SoundGood
<1> QED BY <1>1, <1>2, <1>3, <1>4, <1>5, <1>6 DEF AudioThreads, UDPThread

LEMMA SoundAgrees == SoundGood => SoundInv
<1> SUFFICES ASSUME SoundGood PROVE SoundInv
  OBVIOUS
<1>1. AudioTypeOK /\ FaultExplained
  BY DEF SoundGood, SoundTyped
<1>2. EachPacketOnce
  <2> SUFFICES ASSUME Idle, NEW p \in 1 .. packets
               PROVE Times(passedOn, p) = 1 \/ p \in mixed \/ (p \in silent /\ Times(passedOn, p) <= 1)
    BY DEF EachPacketOnce, Times, SentAt
  <2>1. PacketGood(p)
    BY DEF Idle, SoundGood, PacketsGood
  <2> QED BY <2>1 DEF PacketGood, Idle, Rendering
<1> QED BY <1>1, <1>2 DEF SoundInv

-----------------------------------------------------------------------------
(* The functions of folds *)
Stays(f, T, N) == f[0] \in T /\ \A k \in 1 .. N : f[k - 1] \in T => f[k] \in T
LEMMA FoldTyped ==
    ASSUME NEW T, NEW N \in Nat, NEW f, Stays(f, T, N)
    PROVE  f[N] \in T
<1> DEFINE S == {n \in Nat : n <= N => f[n] \in T}
<1>1. 0 \in S
  BY DEF Stays
<1>2. ASSUME NEW n \in S PROVE n + 1 \in S
  <2> SUFFICES ASSUME n + 1 <= N PROVE f[n + 1] \in T
    OBVIOUS
  <2>1. n \in Nat /\ f[n] \in T /\ n + 1 \in 1 .. N /\ (n + 1) - 1 = n
    OBVIOUS
  <2> QED BY <2>1 DEF Stays
<1>3. N \in S
  BY <1>1, <1>2, Induction
<1> QED BY <1>3

(* A fold stays in a set that each of its steps stays in. *)
LEMMA SumTyped ==
    ASSUME NEW s \in Seq(Int)
    PROVE  Folded(LAMBDA x, y : x + y, 0, s) \in Int
<1> DEFINE N == Len(s)
           G(f) == f = [k \in 0 .. N |-> IF k = 0 THEN 0 ELSE f[k - 1] + s[k]]
           f == CHOOSE g : G(g)
           step == [p \in Int \X (1 .. N) |-> p[1] + s[p[2]]]
<1>0. N \in Nat /\ \A k \in 1 .. N : s[k] \in Int
  OBVIOUS
<1>1. step \in [Int \X (1 .. N) -> Int] /\ \A x \in Int, k \in 1 .. N : step[<<x, k>>] = x + s[k]
  BY <1>0
<1>2. Folded(LAMBDA x, y : x + y, 0, s) = f[N]
  BY DEF Folded
<1> HIDE DEF N, step
<1>a. PICK g : ByStep(g, Int, N, 0, step)
  <2>1. N \in Nat /\ 0 \in Int /\ step \in [Int \X (1 .. N) -> Int]
    BY <1>0, <1>1
  <2> QED BY <2>1, FoldExists, Zenon
<1>3. g = [k \in 0 .. N |-> IF k = 0 THEN 0 ELSE step[<<g[k - 1], k>>]] /\ \A k \in 0 .. N : g[k] \in Int
  BY <1>a DEF ByStep
<1>4. \A k \in 0 .. N : k # 0 => k - 1 \in 0 .. N /\ k \in 1 .. N
  BY <1>0
<1>5. G(g)
  BY <1>1, <1>3, <1>4
<1>6. G(f)
  BY <1>5
<1> HIDE DEF f
<1>7. Stays(f, Int, N)
  BY <1>0, <1>6 DEF Stays
<1> QED BY <1>0, <1>2, <1>7, FoldTyped

(* The same for the other folds: the bytes of a burst, ...                 *)
LEMMA SubSeqTyped ==
    ASSUME NEW T, NEW s \in Seq(T), NEW m \in Nat, NEW n \in Nat, m >= 1, n <= Len(s)
    PROVE  SubSeq(s, m, n) \in Seq(T) /\ Len(SubSeq(s, m, n)) \in Nat
  OBVIOUS

LEMMA CheckTyped ==
    ASSUME NEW frame \in Seq(Int), Len(frame) >= Skipped + Summed + 2
    PROVE  Check(frame) \in Int
<1>1. Skipped \in Nat /\ Summed \in Nat
  BY SerialAssumption DEF SerialAssumption
<1>2. SubSeq(frame, Skipped + 2, Frame - 1) \in Seq(Int)
  <2>1. Skipped + 2 \in Nat /\ Frame - 1 \in Nat /\ Skipped + 2 >= 1 /\ Frame - 1 <= Len(frame)
    BY <1>1 DEF Frame
  <2> QED BY <2>1, SubSeqTyped
<1>3. FrameSum(frame) \in Int
  BY <1>2, SumTyped DEF FrameSum
<1>4. \A n \in Int : 255 - (n % 256) \in Int
  OBVIOUS
<1> QED BY <1>3, <1>4 DEF Check

LEMMA BytesTyped ==
    ASSUME device.parser \in {"pairs", "frames"}, NEW burst \in Seq(Message(device.parser))
    PROVE  Folded(LAMBDA s, m : s \o BytesOf(m), <<>>, burst) \in Seq(Int)
<1> DEFINE N == Len(burst)
           G(f) == f = [k \in 0 .. N |-> IF k = 0 THEN <<>> ELSE f[k - 1] \o BytesOf(burst[k])]
           f == CHOOSE g : G(g)
           T == Seq(Int)
           step == [p \in T \X (1 .. N) |-> p[1] \o BytesOf(burst[p[2]])]
<1>0. N \in Nat /\ \A k \in 1 .. N : BytesOf(burst[k]) \in Seq(Int)
  <2>1. N \in Nat /\ \A k \in 1 .. N : burst[k] \in Message(device.parser)
    OBVIOUS
  <2>2. ASSUME NEW m \in Message(device.parser) PROVE BytesOf(m) \in Seq(Int)
    <3>1. m \in Seq(0 .. 255) /\ (~ Pairs => Len(m) = Skipped + Summed + 2)
      BY DEF Message, Pairs
    <3>2. m \in Seq(Int)
      <4>1. \A i \in 1 .. Len(m) : m[i] \in 0 .. 255
        BY <3>1, AtIs
      <4>3. \A x \in 0 .. 255 : x \in Int
        OBVIOUS
      <4>2. \A i \in 1 .. Len(m) : m[i] \in Int
        BY <4>1, <4>3, Zenon
      <4> QED BY <3>1, <4>2, IsSeq
    <3>3. Skipped + Summed + 2 \in Nat
      BY SerialAssumption DEF SerialAssumption
    <3>4. ~ Pairs => Check(m) \in Int
      BY <3>1, <3>2, <3>3, CheckTyped
    <3> QED BY <3>2, <3>4 DEF BytesOf
  <2> QED BY <2>1, <2>2
<1>8. \A x \in T, k \in 1 .. N : x \o BytesOf(burst[k]) \in T
  <2>1. \A x, y \in Seq(Int) : x \o y \in Seq(Int)
    OBVIOUS
  <2> QED BY <1>0, <2>1
<1>1. step \in [T \X (1 .. N) -> T] /\ \A x \in T, k \in 1 .. N : step[<<x, k>>] = x \o BytesOf(burst[k])
  BY <1>8
<1>2. Folded(LAMBDA s, m : s \o BytesOf(m), <<>>, burst) = f[N]
  BY DEF Folded
<1>b. <<>> \in T
  OBVIOUS
<1> HIDE DEF N, step, T
<1>a. PICK g : ByStep(g, T, N, <<>>, step)
  <2>1. N \in Nat /\ <<>> \in T /\ step \in [T \X (1 .. N) -> T]
    BY <1>0, <1>1, <1>b
  <2> QED BY <2>1, FoldExists, Zenon
<1>3. g = [k \in 0 .. N |-> IF k = 0 THEN <<>> ELSE step[<<g[k - 1], k>>]] /\ \A k \in 0 .. N : g[k] \in T
  BY <1>a DEF ByStep
<1>4. \A k \in 0 .. N : k # 0 => k - 1 \in 0 .. N /\ k \in 1 .. N
  BY <1>0
<1>5. G(g)
  BY <1>1, <1>3, <1>4
<1>6. G(f)
  BY <1>5
<1> HIDE DEF f
<1>7. Stays(f, T, N)
  BY <1>0, <1>b, <1>6, <1>8 DEF Stays
<1>9. f[N] \in T
  BY <1>0, <1>7, FoldTyped
<1> QED BY <1>2, <1>9 DEF T

(* ... the terminal, ...                                                   *)
Terminal == [line : Seq(Int), ready : Seq(Seq(Int))]
LEMMA TypeTyped ==
    ASSUME NEW t \in Terminal, NEW b \in Int
    PROVE  Type(t, b) \in Terminal
<1>1. t = [line |-> t.line, ready |-> t.ready] /\ t.line \in Seq(Int) /\ t.ready \in Seq(Seq(Int))
  BY DEF Terminal
<1> DEFINE c == IF b = CR THEN NL ELSE b
<1>2. c \in Int
  BY DEF NL
<1> HIDE DEF c
<1>3. Append(t.line, c) \in Seq(Int) /\ <<>> \in Seq(Int)
  BY <1>1, <1>2
<1>4. Append(t.ready, t.line) \in Seq(Seq(Int)) /\ Append(t.ready, Append(t.line, c)) \in Seq(Seq(Int))
  BY <1>1, <1>3
<1>6. \A l \in Seq(Int), r \in Seq(Seq(Int)) : [line |-> l, ready |-> r] \in Terminal
  BY DEF Terminal
<1>5. \/ Type(t, b) = [line |-> <<>>, ready |-> Append(t.ready, t.line)]
      \/ Type(t, b) = [line |-> <<>>, ready |-> Append(t.ready, Append(t.line, c))]
      \/ Type(t, b) = [line |-> Append(t.line, c), ready |-> t.ready]
  BY <1>1 DEF Type, c
<1> QED BY <1>1, <1>3, <1>4, <1>5, <1>6

LEMMA TerminalTyped ==
    ASSUME NEW from \in Terminal, NEW bytes \in Seq(Int)
    PROVE  Folded(Type, from, bytes) \in Terminal
<1> DEFINE N == Len(bytes)
           G(f) == f = [k \in 0 .. N |-> IF k = 0 THEN from ELSE Type(f[k - 1], bytes[k])]
           f == CHOOSE g : G(g)
           step == [p \in Terminal \X (1 .. N) |-> Type(p[1], bytes[p[2]])]
<1>0. N \in Nat /\ \A k \in 1 .. N : bytes[k] \in Int
  OBVIOUS
<1>8. \A x \in Terminal, k \in 1 .. N : Type(x, bytes[k]) \in Terminal
  BY <1>0, TypeTyped
<1>1. step \in [Terminal \X (1 .. N) -> Terminal] /\ \A x \in Terminal, k \in 1 .. N : step[<<x, k>>] = Type(x, bytes[k])
  BY <1>8
<1>2. Folded(Type, from, bytes) = f[N]
  BY DEF Folded
<1> HIDE DEF N, step
<1>a. PICK g : ByStep(g, Terminal, N, from, step)
  BY <1>0, <1>1, FoldExists, Zenon
<1>3. g = [k \in 0 .. N |-> IF k = 0 THEN from ELSE step[<<g[k - 1], k>>]] /\ \A k \in 0 .. N : g[k] \in Terminal
  BY <1>a DEF ByStep
<1>4. \A k \in 0 .. N : k # 0 => k - 1 \in 0 .. N /\ k \in 1 .. N
  BY <1>0
<1>5. G(g)
  BY <1>1, <1>3, <1>4
<1>6. G(f)
  BY <1>5
<1> HIDE DEF f
<1>7. Stays(f, Terminal, N)
  BY <1>0, <1>6, <1>8 DEF Stays
<1> QED BY <1>0, <1>2, <1>7, FoldTyped

(* ... what is read into the ring, ...                                     *)
LEMMA RingTyped ==
    ASSUME NEW from \in [0 .. Ring - 1 -> Int], NEW got \in Seq(Int), NEW w \in 0 .. Ring - 1
    PROVE  Folded(LAMBDA f, k : [f EXCEPT ![(w + k - 1) % Ring] = got[k]], from, [k \in 1 .. Len(got) |-> k])
               \in [0 .. Ring - 1 -> Int]
<1> DEFINE N == Len(got)
           s == [k \in 1 .. N |-> k]
           Op(f, k) == [f EXCEPT ![(w + k - 1) % Ring] = got[k]]
           G(f) == f = [k \in 0 .. Len(s) |-> IF k = 0 THEN from ELSE Op(f[k - 1], s[k])]
           f == CHOOSE g : G(g)
           T == [0 .. Ring - 1 -> Int]
           step == [p \in T \X (1 .. N) |-> Op(p[1], p[2])]
<1>0. N \in Nat /\ Len(s) = N /\ \A k \in 1 .. N : s[k] = k
  OBVIOUS
<1>8. \A x \in T, k \in 1 .. N : Op(x, k) \in T
  <2>1. \A k \in 1 .. N : got[k] \in Int
    OBVIOUS
  <2> QED BY <2>1
<1>1. step \in [T \X (1 .. N) -> T] /\ \A x \in T, k \in 1 .. N : step[<<x, k>>] = Op(x, k)
  BY <1>8
<1>2. Folded(LAMBDA g, k : [g EXCEPT ![(w + k - 1) % Ring] = got[k]], from, [k \in 1 .. Len(got) |-> k]) = f[Len(s)]
  BY DEF Folded
<1> HIDE DEF N, step, T, s, Op
<1>a. PICK g : ByStep(g, T, N, from, step)
  <2>1. from \in T
    BY DEF T
  <2> QED BY <1>0, <1>1, <2>1, FoldExists, Zenon
<1>3. g = [k \in 0 .. N |-> IF k = 0 THEN from ELSE step[<<g[k - 1], k>>]] /\ \A k \in 0 .. N : g[k] \in T
  BY <1>a DEF ByStep
<1>4. \A k \in 0 .. N : k # 0 => k - 1 \in 0 .. N /\ k \in 1 .. N
  BY <1>0
<1>5. G(g)
  BY <1>0, <1>1, <1>3, <1>4
<1>6. G(f)
  BY <1>5
<1> HIDE DEF f
<1>b. from \in T
  BY DEF T
<1>7. Stays(f, T, N)
  BY <1>0, <1>6, <1>8, <1>b DEF Stays
<1>9. f[N] \in T
  BY <1>0, <1>7, FoldTyped
<1> QED BY <1>0, <1>2, <1>9 DEF T

(* ... and what is parsed.                                                 *)
Course == [rp : 0 .. Ring - 1, pre : Int, out : Seq(Int \X Int), err : BOOLEAN]
LEMMA PassTyped ==
    ASSUME NEW p \in Course, NEW b \in [0 .. Ring - 1 -> Int], NEW w
    PROVE  PairPass(p, b, w) \in Course /\ FramePass(p, b, w) \in Course
<1>0. Ring \in Nat /\ Ring # 0 /\ Skipped \in Nat /\ Summed \in Nat
  BY SerialAssumption DEF SerialAssumption
<1>1. p = [rp |-> p.rp, pre |-> p.pre, out |-> p.out, err |-> p.err]
      /\ p.rp \in 0 .. Ring - 1 /\ p.pre \in Int /\ p.out \in Seq(Int \X Int) /\ p.err \in BOOLEAN
  BY DEF Course
<1>2. \A r \in 0 .. Ring - 1, v \in Int, o \in Seq(Int \X Int), e \in BOOLEAN :
          [rp |-> r, pre |-> v, out |-> o, err |-> e] \in Course
  BY DEF Course
<1>3. \A n \in Nat : n % Ring \in 0 .. Ring - 1
  BY <1>0
<1>4. \A k \in Nat : readData(b, p.rp, k) \in Int
  <2> SUFFICES ASSUME NEW k \in Nat PROVE readData(b, p.rp, k) \in Int
    OBVIOUS
  <2>1. p.rp + k \in Nat
    BY <1>0, <1>1
  <2>2. (p.rp + k) % Ring \in 0 .. Ring - 1
    BY <1>3, <2>1
  <2> QED BY <2>2 DEF readData
<1>5. \A o, v \in Int : Append(p.out, <<o, v>>) \in Seq(Int \X Int)
  BY <1>1
<1>6. PairPass(p, b, w) \in Course
  <2>1. (p.rp + 2) % Ring \in 0 .. Ring - 1
    BY <1>0, <1>1, <1>3
  <2> DEFINE o == readData(b, p.rp, 0)
             v == readData(b, p.rp, 1)
             r == (p.rp + 2) % Ring
  <2>2. o \in Int /\ v \in Int /\ r \in 0 .. Ring - 1
    BY <1>4, <2>1
  <2>3. \/ PairPass(p, b, w) = p
        \/ PairPass(p, b, w) = [rp |-> r, pre |-> p.pre, out |-> p.out, err |-> p.err]
        \/ PairPass(p, b, w) = [rp |-> r, pre |-> p.pre, out |-> Append(p.out, <<o, v>>), err |-> p.err]
    BY <1>1 DEF PairPass
  <2> HIDE DEF o, v, r
  <2> QED BY <1>1, <1>2, <1>5, <2>2, <2>3
<1>7. FramePass(p, b, w) \in Course
  <2> DEFINE frame == [k \in 1 .. Frame |-> readData(b, p.rp, k - 1)]
             v == Scaled(frame[Frame - 1])
             r == (p.rp + Frame) % Ring
             n == (p.rp + 1) % Ring
  <2>1. Frame \in Nat /\ Frame >= 3
    BY <1>0 DEF Frame
  <2>2. r \in 0 .. Ring - 1 /\ n \in 0 .. Ring - 1
    <3>1. p.rp + Frame \in Nat /\ p.rp + 1 \in Nat
      BY <1>0, <1>1, <2>1
    <3> QED BY <1>3, <3>1
  <2>3. v \in Int
    <3>1. frame[Frame - 1] = readData(b, p.rp, Frame - 2) /\ Frame - 2 \in Nat
      BY <2>1
    <3>2. frame[Frame - 1] \in Int
      BY <1>4, <3>1
    <3>3. \A x \in Int : Scaled(x) \in Int
      BY DEF Scaled
    <3> QED BY <3>2, <3>3
  <2>4. \/ FramePass(p, b, w) = p
        \/ FramePass(p, b, w) = [rp |-> n, pre |-> p.pre, out |-> p.out, err |-> p.err]
        \/ FramePass(p, b, w) = [rp |-> r, pre |-> p.pre, out |-> p.out, err |-> TRUE]
        \/ FramePass(p, b, w) = [rp |-> r, pre |-> v, out |-> Append(p.out, <<0, v>>), err |-> p.err]
        \/ FramePass(p, b, w) = [rp |-> r, pre |-> v, out |-> p.out, err |-> p.err]
    BY <1>1 DEF FramePass
  <2> HIDE DEF frame, v, r, n
  <2>5. Append(p.out, <<0, v>>) \in Seq(Int \X Int)
    BY <1>5, <2>3
  <2> QED BY <1>1, <1>2, <2>2, <2>3, <2>4, <2>5
<1> QED BY <1>6, <1>7

LEMMA ParsedTyped ==
    ASSUME rp \in 0 .. Ring - 1, pre \in Int, NEW b \in [0 .. Ring - 1 -> Int], NEW w
    PROVE  parseData(b, w) \in Course
<1> DEFINE from == [rp |-> rp, pre |-> pre, out |-> <<>>, err |-> FALSE]
           s == [k \in 1 .. Ring |-> k]
           Op(p, k) == IF Pairs THEN PairPass(p, b, w) ELSE FramePass(p, b, w)
           G(f) == f = [k \in 0 .. Len(s) |-> IF k = 0 THEN from ELSE Op(f[k - 1], s[k])]
           f == CHOOSE g : G(g)
           step == [p \in Course \X (1 .. Ring) |-> Op(p[1], p[2])]
<1>0. Ring \in Nat /\ Len(s) = Ring /\ \A k \in 1 .. Ring : s[k] = k
  BY SerialAssumption DEF SerialAssumption
<1>b. from \in Course
  BY DEF Course
<1>8. \A x \in Course, k \in 1 .. Ring : Op(x, k) \in Course
  BY PassTyped
<1>1. step \in [Course \X (1 .. Ring) -> Course] /\ \A x \in Course, k \in 1 .. Ring : step[<<x, k>>] = Op(x, k)
  BY <1>8
<1>2. parseData(b, w) = from \/ parseData(b, w) = f[Len(s)]
  BY DEF parseData, Folded
<1> HIDE DEF step, s, Op, from
<1>a. PICK g : ByStep(g, Course, Ring, from, step)
  BY <1>0, <1>1, <1>b, FoldExists, Zenon
<1>3. g = [k \in 0 .. Ring |-> IF k = 0 THEN from ELSE step[<<g[k - 1], k>>]] /\ \A k \in 0 .. Ring : g[k] \in Course
  BY <1>a DEF ByStep
<1>4. \A k \in 0 .. Ring : k # 0 => k - 1 \in 0 .. Ring /\ k \in 1 .. Ring
  BY <1>0
<1>5. G(g)
  BY <1>0, <1>1, <1>3, <1>4
<1>6. G(f)
  BY <1>5
<1> HIDE DEF f
<1>7. Stays(f, Course, Ring)
  BY <1>0, <1>6, <1>8, <1>b DEF Stays
<1>9. f[Ring] \in Course
  BY <1>0, <1>7, FoldTyped
<1> QED BY <1>0, <1>2, <1>9, <1>b

(* Values are numbers, on their way from the device to the handlers.       *)
ValuesTyped ==
    /\ device = [parser |-> device.parser, bursts |-> device.bursts, noise |-> device.noise, orders |-> device.orders]
    /\ device.parser \in {"pairs", "frames"} /\ device.bursts \in Seq(Seq(Message(device.parser)))
    /\ typed \in Seq(Int) /\ lines \in Seq(Seq(Int)) /\ buf \in [0 .. Ring - 1 -> Int]
    /\ rp \in 0 .. Ring - 1 /\ wp \in 0 .. Ring - 1 /\ pre \in Int
    /\ todo \in Seq(Int \X Int) /\ inbox \in Seq(Int)
    /\ spc \in {"begin", "send", "next"} => todo # <<>>

LEMMA ValuesBegin == Init => ValuesTyped
<1> SUFFICES ASSUME Init PROVE ValuesTyped
  OBVIOUS
<1>1. SerialInit /\ inbox = <<>>
  BY DEF Init
<1>2. Ring \in Nat /\ Ring # 0
  BY SerialAssumption DEF SerialAssumption
<1>3. device = [parser |-> device.parser, bursts |-> device.bursts, noise |-> device.noise, orders |-> device.orders]
      /\ device.parser \in {"pairs", "frames"} /\ device.bursts \in Seq(Seq(Message(device.parser)))
  BY <1>1, SerialAssumption DEF SerialInit, SerialAssumption
<1> QED BY <1>1, <1>2, <1>3 DEF SerialInit, ValuesTyped

LEMMA DeviceSendsTyped == ValuesTyped /\ DeviceSends /\ UNCHANGED inbox => ValuesTyped'
<1> SUFFICES ASSUME ValuesTyped, DeviceSends, UNCHANGED inbox PROVE ValuesTyped'
  OBVIOUS
<1>1. PICK burst : burst = Head(device.bursts)
  OBVIOUS
<1>2. PICK bytes : bytes = Folded(LAMBDA s, m : s \o BytesOf(m), <<>>, burst)
  OBVIOUS
<1>3. bytes \in Seq(Int)
  <2>1. burst \in Seq(Message(device.parser))
    <3>1. device.bursts # <<>>
      BY DEF DeviceSends
    <3>2. PICK M : M = Message(device.parser)
      OBVIOUS
    <3>3. device.bursts \in Seq(Seq(M))
      BY <3>2 DEF ValuesTyped
    <3>4. Head(device.bursts) \in Seq(M)
      BY <3>1, <3>3
    <3> QED BY <1>1, <3>2, <3>4
  <2> QED BY <1>2, <2>1, BytesTyped DEF ValuesTyped
<1>d. PICK gone \in Nat : /\ gone = 0 \/ gone \in 1 .. Len(bytes)
                          /\ \E t : /\ t = Folded(Type, [line |-> typed, ready |-> lines], IF gone = 0 THEN bytes ELSE RemoveAt(bytes, gone))
                                   /\ typed' = t.line /\ lines' = t.ready
  <2>1. \E gone \in {0} \union IF device.noise /\ lost < MaxLost THEN 1 .. Len(bytes) ELSE {} :
           LET there_ == IF gone = 0 THEN bytes ELSE RemoveAt(bytes, gone)
               t == Folded(Type, [line |-> typed, ready |-> lines], there_)
           IN typed' = t.line /\ lines' = t.ready
    BY <1>1, <1>2 DEF DeviceSends
  <2> QED BY <2>1
<1>4. PICK t : /\ t = Folded(Type, [line |-> typed, ready |-> lines], IF gone = 0 THEN bytes ELSE RemoveAt(bytes, gone))
               /\ typed' = t.line /\ lines' = t.ready
  BY <1>d
<1>5. PICK rest : rest = IF gone = 0 THEN bytes ELSE RemoveAt(bytes, gone)
  OBVIOUS
<1>6. rest \in Seq(Int)
  <2>1. CASE gone = 0
    BY <1>3, <1>5, <2>1
  <2>2. CASE gone \in 1 .. Len(bytes)
    <3>1. gone - 1 \in Nat /\ gone + 1 \in Nat /\ gone - 1 <= Len(bytes) /\ gone + 1 >= 1 /\ Len(bytes) \in Nat
      BY <1>3, <2>2
    <3>2. SubSeq(bytes, 1, gone - 1) \in Seq(Int) /\ SubSeq(bytes, gone + 1, Len(bytes)) \in Seq(Int)
      BY <1>3, <3>1, SubSeqTyped
    <3> QED BY <1>5, <2>2, <3>2 DEF RemoveAt
  <2> QED BY <1>d, <2>1, <2>2
<1>7. t \in Terminal
  <2>1. [line |-> typed, ready |-> lines] \in Terminal
    BY DEF ValuesTyped, Terminal
  <2>2. t = Folded(Type, [line |-> typed, ready |-> lines], rest)
    BY <1>4, <1>5
  <2>3. Folded(Type, [line |-> typed, ready |-> lines], rest) \in Terminal
    BY <1>6, <2>1, TerminalTyped
  <2> QED BY <2>2, <2>3
<1>8. typed' \in Seq(Int) /\ lines' \in Seq(Seq(Int))
  BY <1>4, <1>7 DEF Terminal
<1>9. /\ device' = [parser |-> device.parser, bursts |-> Tail(device.bursts), noise |-> device.noise, orders |-> device.orders]
      /\ device.bursts # <<>> /\ UNCHANGED <<buf, rp, wp, pre, todo, spc>>
  BY DEF DeviceSends, ValuesTyped, parser, walk
<1>10. Tail(device.bursts) \in Seq(Seq(Message(device.parser)))
  BY <1>9 DEF ValuesTyped
<1> QED BY <1>8, <1>9, <1>10 DEF ValuesTyped

LEMMA ReadTyped == ValuesTyped /\ Read /\ UNCHANGED inbox => ValuesTyped'
<1> SUFFICES ASSUME ValuesTyped, Read, UNCHANGED inbox PROVE ValuesTyped'
  OBVIOUS
<1>0. Ring \in Nat /\ Ring # 0 /\ ReadMax \in Nat
  BY SerialAssumption DEF SerialAssumption
<1> DEFINE line == Head(lines)
           got == SubSeq(line, 1, IF Len(line) > ReadMax THEN ReadMax ELSE Len(line))
           rest == SubSeq(line, Len(got) + 1, Len(line))
           b == Folded(LAMBDA f, k : [f EXCEPT ![(wp + k - 1) % Ring] = got[k]], buf, [k \in 1 .. Len(got) |-> k])
           w == (wp + Len(got)) % Ring
           p == parseData(b, w)
           ends == p.err \/ available(p.rp, w) = 0 \/ available(rp, w) < Unit
<1>a. lines # <<>> /\ UNCHANGED <<device, typed>>
  BY DEF Read
<1>b. lines' = IF rest = <<>> THEN Tail(lines) ELSE <<rest>> \o Tail(lines)
  BY DEF Read
<1>c. buf' = b /\ wp' = w /\ rp' = p.rp /\ pre' = p.pre /\ todo' = p.out
  BY DEF Read
<1>d. spc' = IF ~ ends THEN "spin" ELSE IF p.out = <<>> THEN "read" ELSE "begin"
  BY DEF Read
<1>1. line = Head(lines)
  OBVIOUS
<1> HIDE DEF line
<1>2. got = SubSeq(line, 1, IF Len(line) > ReadMax THEN ReadMax ELSE Len(line))
  OBVIOUS
<1>4. b = Folded(LAMBDA f, k : [f EXCEPT ![(wp + k - 1) % Ring] = got[k]], buf, [k \in 1 .. Len(got) |-> k])
  OBVIOUS
<1> HIDE DEF got
<1>3. rest = SubSeq(line, Len(got) + 1, Len(line))
  OBVIOUS
<1>5. w = (wp + Len(got)) % Ring
  OBVIOUS
<1> HIDE DEF b, rest, w
<1>6. p = parseData(b, w)
  OBVIOUS
<1> HIDE DEF p, ends
<1>7. /\ lines # <<>> /\ lines' = IF rest = <<>> THEN Tail(lines) ELSE <<rest>> \o Tail(lines)
      /\ buf' = b /\ wp' = w /\ rp' = p.rp /\ pre' = p.pre /\ todo' = p.out
      /\ spc' \in {"spin", "read", "begin"} /\ (spc' = "begin" => p.out # <<>>)
      /\ UNCHANGED <<device, typed>>
  BY <1>a, <1>b, <1>c, <1>d
<1>8. line \in Seq(Int) /\ Tail(lines) \in Seq(Seq(Int))
  BY <1>1, <1>7 DEF ValuesTyped
<1>9. got \in Seq(Int) /\ Len(got) \in Nat
  BY <1>0, <1>2, <1>8, SubSeqTyped
<1>10. rest \in Seq(Int)
  BY <1>3, <1>8, <1>9, SubSeqTyped
<1>11. lines' \in Seq(Seq(Int))
  BY <1>7, <1>8, <1>10
<1>12. w \in 0 .. Ring - 1
  <2>1. wp + Len(got) \in Nat
    BY <1>0, <1>9 DEF ValuesTyped
  <2> QED BY <1>0, <1>5, <2>1
<1>13. b \in [0 .. Ring - 1 -> Int]
  BY <1>4, <1>9, RingTyped DEF ValuesTyped
<1>14. p \in Course
  BY <1>6, <1>13, ParsedTyped DEF ValuesTyped
<1> QED BY <1>7, <1>11, <1>12, <1>13, <1>14 DEF ValuesTyped, Course

LEMMA WalkTyped == ValuesTyped /\ (Begin \/ Send \/ Advance) /\ inbox' \in Seq(Int) => ValuesTyped'
<1> SUFFICES ASSUME ValuesTyped, Begin \/ Send \/ Advance, inbox' \in Seq(Int) PROVE ValuesTyped'
  OBVIOUS
<1>1. UNCHANGED <<device, typed, lines, buf, rp, wp, pre>>
  BY DEF Begin, Send, Advance, tty, parser
<1>2. todo # <<>> /\ todo \in Seq(Int \X Int)
  BY DEF Begin, Send, Advance, ValuesTyped
<1>3. \/ todo' = todo
      \/ todo' = Tail(todo) /\ spc' = IF Len(todo) = 1 THEN "read" ELSE "begin"
  BY DEF Begin, Send, Advance, GoTo
<1>4. Tail(todo) \in Seq(Int \X Int) /\ (Len(todo) # 1 => Tail(todo) # <<>>)
  <2>1. Tail(todo) \in Seq(Int \X Int) /\ Len(Tail(todo)) = Len(todo) - 1 /\ Len(todo) \in Nat
    BY <1>2
  <2>2. Len(todo) # 1 => Len(Tail(todo)) # 0
    BY <2>1
  <2>3. Tail(todo) = <<>> => Len(Tail(todo)) = 0
    <3>1. Len(<<>>) = 0
      OBVIOUS
    <3> QED BY <3>1, Zenon
  <2> QED BY <2>1, <2>2, <2>3, Zenon
<1> QED BY <1>1, <1>2, <1>3, <1>4 DEF ValuesTyped

LEMMA OthersTyped ==
    ASSUME ValuesTyped, UNCHANGED <<device, typed, lines, buf, rp, wp, pre, todo, spc>>, inbox' \in Seq(Int)
    PROVE  ValuesTyped'
  BY DEF ValuesTyped

(* Every step keeps both, the AudioSource and the values that reach it.    *)
LEMMA SoundingStep == SoundGood /\ ValuesTyped /\ [Next]_vars => SoundGood' /\ ValuesTyped'
<1> SUFFICES ASSUME SoundGood, ValuesTyped, [Next]_vars PROVE SoundGood' /\ ValuesTyped'
  OBVIOUS
<1> DEFINE Stay == UNCHANGED <<device, typed, lines, buf, rp, wp, pre, todo, spc>>
<1>0. ASSUME NEW v \in Int, Setting(v) PROVE SoundGood'
  <2>1. SettingRate(v) \/ UNCHANGED audio
    BY <1>0 DEF Setting, SettingEffect
  <2> QED BY <2>1, SoundStep
<1>1. UNCHANGED serial => Stay
  BY DEF serial, tty, parser, walk
<1>2. inbox \in Seq(Int)
  BY DEF ValuesTyped
<1>3. CASE (DeviceSends \/ Read \/ Begin \/ Advance \/ Owner) /\ UNCHANGED <<audio, inbox>>
  <2>1. SoundGood'
    BY <1>3, SoundStep
  <2>2. CASE DeviceSends
    BY <1>3, <2>1, <2>2, DeviceSendsTyped
  <2>3. CASE Read
    BY <1>3, <2>1, <2>3, ReadTyped
  <2>4. CASE Begin \/ Advance
    <3>1. inbox' \in Seq(Int)
      BY <1>2, <1>3
    <3> QED BY <2>1, <2>4, <3>1, WalkTyped
  <2>5. CASE Owner
    <3>1. Stay /\ inbox' \in Seq(Int)
      BY <1>2, <1>3, <2>5 DEF Owner, Delete, Make, Erase, tty, parser, walk
    <3> QED BY <2>1, <3>1, OthersTyped
  <2> QED BY <1>3, <2>2, <2>3, <2>4, <2>5
<1>4. CASE SendData
  <2>1. todo # <<>> /\ todo \in Seq(Int \X Int)
    BY <1>4 DEF SendData, Send, ValuesTyped
  <2>2. Head(todo)[2] \in Int
    <3>1. Head(todo) \in Int \X Int
      BY <2>1
    <3> QED BY <3>1
  <2>3. PICK v \in Int : v = Head(todo)[2]
    BY <2>2
  <2>4. UNCHANGED audio \/ Setting(v)
    BY <1>4, <2>3 DEF SendData
  <2>5. inbox' = inbox \/ inbox' = Append(inbox, v)
    BY <1>4, <2>3 DEF SendData
  <2>6. SoundGood'
    BY <1>0, <2>4, SoundStep
  <2>7. inbox' \in Seq(Int)
    BY <1>2, <2>5
  <2> QED BY <1>4, <2>6, <2>7, WalkTyped DEF SendData
<1>5. CASE Arrive \/ Lose
  <2>1. inbox # <<>> /\ inbox' = Tail(inbox) /\ UNCHANGED serial /\ (Setting(Head(inbox)) \/ UNCHANGED audio)
    BY <1>5 DEF Arrive, Lose
  <2>2. Head(inbox) \in Int /\ Tail(inbox) \in Seq(Int)
    BY <1>2, <2>1
  <2>3. SoundGood'
    BY <1>0, <2>1, <2>2, SoundStep
  <2> QED BY <1>1, <2>1, <2>2, <2>3, OthersTyped
<1>6. CASE AudioThreads /\ UNCHANGED <<serial, inbox>>
  <2>1. inbox' \in Seq(Int)
    BY <1>2, <1>6
  <2> QED BY <1>1, <1>6, <2>1, SoundStep, OthersTyped
<1>7. CASE UNCHANGED <<serial, audio, inbox>>
  <2>1. inbox' \in Seq(Int)
    BY <1>2, <1>7
  <2> QED BY <1>1, <1>7, <2>1, SoundStep, OthersTyped
<1> QED BY <1>3, <1>4, <1>5, <1>6, <1>7 DEF Next, Controls, vars

-----------------------------------------------------------------------------
(* The AudioSource: what render touches is in the recording and the        *)
(* buffers but for the reasons listed, and a packet that comes is passed   *)
(* on once, unless there is no recording or the timer renders meanwhile    *)
(* (AudioSource.cpp, Recorder.cpp); whoever sends the values, on whichever *)
(* thread, as SerialParser.cpp and CoffeeMill.cpp parse them.              *)
THEOREM Sounding == Spec => []SoundInv
<1> DEFINE Proven == SoundGood /\ ValuesTyped
<1>1. Init => Proven
  BY SoundBegins, ValuesBegin
<1>2. Proven /\ [Next]_vars => Proven'
  BY SoundingStep
<1>3. Proven => SoundInv
  BY SoundAgrees
<1> QED BY <1>1, <1>2, <1>3, PTL DEF Spec

-----------------------------------------------------------------------------
(* What a module was given, when another value is sent *)
FoldOf(f, m, s) == f = [k \in 0 .. Len(s) |-> IF k = 0 THEN <<>>
                          ELSE IF s[k][1] = m THEN Append(f[k - 1], s[k][2]) ELSE f[k - 1]]

LEMMA GivenFold ==
    ASSUME NEW m, NEW A, NEW s \in Seq(A \X Int)
    PROVE  \E f : FoldOf(f, m, s) /\ GivenTo(m, s) = f[Len(s)] /\ \A k \in 0 .. Len(s) : f[k] \in Seq(Int)
<1> DEFINE N == Len(s)
           T == Seq(Int)
           G(f) == f = [k \in 0 .. N |-> IF k = 0 THEN <<>>
                          ELSE IF s[k][1] = m THEN Append(f[k - 1], s[k][2]) ELSE f[k - 1]]
           f == CHOOSE g : G(g)
           step == [p \in T \X (1 .. N) |-> IF s[p[2]][1] = m THEN Append(p[1], s[p[2]][2]) ELSE p[1]]
<1>0. N \in Nat /\ \A k \in 1 .. N : s[k][2] \in Int
  <2>1. \A k \in 1 .. N : s[k] \in A \X Int
    OBVIOUS
  <2> QED BY <2>1
<1>1. /\ step \in [T \X (1 .. N) -> T]
      /\ \A x \in T, k \in 1 .. N : step[<<x, k>>] = IF s[k][1] = m THEN Append(x, s[k][2]) ELSE x
  BY <1>0
<1>2. GivenTo(m, s) = f[N]
  BY DEF GivenTo, Folded
<1> HIDE DEF N, step
<1>a. PICK g : ByStep(g, T, N, <<>>, step)
  <2>1. N \in Nat /\ <<>> \in T /\ step \in [T \X (1 .. N) -> T]
    BY <1>0, <1>1
  <2> HIDE DEF T
  <2> QED BY <2>1, FoldExists, Zenon
<1>3. g = [k \in 0 .. N |-> IF k = 0 THEN <<>> ELSE step[<<g[k - 1], k>>]] /\ \A k \in 0 .. N : g[k] \in T
  BY <1>a DEF ByStep
<1>4. \A k \in 0 .. N : k # 0 => k - 1 \in 0 .. N /\ k \in 1 .. N
  BY <1>0
<1>5. G(g)
  <2> HIDE DEF T
  <2> QED BY <1>1, <1>3, <1>4
<1>6. G(f)
  <2> HIDE DEF G
  <2>1. \E h : G(h)
    BY <1>5
  <2> QED BY <2>1
<1> HIDE DEF f
<1>7. \A n \in Nat : n <= N => f[n] \in T
  <2> DEFINE S == {n \in Nat : n <= N => f[n] \in T}
  <2>1. 0 \in S
    BY <1>0, <1>6
  <2>2. ASSUME NEW n \in S PROVE n + 1 \in S
    <3> SUFFICES ASSUME n + 1 <= N PROVE f[n + 1] \in T
      OBVIOUS
    <3>1. n \in Nat /\ f[n] \in T /\ n + 1 \in 1 .. N /\ n + 1 \in 0 .. N /\ (n + 1) - 1 = n /\ n + 1 # 0
      BY <1>0
    <3>2. f[n + 1] = IF s[n + 1][1] = m THEN Append(f[n], s[n + 1][2]) ELSE f[n]
      BY <1>6, <3>1
    <3> QED BY <1>0, <3>1, <3>2
  <2>3. \A n \in Nat : n \in S
    <3> HIDE DEF S
    <3>1. S \in SUBSET Nat
      BY DEF S
    <3> QED BY <2>1, <2>2, <3>1, Induction
  <2> QED BY <2>3
<1>8. FoldOf(f, m, s)
  BY <1>6 DEF FoldOf, N
<1>9. \A k \in 0 .. Len(s) : f[k] \in T
  BY <1>0, <1>7 DEF N
<1> QED BY <1>2, <1>8, <1>9 DEF N

GivenOneMore(m, s, x) ==
    /\ GivenTo(m, s) \in Seq(Int)
    /\ GivenTo(m, Append(s, x)) = IF x[1] = m THEN Append(GivenTo(m, s), x[2]) ELSE GivenTo(m, s)
LEMMA GivenMore ==
    ASSUME NEW m, NEW A, NEW s \in Seq(A \X Int), NEW x \in A \X Int
    PROVE  GivenOneMore(m, s, x)
<1> DEFINE t == Append(s, x)
           N == Len(s)
<1>1. /\ t \in Seq(A \X Int) /\ N \in Nat /\ Len(t) = N + 1 /\ t[N + 1] = x
      /\ \A k \in 1 .. N : t[k] = s[k]
  OBVIOUS
<1>2. PICK f : FoldOf(f, m, s) /\ GivenTo(m, s) = f[N] /\ \A k \in 0 .. N : f[k] \in Seq(Int)
  BY GivenFold
<1> HIDE DEF t
<1>3. PICK g : FoldOf(g, m, t) /\ GivenTo(m, t) = g[N + 1]
  <2>1. t \in Seq(A \X Int) /\ Len(t) = N + 1
    BY <1>1
  <2>2. \E g : FoldOf(g, m, t) /\ GivenTo(m, t) = g[Len(t)] /\ \A k \in 0 .. Len(t) : g[k] \in Seq(Int)
    BY <2>1, GivenFold, Zenon
  <2> QED BY <2>1, <2>2, Zenon
<1> HIDE DEF N
<1> DEFINE S == {n \in Nat : n <= N => g[n] = f[n]}
<1>4. f = [k \in 0 .. N |-> IF k = 0 THEN <<>> ELSE IF s[k][1] = m THEN Append(f[k - 1], s[k][2]) ELSE f[k - 1]]
  BY <1>2 DEF FoldOf, N
<1>5. g = [k \in 0 .. N + 1 |-> IF k = 0 THEN <<>> ELSE IF t[k][1] = m THEN Append(g[k - 1], t[k][2]) ELSE g[k - 1]]
  BY <1>1, <1>3 DEF FoldOf
<1>6. 0 \in S
  BY <1>1, <1>4, <1>5
<1>7. ASSUME NEW n \in S PROVE n + 1 \in S
  <2> SUFFICES ASSUME n + 1 <= N PROVE g[n + 1] = f[n + 1]
    OBVIOUS
  <2>1. n \in Nat /\ g[n] = f[n] /\ n + 1 \in 1 .. N /\ n + 1 \in 0 .. N /\ n + 1 \in 0 .. N + 1 /\ (n + 1) - 1 = n /\ n + 1 # 0
    BY <1>1
  <2>2. t[n + 1] = s[n + 1]
    BY <1>1, <2>1
  <2>3. f[n + 1] = IF s[n + 1][1] = m THEN Append(f[n], s[n + 1][2]) ELSE f[n]
    <3> HIDE DEF S
    <3> QED BY <1>4, <2>1
  <2>4. g[n + 1] = IF t[n + 1][1] = m THEN Append(g[n], t[n + 1][2]) ELSE g[n]
    <3> HIDE DEF S
    <3> QED BY <1>5, <2>1
  <2> QED BY <2>1, <2>2, <2>3, <2>4, Zenon
<1>8. \A n \in Nat : n \in S
  <2> HIDE DEF S
  <2>1. S \in SUBSET Nat
    BY DEF S
  <2> QED BY <1>6, <1>7, <2>1, Induction
<1>9. g[N] = f[N]
  BY <1>1, <1>8
<1>10. N + 1 \in 0 .. N + 1 /\ N + 1 # 0 /\ (N + 1) - 1 = N /\ N \in 0 .. N
  BY <1>1
<1> HIDE DEF S
<1>11. g[N + 1] = IF x[1] = m THEN Append(f[N], x[2]) ELSE f[N]
  <2>1. g[N + 1] = IF t[N + 1][1] = m THEN Append(g[N], t[N + 1][2]) ELSE g[N]
    BY <1>5, <1>10
  <2> QED BY <1>1, <1>9, <2>1, Zenon
<1>12. GivenTo(m, s) \in Seq(Int) /\ GivenTo(m, Append(s, x)) = g[N + 1] /\ GivenTo(m, s) = f[N]
  BY <1>2, <1>3, <1>10 DEF t
<1> QED BY <1>11, <1>12 DEF GivenOneMore

(* Going through the list for one value after the other: modules that stay *)
(* were given the values of the walks that are over, and that of this walk *)
(* if it has come past them.                                               *)
Steady == ToSet(Module) \ Movable
Walking == spc \in {"send", "next"}
Through == Len(passed) - Len(todo)
Got(m, n) == GivenTo(m, given) = [k \in 1 .. n |-> passed[k][2]]
Past(j, p) == j < p \/ (j = p /\ spc = "next")

ListGood ==
    /\ mList \in Seq(ToSet(Module)) /\ \A i, j \in 1 .. Len(mList) : mList[i] = mList[j] => i = j
    /\ orders \in Nat /\ (orders = 0 => mList = Module)
    /\ \A m \in Steady : \E j \in 1 .. Len(mList) : mList[j] = m
    /\ Walking => at \in ToSet(Module)
    /\ broken \in {"module", "node"} => orders > 0 /\ \A j \in 1 .. Len(mList) : mList[j] # at
PassedGood ==
    /\ given \in Seq(ToSet(Module) \X Int) /\ passed \in Seq(Int \X Int)
    /\ spc = "read" => todo = <<>>
    /\ Len(todo) <= Len(passed) /\ \A k \in 1 .. Len(todo) : todo[k] = passed[Through + k]
GivenGood ==
    ~ Dead => \A m \in Steady :
        /\ ~ Walking => Got(m, Through)
        /\ Walking => \A j, p \in 1 .. Len(mList) :
              mList[j] = m /\ mList[p] = at => Got(m, IF Past(j, p) THEN Through + 1 ELSE Through)
WalkGood == ListGood /\ PassedGood /\ GivenGood

LEMMA WalkBegins == Init => WalkGood
<1> SUFFICES ASSUME Init PROVE WalkGood
  OBVIOUS
<1>1. SerialInit
  BY DEF Init
<1>2. Module \in Seq(ToSet(Module)) /\ \A i, j \in 1 .. Len(Module) : Module[i] = Module[j] => i = j
  BY ModulesAssumption DEF ModulesAssumption
<1>3. \A m \in ToSet(Module) : \E j \in 1 .. Len(Module) : Module[j] = m
  BY <1>2 DEF ToSet
<1>4. ListGood
  BY <1>1, <1>2, <1>3 DEF SerialInit, ListGood, Walking, Steady
<1>5. PassedGood
  BY <1>1 DEF SerialInit, PassedGood
<1>6. GivenGood
  <2> SUFFICES ASSUME NEW m PROVE Got(m, Through)
    BY <1>1 DEF SerialInit, GivenGood, Walking
  <2>1. <<>> \in Seq(ToSet(Module) \X Int) /\ Len(<<>>) = 0
    OBVIOUS
  <2>2. PICK f : FoldOf(f, m, <<>>) /\ GivenTo(m, <<>>) = f[0]
    <3>1. \E f : FoldOf(f, m, <<>>) /\ GivenTo(m, <<>>) = f[Len(<<>>)] /\ \A k \in 0 .. Len(<<>>) : f[k] \in Seq(Int)
      BY <2>1, GivenFold, Zenon
    <3> QED BY <2>1, <3>1, Zenon
  <2>3. f[0] = <<>>
    BY <2>1, <2>2 DEF FoldOf
  <2>4. Through = 0 /\ given = <<>>
    BY <1>1 DEF SerialInit, Through
  <2>5. [k \in 1 .. 0 |-> passed[k][2]] = <<>>
    OBVIOUS
  <2> QED BY <2>2, <2>3, <2>4, <2>5 DEF Got
<1> QED BY <1>4, <1>5, <1>6 DEF WalkGood

(* The steps: of all others ...                                            *)
LEMMA WalkStays ==
    ASSUME WalkGood, UNCHANGED <<mList, orders, spc, at, todo, passed, given, broken>>
    PROVE  WalkGood'
<1>1. ListGood'
  BY DEF WalkGood, ListGood, Walking, Steady
<1>2. PassedGood'
  BY DEF WalkGood, PassedGood, Through
<1>3. Walking' = Walking /\ Through' = Through /\ Dead' = Dead
  BY DEF Walking, Through, Dead
<1>4. \A m, n : Got(m, n)' = Got(m, n)
  BY DEF Got, GivenTo, Folded
<1>5. \A j, p : Past(j, p)' = Past(j, p)
  BY DEF Past
<1>6. GivenGood'
  BY <1>3, <1>4, <1>5 DEF WalkGood, GivenGood
<1> QED BY <1>1, <1>2, <1>6 DEF WalkGood

(* ... of a read, ...                                                      *)
LEMMA ReadWalks == ASSUME ValuesTyped, WalkGood, Read, todo' \in Seq(Int \X Int) PROVE WalkGood'
<1>1. PICK out : todo' = out /\ passed' = passed \o out /\ spc' \in {"spin", "read", "begin"} /\ (spc' = "read" => out = <<>>)
  <2>1. PICK p, ends : /\ todo' = p.out /\ passed' = passed \o p.out
                       /\ spc' = IF ~ ends THEN "spin" ELSE IF p.out = <<>> THEN "read" ELSE "begin"
    BY Zenon DEF Read
  <2> QED BY <2>1
<1>2. spc = "read" /\ ~ Dead /\ UNCHANGED <<mList, orders, at, given>> /\ broken' \in {broken, "callback"}
  <2>1. spc = "read" /\ ~ Dead /\ UNCHANGED <<device, lost, typed, at, given, owner, due, bad>>
    BY Zenon DEF Read
  <2>2. PICK other : broken' = IF other THEN "callback" ELSE broken
    BY Zenon DEF Read
  <2> QED BY <2>1, <2>2 DEF owner
<1>3. ListGood'
  BY <1>1, <1>2 DEF WalkGood, ListGood, Walking, Steady, Dead
<1>4. todo = <<>> /\ passed \in Seq(Int \X Int) /\ out \in Seq(Int \X Int) /\ Len(todo) = 0
  BY <1>1, <1>2 DEF WalkGood, PassedGood
<1>5. /\ passed' \in Seq(Int \X Int) /\ Len(passed') = Len(passed) + Len(out)
      /\ Len(passed) \in Nat /\ Len(out) \in Nat
      /\ \A k \in 1 .. Len(out) : passed'[Len(passed) + k] = out[k]
      /\ \A k \in 1 .. Len(passed) : passed'[k] = passed[k]
  BY <1>1, <1>4
<1>6. Through' = Len(passed) /\ Through = Len(passed)
  BY <1>1, <1>4, <1>5 DEF Through
<1>7. PassedGood'
  BY <1>1, <1>2, <1>5, <1>6 DEF WalkGood, PassedGood
<1>8. GivenGood'
  <2> SUFFICES ASSUME NEW m \in Steady PROVE Got(m, Through)'
    BY <1>1 DEF GivenGood, Walking
  <2>1. Got(m, Len(passed))
    BY <1>2, <1>6 DEF WalkGood, GivenGood, Walking
  <2>2. [k \in 1 .. Len(passed) |-> passed'[k][2]] = [k \in 1 .. Len(passed) |-> passed[k][2]]
    BY <1>5
  <2>3. GivenTo(m, given)' = GivenTo(m, given)
    BY <1>2 DEF GivenTo, Folded
  <2> QED BY <1>6, <2>1, <2>2, <2>3 DEF Got
<1> QED BY <1>3, <1>7, <1>8 DEF WalkGood

(* ... of the walk: a value is done with, ...                              *)
LEMMA ValueDone ==
    ASSUME ValuesTyped, WalkGood, todo # <<>>, todo' = Tail(todo), UNCHANGED passed,
           spc' = IF Len(todo) = 1 THEN "read" ELSE "begin", UNCHANGED given
    PROVE  PassedGood' /\ Through' = Through + 1 /\ \A m, n : Got(m, n)' = Got(m, n)
<1>1. todo \in Seq(Int \X Int) /\ passed \in Seq(Int \X Int) /\ Len(todo) <= Len(passed)
  BY DEF ValuesTyped, WalkGood, PassedGood
<1>2. /\ Tail(todo) \in Seq(Int \X Int) /\ Len(Tail(todo)) = Len(todo) - 1 /\ Len(todo) \in Nat /\ Len(passed) \in Nat
      /\ \A k \in 1 .. Len(todo) - 1 : Tail(todo)[k] = todo[k + 1]
  <2>1. \A T, L : L \in Seq(T) /\ L # <<>> => /\ Tail(L) \in Seq(T) /\ Len(Tail(L)) = Len(L) - 1 /\ Len(L) \in Nat
                                              /\ \A k \in 1 .. Len(L) - 1 : Tail(L)[k] = L[k + 1]
    OBVIOUS
  <2>2. Len(passed) \in Nat
    BY <1>1
  <2> QED BY <1>1, <2>1, <2>2, Zenon
<1>3. Through' = Through + 1
  BY <1>1, <1>2 DEF Through
<1>4. spc' = "read" => todo' = <<>>
  <2>1. \A T, L : L \in Seq(T) /\ Len(L) = 0 => L = <<>>
    OBVIOUS
  <2>2. Len(todo) = 1 => Tail(todo) = <<>>
    <3>1. Len(todo) = 1 => Len(Tail(todo)) = 0
      BY <1>2
    <3> QED BY <1>2, <2>1, <3>1, Zenon
  <2> QED BY <2>2
<1>5. ASSUME NEW k \in 1 .. Len(todo') PROVE todo'[k] = passed'[Through' + k]
  <2>1. k + 1 \in 1 .. Len(todo) /\ todo'[k] = todo[k + 1] /\ Through' + k = Through + (k + 1)
    BY <1>1, <1>2, <1>3 DEF Through
  <2> QED BY <2>1 DEF WalkGood, PassedGood
<1>6. PassedGood'
  <2>1. Len(todo') <= Len(passed') /\ passed' \in Seq(Int \X Int) /\ given' \in Seq(ToSet(Module) \X Int)
    BY <1>1, <1>2 DEF WalkGood, PassedGood
  <2> QED BY <1>4, <1>5, <2>1 DEF PassedGood
<1> QED BY <1>3, <1>6 DEF Got, GivenTo, Folded

LEMMA BeginWalks == ASSUME ValuesTyped, WalkGood, Begin PROVE WalkGood'
<1>1. spc = "begin" /\ ~ Dead /\ UNCHANGED <<mList, orders, broken, passed, given>> /\ todo # <<>>
  BY DEF Begin, owner, ValuesTyped
<1>2. mList \in Seq(ToSet(Module)) /\ NULL \notin ToSet(Module)
  BY ModulesAssumption DEF ModulesAssumption, WalkGood, ListGood
<1>3. CASE mList = <<>>
  <2>1. at' = NULL /\ todo' = Tail(todo) /\ spc' = IF Len(todo) = 1 THEN "read" ELSE "begin"
    BY <1>3 DEF Begin, GoTo
  <2>2. PassedGood'
    BY <1>1, <2>1, ValueDone
  <2>3. Steady = {}
    <3>1. Len(mList) = 0
      BY <1>3
    <3> QED BY <3>1 DEF WalkGood, ListGood
  <2>4. ListGood'
    BY <1>1, <2>1 DEF WalkGood, ListGood, Walking, Steady, Dead
  <2>5. GivenGood'
    BY <2>3 DEF GivenGood, Steady
  <2> QED BY <2>2, <2>4, <2>5 DEF WalkGood
<1>4. CASE mList # <<>>
  <2>1. Head(mList) = mList[1] /\ Head(mList) \in ToSet(Module) /\ Len(mList) \in Nat
    BY <1>2, <1>4
  <2>2. at' = mList[1] /\ spc' = "send" /\ todo' = todo
    BY <1>2, <1>4, <2>1 DEF Begin, GoTo
  <2>3. ListGood'
    BY <1>1, <2>1, <2>2 DEF WalkGood, ListGood, Walking, Steady, Dead
  <2>4. PassedGood'
    BY <1>1, <2>2 DEF WalkGood, PassedGood, Through
  <2>5. ASSUME NEW m \in Steady, NEW j \in 1 .. Len(mList), NEW p \in 1 .. Len(mList), mList[j] = m, mList[p] = mList[1]
        PROVE  Got(m, Through) /\ ~ Past(j, p)'
    <3>1. p = 1
      BY <2>1, <2>5 DEF WalkGood, ListGood
    <3> QED BY <1>1, <2>2, <3>1 DEF WalkGood, GivenGood, Walking, Past
  <2>6. Through' = Through /\ \A m, n : Got(m, n)' = Got(m, n)
    BY <1>1, <2>2 DEF Through, Got, GivenTo, Folded
  <2>7. GivenGood'
    BY <1>1, <2>2, <2>5, <2>6 DEF GivenGood, Walking, Steady
  <2> QED BY <2>3, <2>4, <2>7 DEF WalkGood
<1> QED BY <1>3, <1>4

LEMMA AdvanceWalks == ASSUME ValuesTyped, WalkGood, Advance PROVE WalkGood'
<1>1. spc = "next" /\ ~ Dead /\ UNCHANGED <<mList, orders, passed, given>> /\ todo # <<>> /\ at \in ToSet(Module)
  BY DEF Advance, owner, ValuesTyped, WalkGood, ListGood, Walking
<1>2. mList \in Seq(ToSet(Module)) /\ NULL \notin ToSet(Module) /\ Len(mList) \in Nat
  BY ModulesAssumption DEF ModulesAssumption, WalkGood, ListGood
<1>3. CASE at \notin ToSet(mList)
  <2>1. \A j \in 1 .. Len(mList) : mList[j] # at
    BY <1>2, <1>3 DEF ToSet
  <2>2. orders > 0
    <3>1. \A m \in ToSet(Module) : \E j \in 1 .. Len(Module) : Module[j] = m
      BY ModulesAssumption DEF ModulesAssumption, ToSet
    <3> QED BY <1>1, <2>1, <3>1 DEF WalkGood, ListGood
  <2>3. broken' = "node" /\ UNCHANGED <<spc, todo, at>>
    BY <1>3 DEF Advance
  <2>4. ListGood'
    BY <1>1, <2>1, <2>2, <2>3 DEF WalkGood, ListGood, Walking, Steady
  <2>5. PassedGood'
    BY <1>1, <2>3 DEF WalkGood, PassedGood, Through
  <2> QED BY <2>3, <2>4, <2>5 DEF WalkGood, GivenGood, Dead
<1>4. CASE at \in ToSet(mList)
  <2>1. PICK k \in 1 .. Len(mList) : k = (CHOOSE i \in 1 .. Len(mList) : mList[i] = at) /\ mList[k] = at
    BY <1>2, <1>4 DEF ToSet
  <2>2. GoTo(IF k = Len(mList) THEN NULL ELSE mList[k + 1]) /\ UNCHANGED broken
    BY <1>4, <2>1 DEF Advance
  <2>3. \A p \in 1 .. Len(mList) : mList[p] = at => p = k
    BY <2>1 DEF WalkGood, ListGood
  <2>4. ASSUME NEW m \in Steady, NEW j \in 1 .. Len(mList), mList[j] = m
        PROVE  Got(m, IF j <= k THEN Through + 1 ELSE Through)
    <3>1. Past(j, k) <=> j <= k
      BY <1>1 DEF Past
    <3> QED BY <1>1, <2>1, <2>4, <3>1 DEF WalkGood, GivenGood, Walking
  <2>5. CASE k = Len(mList)
    <3>1. at' = NULL /\ todo' = Tail(todo) /\ spc' = IF Len(todo) = 1 THEN "read" ELSE "begin"
      BY <2>2, <2>5 DEF GoTo
    <3>2. PassedGood' /\ Through' = Through + 1 /\ \A m, n : Got(m, n)' = Got(m, n)
      BY <1>1, <3>1, ValueDone
    <3>3. ListGood'
      BY <1>1, <2>2, <3>1 DEF WalkGood, ListGood, Walking, Steady, Dead
    <3>4. ASSUME NEW m \in Steady PROVE Got(m, Through)'
      <4>1. PICK j \in 1 .. Len(mList) : mList[j] = m
        BY DEF WalkGood, ListGood
      <4>2. Got(m, Through + 1)
        BY <2>4, <2>5, <4>1
      <4>3. Got(m, Through)' <=> Got(m, Through + 1)
        BY <3>2 DEF Got
      <4> QED BY <4>2, <4>3
    <3>5. GivenGood'
      BY <3>1, <3>4 DEF GivenGood, Walking, Steady
    <3> QED BY <3>2, <3>3, <3>5 DEF WalkGood
  <2>6. CASE k # Len(mList)
    <3>1. k + 1 \in 1 .. Len(mList) /\ mList[k + 1] \in ToSet(Module)
      BY <1>2, <2>6
    <3>2. at' = mList[k + 1] /\ spc' = "send" /\ todo' = todo
      BY <1>2, <2>2, <2>6, <3>1 DEF GoTo
    <3>3. ListGood'
      BY <1>1, <2>2, <3>1, <3>2 DEF WalkGood, ListGood, Walking, Steady, Dead
    <3>4. PassedGood'
      BY <1>1, <3>2 DEF WalkGood, PassedGood, Through
    <3>5. Through' = Through /\ \A m, n : Got(m, n)' = Got(m, n)
      BY <1>1, <3>2 DEF Through, Got, GivenTo, Folded
    <3>6. ASSUME NEW m \in Steady, NEW j \in 1 .. Len(mList), NEW p \in 1 .. Len(mList), mList[j] = m, mList[p] = mList[k + 1]
          PROVE  Got(m, IF Past(j, p)' THEN Through + 1 ELSE Through)
      <4>1. p = k + 1
        BY <3>1, <3>6 DEF WalkGood, ListGood
      <4>2. Past(j, p)' <=> j <= k
        BY <3>2, <4>1 DEF Past
      <4> QED BY <2>4, <3>6, <4>2
    <3>7. GivenGood'
      BY <1>1, <3>2, <3>5, <3>6 DEF GivenGood, Walking, Steady
    <3> QED BY <3>3, <3>4, <3>7 DEF WalkGood
  <2> QED BY <2>5, <2>6
<1> QED BY <1>3, <1>4

(* ... a value is sent, ...                                                *)
LEMMA SendWalks == ASSUME ValuesTyped, WalkGood, Send PROVE WalkGood'
<1>1. /\ spc = "send" /\ ~ Dead /\ UNCHANGED <<mList, orders, passed, todo, at>>
      /\ todo # <<>> /\ todo \in Seq(Int \X Int) /\ at \in ToSet(Module)
  BY DEF Send, owner, ValuesTyped, WalkGood, ListGood, Walking
<1>2. PassedGood /\ ListGood /\ GivenGood
  BY DEF WalkGood
<1>3. Through' = Through
  BY <1>1 DEF Through
<1>4. CASE at \notin ToSet(mList) \union {deleting}
  <2>1. \A j \in 1 .. Len(mList) : mList[j] # at
    BY <1>2, <1>4 DEF ToSet, ListGood
  <2>2. orders > 0
    <3>1. \A m \in ToSet(Module) : \E j \in 1 .. Len(Module) : Module[j] = m
      BY ModulesAssumption DEF ModulesAssumption, ToSet
    <3>2. PICK j \in 1 .. Len(Module) : Module[j] = at
      BY <1>1, <3>1
    <3>3. mList # Module
      BY <2>1, <3>2
    <3> QED BY <1>2, <3>3 DEF ListGood
  <2>3. broken' = "module" /\ UNCHANGED <<spc, given>>
    BY <1>4 DEF Send
  <2>4. ListGood'
    BY <1>1, <1>2, <2>1, <2>2, <2>3 DEF ListGood, Walking, Steady
  <2>5. PassedGood'
    BY <1>1, <1>2, <1>3, <2>3 DEF PassedGood
  <2> QED BY <2>3, <2>4, <2>5 DEF WalkGood, GivenGood, Dead
<1>5. CASE at \in ToSet(mList) \union {deleting}
  <2>1. PICK v \in Int : v = Head(todo)[2]
    <3>1. Head(todo) \in Int \X Int
      BY <1>1
    <3> QED BY <3>1
  <2>2. spc' = "next" /\ given' = Append(given, <<at, v>>) /\ UNCHANGED broken
    BY <1>5, <2>1 DEF Send
  <2>3. ListGood'
    BY <1>1, <1>2, <2>2 DEF ListGood, Walking, Steady
  <2>4. given \in Seq(ToSet(Module) \X Int) /\ <<at, v>> \in ToSet(Module) \X Int
    BY <1>1, <1>2 DEF PassedGood
  <2>x. PICK x \in ToSet(Module) \X Int : x = <<at, v>> /\ x[1] = at /\ x[2] = v
    BY <2>4
  <2>5. PassedGood'
    BY <1>1, <1>2, <1>3, <2>2, <2>4 DEF PassedGood
  <2>6. v = passed[Through + 1][2] /\ Through \in Nat
    <3>1. Len(todo) \in Nat /\ Len(passed) \in Nat /\ 1 \in 1 .. Len(todo) /\ Head(todo) = todo[1]
      BY <1>1, <1>2 DEF PassedGood
    <3>2. Through + 1 = Len(passed) - Len(todo) + 1 /\ Through \in Nat
      BY <1>2, <3>1 DEF PassedGood, Through
    <3>3. todo[1] = passed[Through + 1]
      BY <1>2, <3>1 DEF PassedGood
    <3> QED BY <2>1, <3>1, <3>2, <3>3
  <2>7. ASSUME NEW m
        PROVE  GivenTo(m, given)' = IF at = m THEN Append(GivenTo(m, given), v) ELSE GivenTo(m, given)
    <3>1. GivenTo(m, Append(given, x)) = IF x[1] = m THEN Append(GivenTo(m, given), x[2]) ELSE GivenTo(m, given)
      <4>1. GivenOneMore(m, given, x)
        BY <2>4, GivenMore, Zenon
      <4> QED BY <4>1 DEF GivenOneMore
    <3>2. GivenTo(m, given)' = GivenTo(m, Append(given, x))
      BY <2>2, <2>x DEF GivenTo, Folded
    <3> QED BY <2>x, <3>1, <3>2, Zenon
  <2>8. ASSUME NEW m \in Steady, NEW j \in 1 .. Len(mList), NEW p \in 1 .. Len(mList), mList[j] = m, mList[p] = at
        PROVE  Got(m, IF Past(j, p) THEN Through + 1 ELSE Through)'
    <3>1. Got(m, IF j < p THEN Through + 1 ELSE Through)
      BY <1>1, <1>2, <2>8 DEF GivenGood, Walking, Past
    <3>2. CASE m = at
      <4>1. j = p
        BY <1>2, <2>8, <3>2 DEF ListGood
      <4>2. GivenTo(m, given) = [k \in 1 .. Through |-> passed[k][2]]
        BY <3>1, <4>1 DEF Got
      <4>3. Append([k \in 1 .. Through |-> passed[k][2]], v) = [k \in 1 .. Through + 1 |-> passed[k][2]]
        <5>1. [k \in 1 .. Through |-> passed[k][2]] \in Seq(Int)
          <6>1. GivenTo(m, given) \in Seq(Int)
            BY <2>4, GivenMore DEF GivenOneMore
          <6> QED BY <4>2, <6>1, Zenon
        <5> DEFINE g == [k \in 1 .. Through |-> passed[k][2]]
        <5>2. Len(g) = Through
          BY <2>6
        <5>3. Append(g, v) = [k \in 1 .. Through + 1 |-> IF k = Through + 1 THEN v ELSE g[k]]
          BY <2>6, <5>1, <5>2
        <5> QED BY <2>6, <5>3
      <4>4. Past(j, p)'
        BY <2>2, <4>1 DEF Past
      <4> QED BY <1>1, <1>3, <2>7, <3>2, <4>2, <4>3, <4>4 DEF Got
    <3>3. CASE m # at
      <4>1. Past(j, p)' <=> j < p
        BY <2>2, <2>8, <3>3 DEF Past
      <4>2. GivenTo(m, given)' = GivenTo(m, given)
        BY <2>7, <3>3
      <4> QED BY <1>1, <1>3, <3>1, <4>1, <4>2 DEF Got
    <3> QED BY <3>2, <3>3
  <2>9. GivenGood'
    <3>1. Through' = Through /\ spc' = "next"
      BY <1>3, <2>2
    <3>2. \A m, n : Got(m, n)' <=> GivenTo(m, given)' = [k \in 1 .. n |-> passed[k][2]]
      BY <1>1 DEF Got
    <3> SUFFICES ASSUME NEW m \in Steady, NEW j \in 1 .. Len(mList), NEW p \in 1 .. Len(mList), mList[j] = m, mList[p] = at
                 PROVE  Got(m, IF Past(j, p) THEN Through + 1 ELSE Through)'
      BY <1>1, <2>2 DEF GivenGood, Walking, Steady
    <3> QED BY <1>3, <2>8
  <2> QED BY <2>3, <2>5, <2>9 DEF WalkGood
<1> QED BY <1>4, <1>5

(* ... and of the other thread: one module more, or less                   *)
LEMMA MakeWalks == ASSUME NEW m \in Movable, WalkGood, Make(m), m \in ToSet(Module) PROVE WalkGood'
<1>1. /\ UNCHANGED <<spc, todo, at, given, passed, broken>> /\ mList' = Append(mList, m) /\ orders' = orders + 1
      /\ m # at /\ ~ Dead /\ m \notin ToSet(mList)
  BY DEF Make, walk
<1>2. mList \in Seq(ToSet(Module)) /\ Len(mList) \in Nat
  BY DEF WalkGood, ListGood
<1>3. /\ mList' \in Seq(ToSet(Module)) /\ Len(mList') = Len(mList) + 1 /\ mList'[Len(mList) + 1] = m
      /\ \A j \in 1 .. Len(mList) : mList'[j] = mList[j] /\ mList[j] # m
  <2>1. \A j \in 1 .. Len(mList) : mList[j] # m
    BY <1>1, <1>2 DEF ToSet
  <2> QED BY <1>1, <1>2, <2>1
<1>4. ListGood'
  <2>1. \A i, j \in 1 .. Len(mList') : mList'[i] = mList'[j] => i = j
    BY <1>2, <1>3 DEF WalkGood, ListGood
  <2>2. \A r \in Steady : \E j \in 1 .. Len(mList') : mList'[j] = r
    BY <1>2, <1>3 DEF WalkGood, ListGood
  <2>3. orders' \in Nat /\ orders' # 0
    BY <1>1 DEF WalkGood, ListGood
  <2>4. Walking' => at' \in ToSet(Module)
    BY <1>1 DEF WalkGood, ListGood, Walking
  <2>5. broken' \notin {"module", "node"}
    BY <1>1 DEF Dead
  <2> QED BY <1>3, <2>1, <2>2, <2>3, <2>4, <2>5 DEF ListGood, Steady
<1>5. PassedGood' /\ Through' = Through /\ (\A r, n : Got(r, n)' = Got(r, n)) /\ (\A j, p : Past(j, p)' = Past(j, p))
  <2>1. PassedGood' /\ Through' = Through
    BY <1>1 DEF WalkGood, PassedGood, Through
  <2>2. \A r, n : Got(r, n)' = Got(r, n)
    BY <1>1 DEF Got, GivenTo, Folded
  <2>3. \A j, p : Past(j, p)' = Past(j, p)
    BY <1>1 DEF Past
  <2> QED BY <2>1, <2>2, <2>3
<1>6. ASSUME NEW r \in Steady, Walking, NEW j \in 1 .. Len(mList'), NEW p \in 1 .. Len(mList'), mList'[j] = r, mList'[p] = at
      PROVE  Got(r, IF Past(j, p) THEN Through + 1 ELSE Through)
  <2>1. r # m
    BY DEF Steady
  <2>2. j \in 1 .. Len(mList) /\ p \in 1 .. Len(mList)
    BY <1>1, <1>2, <1>3, <1>6, <2>1
  <2>3. mList[j] = r /\ mList[p] = at
    BY <1>3, <1>6, <2>2
  <2> QED BY <1>1, <1>6, <2>2, <2>3 DEF WalkGood, GivenGood
<1>7. GivenGood'
  BY <1>1, <1>5, <1>6 DEF WalkGood, GivenGood, Walking, Steady, Dead
<1> QED BY <1>4, <1>5, <1>7 DEF WalkGood

LEMMA EraseWalks == ASSUME NEW m \in Movable, WalkGood, Erase(m) PROVE WalkGood'
<1>1. UNCHANGED <<spc, todo, at, given, passed, broken>> /\ orders' = orders + 1 /\ ~ Dead
  BY DEF Erase, walk
<1>2. PICK k \in 1 .. Len(mList) : mList[k] = m /\ mList' = RemoveAt(mList, k)
  BY DEF Erase
<1>3. mList \in Seq(ToSet(Module))
  BY DEF WalkGood, ListGood
<1>4. /\ mList' \in Seq(ToSet(Module)) /\ Len(mList') = Len(mList) - 1 /\ Len(mList) \in Nat
      /\ \A j \in 1 .. Len(mList') : mList'[j] = IF j < k THEN mList[j] ELSE mList[j + 1]
  BY <1>2, <1>3, Removal
<1>5. ListGood'
  <2>1. ASSUME NEW i \in 1 .. Len(mList'), NEW j \in 1 .. Len(mList'), mList'[i] = mList'[j] PROVE i = j
    <3>1. PICK u \in 1 .. Len(mList) : u = (IF i < k THEN i ELSE i + 1) /\ mList[u] = mList'[i]
      <4>1. (IF i < k THEN i ELSE i + 1) \in 1 .. Len(mList)
        BY <1>4
      <4>2. mList'[i] = mList[IF i < k THEN i ELSE i + 1]
        BY <1>4
      <4> QED BY <4>1, <4>2
    <3>2. PICK v \in 1 .. Len(mList) : v = (IF j < k THEN j ELSE j + 1) /\ mList[v] = mList'[j]
      <4>1. (IF j < k THEN j ELSE j + 1) \in 1 .. Len(mList)
        BY <1>4
      <4>2. mList'[j] = mList[IF j < k THEN j ELSE j + 1]
        BY <1>4
      <4> QED BY <4>1, <4>2
    <3>3. u = v
      BY <2>1, <3>1, <3>2 DEF WalkGood, ListGood
    <3> QED BY <3>1, <3>2, <3>3
  <2>2. ASSUME NEW r \in Steady PROVE \E j \in 1 .. Len(mList') : mList'[j] = r
    <3>1. PICK i \in 1 .. Len(mList) : mList[i] = r
      BY DEF WalkGood, ListGood
    <3>2. i # k
      BY <1>2, <3>1 DEF Steady
    <3>3. CASE i < k
      BY <1>4, <3>1, <3>3
    <3>4. CASE i > k
      <4>1. i - 1 \in 1 .. Len(mList') /\ ~ i - 1 < k /\ (i - 1) + 1 = i
        BY <1>4, <3>4
      <4> QED BY <1>4, <3>1, <4>1
    <3> QED BY <1>4, <3>2, <3>3, <3>4
  <2>3. orders' \in Nat /\ orders' # 0
    BY <1>1 DEF WalkGood, ListGood
  <2>4. Walking' => at' \in ToSet(Module)
    BY <1>1 DEF WalkGood, ListGood, Walking
  <2>5. broken' \notin {"module", "node"}
    BY <1>1 DEF Dead
  <2> QED BY <1>4, <2>1, <2>2, <2>3, <2>4, <2>5 DEF ListGood, Steady
<1>6. PassedGood' /\ Through' = Through /\ (\A r, n : Got(r, n)' = Got(r, n)) /\ (\A j, p : Past(j, p)' = Past(j, p))
  <2>1. PassedGood' /\ Through' = Through
    BY <1>1 DEF WalkGood, PassedGood, Through
  <2>2. \A r, n : Got(r, n)' = Got(r, n)
    BY <1>1 DEF Got, GivenTo, Folded
  <2>3. \A j, p : Past(j, p)' = Past(j, p)
    BY <1>1 DEF Past
  <2> QED BY <2>1, <2>2, <2>3
<1>7. ASSUME NEW r \in Steady, Walking, NEW j \in 1 .. Len(mList'), NEW p \in 1 .. Len(mList'), mList'[j] = r, mList'[p] = at
      PROVE  Got(r, IF Past(j, p) THEN Through + 1 ELSE Through)
  <2>1. PICK i \in 1 .. Len(mList) : i = (IF j < k THEN j ELSE j + 1) /\ mList[i] = r
    <3>1. (IF j < k THEN j ELSE j + 1) \in 1 .. Len(mList)
      BY <1>4
    <3>2. mList'[j] = mList[IF j < k THEN j ELSE j + 1]
      BY <1>4
    <3> QED BY <1>7, <3>1, <3>2
  <2>2. PICK q \in 1 .. Len(mList) : q = (IF p < k THEN p ELSE p + 1) /\ mList[q] = at
    BY <1>4, <1>7
  <2>3. Past(i, q) <=> Past(j, p)
    BY <1>4, <2>1, <2>2 DEF Past
  <2> QED BY <1>1, <1>7, <2>1, <2>2, <2>3 DEF WalkGood, GivenGood
<1>8. GivenGood'
  BY <1>1, <1>6, <1>7 DEF WalkGood, GivenGood, Walking, Steady, Dead
<1> QED BY <1>5, <1>6, <1>8 DEF WalkGood

-----------------------------------------------------------------------------
(* The list of modules, without a lock: to go through it is undefined only *)
(* where the module that the serial thread stands at was deleted, and a    *)
(* module that is there all the time gets every value that was parsed      *)
(* once, in order, whatever modules are made and deleted around it         *)
(* (SerialParser.cpp and CoffeeMill.cpp, setData; ModuleManager::module).  *)
THEOREM Walks == Spec => []WalkExplained
<1> DEFINE Proven == SoundGood /\ ValuesTyped /\ WalkGood
<1>1. Init => Proven
  BY SoundBegins, ValuesBegin, WalkBegins
<1>2. Proven /\ [Next]_vars => Proven'
  <2> SUFFICES ASSUME SoundGood, ValuesTyped, WalkGood, [Next]_vars PROVE SoundGood' /\ ValuesTyped' /\ WalkGood'
    OBVIOUS
  <2>1. SoundGood' /\ ValuesTyped'
    BY SoundingStep
  <2> DEFINE Stay == UNCHANGED <<mList, orders, spc, at, todo, passed, given, broken>>
  <2>2. CASE Stay
    BY <2>1, <2>2, WalkStays
  <2>3. CASE Read
    <3>1. todo' \in Seq(Int \X Int)
      BY <2>1 DEF ValuesTyped
    <3> QED BY <2>1, <2>3, <3>1, ReadWalks
  <2>4. CASE Begin \/ Advance \/ Send
    BY <2>1, <2>4, BeginWalks, AdvanceWalks, SendWalks
  <2>5. CASE \E m \in Movable : Make(m) \/ Erase(m)
    <3>1. Movable \subseteq ToSet(Module)
      BY ModulesAssumption DEF ModulesAssumption
    <3> QED BY <2>1, <2>5, <3>1, MakeWalks, EraseWalks
  <2>6. CASE DeviceSends \/ Delete \/ UNCHANGED serial
    <3>1. ASSUME DeviceSends PROVE Stay
      <4>1. UNCHANGED <<parser, walk, owner, broken, passed, ragged>>
        BY <3>1, Zenon DEF DeviceSends
      <4> QED BY <4>1 DEF walk, owner
    <3>2. ASSUME Delete PROVE Stay
      BY <3>2 DEF Delete, walk
    <3>3. ASSUME UNCHANGED serial PROVE Stay
      BY <3>3 DEF serial, walk, owner
    <3>4. Stay
      BY <2>6, <3>1, <3>2, <3>3
    <3> QED BY <2>2, <3>4
  <2>7. DeviceSends \/ Read \/ Begin \/ Advance \/ Send \/ Owner \/ UNCHANGED serial
    BY DEF Next, Controls, vars, SendData, Arrive, Lose
  <2> QED BY <2>3, <2>4, <2>5, <2>6, <2>7 DEF Owner
<1>3. Proven => WalkExplained
  <2> SUFFICES ASSUME WalkGood PROVE WalkExplained
    OBVIOUS
  <2>1. broken \in {"module", "node"} => orders > 0 /\ at \notin ToSet(mList)
    <3>1. mList \in Seq(ToSet(Module))
      BY DEF WalkGood, ListGood
    <3> QED BY <3>1 DEF WalkGood, ListGood, ToSet
  <2>2. ASSUME ~ Dead, spc = "read", NEW m \in ToSet(Module) \ Movable
        PROVE  GivenTo(m, given) = [k \in 1 .. Len(passed) |-> passed[k][2]]
    <3>1. Got(m, Through) /\ todo = <<>>
      BY <2>2 DEF WalkGood, GivenGood, PassedGood, Walking, Steady
    <3>2. Through = Len(passed)
      BY <3>1 DEF WalkGood, PassedGood, Through
    <3> QED BY <3>1, <3>2 DEF Got
  <2> QED BY <2>1, <2>2 DEF WalkExplained
<1> QED BY <1>1, <1>2, <1>3, PTL DEF Spec

-----------------------------------------------------------------------------
(* The socket of datagrams is set as the newest of those wanted it that    *)
(* wanted anything.                                                        *)
Ttls(sent, i) == {j \in 1 .. i : sent[j].wants.ttl >= 0}
Ifaces(sent, i) == {j \in 1 .. i : sent[j].wants.iface # NIL}
Newest(S) == CHOOSE j \in S : \A k \in S : j >= k
(* The socket, as the first i datagrams left it                            *)
SetBy(sent, i, socket) ==
    /\ socket.ttl = IF Ttls(sent, i) = {} THEN 1 ELSE sent[Newest(Ttls(sent, i))].wants.ttl
    /\ socket.iface = IF Ifaces(sent, i) = {} THEN NIL ELSE sent[Newest(Ifaces(sent, i))].wants.iface

BookIs == book = [libc |-> book.libc, does |-> book.does, calls |-> book.calls, adr |-> book.adr, ai |-> book.ai,
                  tcp |-> book.tcp, server |-> book.server, read |-> book.read, udp |-> book.udp, sent |-> book.sent]
UdpGood == /\ \E T : book.sent \in Seq(T)
           /\ SetBy(book.sent, Len(book.sent), book.udp)
           /\ \A i \in 1 .. Len(book.sent) : SetBy(book.sent, i, book.sent[i].went)
LEMMA DatagramsBegin == ASSUME NEW b, AddressInit(b) PROVE BookIs /\ UdpGood
<1>1. BookIs /\ book.sent = <<>> /\ book.udp = [ttl |-> 1, iface |-> NIL]
  BY DEF AddressInit, BookIs
<1>2. <<>> \in Seq({}) /\ Len(<<>>) = 0
  OBVIOUS
<1>3. Ttls(<<>>, 0) = {} /\ Ifaces(<<>>, 0) = {}
  BY DEF Ttls, Ifaces
<1> QED BY <1>1, <1>2, <1>3 DEF UdpGood, SetBy

(* The newest of some datagrams; one datagram more                         *)
LEMMA NewestOf ==
    ASSUME NEW n \in Nat, NEW S \in SUBSET (1 .. n), S # {}
    PROVE  Newest(S) \in S /\ \A k \in S : Newest(S) >= k
<1> DEFINE R == {n - j : j \in S}
<1>1. R \in SUBSET Nat /\ R # {}
  <2>1. \A j \in S : n - j \in Nat /\ n - j \in R
    OBVIOUS
  <2>2. PICK j \in S : TRUE
    OBVIOUS
  <2> QED BY <2>1, <2>2
<1>2. PICK x \in R : \A y \in R : x <= y
  <2> HIDE DEF R
  <2> QED BY <1>1, LeastOf
<1>3. PICK j \in S : x = n - j
  BY <1>2
<1>4. \A k \in S : j >= k
  <2> SUFFICES ASSUME NEW k \in S PROVE j >= k
    OBVIOUS
  <2>1. n - k \in R
    OBVIOUS
  <2>2. n - j <= n - k
    BY <1>2, <1>3, <2>1
  <2> QED BY <2>2
<1> QED BY <1>4 DEF Newest

LEMMA SetMore ==
    ASSUME NEW T, NEW s \in Seq(T), NEW x, NEW t, t = Append(s, x), NEW i \in 0 .. Len(s), NEW socket
    PROVE  SetBy(t, i, socket) <=> SetBy(s, i, socket)
<1>1. \A j \in 1 .. i : t[j] = s[j]
  OBVIOUS
<1>2. Ttls(t, i) = Ttls(s, i) /\ Ifaces(t, i) = Ifaces(s, i)
  BY <1>1 DEF Ttls, Ifaces
<1>3. ASSUME NEW S, S \in SUBSET (1 .. i), S # {} PROVE t[Newest(S)] = s[Newest(S)]
  <2>1. i \in Nat
    OBVIOUS
  <2>2. Newest(S) \in S
    BY <1>3, <2>1, NewestOf
  <2> QED BY <1>1, <1>3, <2>2
<1>4. Ttls(s, i) \in SUBSET (1 .. i) /\ Ifaces(s, i) \in SUBSET (1 .. i)
  BY DEF Ttls, Ifaces
<1> QED BY <1>2, <1>3, <1>4 DEF SetBy

LEMMA SetNow ==
    ASSUME NEW T, NEW s \in Seq(T), NEW a, NEW x, NEW t, t = Append(s, x), x.wants = [ttl |-> a.ttl, iface |-> a.iface],
           NEW before, NEW now, SetBy(s, Len(s), before),
           now.ttl = IF a.ttl >= 0 THEN a.ttl ELSE before.ttl,
           now.iface = IF a.iface # NIL THEN a.iface ELSE before.iface
    PROVE  SetBy(t, Len(s) + 1, now)
<1> DEFINE n == Len(s)
<1>1. n \in Nat /\ t[n + 1] = x /\ \A j \in 1 .. n : t[j] = s[j]
  OBVIOUS
<1>2. SetBy(t, n, before)
  <2>1. n \in 0 .. n
    BY <1>1
  <2> QED BY <2>1, SetMore
<1> HIDE DEF n
<1>3. t[n + 1].wants.ttl = a.ttl /\ t[n + 1].wants.iface = a.iface
  BY <1>1
<1>4. ASSUME NEW S \in SUBSET (1 .. n + 1), n + 1 \in S PROVE Newest(S) = n + 1
  <2>1. n + 1 \in Nat /\ S # {}
    BY <1>1, <1>4
  <2>2. Newest(S) \in S /\ \A k \in S : Newest(S) >= k
    BY <2>1, NewestOf
  <2>3. Newest(S) \in 1 .. n + 1 /\ Newest(S) >= n + 1
    BY <1>4, <2>2
  <2> QED BY <1>1, <2>3
<1>5. now.ttl = IF Ttls(t, n + 1) = {} THEN 1 ELSE t[Newest(Ttls(t, n + 1))].wants.ttl
  <2>1. CASE a.ttl >= 0
    <3>1. Ttls(t, n + 1) \in SUBSET (1 .. n + 1)
      BY DEF Ttls
    <3>2. n + 1 \in 1 .. n + 1 /\ t[n + 1].wants.ttl >= 0
      BY <1>1, <1>3, <2>1
    <3>3. n + 1 \in Ttls(t, n + 1)
      BY <3>2 DEF Ttls
    <3>4. Newest(Ttls(t, n + 1)) = n + 1 /\ Ttls(t, n + 1) # {}
      BY <1>4, <3>1, <3>3
    <3> QED BY <1>3, <2>1, <3>4
  <2>2. CASE ~ (a.ttl >= 0)
    <3>1. ~ (t[n + 1].wants.ttl >= 0)
      BY <1>3, <2>2
    <3>2. \A j : j \in 1 .. n + 1 <=> j \in 1 .. n \/ j = n + 1
      BY <1>1
    <3>3. Ttls(t, n + 1) = Ttls(t, n)
      BY <3>1, <3>2, Zenon DEF Ttls
    <3> QED BY <1>2, <2>2, <3>3 DEF SetBy
  <2> QED BY <2>1, <2>2
<1>6. now.iface = IF Ifaces(t, n + 1) = {} THEN NIL ELSE t[Newest(Ifaces(t, n + 1))].wants.iface
  <2>1. CASE a.iface # NIL
    <3>1. Ifaces(t, n + 1) \in SUBSET (1 .. n + 1)
      BY DEF Ifaces
    <3>2. n + 1 \in 1 .. n + 1 /\ t[n + 1].wants.iface # NIL
      BY <1>1, <1>3, <2>1
    <3>3. n + 1 \in Ifaces(t, n + 1)
      BY <3>2 DEF Ifaces
    <3>4. Newest(Ifaces(t, n + 1)) = n + 1 /\ Ifaces(t, n + 1) # {}
      BY <1>4, <3>1, <3>3
    <3> QED BY <1>3, <2>1, <3>4
  <2>2. CASE a.iface = NIL
    <3>1. ~ (t[n + 1].wants.iface # NIL)
      BY <1>3, <2>2
    <3>2. \A j : j \in 1 .. n + 1 <=> j \in 1 .. n \/ j = n + 1
      BY <1>1
    <3>3. Ifaces(t, n + 1) = Ifaces(t, n)
      BY <3>1, <3>2, Zenon DEF Ifaces
    <3> QED BY <1>2, <2>2, <3>3 DEF SetBy
  <2> QED BY <2>1, <2>2
<1> QED BY <1>5, <1>6 DEF SetBy, n

(* The calls: all but one leave the datagrams alone.                       *)
LEMMA OtherCalls ==
    ASSUME BookIs, UdpGood, AddressNext, \A p \in Places : ~ SendDatagram(p)
    PROVE  BookIs' /\ UdpGood'
<1>1. BookIs' /\ book'.sent = book.sent /\ book'.udp = book.udp
  <2>1. CASE NewServerFromUrl
    BY <2>1 DEF NewServerFromUrl, Counted, BookIs
  <2>2. ASSUME NEW p \in Places, NewEntry(p) \/ NewFromUrl(p) \/ NewSource(p) \/ NewCopy(p) \/ AskHost(p) \/ FreeEntry(p)
        PROVE  BookIs' /\ book'.sent = book.sent /\ book'.udp = book.udp
    <3>1. ASSUME NEW a, Put(p, a) PROVE BookIs' /\ book'.sent = book.sent /\ book'.udp = book.udp
      BY <3>1 DEF Put, Counted, BookIs
    <3>2. CASE NewEntry(p) \/ NewSource(p) \/ NewCopy(p) \/ AskHost(p)
      <4>1. NewEntry(p) => \E a : Put(p, a)
        BY Zenon DEF NewEntry
      <4>2. NewSource(p) => \E a : Put(p, a)
        BY Zenon DEF NewSource
      <4>3. NewCopy(p) => \E a : Put(p, a)
        BY Zenon DEF NewCopy
      <4>4. AskHost(p) => \E a : Put(p, a)
        BY Zenon DEF AskHost
      <4> QED BY <3>1, <3>2, <4>1, <4>2, <4>3, <4>4
    <3>3. CASE NewFromUrl(p)
      <4>1. PICK a, url : Counted([book EXCEPT !.adr[p] = a, !.read = url])
        BY <3>3, Zenon DEF NewFromUrl
      <4> QED BY <4>1 DEF Counted, BookIs
    <3>4. CASE FreeEntry(p)
      BY <3>4 DEF FreeEntry, Counted, BookIs
    <3> QED BY <2>2, <3>2, <3>3, <3>4
  <2>3. ASSUME NEW p \in Places, ConnectTcp(p) \/ LoseTcp(p) \/ \E enable \in BOOLEAN : SetNodelay(p, enable)
        PROVE  BookIs' /\ book'.sent = book.sent /\ book'.udp = book.udp
    <3>1. CASE ConnectTcp(p)
      BY <3>1 DEF ConnectTcp, Counted, BookIs
    <3>2. CASE LoseTcp(p)
      BY <3>2 DEF LoseTcp, Counted, BookIs
    <3>3. ASSUME NEW enable, SetNodelay(p, enable) PROVE BookIs' /\ book'.sent = book.sent /\ book'.udp = book.udp
      <4>1. PICK a, t : Counted([book EXCEPT !.adr[p].nodelay = a, !.tcp[p] = t])
        <5>1. PICK changes : Counted([book EXCEPT !.adr[p].nodelay = enable,
                 !.tcp[p] = IF changes THEN [is |-> book.adr[p].nodelay, late |-> TRUE] ELSE @])
          BY <3>3, Zenon DEF SetNodelay
        <5> QED BY <5>1, Zenon
      <4> QED BY <4>1 DEF Counted, BookIs
    <3> QED BY <2>3, <3>1, <3>2, <3>3
  <2>4. ASSUME NEW p \in Places, NEW ttl, NEW name, NEW ip, lo_address_set_ttl(p, ttl) \/ lo_address_set_iface(p, name, ip)
        PROVE  BookIs' /\ book'.sent = book.sent /\ book'.udp = book.udp
    BY <2>4 DEF lo_address_set_ttl, lo_address_set_iface, Put, Counted, BookIs
  <2> QED BY <2>1, <2>2, <2>3, <2>4 DEF AddressNext
<1> QED BY <1>1 DEF UdpGood

LEMMA DatagramSent ==
    ASSUME BookIs, UdpGood, NEW p \in Places, SendDatagram(p)
    PROVE  BookIs' /\ UdpGood'
<1>1. PICK a : a = book.adr[p]
  OBVIOUS
<1>2. PICK now : now = [ttl |-> IF a.ttl >= 0 THEN a.ttl ELSE book.udp.ttl,
                        iface |-> IF a.iface # NIL THEN a.iface ELSE book.udp.iface]
  OBVIOUS
<1>3. PICK x : x = [went |-> now, wants |-> [ttl |-> a.ttl, iface |-> a.iface]]
  OBVIOUS
<1>4. Counted([book EXCEPT !.ai[p] = TRUE, !.udp = now, !.sent = Append(@, x)])
  BY <1>1, <1>2, <1>3 DEF SendDatagram
<1>5. BookIs' /\ book'.udp = now /\ book'.sent = Append(book.sent, x)
  BY <1>4 DEF Counted, BookIs
<1>6. PICK T : book.sent \in Seq(T)
  BY DEF UdpGood
<1> DEFINE n == Len(book.sent)
<1>7. /\ book'.sent \in Seq(T \union {x}) /\ Len(book'.sent) = n + 1 /\ n \in Nat
      /\ book'.sent[n + 1] = x /\ \A i \in 1 .. n : book'.sent[i] = book.sent[i]
  <2>1. book.sent \in Seq(T \union {x})
    BY <1>6
  <2> QED BY <1>5, <2>1
<1>8. x.wants = [ttl |-> a.ttl, iface |-> a.iface] /\ x.went = now
  BY <1>3
<1>9. SetBy(book'.sent, n + 1, now)
  <2>1. SetBy(book.sent, n, book.udp)
    BY DEF UdpGood
  <2>2. /\ now.ttl = IF a.ttl >= 0 THEN a.ttl ELSE book.udp.ttl
        /\ now.iface = IF a.iface # NIL THEN a.iface ELSE book.udp.iface
    BY <1>2
  <2> QED BY <1>5, <1>6, <1>8, <2>1, <2>2, SetNow
<1>10. ASSUME NEW i \in 1 .. n PROVE SetBy(book'.sent, i, book'.sent[i].went)
  <2>1. SetBy(book.sent, i, book.sent[i].went) /\ i \in 0 .. n
    BY <1>7 DEF UdpGood
  <2>2. SetBy(book'.sent, i, book.sent[i].went)
    BY <1>5, <1>6, <2>1, SetMore
  <2> QED BY <1>7, <2>2
<1> HIDE DEF n
<1>11. ASSUME NEW i \in 1 .. n + 1 PROVE SetBy(book'.sent, i, book'.sent[i].went)
  <2>1. i \in 1 .. n \/ i = n + 1
    BY <1>7
  <2> QED BY <1>7, <1>8, <1>9, <1>10, <2>1
<1> QED BY <1>5, <1>7, <1>9, <1>11 DEF UdpGood

-----------------------------------------------------------------------------
(* All addresses send through one socket, or a server's: a datagram has    *)
(* the time to live and the interface that its own address set; what that  *)
(* did not set is what the newest datagram wanted that wanted any          *)
(* (send.c, send_data, lines 490 to 521), whatever addresses are made,     *)
(* copied, changed and freed in between.                                   *)
THEOREM Datagrams == Spec => []SentAsWanted
<1> DEFINE Proven == BookIs /\ UdpGood
<1>1. Init => Proven
  BY DatagramsBegin DEF Init
<1>2. Proven /\ [Next]_vars => Proven'
  <2> SUFFICES ASSUME BookIs, UdpGood, [Next]_vars PROVE BookIs' /\ UdpGood'
    OBVIOUS
  <2>1. CASE AddressNext
    BY <2>1, OtherCalls, DatagramSent
  <2>2. CASE UNCHANGED book
    BY <2>2 DEF BookIs, UdpGood
  <2> QED BY <2>1, <2>2 DEF Next, vars, apart
<1>3. Proven => SentAsWanted
  <2> SUFFICES ASSUME UdpGood PROVE SentAsWanted
    OBVIOUS
  <2>1. DOMAIN book.sent = 1 .. Len(book.sent)
    BY DEF UdpGood
  <2>2. \A i \in DOMAIN book.sent : SetBy(book.sent, i, book.sent[i].went)
    BY <2>1 DEF UdpGood
  <2> QED BY <2>2, Zenon DEF SentAsWanted, SetBy, Ttls, Ifaces, Newest
<1> QED BY <1>1, <1>2, <1>3, PTL DEF Spec
===============================================================================
