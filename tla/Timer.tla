-------------------------------- MODULE Timer --------------------------------
(***************************************************************************)
(* Timer.cpp: the porttime thread renders a beat every numPackets samples  *)
(* and calls back whoever's interval has passed; the TCP thread registers  *)
(* and removes callbacks, with no lock, in four parallel vectors, one      *)
(* statement after the other.  A DAC registers itself when it is made and  *)
(* removes itself when it is destroyed.                                    *)
(*                                                                         *)
(* The audio callbacks are kept by the same code in four other vectors and *)
(* are left out here: AudioSource alone, and what contains one, registers  *)
(* them (useTimer), services that the Makefile does not build.  What they  *)
(* render is in AudioSource (Beat).  An access outside a vector or to a    *)
(* freed counter is undefined: the model stops there.                      *)
(***************************************************************************)
EXTENDS Integers, Sequences

CONSTANTS Client,      \* user_data of the callbacks
          Interval,    \* Interval[c]: samples between two calls of c
          numPackets,
          MaxBeats,    \* bound: beats of the timer
          NULL

(* What the TCP thread is doing: to whom, the statement it is at, where.   *)
Operation == [kind : {"set", "remove"}, c : Client, step : 1 .. 5, at : Nat]

ASSUME TimerAssumption ==
    /\ numPackets \in Nat \ {0} /\ MaxBeats \in Nat
    /\ Interval \in [Client -> Nat]
    /\ \A c \in Client : Interval[c] >= numPackets
    /\ NULL \notin Int \union Operation

VARIABLES
    dataCallback, d_ud, dataInterval, dtmp, \* the vectors; dtmp[k] is the
                                            \* counter *dtmp[k], NULL if freed
    op,       \* the operation of the TCP thread, or NULL
    rpc, i, dI, \* where the timer thread is, and its local variables
    beats,
    broken,   \* something undefined was done
    \* what the properties need to know of the past
    raced,    \* the threads met in the vectors
    ticks,    \* ticks[c]: beats that ended since c was registered
    calls     \* calls[c]: calls of c since then

vectors == <<dataCallback, d_ud, dataInterval, dtmp>>
render  == <<rpc, i, dI, beats, broken>>
vars    == <<vectors, op, render, raced, ticks, calls>>

TypeOK ==
    /\ dataCallback \in Seq(Client) /\ d_ud \in Seq(Client)
    /\ dataInterval \in Seq(Nat) /\ dtmp \in Seq(Int \union {NULL})
    /\ op \in Operation \union {NULL}
    /\ rpc \in {"idle", "test", "count", "subtract", "call"}
    /\ i \in Nat \ {0} /\ dI \in Nat /\ beats \in 0 .. MaxBeats
    /\ broken \in BOOLEAN /\ raced \in BOOLEAN
    /\ ticks \in [Client -> Nat] /\ calls \in [Client -> Nat]

Init ==
    /\ dataCallback = <<>> /\ d_ud = <<>> /\ dataInterval = <<>> /\ dtmp = <<>>
    /\ op = NULL /\ rpc = "idle" /\ i = 1 /\ dI = 0 /\ beats = 0
    /\ broken = FALSE /\ raced = FALSE
    /\ ticks = [c \in Client |-> 0] /\ calls = [c \in Client |-> 0]

Erase(s, k) == [j \in 1 .. Len(s) - 1 |-> IF j < k THEN s[j] ELSE s[j + 1]]

(* The threads meet when one is in the middle of what the other changes. *)
Meets == raced' = (raced \/ op # NULL)

-----------------------------------------------------------------------------
(* The TCP thread: setDataCallback pushes to one vector after the other;   *)
(* c is new, as every DAC is another object.                               *)

StartSet(c) ==
    /\ ~ broken /\ op = NULL
    /\ \A k \in 1 .. Len(d_ud) : d_ud[k] # c
    /\ op' = [kind |-> "set", c |-> c, step |-> 1, at |-> 0]
    /\ ticks' = [ticks EXCEPT ![c] = 0] /\ calls' = [calls EXCEPT ![c] = 0]
    /\ UNCHANGED <<vectors, render, raced>>

Doing(kind, step) == ~ broken /\ op # NULL /\ op.kind = kind /\ op.step = step
Step              == op' = [op EXCEPT !.step = @ + 1]

PushCallback ==
    /\ Doing("set", 1) /\ Step
    /\ dataCallback' = Append(dataCallback, op.c)
    /\ UNCHANGED <<d_ud, dataInterval, dtmp, render, raced, ticks, calls>>

PushUserData ==
    /\ Doing("set", 2) /\ Step
    /\ d_ud' = Append(d_ud, op.c)
    /\ UNCHANGED <<dataCallback, dataInterval, dtmp, render, raced, ticks, calls>>

PushInterval ==
    /\ Doing("set", 3) /\ Step
    /\ dataInterval' = Append(dataInterval, Interval[op.c])
    /\ UNCHANGED <<dataCallback, d_ud, dtmp, render, raced, ticks, calls>>

PushCounter ==
    /\ Doing("set", 4) /\ op' = NULL
    /\ dtmp' = Append(dtmp, 0)
    /\ UNCHANGED <<dataCallback, d_ud, dataInterval, render, raced, ticks, calls>>

(* removeDataCallback finds c, then erases from one vector after the other. *)
StartRemove(c) ==
    /\ ~ broken /\ op = NULL
    /\ \E k \in 1 .. Len(d_ud) :
          /\ d_ud[k] = c
          /\ op' = [kind |-> "remove", c |-> c, step |-> 1, at |-> k]
    /\ raced' = (raced \/ rpc # "idle")
    /\ UNCHANGED <<vectors, render, ticks, calls>>

EraseCallback ==
    /\ Doing("remove", 1) /\ Step
    /\ dataCallback' = Erase(dataCallback, op.at)
    /\ UNCHANGED <<d_ud, dataInterval, dtmp, render, raced, ticks, calls>>

EraseUserData ==
    /\ Doing("remove", 2) /\ Step
    /\ d_ud' = Erase(d_ud, op.at)
    /\ UNCHANGED <<dataCallback, dataInterval, dtmp, render, raced, ticks, calls>>

EraseInterval ==
    /\ Doing("remove", 3) /\ Step
    /\ dataInterval' = Erase(dataInterval, op.at)
    /\ UNCHANGED <<dataCallback, d_ud, dtmp, render, raced, ticks, calls>>

FreeCounter ==
    /\ Doing("remove", 4) /\ Step
    /\ dtmp' = [dtmp EXCEPT ![op.at] = NULL]
    /\ UNCHANGED <<dataCallback, d_ud, dataInterval, render, raced, ticks, calls>>

(* Mutant: the last counter goes, whichever was freed. *)
PopCounter ==
    /\ Doing("remove", 5) /\ op' = NULL
    /\ dtmp' = SubSeq(dtmp, 1, Len(dtmp) - 1)
    /\ UNCHANGED <<dataCallback, d_ud, dataInterval, render, raced, ticks, calls>>

EraseCounter ==
    /\ Doing("remove", 5) /\ op' = NULL
    /\ dtmp' = Erase(dtmp, op.at)
    /\ UNCHANGED <<dataCallback, d_ud, dataInterval, render, raced, ticks, calls>>

-----------------------------------------------------------------------------
(* The timer thread: Pt_CallbackProc calls render, which goes through the  *)
(* vectors while i differs from the size of the first.                     *)

Beat ==
    /\ ~ broken /\ rpc = "idle" /\ beats < MaxBeats
    /\ rpc' = "test" /\ i' = 1 /\ beats' = beats + 1
    /\ UNCHANGED <<vectors, op, dI, broken, raced, ticks, calls>>

Registered(c) == \E k \in 1 .. Len(d_ud) : d_ud[k] = c

Test ==
    /\ ~ broken /\ rpc = "test"
    /\ IF i # Len(dataCallback) + 1
       THEN rpc' = "count" /\ UNCHANGED ticks
       ELSE rpc' = "idle"
              /\ ticks' = [c \in Client |-> IF Registered(c) THEN ticks[c] + 1 ELSE ticks[c]]
    /\ Meets
    /\ UNCHANGED <<vectors, op, i, dI, beats, broken, calls>>

Counter == i <= Len(dtmp) /\ dtmp[i] # NULL

Count ==
    /\ ~ broken /\ rpc = "count" /\ i <= Len(dataInterval) /\ Counter
    /\ dI' = dataInterval[i]
    /\ dtmp' = [dtmp EXCEPT ![i] = @ + numPackets]
    /\ IF dtmp'[i] >= dI'
       THEN rpc' = "subtract" /\ i' = i
       ELSE rpc' = "test" /\ i' = i + 1
    /\ Meets
    /\ UNCHANGED <<dataCallback, d_ud, dataInterval, op, beats, broken, ticks, calls>>

(* Mutant: the counter starts over at zero. *)
SubtractAll ==
    /\ ~ broken /\ rpc = "subtract" /\ Counter
    /\ dtmp' = [dtmp EXCEPT ![i] = 0]
    /\ rpc' = "call"
    /\ Meets
    /\ UNCHANGED <<dataCallback, d_ud, dataInterval, op, i, dI, beats, broken, ticks, calls>>

Subtract ==
    /\ ~ broken /\ rpc = "subtract" /\ Counter
    /\ dtmp' = [dtmp EXCEPT ![i] = @ - dI]
    /\ rpc' = "call"
    /\ Meets
    /\ UNCHANGED <<dataCallback, d_ud, dataInterval, op, i, dI, beats, broken, ticks, calls>>

Call ==
    /\ ~ broken /\ rpc = "call" /\ i <= Len(dataCallback) /\ i <= Len(d_ud)
    /\ calls' = [calls EXCEPT ![d_ud[i]] = @ + 1]
    /\ rpc' = "test" /\ i' = i + 1
    /\ Meets
    /\ UNCHANGED <<vectors, op, dI, beats, broken, ticks>>

Break ==
    /\ ~ broken
    /\ \/ rpc \in {"count", "subtract"} /\ ~ Counter
       \/ rpc = "count" /\ i > Len(dataInterval)
       \/ rpc = "call" /\ ~ (i <= Len(dataCallback) /\ i <= Len(d_ud))
    /\ broken' = TRUE
    /\ Meets
    /\ UNCHANGED <<vectors, op, rpc, i, dI, beats, ticks, calls>>

-----------------------------------------------------------------------------
TCP    == \/ \E c \in Client : StartSet(c) \/ StartRemove(c)
          \/ PushCallback \/ PushUserData \/ PushInterval \/ PushCounter
          \/ EraseCallback \/ EraseUserData \/ EraseInterval \/ FreeCounter
          \/ EraseCounter
Render == Beat \/ Test \/ Count \/ Subtract \/ Call \/ Break
Next   == TCP \/ Render

Spec == Init /\ [][Next]_vars

-----------------------------------------------------------------------------
(* Nothing undefined is done unless the threads met: a render step while   *)
(* callbacks are registered or removed, or a removal during a beat.        *)
DefinedUnlessRaced == broken => raced

(* The vectors and the threads going through them, whatever they meet. *)
TimerInv == TypeOK /\ DefinedUnlessRaced

(* Between beats and operations, and unless the threads met, every client  *)
(* has been called exactly as often as its interval fits in the time since *)
(* it was registered: no beat is lost or counted twice, whatever was       *)
(* registered and removed beside it.                                       *)
OnBeat ==
    ~ raced /\ op = NULL /\ rpc = "idle" =>
        \A k \in 1 .. Len(d_ud) :
            LET c == d_ud[k] IN
            /\ calls[c] * Interval[c] + dtmp[k] = ticks[c] * numPackets
            /\ 0 <= dtmp[k] /\ dtmp[k] < Interval[c]
=============================================================================
