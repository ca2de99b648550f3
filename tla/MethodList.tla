------------------------------ MODULE MethodList ------------------------------
(***************************************************************************)
(* What liblo promises of a server's methods: they are a list; a new one   *)
(* comes last, and a deletion takes all of one path and type.              *)
(***************************************************************************)
EXTENDS Naturals, Sequences

CONSTANTS Method,      \* records with a path and types
          Path, Types  \* what a deletion may name

VARIABLE list

Init == list \in Seq(Method)

Add(m) == list' = Append(list, m)

(* What stays of a list: the methods of any other path or type, in order.  *)
Kept(path, types) == [l \in Seq(Method) |->
    LET kept[n \in 0 .. Len(l)] ==
            IF n = 0 THEN <<>>
            ELSE IF l[n].path = path /\ l[n].types = types THEN kept[n - 1]
            ELSE Append(kept[n - 1], l[n])
    IN kept[Len(l)]]

Delete(path, types) == list' = Kept(path, types)[list]

Next == \/ Len(list') > Len(list) /\ \E m \in Method : Add(m)
        \/ Len(list') < Len(list) /\ \E p \in Path, t \in Types : Delete(p, t)

Spec == Init /\ [][Next]_list
=============================================================================
