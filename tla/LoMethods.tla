------------------------------- MODULE LoMethods -------------------------------
(***************************************************************************)
(* dispatch_method of liblo_new/server.c: which methods a message is for,  *)
(* and the reply to a path that ends in a slash.  A method is [path,       *)
(* types, ret], ret being what its handler returns; ANY as path or types   *)
(* is any.  The list does not change during a dispatch (ServiceMethods     *)
(* has what happens when it does).                                         *)
(***************************************************************************)
EXTENDS LoMessage

CONSTANTS ANY,
          Alphabet, MaxText,  \* texts to match: up to MaxText of these characters
          Parts, MaxParts,    \* patterns: up to MaxParts of these parts
          Alternatives,       \* what a list may name
          TypeLists           \* argument types

(* it->path and it->typespec *)
PathMatches(m, path) ==
    \/ m.path = ANY
    \/ m.path = path
    \/ IsPattern(path) /\ lo_pattern_match(m.path, path)
TypesMatch(m, types) == m.types = ANY \/ m.types = types \/ CanCoerce(types, m.types)

(* The walk goes on behind a method that was called. *)
GoesOn(m, path) == m.ret # 0 \/ IsPattern(path)

(* The numbers of the methods whose handlers are called. *)
Called(methods, path, types) ==
    LET from[k \in 1 .. Len(methods) + 1] ==
            IF k > Len(methods) THEN <<>>
            ELSE IF PathMatches(methods[k], path) /\ TypesMatch(methods[k], types)
            THEN <<k>> \o (IF GoesOn(methods[k], path) THEN from[k + 1] ELSE <<>>)
            ELSE from[k + 1]
    IN from[1]

(* The string list, with a name that is not yet in it. *)
WithName(names, name) == IF name \in ToSet(names) THEN names ELSE Append(names, name)

(* The names in the reply to a message that no handler took (the last one  *)
(* called returned 1, or none was called) and whose path ends in a slash.  *)
Enumerated(methods, path) ==
    LET name(m) == SubSeq(m.path, Len(path) + 1,
                          Find(m.path, Len(path) + 1, {Slash}) - 1)
    IN FoldLeft(LAMBDA names, m : IF m.path # ANY /\ IsPrefix(path, m.path)
                                  THEN WithName(names, name(m)) ELSE names,
                <<>>, methods)
Asks(methods, path, types) ==
    LET called == Called(methods, path, types) IN
    /\ path # <<>> /\ Last(path) = Slash
    /\ called = <<>> \/ methods[Last(called)].ret = 1

-----------------------------------------------------------------------------
Upto(S, n) == UNION {[1 .. k -> S] : k \in 0 .. n}
Texts      == Upto(Alphabet, MaxText)
Patterns   == Upto(Parts, MaxParts)

(* A pattern without a brace list matches the paths it denotes and no      *)
(* others: stars that must give characters back, stars before stars, sets  *)
(* and ranges either way round, negated or not.                            *)
PatternExact ==
    \A parts \in Patterns : \A str \in Texts :
        lo_pattern_match(str, TextOf(parts)) = Denotes(parts, str)

(* With a brace list at its end, a pattern matches no more than it         *)
(* denotes, and all of it unless an alternative is the beginning of a      *)
(* later one: of {a,ab} the code tries no more than a.                     *)
ListAtEnd ==
    \A part \in Parts : \A one, two \in Alternatives :
        LET parts == <<part, [kind |-> "list", list |-> <<one, two>>]>>
            match == {str \in Texts : lo_pattern_match(str, TextOf(parts))}
            means == {str \in Texts : Denotes(parts, str)}
        IN match \subseteq means /\ (match = means <=> ~ \E str \in means \ match : IsStrictPrefix(one, two))

(* A message reaches, in the order of the list, every method its path or   *)
(* pattern means and whose types its arguments can become; a plain path no *)
(* further than to the first handler that returns 0.                       *)
ReachesWhatItMeans ==
    \A part \in Parts, one, two \in Upto(Alphabet, 2), t1, t2, t \in TypeLists, ret \in {0, 1} :
        LET methods  == <<[path |-> one, types |-> t1, ret |-> ret],
                          [path |-> two, types |-> t2, ret |-> 0]>>
            means(k) == /\ Denotes(<<part>>, methods[k].path)
                        /\ Len(methods[k].types) = Len(t)
                        /\ \A n \in 1 .. Len(t) : \/ t[n] = methods[k].types[n]
                                                  \/ {t[n], methods[k].types[n]} \subseteq Numerical
                                                  \/ {t[n], methods[k].types[n]} \subseteq TextTypes
        IN ToSet(Called(methods, TextOf(<<part>>), t)) =
              {k \in 1 .. 2 : means(k) /\ ~ (k = 2 /\ means(1) /\ ret = 0 /\ part.kind = "char")}

(* The reply to a path that ends in a slash names each part of the tree    *)
(* below it once, whatever the order and the number of the methods.        *)
EnumeratesOnce ==
    \A one, two, three \in {<<Slash>> \o str : str \in Upto({Slash, 97}, 3)} : \A path \in {<<Slash>>, <<Slash, 97, Slash>>} :
        LET methods == <<[path |-> one], [path |-> two], [path |-> three]>>
            names   == Enumerated(methods, path)
            below   == {m \in ToSet(methods) : IsPrefix(path, m.path)}
        IN /\ IsInjective(names)
           /\ ToSet(names) = {n \in Upto({97}, 3) : \E m \in below :
                                   m.path = path \o n \/ IsPrefix(path \o n \o <<Slash>>, m.path)}

(* Patterns, the choice of methods and their enumeration, for every small  *)
(* pattern, text and list of methods.                                      *)
DispatchesAll == PatternExact /\ ListAtEnd /\ ReachesWhatItMeans /\ EnumeratesOnce
===============================================================================
