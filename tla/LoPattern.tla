------------------------------- MODULE LoPattern -------------------------------
(***************************************************************************)
(* liblo_new/pattern_match.c: which method paths the pattern in a message  *)
(* matches.                                                                *)
(*                                                                         *)
(* Texts are sequences of character codes, without the 0 at their end.     *)
(* Left out: patterns whose scan leaves the string, which are those that   *)
(* end in "[!" or in a list with an empty last alternative.                *)
(***************************************************************************)
EXTENDS Naturals, Sequences

Star == 42   Query == 63   Comma == 44   Hyphen == 45   Slash == 47
Open == 91   Shut == 93    BraceOpen == 123  BraceShut == 125
NEGATE == 33

(* What *p reads: the 0 behind the text, too. *)
At(t, k) == IF k <= Len(t) THEN t[k] ELSE 0

(* The first k >= j with a character among chars, or the place of the 0. *)
Find(t, j, chars) ==
    IF \E k \in j .. Len(t) : t[k] \in chars
    THEN CHOOSE k \in j .. Len(t) : t[k] \in chars /\ \A l \in j .. k - 1 : t[l] \notin chars
    ELSE Len(t) + 1

FindNot(t, j, char) ==
    IF \E k \in j .. Len(t) : t[k] # char
    THEN CHOOSE k \in j .. Len(t) : t[k] # char /\ \A l \in j .. k - 1 : t[l] = char
    ELSE Len(t) + 1

(* The places between low and high, where high may be the smaller one. *)
Within(c, low, high) == c \in {low, high} \/ (c > low /\ c < high)

(* Mutant: a set takes the first of two characters only. *)
SetScanFirst(p, j, c) ==
    LET scan[k \in j .. Len(p) + 1] ==
            LET d == At(p, k)  e == At(p, k + 1) IN
            IF d = 0 THEN <<"out", k + 1>>
            ELSE IF e = 0 THEN <<"no", k>>
            ELSE IF e = Hyphen
            THEN IF At(p, k + 2) = 0 THEN <<"no", k>>
                 ELSE IF p[k + 2] = Shut THEN <<IF c >= d THEN "in" ELSE "out", k + 2>>
                 ELSE IF Within(c, d, p[k + 2]) THEN <<"in", k + 2>> ELSE scan[k + 3]
            ELSE IF c = d THEN <<"in", k + 1>>
            ELSE IF e = Shut THEN <<"out", k + 1>> ELSE scan[k + 2]
    IN scan[j]

(* The loop over a set [...] from place j: whether c is in it and where    *)
(* the scan stood then, or "no" where the pattern ends too early.  It      *)
(* reads the characters in overlapping pairs.                              *)
SetScan(p, j, c) ==
    LET scan[k \in j .. Len(p) + 1] ==
            LET d == At(p, k)  e == At(p, k + 1) IN
            IF d = 0 THEN <<"out", k + 1>>
            ELSE IF e = 0 THEN <<"no", k>>
            ELSE IF e = Hyphen
            THEN IF At(p, k + 2) = 0 THEN <<"no", k>>
                 ELSE IF p[k + 2] = Shut THEN <<IF c >= d THEN "in" ELSE "out", k + 2>>
                 ELSE IF Within(c, d, p[k + 2]) THEN <<"in", k + 2>> ELSE scan[k + 2]
            ELSE IF c = d \/ (e # Shut /\ c = e) THEN <<"in", k + 1>>
            ELSE IF e = Shut THEN <<"out", k + 1>> ELSE scan[k + 1]
    IN scan[j]

(* Where the next alternative of a list is after one that fails at k. *)
NextAlternative(p, k) == Find(p, k + 1, {Comma, BraceShut})

(* lo_pattern_match(str, p); match[i, j] is its result for the texts from  *)
(* places i and j on.                                                      *)
lo_pattern_match(str, p) ==
    LET N == Len(str)
        match[i \in 1 .. N + 1, j \in 1 .. Len(p) + 1] ==
          LET starred == LET k == FindNot(p, j, Star)
                             first == IF At(p, k) \in {Query, Open, BraceOpen} THEN i
                                      ELSE Find(str, i, {At(p, k)})
                         IN k > Len(p) \/ \E l \in first .. N : match[l, k]
              set == LET negate == At(p, j + 1) = NEGATE
                         scan   == SetScan(p, IF negate THEN j + 2 ELSE j + 1, str[i])
                         shut   == Find(p, scan[2], {Shut})
                     IN /\ scan[1] # "no" /\ (scan[1] = "in") # negate
                        /\ shut <= Len(p) /\ match[i + 1, shut + 1]
              \* The brace list: what follows it is tried at each comma that is
              \* reached.  If it fails there, the place in str is reset and the
              \* next character of the pattern skipped (*p++).
              remainder == Find(p, j, {BraceShut}) + 1
              list[k \in j .. Len(p) + 2, s \in 1 .. N + 1] ==
                  LET c == At(p, k) IN
                  IF c = 0 THEN FALSE
                  ELSE IF c = Comma THEN match[s, remainder] \/ list[k + 2, i]
                  ELSE IF c = BraceShut THEN (k = Len(p) /\ s > N) \/ match[s, k + 1]
                  ELSE IF s <= N /\ c = str[s]
                  THEN (s < N \/ remainder > Len(p)) /\ list[k + 1, s + 1]
                  ELSE LET next == NextAlternative(p, k) IN
                       At(p, next) = Comma /\ list[next + 1, i]
          IN IF j > Len(p) THEN i > N
             ELSE IF p[j] = Star THEN starred
             ELSE i <= N /\
                  CASE p[j] = Query     -> match[i + 1, j + 1]
                    [] p[j] = Open      -> set
                    [] p[j] = BraceOpen -> remainder <= Len(p) + 1 /\ list[j + 1, i]
                    [] OTHER            -> p[j] = str[i] /\ match[i + 1, j + 1]
    IN match[1, 1]

(* strpbrk(path, " #*,?[]{}") *)
IsPattern(path) ==
    \E k \in 1 .. Len(path) :
        path[k] \in {32, 35, Star, Comma, Query, Open, Shut, BraceOpen, BraceShut}

-----------------------------------------------------------------------------
(* What a pattern denotes, defined on its parts instead of its text: parts *)
(* are characters, ?, *, sets of ranges <<low, high>> and lists of texts.  *)
Text(part) ==
    LET ranges[k \in 1 .. Len(part.set) + 1] ==
            IF k > Len(part.set) THEN <<>>
            ELSE (IF part.set[k][1] = part.set[k][2] THEN <<part.set[k][1]>>
                  ELSE <<part.set[k][1], Hyphen, part.set[k][2]>>) \o ranges[k + 1]
        list[k \in 1 .. Len(part.list)] ==
            IF k = Len(part.list) THEN part.list[k] ELSE part.list[k] \o <<Comma>> \o list[k + 1]
    IN CASE part.kind = "char" -> <<part.char>>
         [] part.kind = "any"  -> <<Query>>
         [] part.kind = "star" -> <<Star>>
         [] part.kind = "set"  -> <<Open>> \o (IF part.negate THEN <<NEGATE>> ELSE <<>>) \o ranges[1] \o <<Shut>>
         [] part.kind = "list" -> <<BraceOpen>> \o list[1] \o <<BraceShut>>

TextOf(parts) == LET text[k \in 1 .. Len(parts) + 1] ==
                         IF k > Len(parts) THEN <<>> ELSE Text(parts[k]) \o text[k + 1]
                 IN text[1]

(* The places in str behind a text that part denotes and that starts at i. *)
Behind(part, str, i) ==
    CASE part.kind = "char" -> {l \in {i + 1} : At(str, i) = part.char}
      [] part.kind = "any"  -> {l \in {i + 1} : i <= Len(str)}
      [] part.kind = "star" -> i .. Len(str) + 1
      [] part.kind = "set"  -> {l \in {i + 1} : i <= Len(str) /\
             part.negate # (\E k \in 1 .. Len(part.set) : Within(str[i], part.set[k][1], part.set[k][2]))}
      [] part.kind = "list" -> {i + Len(part.list[k]) : k \in {k \in 1 .. Len(part.list) :
             \A n \in 1 .. Len(part.list[k]) : At(str, i + n - 1) = part.list[k][n]}}

Denotes(parts, str) ==
    LET den[i \in 1 .. Len(str) + 1, k \in 1 .. Len(parts) + 1] ==
            IF k > Len(parts) THEN i > Len(str)
            ELSE \E l \in Behind(parts[k], str, i) : l <= Len(str) + 1 /\ den[l, k + 1]
    IN den[1, 1]
=============================================================================
