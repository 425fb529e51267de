----------------------------- MODULE HttpBytes -----------------------------
(***************************************************************************)
(* Bytes and edges, as the two generated HTTP parsers use them: a byte is  *)
(* the value of a signed char, and a machine is a set of edges             *)
(*        << state, bytes, next state, actions in the order they run >>.   *)
(* A byte with no edge leads to state 0, the machines' error state.        *)
(***************************************************************************)
EXTENDS Integers, Sequences

HT == 9
LF == 10
CR == 13
SP == 32
NUL == 0
Hash == 35
Pct == 37
Slash == 47
Dot == 46
Colon == 58
Quest == 63
At == 64

Digit == 48..57
Upper == 65..90
Alpha == Upper \cup (97..122)
HexLetter == (65..70) \cup (97..102)
Hex == Digit \cup HexLetter
AnyByte == -128..127
NotAscii == -128..-1

Letter(c) == {c, c - 32}                \* /c/i: a lower case letter or its capital

Loop(s, chars) == {<<s, chars, s, <<>>>>}
Go(s, chars, t) == {<<s, chars, t, <<>>>>}
Do(s, chars, t, acts) == {<<s, chars, t, acts>>}
Chars(s, word) == UNION {Go(s + i - 1, {word[i]}, s + i) : i \in 1..Len(word)}

(* op over a sequence from the left, each intermediate value computed once.*)
Fold(op(_, _), base, seq) ==
    LET f[i \in 0..Len(seq)] ==
            IF i = 0 THEN base
            ELSE CHOOSE y \in {op(x, seq[i]) : x \in {f[i - 1]}} : TRUE
    IN  f[Len(seq)]

(* The edges that leave each state, and the one a byte takes.              *)
LeavingEdges(edges, last) == [s \in 0..last |-> {e \in edges : e[1] = s}]
Taken(leaving, s, c) == {e \in leaving[s] : c \in e[2]}
=============================================================================
