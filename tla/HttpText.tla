------------------------------ MODULE HttpText ------------------------------
(* Texts as sequences of byte codes, for the constants of the HTTP runs.   *)
EXTENDS HttpBytes

(* The code of a character: its place in a run of consecutive codes.       *)
Runs == {<<"+,-./0123456789:;", 43>>, <<"=", 61>>, <<"?@ABCDEFGHIJKLMNOPQRSTUVWXYZ", 63>>,
         <<"_", 95>>, <<"abcdefghijklmnopqrstuvwxyz{", 97>>, <<"}", 125>>, <<" ", SP>>,
         <<"#$%&", 35>>, <<"\n", LF>>, <<"\r", CR>>}
Code(ch) ==
    LET hit == CHOOSE h \in {<<r, i>> : r \in Runs, i \in 1..30} :
                  h[2] <= Len(h[1][1]) /\ SubSeq(h[1][1], h[2], h[2]) = ch
    IN  hit[1][2] + hit[2] - 1
Text(s) == [i \in 1..Len(s) |-> Code(SubSeq(s, i, i))]
=============================================================================
