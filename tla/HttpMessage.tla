---------------------------- MODULE HttpMessage ----------------------------
(***************************************************************************)
(* What the parsers of requests and of responses have in common: the       *)
(* header map and the callbacks for the version and the header lines.  A   *)
(* parser is a record whose m_data is the message it fills in.             *)
(***************************************************************************)
EXTENDS HttpBytes, TLC

Slice(buf, from, n) == SubSeq(buf, from + 1, from + n)
LowerCase(s) == [i \in DOMAIN s |-> IF s[i] \in Upper THEN s[i] + 32 ELSE s[i]]

HTTP11 == <<72, 84, 84, 80, 47, 49, 46, 49>>
HTTP10 == <<72, 84, 84, 80, 47, 49, 46, 48>>
ContentLength == <<99, 111, 110, 116, 101, 110, 116, 45, 108, 101, 110, 103, 116, 104>>

(* A header map compares its keys without regard to case.                  *)
SetHeader(h, key, val) == (LowerCase(key) :> val) @@ h

(* strncasecmp compares only as many bytes as it is given.                 *)
OnVersion(p, text) ==
    LET same(v) == Len(text) <= Len(v) /\ text = SubSeq(v, 1, Len(text))
    IN  IF same(HTTP11) THEN [p EXCEPT !.m_data.version = 11]
        ELSE IF same(HTTP10) THEN [p EXCEPT !.m_data.version = 10]
        ELSE [p EXCEPT !.m_error = TRUE]

OnField(p, field, value) ==
    IF field = <<>> THEN p ELSE [p EXCEPT !.m_data.headers = SetHeader(@, field, value)]

(* boost::lexical_cast of a header's value, or the default 0.              *)
Number(text) ==
    LET add(n, c) == 10 * n + (c - 48)
    IN  IF text # <<>> /\ \A i \in DOMAIN text : text[i] \in Digit
        THEN Fold(add, 0, text) ELSE 0

GetContentLength(msg) ==
    IF ContentLength \in DOMAIN msg.headers THEN Number(msg.headers[ContentLength]) ELSE 0
=============================================================================
