-------------------------- MODULE MCHttpConnection --------------------------
EXTENDS HttpConnection, HttpText

(* A response from its pieces: the offsets inside a line are those between *)
(* the bytes of a piece that is a line.                                    *)
Line(s) == [text |-> Text(s), line |-> TRUE]
Data(s) == [text |-> Text(s), line |-> FALSE]
Joined(pieces, n) ==
    LET f[i \in 0..n] == IF i = 0 THEN <<>> ELSE f[i - 1] \o pieces[i].text
    IN  f[n]
Response(pieces, want) ==
    [bytes |-> Joined(pieces, Len(pieces)),
     lines |-> UNION {{Len(Joined(pieces, i - 1)) + j : j \in 1..(Len(pieces[i].text) - 1)} :
                         i \in {i \in DOMAIN pieces : pieces[i].line}},
     want |-> want]

SizedPieces == <<Line("HTTP/1.0 404 No\n"), Line("Content-Length: 3\n"), Line("\n"), Data("a\nb")>>
ChunkedPieces ==
    <<Line("HTTP/1.1 200 OK\r\n"), Line("Transfer-Encoding: chunked\r\n"), Line("\r\n"),
      Line("a;x=1\r\n"), Data("0123456789\r\n"), Line("1\r\n"), Data("\n\r\n"),
      Line("0\r\n"), Data("\r\n")>>
Sized ==
    Response(SizedPieces,
             [status |-> 404, version |-> 10, reason |-> Text("No"), body |-> Text("a\nb"),
              headers |-> ContentLength :> Text("3")])
Chunked ==
    Response(ChunkedPieces,
             [status |-> 200, version |-> 11, reason |-> Text("OK"),
              body |-> Text("0123456789\n"), headers |-> <<>>])
MCScripts == {<<Sized, Chunked>>, <<Chunked, Sized>>}

(* The layout of a response whose first pieces are its head: then come the *)
(* chunks, a line and a piece of data each, or else the body.              *)
Layout(pieces, head) ==
    LET n == Len(pieces)
        offset(i) == Len(Joined(pieces, i))
        at(c) == CHOOSE i \in head..n : offset(i) = c
        size(i) == Len(pieces[i].text) - 2
        starts == {offset(i) : i \in {i \in head..(n - 1) : pieces[i + 1].line}}
        text[i \in head..n] ==
            IF i = head THEN <<>>
            ELSE text[i - 1] \o (IF pieces[i].line THEN <<>> ELSE SubSeq(pieces[i].text, 1, size(i)))
    IN  [head |-> offset(head), chunked |-> starts # {},
         end |-> [c \in starts |-> offset(at(c) + 1)],
         size |-> [c \in starts |-> size(at(c) + 2)],
         text |-> [c \in {offset(i) : i \in head..n} |-> text[at(c)]]]
MCLay == [r \in Responses |-> Layout(IF r = Sized THEN SizedPieces ELSE ChunkedPieces, 3)]

(* The parsers that may have read a head up to a break, and those that     *)
(* have read all of it and up to two size lines.                           *)
MCMid ==
    [r \in Responses |->
        LET f[k \in 0..MCLay[r].head] ==
                IF k = 0 THEN {NewParser}
                ELSE UNION {{Execute(q, SubSeq(r.bytes, j + 1, k), FALSE).p : q \in f[j]} :
                               j \in {j \in Breaks(r, MCLay[r]) : j < k /\ k \in Breaks(r, MCLay[r])}}
        IN  f]
MCAfter ==
    [r \in Responses |->
        LET L == MCLay[r]
            ends(from) == {m \in from..Len(r.bytes) : m \notin r.lines}
            heads == UNION {{DelEncoding(Execute(q, SubSeq(r.bytes, k + 1, m), FALSE).p) :
                                q \in MCMid[r][k], m \in ends(L.head)} : k \in Breaks(r, L)}
            lines(qs) == UNION {{Execute(q, SubSeq(r.bytes, c + 1, m), TRUE).p :
                                    q \in qs, m \in ends(L.end[c])} : c \in DOMAIN L.end}
        IN  IF L.chunked THEN heads \cup lines(heads) \cup lines(lines(heads)) ELSE {}]
ASSUME ParserAssumption == ParsesByLine(MCLay, MCMid, MCAfter)
=============================================================================
