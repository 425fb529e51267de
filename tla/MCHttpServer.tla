---------------------------- MODULE MCHttpServer ----------------------------
EXTENDS HttpServer, HttpText

MCMethods == {Text("GET"), Text("POST")}
MCFormType == Text("form")

Get ==
    [head |-> Text("GET /a?k=%41 HTTP/1.1\r\nCookie: s=1\r\n\r\n"), body |-> <<>>,
     want |-> [method |-> Text("GET"), path |-> Text("/a"), query |-> Text("k=%41"),
               version |-> 11, params |-> Text("k") :> Text("A"),
               cookies |-> Text("s") :> Text("1"), close |-> TRUE, body |-> <<>>]]
Post ==
    [head |-> Text("POST /b HTTP/1.0\nContent-Length: 4\nContent-Type: form\nConnection: keep-alive\n\n"),
     body |-> Text("x=\n\n"),
     want |-> [method |-> Text("POST"), path |-> Text("/b"), query |-> <<>>,
               version |-> 10, params |-> Text("x") :> <<>>, cookies |-> <<>>,
               close |-> FALSE, body |-> Text("x=\n\n")]]
MCScripts == {<<Get, Post>>, <<Post, Get>>}
MCPaths == {Text("/a"), Text("/b")}
MCPatterns == {Text("/?"), Text("?a")}
MCfnmatch(g, path) == g = Text("/?") \/ path = Text("/a")

(* The parsers that may have read a request up to a break, from the break  *)
(* before it or from an earlier one.                                       *)
MCMid ==
    [r \in Requests |-> [rel \in BOOLEAN |->
        LET f[k \in 0..Len(r.head)] ==
                IF k = 0 THEN {NewParser(rel)}
                ELSE UNION {{Execute(q, SubSeq(r.head, j + 1, k)).p : q \in f[j]} :
                               j \in {j \in Breaks(r) : j < k /\ k \in Breaks(r)}}
        IN  f]]
ASSUME ParserAssumption == ParsesByLine(MCMid)
=============================================================================
