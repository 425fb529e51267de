----------------------------- MODULE HttpServer -----------------------------
(***************************************************************************)
(* One connection of an HttpServer: handleClient's loop, recvRequest and   *)
(* the reads it makes, the servlets it dispatches to, and the peer.  The   *)
(* peer sends a request and waits for the response; it may leave at any    *)
(* time.  A read returns any part of what has arrived.                     *)
(***************************************************************************)
EXTENDS HttpRequestParser, FiniteSets

CONSTANTS Scripts,          \* what peers send: sequences of [head, body, want]
          HeaderSize,       \* http.request.header_size
          MaxCuts,          \* reads that end inside a line, per connection
          Paths, Patterns,  \* addresses and globs that servlets are registered for
          fnmatch(_, _),    \* external: the glob matches the address
          Default,          \* the NotFoundServlet
          Servlets,
          MaxOps            \* changes of the servlet table

(* What peers send are texts: a head, which is not empty, and a body.      *)
Requests == UNION {{s[i] : i \in DOMAIN s} : s \in Scripts}
ASSUME ScriptAssumption ==
    /\ Scripts \subseteq Seq(Requests)
    /\ \A r \in Requests : r.head \in Seq(AnyByte) \ {<<>>} /\ r.body \in Seq(AnyByte)

VARIABLES
    client,     \* the peer: "ready", "waiting" or "gone"
    script,     \* what it still has to send; its head is on the wire if it waits
    wire,       \* bytes that have arrived and are not read yet
    headLeft,   \* of those, how many belong to the request's head
    cuts,       \* reads so far that ended inside a line
    idle,       \* a read has timed out
    st,         \* handleClient: "head", "body", "serve" or "closed"
    p,          \* recvRequest's parser, with the request it fills in
    left,       \* bytes of the body that readFixSize still waits for
    keepAlive,  \* m_keepAlive
    m_datas,    \* servlets by address
    m_globs,    \* << glob, servlet >>, in the order they are tried
    ops         \* the changes made to them, for the properties

netVars == <<client, script, wire, headLeft, cuts, idle>>
sessionVars == <<st, p, left, keepAlive>>
tableVars == <<m_datas, m_globs, ops>>
vars == <<netVars, sessionVars, tableVars>>

Request(r) == r.head \o r.body
-----------------------------------------------------------------------------
(* The peer. *)
Send ==
    /\ client = "ready" /\ script # <<>>
    /\ client' = "waiting"
    /\ wire' = wire \o Request(Head(script))
    /\ headLeft' = Len(Head(script).head)
    /\ UNCHANGED <<script, cuts, idle, sessionVars, tableVars>>

Leave ==
    /\ client # "gone"
    /\ client' = "gone"
    /\ UNCHANGED <<script, wire, headLeft, cuts, idle, sessionVars, tableVars>>

(* The first n bytes are read from the wire.                               *)
Take(n) ==
    /\ wire' = SubSeq(wire, n + 1, Len(wire))
    /\ headLeft' = IF n < headLeft THEN headLeft - n ELSE 0
    /\ cuts' = IF n < headLeft /\ wire[n] # LF THEN cuts + 1 ELSE cuts
    /\ cuts' <= MaxCuts
    /\ UNCHANGED <<client, script, idle>>

(* close() and the end of handleClient.                                    *)
Closed == st' = "closed" /\ UNCHANGED left

(* Mutant: readFixSize waits for the whole length, whatever is here.       *)
HeadDoneWaits(q, rest) ==
    /\ p' = [q EXCEPT !.m_data = InitParam(InitRequest([q.m_data EXCEPT !.body = rest]))]
    /\ left' = GetContentLength(q.m_data)
    /\ st' = IF left' > 0 THEN "body" ELSE "serve"

(* recvRequest after the loop: rest are the bytes read that the parser did *)
(* not use; the body takes what it needs of them and the others are lost.  *)
HeadDone(q, rest) ==
    LET length == GetContentLength(q.m_data)
        here == IF length >= Len(rest) THEN rest ELSE SubSeq(rest, 1, length)
        req == IF length > 0 THEN [q.m_data EXCEPT !.body = here] ELSE q.m_data
    IN  IF length > Len(rest)
        THEN /\ st' = "body" /\ left' = length - Len(rest)
             /\ p' = [q EXCEPT !.m_data = req]
        ELSE /\ st' = "serve" /\ left' = 0
             /\ p' = [q EXCEPT !.m_data = InitParam(InitRequest(req))]

(* Mutant: a head that does not come with one read is an error.            *)
ReadHeadOnce(n) ==
    /\ st = "head"
    /\ n <= Len(wire) /\ n <= HeaderSize
    /\ Take(n)
    /\ \E x \in {Execute(p, SubSeq(wire, 1, n))} :
          \/ (HasError(x.p) \/ x.p.thrown \/ ~IsFinished(x.p)) /\ Closed /\ p' = x.p
          \/ ~HasError(x.p) /\ ~x.p.thrown /\ IsFinished(x.p)
             /\ HeadDone(x.p, SubSeq(wire, x.n + 1, n))
    /\ UNCHANGED <<keepAlive, tableVars>>

(* One turn of recvRequest's loop, from the read to isFinished.            *)
ReadHead(n) ==
    /\ st = "head"
    /\ n <= Len(wire) /\ n <= HeaderSize
    /\ Take(n)
    /\ \E x \in {Execute(p, SubSeq(wire, 1, n))} :
          \/ (HasError(x.p) \/ x.p.thrown) /\ Closed /\ p' = x.p
          \/ ~HasError(x.p) /\ ~x.p.thrown /\ ~IsFinished(x.p)
             /\ p' = x.p /\ UNCHANGED <<st, left>>
          \/ ~HasError(x.p) /\ ~x.p.thrown /\ IsFinished(x.p)
             /\ HeadDone(x.p, SubSeq(wire, x.n + 1, n))
    /\ UNCHANGED <<keepAlive, tableVars>>

(* Mutant: every read goes to the start of the body.                       *)
ReadBodyOver(n) ==
    /\ st = "body"
    /\ n <= Len(wire) /\ n <= left
    /\ Take(n)
    /\ left' = left - n
    /\ LET req == [p.m_data EXCEPT !.body = SubSeq(wire, 1, n)]
       IN  IF n < left THEN p' = [p EXCEPT !.m_data = req] /\ UNCHANGED st
           ELSE p' = [p EXCEPT !.m_data = InitParam(InitRequest(req))] /\ st' = "serve"
    /\ UNCHANGED <<keepAlive, tableVars>>

(* One read of readFixSize.                                                *)
ReadBody(n) ==
    /\ st = "body"
    /\ n <= Len(wire) /\ n <= left
    /\ Take(n)
    /\ left' = left - n
    /\ LET req == [p.m_data EXCEPT !.body = @ \o SubSeq(wire, 1, n)]
       IN  IF n < left THEN p' = [p EXCEPT !.m_data = req] /\ UNCHANGED st
           ELSE p' = [p EXCEPT !.m_data = InitParam(InitRequest(req))] /\ st' = "serve"
    /\ UNCHANGED <<keepAlive, tableVars>>

(* A read that returns 0, the peer being gone, or -1, SO_RCVTIMEO having   *)
(* passed: recvRequest closes and returns nullptr.                         *)
ReadFails ==
    /\ st \in {"head", "body"} /\ wire = <<>>
    /\ Closed
    /\ UNCHANGED <<client, script, wire, headLeft, cuts, p, keepAlive, tableVars>>

EndOfFile == client = "gone" /\ ReadFails /\ UNCHANGED idle
Timeout == client # "gone" /\ ReadFails /\ idle' = TRUE
-----------------------------------------------------------------------------
(* ServletDispatch::getMatchServlet.                                       *)
FirstGlob(path) ==
    LET hits == {i \in DOMAIN m_globs : fnmatch(m_globs[i][1], path)}
    IN  IF hits = {} THEN Default
        ELSE m_globs[CHOOSE i \in hits : \A j \in hits : i <= j][2]

GetMatchServlet(path) ==
    IF path \in DOMAIN m_datas THEN m_datas[path] ELSE FirstGlob(path)

(* The response is sent and the loop goes on while m_keepAlive; whether    *)
(* the request asked for the connection to be closed makes no difference.  *)
Serve ==
    /\ st = "serve"
    /\ IF client = "waiting"
       THEN client' = "ready" /\ script' = Tail(script)
       ELSE UNCHANGED <<client, script>>
    /\ IF keepAlive
       THEN st' = "head" /\ \E r \in BOOLEAN : p' = NewParser(r)
       ELSE st' = "closed" /\ UNCHANGED p
    /\ UNCHANGED <<wire, headLeft, cuts, idle, left, keepAlive, tableVars>>

(* The history: in which table the key was given a servlet, or none.       *)
Record(table, key, servlet) ==
    ops' = Append(ops, [table |-> table, key |-> key, servlet |-> servlet])

AddServlet(path, s) ==
    /\ m_datas' = [x \in DOMAIN m_datas \cup {path} |-> IF x = path THEN s ELSE m_datas[x]]
    /\ Record("datas", path, {s})
    /\ UNCHANGED m_globs

(* The first entry of the glob is erased.                                  *)
Without(globs, glob) ==
    LET at == {i \in DOMAIN globs : globs[i][1] = glob}
        first == CHOOSE i \in at : \A j \in at : i <= j
    IN  IF at = {} THEN globs
        ELSE SubSeq(globs, 1, first - 1) \o SubSeq(globs, first + 1, Len(globs))

(* Mutant: a glob that is there is not taken out first.                    *)
AddGlobServletTwice(glob, s) ==
    /\ m_globs' = Append(m_globs, <<glob, s>>)
    /\ Record("globs", glob, {s})
    /\ UNCHANGED m_datas

AddGlobServlet(glob, s) ==
    /\ m_globs' = Append(Without(m_globs, glob), <<glob, s>>)
    /\ Record("globs", glob, {s})
    /\ UNCHANGED m_datas

DelServlet(path) ==
    /\ path \in DOMAIN m_datas
    /\ m_datas' = [x \in DOMAIN m_datas \ {path} |-> m_datas[x]]
    /\ Record("datas", path, {})
    /\ UNCHANGED m_globs

DelGlobServlet(glob) ==
    /\ Without(m_globs, glob) # m_globs
    /\ m_globs' = Without(m_globs, glob)
    /\ Record("globs", glob, {})
    /\ UNCHANGED m_datas

(* The table is changed by whoever has the dispatcher, under its write     *)
(* lock, and read under its read lock.  No step of the connection depends  *)
(* on what it finds there, so it is enough to change the table once this   *)
(* connection, all of its requests answered, is closed.                    *)
Register ==
    /\ Len(ops) < MaxOps /\ script = <<>> /\ st = "closed"
    /\ \/ \E path \in Paths : DelServlet(path) \/ \E s \in Servlets : AddServlet(path, s)
       \/ \E g \in Patterns : DelGlobServlet(g) \/ \E s \in Servlets : AddGlobServlet(g, s)
    /\ UNCHANGED <<netVars, sessionVars>>
-----------------------------------------------------------------------------
Init ==
    /\ client = "ready" /\ script \in Scripts /\ wire = <<>> /\ headLeft = 0
    /\ cuts = 0 /\ idle = FALSE
    /\ st = "head" /\ \E r \in BOOLEAN : p = NewParser(r)
    /\ left = 0 /\ keepAlive \in BOOLEAN
    /\ m_datas = <<>> /\ m_globs = <<>> /\ ops = <<>>

Recv == \E n \in 1..Len(wire) : ReadHead(n) \/ ReadBody(n)

Next == Send \/ Leave \/ Recv \/ EndOfFile \/ Timeout \/ Serve \/ Register

(* The fiber of the connection runs on: a read returns once there are      *)
(* bytes or an end of file, and handlers return.  The timeout, which a     *)
(* server may have set to any length, is not counted on.                   *)
Spec == Init /\ [][Next]_vars /\ WF_vars(Recv) /\ WF_vars(EndOfFile) /\ WF_vars(Serve)
-----------------------------------------------------------------------------
(* What the servlet is given is the request that was sent.                 *)
AsSent(req, want) == \A f \in DOMAIN want : req[f] = want[f]

(* Where a read of r may end without a cut inside its head.                *)
Breaks(r) == {0} \cup {k \in 1..(Len(r.head) - 1) : r.head[k] = LF}

(* The parser has read the head of r, and with the body the request is the *)
(* one that was sent.                                                      *)
HeadIs(q, r) ==
    /\ "m_data" \in DOMAIN q /\ "body" \in DOMAIN q.m_data
    /\ GetContentLength(q.m_data) = Len(r.body)
    /\ AsSent(InitParam(InitRequest(IF r.body # <<>> THEN [q.m_data EXCEPT !.body = r.body]
                                    ELSE q.m_data)), r.want)

(* What the parser owes recvRequest, mid[r][rel][k] being the parsers that *)
(* may have read r up to k: given line after line, in pieces of any number *)
(* of lines, it reads the head, stops behind it and has what was sent.     *)
ParsesByLine(mid) ==
    \A r \in Requests, rel \in BOOLEAN :
        /\ NewParser(rel) \in mid[r][rel][0]
        /\ \A k \in Breaks(r) : \A q \in mid[r][rel][k] :
              /\ \A m \in Breaks(r) : k < m =>
                    LET x == Execute(q, SubSeq(Request(r), k + 1, m))
                    IN  /\ ~HasError(x.p) /\ ~x.p.thrown /\ ~IsFinished(x.p)
                        /\ x.p \in mid[r][rel][m]
              /\ \A m \in Len(r.head)..Len(Request(r)) :
                    LET x == Execute(q, SubSeq(Request(r), k + 1, m))
                    IN  /\ ~HasError(x.p) /\ ~x.p.thrown /\ IsFinished(x.p)
                        /\ x.n = Len(r.head) - k /\ HeadIs(x.p, r)

(* recvRequest: if no read has ended inside a line of a head, the request  *)
(* handed to the servlet is, address, parameters, headers, cookies and     *)
(* body, the one the peer sent, whatever the reads, the requests before it *)
(* on the connection and the value that uri_relaxed happens to have.       *)
RequestDelivered ==
    st = "serve" /\ cuts = 0 => AsSent(p.m_data, Head(script).want)

(* The same for every read: the comment in recvRequest has the bytes that  *)
(* the parser has not used wait in the buffer for it.                      *)
AnyReadDelivered == st = "serve" => AsSent(p.m_data, Head(script).want)

(* recvRequest: a peer that is there, in time and read line by line is not *)
(* turned away; the connection ends only for m_keepAlive.                  *)
NoSpuriousClose ==
    st = "closed" /\ cuts = 0 => client = "gone" \/ idle \/ ~keepAlive

(* handleClient: every request is answered or its connection closed, at    *)
(* whatever bytes the reads end: recvRequest never waits for more bytes    *)
(* than the peer has sent.                                                 *)
RequestEnds == (client = "waiting") ~> (client # "waiting" \/ st = "closed")

(* When the servlet that the key has in the table now was put there.       *)
Standing(table, key) ==
    {i \in DOMAIN ops :
        /\ ops[i].table = table /\ ops[i].key = key /\ ops[i].servlet # {}
        /\ \A j \in DOMAIN ops : ops[j].table = table /\ ops[j].key = key => j <= i}

(* getMatchServlet: the servlet last registered for the address itself; or *)
(* else, of the globs that match, the one whose registration has stood     *)
(* longest; or else the default.                                           *)
MatchIsStanding ==
    \A path \in Paths :
        LET own == Standing("datas", path)
            globs == UNION {Standing("globs", g) : g \in {g \in Patterns : fnmatch(g, path)}}
            from == IF own # {} THEN own ELSE globs
        IN  \/ from = {} /\ GetMatchServlet(path) = Default
            \/ \E i \in from : (\A j \in from : i <= j) /\ GetMatchServlet(path) \in ops[i].servlet
=============================================================================
