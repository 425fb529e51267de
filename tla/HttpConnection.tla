--------------------------- MODULE HttpConnection ---------------------------
(***************************************************************************)
(* The client's end of a connection: recvResponse, called for one request  *)
(* after the other.  The peer sends the whole of a response; a read        *)
(* returns any part of it that the buffer has room for.  The peer may die  *)
(* at any time, and what is not read by then is lost.                      *)
(***************************************************************************)
EXTENDS HttpResponseParser, FiniteSets

CONSTANTS Scripts,          \* what peers send: sequences of [bytes, lines, want]
          HeaderSize,       \* http.response.header_size
          MaxCuts           \* reads that end inside a line, per connection

(* What peers send are texts that are not empty; lines are the offsets     *)
(* inside a line of the head or inside the size line of a chunk.           *)
Responses == UNION {{s[i] : i \in DOMAIN s} : s \in Scripts}
ASSUME ConnectionAssumption ==
    /\ HeaderSize \in Nat \ {0}
    /\ Scripts \subseteq Seq(Responses) \ {<<>>}
    /\ \A r \in Responses : r.bytes \in Seq(AnyByte) \ {<<>>} /\ r.lines \subseteq 1..(Len(r.bytes) - 1)

VARIABLES
    script,     \* the responses still to come; the first is being received
    pos,        \* how much of it has been read
    alive,      \* the peer
    idle,       \* a read has timed out
    cuts,       \* reads so far that ended inside a line
    st,         \* recvResponse: "head", "chunk", "data", "body", or how it ended:
                \* "done", "closed", or "broken" (nullptr without a close)
    p,          \* its parser, with the response it fills in
    data,       \* the bytes in its buffer that are not parsed yet
    body,       \* what it has of the body
    left        \* bytes it still waits for

vars == <<script, pos, alive, idle, cuts, st, p, data, body, left>>

Reading == {"head", "chunk", "data", "body"}
Now == Head(script)                          \* the response being received
-----------------------------------------------------------------------------
(* The peer. *)
Die == alive /\ alive' = FALSE /\ UNCHANGED <<script, pos, idle, cuts, st, p, data, body, left>>

(* The next n bytes are read from the connection.                          *)
Arrived(n) == SubSeq(Now.bytes, pos + 1, pos + n)
Take(n) ==
    /\ alive /\ pos + n <= Len(Now.bytes)
    /\ pos' = pos + n
    /\ cuts' = IF pos + n \in Now.lines THEN cuts + 1 ELSE cuts
    /\ cuts' <= MaxCuts
    /\ UNCHANGED <<script, alive, idle>>
-----------------------------------------------------------------------------
Closed == st' = "closed" /\ UNCHANGED <<data, body, left>>

(* The end of recvResponse. *)
Return(q, text) ==
    /\ st' = "done"
    /\ p' = [q EXCEPT !.m_data.body = text]
    /\ data' = <<>> /\ body' = <<>> /\ left' = 0

(* delHeader("Transfer-Encoding").                                         *)
DelEncoding(q) ==
    [q EXCEPT !.m_data.headers = [k \in DOMAIN @ \ {TransferEncoding} |-> @[k]]]

(* The head is complete and rest is what has been read behind it.          *)
HeadDone(q, rest) ==
    LET length == GetContentLength(q.m_data)
        here == IF length >= Len(rest) THEN rest ELSE SubSeq(rest, 1, length)
    IN  \/ /\ q.chunked
           /\ st' = "chunk" /\ data' = rest /\ body' = <<>> /\ left' = 0
           /\ p' = DelEncoding(q)
        \/ /\ ~q.chunked /\ length > Len(here)
           /\ st' = "body" /\ p' = q /\ data' = <<>> /\ body' = here
           /\ left' = length - Len(here)
        \/ /\ ~q.chunked /\ length <= Len(here)
           /\ Return(q, here)

(* Mutant: the buffer is found full before the parsed part is taken out.   *)
ReadHeadFull(n) ==
    /\ st = "head" /\ Len(data) + n <= HeaderSize
    /\ Take(n)
    /\ \E buf \in {data \o Arrived(n)} : \E x \in {Execute(p, buf, FALSE)} :
       LET rest == SubSeq(buf, x.n + 1, Len(buf))
       IN  \/ (HasError(x.p) \/ Len(buf) = HeaderSize) /\ Closed /\ p' = x.p
           \/ ~HasError(x.p) /\ ~IsFinished(x.p)
              /\ p' = x.p /\ data' = rest /\ UNCHANGED <<st, body, left>>
           \/ ~HasError(x.p) /\ IsFinished(x.p) /\ HeadDone(x.p, rest)

(* One turn of the first loop, from the read to isFinished.                *)
ReadHead(n) ==
    /\ st = "head" /\ Len(data) + n <= HeaderSize
    /\ Take(n)
    /\ \E buf \in {data \o Arrived(n)} : \E x \in {Execute(p, buf, FALSE)} :
       LET rest == SubSeq(buf, x.n + 1, Len(buf))
       IN  \/ (HasError(x.p) \/ Len(rest) = HeaderSize) /\ Closed /\ p' = x.p
           \/ ~HasError(x.p) /\ ~IsFinished(x.p)
              /\ p' = x.p /\ data' = rest /\ UNCHANGED <<st, body, left>>
           \/ ~HasError(x.p) /\ IsFinished(x.p) /\ HeadDone(x.p, rest)

(* With nothing in the buffer the loop for a size line reads first.        *)
ReadChunk(n) ==
    /\ st = "chunk" /\ data = <<>> /\ n <= HeaderSize
    /\ Take(n)
    /\ data' = Arrived(n)
    /\ UNCHANGED <<st, p, body, left>>

(* Mutant: the whole chunk is waited for, whatever is here.                *)
ChunkDataWaits(q, rest) ==
    st' = "data" /\ p' = q /\ data' = <<>> /\ body' = body \o rest /\ left' = q.content_len + 2

(* Mutant: the line end after the chunk's data is not counted.             *)
ChunkDataOnly(q, rest) ==
    \/ /\ Len(rest) >= q.content_len
       /\ IF q.chunks_done THEN Return(q, body \o SubSeq(rest, 1, q.content_len))
          ELSE /\ p' = q /\ data' = SubSeq(rest, q.content_len + 3, Len(rest))
               /\ body' = body \o SubSeq(rest, 1, q.content_len) /\ UNCHANGED <<st, left>>
    \/ /\ Len(rest) < q.content_len
       /\ st' = "data" /\ p' = q /\ data' = <<>> /\ body' = body \o rest
       /\ left' = q.content_len + 2 - Len(rest)

(* A size line is complete and rest is what has been read behind it: all   *)
(* of the chunk and its line end, or a part.                               *)
ChunkData(q, rest) ==
    LET size == q.content_len
    IN  \/ /\ Len(rest) >= size + 2
           /\ IF q.chunks_done THEN Return(q, body \o SubSeq(rest, 1, size))
              ELSE /\ p' = q /\ data' = SubSeq(rest, size + 3, Len(rest))
                   /\ body' = body \o SubSeq(rest, 1, size) /\ UNCHANGED <<st, left>>
        \/ /\ Len(rest) < size + 2
           /\ st' = "data" /\ p' = q /\ data' = <<>> /\ body' = body \o rest
           /\ left' = size + 2 - Len(rest)

(* One turn of the loop for a size line, which starts the parser anew.     *)
ParseChunk ==
    /\ st = "chunk" /\ data # <<>>
    /\ \E x \in {Execute(p, data, TRUE)} :
       LET rest == SubSeq(data, x.n + 1, Len(data))
       IN  \/ HasError(x.p) /\ Closed /\ p' = x.p
           \/ ~HasError(x.p) /\ ~IsFinished(x.p)
              /\ p' = x.p /\ data' = rest /\ UNCHANGED <<st, body, left>>
           \/ ~HasError(x.p) /\ IsFinished(x.p) /\ ChunkData(x.p, rest)
    /\ UNCHANGED <<script, pos, alive, idle, cuts>>

(* One read of the rest of a chunk, whose line end is cut off at the end.  *)
ReadData(n) ==
    /\ st = "data" /\ n <= left /\ n <= HeaderSize
    /\ Take(n)
    /\ LET all == body \o Arrived(n)
           text == SubSeq(all, 1, Len(all) - 2)
       IN  \/ /\ n < left
              /\ body' = all /\ left' = left - n /\ UNCHANGED <<st, p, data>>
           \/ /\ n = left /\ p.chunks_done
              /\ Return(p, text)
           \/ /\ n = left /\ ~p.chunks_done
              /\ st' = "chunk" /\ body' = text /\ left' = 0 /\ UNCHANGED <<p, data>>

(* One read of the rest of a body of known length.                         *)
ReadBody(n) ==
    /\ st = "body" /\ n <= left
    /\ Take(n)
    /\ LET text == body \o Arrived(n)
       IN  \/ n = left /\ Return(p, text)
           \/ n < left /\ body' = text /\ left' = left - n /\ UNCHANGED <<st, p, data>>

(* A read returns 0 or -1.  All reads but those of a chunk's data close    *)
(* the connection then.                                                    *)
ReadFails ==
    /\ \/ st = "chunk" /\ data = <<>>
       \/ st \in {"head", "data", "body"}
    /\ st' = IF st = "data" THEN "broken" ELSE "closed"
    /\ UNCHANGED <<script, pos, alive, cuts, p, data, body, left>>

EndOfFile == ~alive /\ ReadFails /\ UNCHANGED idle
Timeout == alive /\ pos = Len(Now.bytes) /\ ReadFails /\ idle' = TRUE

(* The user has the response and asks for the next one.                    *)
Again ==
    /\ st = "done" /\ Len(script) > 1
    /\ script' = Tail(script) /\ pos' = 0
    /\ st' = "head" /\ p' = NewParser
    /\ UNCHANGED <<alive, idle, cuts, data, body, left>>
-----------------------------------------------------------------------------
Init ==
    /\ script \in Scripts /\ pos = 0 /\ alive = TRUE /\ idle = FALSE /\ cuts = 0
    /\ st = "head" /\ p = NewParser /\ data = <<>> /\ body = <<>> /\ left = 0

Recv == \E n \in 1..HeaderSize : ReadHead(n) \/ ReadChunk(n) \/ ReadData(n) \/ ReadBody(n)

Next == Die \/ Recv \/ ParseChunk \/ EndOfFile \/ Timeout \/ Again

(* The calling fiber runs on: a read returns once there are bytes or an    *)
(* end of file.  The timeout is not counted on.                            *)
Spec ==
    Init /\ [][Next]_vars /\ WF_vars(Recv) /\ WF_vars(ParseChunk) /\ WF_vars(EndOfFile)
-----------------------------------------------------------------------------
(* d is the response that was sent.                                        *)
Delivered(d, want) ==
    /\ \A f \in DOMAIN want \ {"headers"} : d[f] = want[f]
    /\ \A k \in DOMAIN want.headers : k \in DOMAIN d.headers /\ d.headers[k] = want.headers[k]
    /\ TransferEncoding \notin DOMAIN d.headers

(* The layout L of r: where its head ends; if chunked, for the offset of   *)
(* each chunk's size line, where the line ends, the size of the data, and  *)
(* the text of the chunks before, which for the end of r is the body.      *)
NextChunk(L, c) == L.end[c] + L.size[c] + 2
Laid(r, L) ==
    /\ L.head \in 1..Len(r.bytes) /\ L.chunked \in BOOLEAN
    /\ L.chunked => L.head \in DOMAIN L.end /\ L.text[L.head] = <<>>
    /\ \A c \in DOMAIN L.end :
          /\ c \in Nat /\ L.end[c] \in Nat /\ L.size[c] \in Nat /\ L.text[c] \in Seq(AnyByte)
          /\ c < L.end[c] /\ (c + 1)..(L.end[c] - 1) \subseteq r.lines
          /\ NextChunk(L, c) \in DOMAIN L.end \/ NextChunk(L, c) = Len(r.bytes)
          /\ NextChunk(L, c) <= Len(r.bytes)
          /\ L.text[NextChunk(L, c)] = L.text[c] \o SubSeq(r.bytes, L.end[c] + 1, L.end[c] + L.size[c])

(* Where a read of r may end without a cut inside its head.                *)
Breaks(r, L) == {k \in 0..(L.head - 1) : k \notin r.lines}

(* The parser has read the head of r, which is not chunked.                *)
SizedHead(q, r, L) ==
    /\ "m_data" \in DOMAIN q /\ "body" \in DOMAIN q.m_data
    /\ GetContentLength(q.m_data) = Len(r.bytes) - L.head
    /\ Delivered([q.m_data EXCEPT !.body = SubSeq(r.bytes, L.head + 1, Len(r.bytes))], r.want)

(* What the parser owes recvResponse.  mid[r][k] are the parsers that may  *)
(* have read r up to k, after[r] those that have read the head and some    *)
(* size lines: a head is read in pieces of any number of lines, and a size *)
(* line in one piece; the parser stops behind it and has what was sent.    *)
ParsesByLine(lay, mid, after) ==
    \A r \in Responses :
      /\ Laid(r, lay[r])
      /\ NewParser \in mid[r][0]
      /\ \A k \in Breaks(r, lay[r]) : \A q \in mid[r][k] :
            /\ \A m \in Breaks(r, lay[r]) : k < m =>
                  LET x == Execute(q, SubSeq(r.bytes, k + 1, m), FALSE)
                  IN  /\ ~HasError(x.p) /\ ~IsFinished(x.p)
                      /\ x.n = m - k /\ x.p \in mid[r][m]
            /\ \A m \in lay[r].head..Len(r.bytes) : m \notin r.lines =>
                  LET x == Execute(q, SubSeq(r.bytes, k + 1, m), FALSE)
                  IN  /\ ~HasError(x.p) /\ IsFinished(x.p) /\ x.n = lay[r].head - k
                      /\ IF lay[r].chunked THEN x.p.chunked /\ DelEncoding(x.p) \in after[r]
                         ELSE ~x.p.chunked /\ SizedHead(x.p, r, lay[r])
      /\ \A q \in after[r] :
            /\ "m_data" \in DOMAIN q /\ "body" \in DOMAIN q.m_data
            /\ Delivered([q.m_data EXCEPT !.body = lay[r].text[Len(r.bytes)]], r.want)
            /\ \A c \in DOMAIN lay[r].end : \A m \in lay[r].end[c]..Len(r.bytes) : m \notin r.lines =>
                  LET x == Execute(q, SubSeq(r.bytes, c + 1, m), TRUE)
                  IN  /\ ~HasError(x.p) /\ IsFinished(x.p) /\ x.n = lay[r].end[c] - c
                      /\ x.p \in after[r] /\ x.p.content_len = lay[r].size[c]
                      /\ x.p.chunks_done <=> NextChunk(lay[r], c) = Len(r.bytes)

(* recvResponse: if no read has ended inside a line, what it returns is    *)
(* the response the peer sent, in spite of any cuts through its body or    *)
(* its chunks, and nothing of it is left for the next call; a response of  *)
(* which a part was lost with the peer is never returned.                  *)
ResponseDelivered ==
    st = "done" /\ cuts = 0 => pos = Len(Now.bytes) /\ Delivered(p.m_data, Now.want)

(* The same for every read: the comment in recvResponse has the bytes that *)
(* the parser has not used wait in the buffer for it.                      *)
AnyReadReturned == st = "done" => p.m_data.body = Now.want.body

(* recvResponse returns nullptr only for a peer that is gone or late, if   *)
(* no read has ended inside a line.                                        *)
NoSpuriousFailure == st \in {"closed", "broken"} /\ cuts = 0 => ~alive \/ idle

(* recvResponse never waits for more bytes than the peer sends, if no read *)
(* ends inside a line (one that does may take digits of the data for the   *)
(* size of a chunk).                                                       *)
ResponseEnds == (st \in Reading /\ cuts = 0) ~> (st \notin Reading \/ cuts > 0)
=============================================================================
