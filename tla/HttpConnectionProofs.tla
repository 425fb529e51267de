------------------------ MODULE HttpConnectionProofs ------------------------
(***************************************************************************)
(* recvResponse for every script of responses, given a parser that keeps   *)
(* what it owes: however the bytes are cut into reads, as long as none     *)
(* ends inside a line, what is returned is what was sent, and no           *)
(* connection to a peer that is there and in time is given up.             *)
(***************************************************************************)
EXTENDS HttpConnection, SeqFacts

(* The first loop, at a break of the head, with nothing kept back.         *)
InHead(lay, mid) ==
    data = <<>> /\ pos \in Breaks(Now, lay[Now]) /\ p \in mid[Now][pos]

(* The loop for a size line: the buffer starts with the one at c.          *)
InChunk(lay, after) ==
    LET L == lay[Now]
    IN  /\ L.chunked /\ p \in after[Now]
        /\ \E c \in DOMAIN L.end :
              c <= pos /\ data = SubSeq(Now.bytes, c + 1, pos) /\ body = L.text[c]

(* The loop for the rest of the chunk whose size line is at c.             *)
InData(lay, after) ==
    LET L == lay[Now]
    IN  /\ L.chunked /\ p \in after[Now] /\ data = <<>>
        /\ \E c \in DOMAIN L.end :
              /\ L.end[c] <= pos /\ left = NextChunk(L, c) - pos /\ left > 0
              /\ body = L.text[c] \o SubSeq(Now.bytes, L.end[c] + 1, pos)
              /\ p.chunks_done <=> NextChunk(L, c) = Len(Now.bytes)

(* readFixSize for a body of known length.                                 *)
InBody(lay) ==
    LET L == lay[Now]
    IN  /\ ~L.chunked /\ SizedHead(p, Now, L)
        /\ L.head <= pos /\ left = Len(Now.bytes) - pos /\ left > 0
        /\ body = SubSeq(Now.bytes, L.head + 1, pos)

Where(lay, mid, after) ==
    /\ pos \notin Now.lines
    /\ st = "head" => InHead(lay, mid)
    /\ st = "chunk" => InChunk(lay, after)
    /\ st = "data" => InData(lay, after)
    /\ st = "body" => InBody(lay)
    /\ st = "done" => data = <<>> /\ pos = Len(Now.bytes) /\ Delivered(p.m_data, Now.want)
    /\ st \in {"closed", "broken"} => ~alive \/ idle

(* Where recvResponse is, as long as no read has ended inside a line.      *)
ConnInv(lay, mid, after) ==
    /\ script \in Seq(Responses) /\ script # <<>> /\ cuts \in Nat
    /\ pos \in 0..Len(Now.bytes)
    /\ st \in Reading \cup {"done", "closed", "broken"}
    /\ cuts = 0 => Where(lay, mid, after)

(* The response being received.                                            *)
LEMMA NowFacts ==
    ASSUME NEW lay, NEW mid, NEW after, ConnInv(lay, mid, after)
    PROVE  Now \in Responses /\ Now.bytes \in Seq(AnyByte) /\ Len(Now.bytes) \in Nat \ {0}
<1>1. Now \in Responses
  BY HeadTailProperties DEF ConnInv, Now
<1>2. Now.bytes \in Seq(AnyByte) /\ Now.bytes # <<>>
  BY <1>1, ConnectionAssumption
<1> QED
  BY <1>1, <1>2, EmptySeq

(* A read of n bytes that does not end inside a line.                      *)
LEMMA TakeFacts ==
    ASSUME NEW lay, NEW mid, NEW after, ConnInv(lay, mid, after),
           NEW n \in 1..HeaderSize, Take(n), cuts' = 0
    PROVE  /\ cuts = 0 /\ Where(lay, mid, after)
           /\ n \in Nat \ {0} /\ n <= HeaderSize /\ pos \in Nat /\ pos + n <= Len(Now.bytes)
           /\ pos' = pos + n /\ pos + n \in 0..Len(Now.bytes) /\ pos + n \notin Now.lines
           /\ script' = script /\ Now' = Now /\ alive' = alive /\ idle' = idle
           /\ Arrived(n) = SubSeq(Now.bytes, pos + 1, pos + n)
<1>1. n \in Nat \ {0} /\ n <= HeaderSize
  BY ConnectionAssumption
<1>2. /\ pos + n <= Len(Now.bytes) /\ pos' = pos + n /\ script' = script /\ alive' = alive
      /\ idle' = idle /\ cuts' = IF pos + n \in Now.lines THEN cuts + 1 ELSE cuts
  BY DEF Take
<1>3. cuts \in Nat /\ pos \in Nat /\ Len(Now.bytes) \in Nat /\ (cuts = 0 => Where(lay, mid, after))
  BY NowFacts DEF ConnInv
<1>4. cuts = 0 /\ pos + n \notin Now.lines
  BY <1>2, <1>3
<1> QED
  BY <1>1, <1>2, <1>3, <1>4 DEF Now, Arrived

(* The response is returned with the text as its body.                     *)
LEMMA ReturnFacts ==
    ASSUME NEW q, "m_data" \in DOMAIN q, NEW text, Return(q, text)
    PROVE  st' = "done" /\ data' = <<>> /\ p'.m_data = [q.m_data EXCEPT !.body = text]
<1>1. p' = [q EXCEPT !.m_data.body = text] /\ st' = "done" /\ data' = <<>>
  BY DEF Return
<1> QED
  BY <1>1

(* The first loop.                                                         *)
LEMMA ReadHeadStep ==
    ASSUME NEW lay, NEW mid, NEW after, ParsesByLine(lay, mid, after), ConnInv(lay, mid, after),
           NEW n \in 1..HeaderSize, ReadHead(n), cuts' = 0
    PROVE  Where(lay, mid, after)'
<1> DEFINE r == Now
           L == lay[r]
           N == Len(r.bytes)
           m == pos + n
           H == L.head
<1>1. st = "head" /\ Take(n)
  BY DEF ReadHead
<1>2. /\ Where(lay, mid, after)
      /\ n \in Nat \ {0} /\ n <= HeaderSize /\ pos \in Nat /\ m <= N
      /\ pos' = m /\ m \in 0..N /\ m \notin r.lines /\ Now' = r
      /\ Arrived(n) = SubSeq(r.bytes, pos + 1, m)
  BY <1>1, TakeFacts
<1>3. data = <<>> /\ pos \in Breaks(r, L) /\ p \in mid[r][pos]
  BY <1>1, <1>2 DEF Where, InHead
<1>4. r \in Responses /\ r.bytes \in Seq(AnyByte) /\ N \in Nat \ {0}
  BY NowFacts
<1>5. Laid(r, L)
  BY <1>4 DEF ParsesByLine
<1>6. H \in Nat /\ H <= N /\ pos < H /\ L.chunked \in BOOLEAN
  <2>1. H \in 1..N /\ L.chunked \in BOOLEAN
    BY <1>5 DEF Laid
  <2>2. pos \in 0..(H - 1)
    BY <1>3 DEF Breaks
  <2> QED
    BY <1>2, <1>4, <2>1, <2>2
<1>12. /\ \A j \in Breaks(r, L) : pos < j =>
             LET x == Execute(p, SubSeq(r.bytes, pos + 1, j), FALSE)
             IN  ~HasError(x.p) /\ ~IsFinished(x.p) /\ x.n = j - pos /\ x.p \in mid[r][j]
      /\ \A j \in H..N : j \notin r.lines =>
             LET x == Execute(p, SubSeq(r.bytes, pos + 1, j), FALSE)
             IN  /\ ~HasError(x.p) /\ IsFinished(x.p) /\ x.n = H - pos
                 /\ IF L.chunked THEN x.p.chunked /\ DelEncoding(x.p) \in after[r]
                    ELSE ~x.p.chunked /\ SizedHead(x.p, r, L)
  BY <1>3, <1>4 DEF ParsesByLine
<1> HIDE DEF r, L, N, H
<1> DEFINE buf == SubSeq(r.bytes, pos + 1, m)
           x == Execute(p, buf, FALSE)
           rest == SubSeq(buf, x.n + 1, Len(buf))
<1>7. m \in pos..N /\ m - pos = n
  BY <1>2, <1>4
<1>8. buf \in Seq(AnyByte) /\ Len(buf) = n
  BY <1>2, <1>4, <1>7, PartFacts DEF N
<1>9. \/ (HasError(x.p) \/ Len(rest) = HeaderSize) /\ Closed /\ p' = x.p
      \/ ~HasError(x.p) /\ ~IsFinished(x.p) /\ p' = x.p /\ data' = rest /\ st' = st
      \/ ~HasError(x.p) /\ IsFinished(x.p) /\ HeadDone(x.p, rest)
  <2>1. data \o Arrived(n) = buf
    BY <1>2, <1>3, <1>8, ConcatEmptySeq
  <2> HIDE DEF buf
  <2> QED
    BY <2>1 DEF ReadHead
<1>10. CASE m < H
  <2>1. m \in Breaks(r, L) /\ pos < m
    BY <1>2, <1>6, <1>10 DEF Breaks, H
  <2>2. ~HasError(x.p) /\ ~IsFinished(x.p) /\ x.n = m - pos /\ x.p \in mid[r][m]
    BY <1>12, <2>1
  <2> HIDE DEF x, buf
  <2>3. rest = <<>> /\ Len(rest) = 0
    <3>1. x.n = n
      BY <1>7, <2>2
    <3>2. rest = SubSeq(buf, n + 1, n)
      BY <1>8, <3>1
    <3>3. n \in Int /\ n + 1 \in Int /\ n < n + 1
      BY <1>2
    <3> HIDE DEF rest
    <3> QED
      BY <3>2, <3>3, SubSeqEmpty
  <2>4. p' = x.p /\ data' = <<>> /\ st' = "head"
    BY <1>1, <1>9, <2>2, <2>3, ConnectionAssumption
  <2>5. InHead(lay, mid)'
    BY <1>2, <2>1, <2>2, <2>4 DEF InHead, r, L
  <2> QED
    BY <1>2, <2>4, <2>5 DEF Where, r
<1>11. CASE ~(m < H)
  <2>1. m \in H..N
    BY <1>2, <1>4, <1>6, <1>11
  <2>2. /\ ~HasError(x.p) /\ IsFinished(x.p) /\ x.n = H - pos
        /\ IF L.chunked THEN x.p.chunked /\ DelEncoding(x.p) \in after[r]
           ELSE ~x.p.chunked /\ SizedHead(x.p, r, L)
    BY <1>2, <1>12, <2>1
  <2> HIDE DEF x
  <2>3. rest = SubSeq(r.bytes, H + 1, m)
    <3>1. PICK a, c : a = x.n + 1 /\ c = pos + 1
      OBVIOUS
    <3>2. /\ c \in 1..(Len(r.bytes) + 1) /\ m \in (c - 1)..Len(r.bytes)
          /\ a \in 1..(m - c + 2) /\ n \in (a - 1)..(m - c + 1)
          /\ c + a - 1 = H + 1 /\ c + n - 1 = m
      BY <1>2, <1>4, <1>6, <1>7, <1>11, <2>2, <3>1 DEF N
    <3>3. SubSeq(SubSeq(r.bytes, c, m), a, n) = SubSeq(r.bytes, c + a - 1, c + n - 1)
      <4> HIDE DEF m
      <4> QED
        BY <1>4, <3>2, PartOfPart
    <3> QED
      BY <1>8, <3>1, <3>2, <3>3
  <2> HIDE DEF buf, rest
  <2>4. rest \in Seq(AnyByte) /\ Len(rest) = m - H
    BY <1>4, <1>6, <2>1, <2>3, PartFacts DEF N
  <2>5. Len(rest) # HeaderSize
    BY <1>2, <1>6, <2>4
  <2>6. HeadDone(x.p, rest)
    BY <1>9, <2>2, <2>5
  <2>7. CASE L.chunked
    <3>1. st' = "chunk" /\ data' = rest /\ body' = <<>> /\ p' = DelEncoding(x.p)
      BY <2>2, <2>6, <2>7 DEF HeadDone
    <3>2. H \in DOMAIN L.end /\ L.text[H] = <<>> /\ H <= m
      BY <1>5, <2>1, <2>7 DEF Laid, H
    <3>3. InChunk(lay, after)'
      BY <1>2, <2>2, <2>3, <2>7, <3>1, <3>2 DEF InChunk, r, L
    <3> QED
      BY <1>2, <3>1, <3>3 DEF Where, r
  <2>8. CASE ~L.chunked
    <3>1. ~x.p.chunked /\ SizedHead(x.p, r, L)
      BY <2>2, <2>8
    <3>2. /\ "m_data" \in DOMAIN x.p /\ GetContentLength(x.p.m_data) = N - H
          /\ Delivered([x.p.m_data EXCEPT !.body = SubSeq(r.bytes, H + 1, N)], r.want)
      BY <3>1 DEF SizedHead, N, H
    <3>3. N - H >= Len(rest)
      BY <1>4, <1>6, <2>1, <2>4
    <3>6. \/ /\ N - H > Len(rest)
             /\ st' = "body" /\ p' = x.p /\ body' = rest /\ left' = N - H - Len(rest)
          \/ N - H <= Len(rest) /\ Return(x.p, rest)
      BY <2>6, <3>1, <3>2, <3>3 DEF HeadDone
    <3>4. CASE m < N
      <4>1. N - H > Len(rest) /\ N - H - Len(rest) = N - m /\ N - m > 0 /\ H <= m
        BY <1>4, <1>6, <2>1, <2>4, <3>4
      <4>2. st' = "body" /\ p' = x.p /\ body' = rest /\ left' = N - m
        BY <1>4, <1>6, <2>4, <3>6, <4>1
      <4>3. InBody(lay)'
        BY <1>2, <2>3, <2>8, <3>1, <4>1, <4>2 DEF InBody, r, L, N, H
      <4> QED
        BY <1>2, <4>2, <4>3 DEF Where, r
    <3>5. CASE m = N
      <4>1. ~(N - H > Len(rest)) /\ N - H <= Len(rest)
        BY <1>4, <1>6, <2>4, <3>5
      <4>2. Return(x.p, rest)
        BY <3>6, <4>1
      <4>3. st' = "done" /\ data' = <<>> /\ p'.m_data = [x.p.m_data EXCEPT !.body = rest]
        BY <3>2, <4>2, ReturnFacts
      <4> QED
        BY <1>2, <2>3, <3>2, <3>5, <4>3 DEF Where, r, N
    <3> QED
      BY <1>2, <1>4, <3>4, <3>5
  <2> QED
    BY <2>7, <2>8
<1> QED
  BY <1>10, <1>11
(* The chunk whose size line is at c.                                      *)
LEMMA ChunkFacts ==
    ASSUME NEW r, NEW L, Laid(r, L), Len(r.bytes) \in Nat, NEW c \in DOMAIN L.end
    PROVE  /\ c \in Nat /\ L.end[c] \in Nat /\ L.size[c] \in Nat /\ L.text[c] \in Seq(AnyByte)
           /\ c < L.end[c] /\ (c + 1)..(L.end[c] - 1) \subseteq r.lines
           /\ NextChunk(L, c) = L.end[c] + L.size[c] + 2 /\ NextChunk(L, c) \in Nat
           /\ NextChunk(L, c) \in DOMAIN L.end \/ NextChunk(L, c) = Len(r.bytes)
           /\ NextChunk(L, c) <= Len(r.bytes)
           /\ L.text[NextChunk(L, c)] = L.text[c] \o SubSeq(r.bytes, L.end[c] + 1, L.end[c] + L.size[c])
<1>1. /\ c \in Nat /\ L.end[c] \in Nat /\ L.size[c] \in Nat /\ L.text[c] \in Seq(AnyByte)
      /\ c < L.end[c] /\ (c + 1)..(L.end[c] - 1) \subseteq r.lines
      /\ NextChunk(L, c) \in DOMAIN L.end \/ NextChunk(L, c) = Len(r.bytes)
      /\ NextChunk(L, c) <= Len(r.bytes)
      /\ L.text[NextChunk(L, c)] = L.text[c] \o SubSeq(r.bytes, L.end[c] + 1, L.end[c] + L.size[c])
  BY DEF Laid
<1>2. NextChunk(L, c) = L.end[c] + L.size[c] + 2 /\ NextChunk(L, c) \in Nat
  BY <1>1 DEF NextChunk
<1> QED
  BY <1>1, <1>2

(* A read for a size line.                                                 *)
LEMMA ReadChunkStep ==
    ASSUME NEW lay, NEW mid, NEW after, ParsesByLine(lay, mid, after), ConnInv(lay, mid, after),
           NEW n \in 1..HeaderSize, ReadChunk(n), cuts' = 0
    PROVE  Where(lay, mid, after)'
<1> DEFINE r == Now
           L == lay[r]
           N == Len(r.bytes)
           m == pos + n
<1>1. /\ st = "chunk" /\ data = <<>> /\ Take(n) /\ data' = Arrived(n)
      /\ st' = st /\ p' = p /\ body' = body
  BY DEF ReadChunk
<1>2. /\ Where(lay, mid, after)
      /\ n \in Nat \ {0} /\ pos \in Nat /\ m <= N
      /\ pos' = m /\ m \notin r.lines /\ Now' = r
      /\ Arrived(n) = SubSeq(r.bytes, pos + 1, m)
  BY <1>1, TakeFacts
<1>3. L.chunked /\ p \in after[r]
  BY <1>1, <1>2 DEF Where, InChunk
<1>4. PICK c \in DOMAIN L.end : c <= pos /\ data = SubSeq(r.bytes, c + 1, pos) /\ body = L.text[c]
  BY <1>1, <1>2 DEF Where, InChunk
<1>5. r \in Responses /\ r.bytes \in Seq(AnyByte) /\ N \in Nat \ {0}
  BY NowFacts
<1>6. Laid(r, L)
  BY <1>5 DEF ParsesByLine
<1> HIDE DEF r, L, N
<1>7. c \in Nat
  BY <1>5, <1>6, ChunkFacts DEF N
<1>8. c = pos
  <2>1. pos \in c..Len(r.bytes)
    BY <1>2, <1>4, <1>5, <1>7 DEF N
  <2>2. Len(SubSeq(r.bytes, c + 1, pos)) = pos - c
    BY <1>5, <1>7, <2>1, PartFacts
  <2>3. Len(data) = pos - c /\ Len(data) = 0
    BY <1>1, <1>4, <2>2, EmptySeq
  <2> QED
    BY <1>2, <1>7, <2>3
<1>9. c <= m
  BY <1>2, <1>8
<1>10. InChunk(lay, after)'
  BY <1>1, <1>2, <1>3, <1>4, <1>8, <1>9 DEF InChunk, r, L
<1> QED
  BY <1>1, <1>2, <1>10 DEF Where, r

(* A read of the rest of a body of known length.                           *)
LEMMA ReadBodyStep ==
    ASSUME NEW lay, NEW mid, NEW after, ParsesByLine(lay, mid, after), ConnInv(lay, mid, after),
           NEW n \in 1..HeaderSize, ReadBody(n), cuts' = 0
    PROVE  Where(lay, mid, after)'
<1> DEFINE r == Now
           L == lay[r]
           N == Len(r.bytes)
           m == pos + n
           H == L.head
<1>1. st = "body" /\ n <= left /\ Take(n)
  BY DEF ReadBody
<1>2. /\ Where(lay, mid, after)
      /\ n \in Nat \ {0} /\ pos \in Nat /\ m <= N
      /\ pos' = m /\ m \notin r.lines /\ Now' = r
      /\ Arrived(n) = SubSeq(r.bytes, pos + 1, m)
  BY <1>1, TakeFacts
<1>3. /\ ~L.chunked /\ SizedHead(p, r, L) /\ H <= pos /\ left = N - pos
      /\ body = SubSeq(r.bytes, H + 1, pos)
  BY <1>1, <1>2 DEF Where, InBody
<1>4. r \in Responses /\ r.bytes \in Seq(AnyByte) /\ N \in Nat \ {0}
  BY NowFacts
<1>5. H \in Nat \ {0}
  <2>1. H \in 1..N
    BY <1>4 DEF ParsesByLine, Laid
  <2> QED
    BY <1>4, <2>1
<1> HIDE DEF r, L, N, H
<1> DEFINE text == SubSeq(r.bytes, H + 1, m)
<1>6. body \o Arrived(n) = text
  <2>1. PICK a, b : a = H + 1 /\ b = pos + 1
    OBVIOUS
  <2>2. a \in 1..(Len(r.bytes) + 1) /\ pos \in (a - 1)..Len(r.bytes) /\ m \in pos..Len(r.bytes)
    BY <1>2, <1>3, <1>4, <1>5, <2>1 DEF N
  <2> HIDE DEF m
  <2>3. SubSeq(r.bytes, a, pos) \o SubSeq(r.bytes, pos + 1, m) = SubSeq(r.bytes, a, m)
    BY <1>4, <2>2, ConcatAdjacentSubSeq
  <2> QED
    BY <1>2, <1>3, <2>1, <2>3
<1> HIDE DEF text
<1>7. \/ n = left /\ Return(p, text)
      \/ n < left /\ body' = text /\ left' = left - n /\ st' = st /\ p' = p
  BY <1>6 DEF ReadBody
<1>8. CASE n = left
  <2>1. Return(p, text) /\ m = N
    BY <1>2, <1>3, <1>4, <1>7, <1>8
  <2>2. /\ "m_data" \in DOMAIN p
        /\ Delivered([p.m_data EXCEPT !.body = SubSeq(r.bytes, H + 1, N)], r.want)
    BY <1>3 DEF SizedHead, N, H
  <2>3. st' = "done" /\ data' = <<>> /\ p'.m_data = [p.m_data EXCEPT !.body = text]
    BY <2>1, <2>2, ReturnFacts
  <2> QED
    BY <1>2, <2>1, <2>2, <2>3 DEF Where, r, N, text
<1>9. CASE n < left
  <2>1. body' = text /\ left' = left - n /\ st' = "body" /\ p' = p
    BY <1>1, <1>2, <1>3, <1>4, <1>7, <1>9
  <2>2. left - n = N - m /\ N - m > 0 /\ H <= m
    BY <1>2, <1>3, <1>4, <1>5, <1>9
  <2>3. left' = N - m /\ left' > 0
    BY <2>1, <2>2
  <2>4. InBody(lay)'
    BY <1>2, <1>3, <2>1, <2>2, <2>3 DEF InBody, r, L, N, H, text
  <2> QED
    BY <1>2, <2>1, <2>4 DEF Where, r
<1> QED
  BY <1>7, <1>8, <1>9
(* The loop for a size line: the line is read whole, and with it what      *)
(* there is of the chunk.                                                  *)
LEMMA ParseChunkStep ==
    ASSUME NEW lay, NEW mid, NEW after, ParsesByLine(lay, mid, after), ConnInv(lay, mid, after),
           ParseChunk, cuts' = 0
    PROVE  Where(lay, mid, after)'
<1> DEFINE r == Now
           L == lay[r]
           N == Len(r.bytes)
<1>1. /\ st = "chunk" /\ data # <<>> /\ cuts' = cuts
      /\ pos' = pos /\ Now' = r /\ alive' = alive /\ idle' = idle
  BY DEF ParseChunk, Now
<1>2. r \in Responses /\ r.bytes \in Seq(AnyByte) /\ N \in Nat \ {0}
  BY NowFacts
<1>3. Where(lay, mid, after) /\ pos \in 0..N
  BY <1>1 DEF ConnInv
<1>4. pos \in Nat /\ pos <= N /\ pos \notin r.lines
  BY <1>2, <1>3 DEF Where
<1>5. L.chunked /\ p \in after[r]
  BY <1>1, <1>3 DEF Where, InChunk
<1>6. PICK c \in DOMAIN L.end : c <= pos /\ data = SubSeq(r.bytes, c + 1, pos) /\ body = L.text[c]
  BY <1>1, <1>3 DEF Where, InChunk
<1>7. Laid(r, L)
  BY <1>2 DEF ParsesByLine
<1> DEFINE e == L.end[c]
           z == L.size[c]
           f == NextChunk(L, c)
           x == Execute(p, data, TRUE)
           rest == SubSeq(data, x.n + 1, Len(data))
<1>8. \A j \in e..N : j \notin r.lines =>
          LET y == Execute(p, SubSeq(r.bytes, c + 1, j), TRUE)
          IN  /\ ~HasError(y.p) /\ IsFinished(y.p) /\ y.n = e - c
              /\ y.p \in after[r] /\ y.p.content_len = z
              /\ y.p.chunks_done <=> f = N
  <2>1. \A q \in after[r] : \A k \in DOMAIN L.end : \A j \in L.end[k]..N : j \notin r.lines =>
          LET y == Execute(q, SubSeq(r.bytes, k + 1, j), TRUE)
          IN  /\ ~HasError(y.p) /\ IsFinished(y.p) /\ y.n = L.end[k] - k
              /\ y.p \in after[r] /\ y.p.content_len = L.size[k]
              /\ y.p.chunks_done <=> NextChunk(L, k) = N
    BY <1>2 DEF ParsesByLine
  <2> HIDE DEF r, L, N
  <2> QED
    BY <1>5, <2>1
<1>9. \A q \in after[r] :
          "m_data" \in DOMAIN q /\ Delivered([q.m_data EXCEPT !.body = L.text[N]], r.want)
  BY <1>2 DEF ParsesByLine
<1> HIDE DEF r, L, N
<1>10. /\ c \in Nat /\ e \in Nat /\ z \in Nat /\ L.text[c] \in Seq(AnyByte)
       /\ c < e /\ (c + 1)..(e - 1) \subseteq r.lines
       /\ f = e + z + 2 /\ f \in Nat
       /\ f \in DOMAIN L.end \/ f = N
       /\ f <= N
       /\ L.text[f] = L.text[c] \o SubSeq(r.bytes, e + 1, e + z)
  BY <1>2, <1>7, ChunkFacts DEF N
<1> HIDE DEF e, z, f, x
<1>11. Len(data) = pos - c /\ c # pos
  <2>1. pos \in c..Len(r.bytes)
    BY <1>2, <1>4, <1>6, <1>10 DEF N
  <2>2. data \in Seq(AnyByte) /\ Len(data) = pos - c
    <3>1. SubSeq(r.bytes, c + 1, pos) \in Seq(AnyByte) /\ Len(SubSeq(r.bytes, c + 1, pos)) = pos - c
      BY <1>2, <1>10, <2>1, PartFacts
    <3> QED
      BY <1>6, <3>1
  <2>3. Len(data) # 0
    BY <1>1, <2>2, EmptySeq
  <2> QED
    BY <1>4, <1>10, <2>2, <2>3
<1>12. e <= pos
  <2>1. pos \notin (c + 1)..(e - 1)
    BY <1>4, <1>10
  <2> QED
    BY <1>4, <1>6, <1>10, <1>11, <2>1
<1>13. /\ ~HasError(x.p) /\ IsFinished(x.p) /\ x.n = e - c
       /\ x.p \in after[r] /\ x.p.content_len = z
       /\ x.p.chunks_done <=> f = N
  <2>1. pos \in e..N
    BY <1>2, <1>4, <1>10, <1>12
  <2> QED
    BY <1>4, <1>6, <1>8, <2>1 DEF x
<1>14. rest = SubSeq(r.bytes, e + 1, pos)
  <2>1. PICK a, b, y : a = x.n + 1 /\ b = c + 1 /\ y = Len(data)
    OBVIOUS
  <2>2. b \in Nat \ {0} /\ b <= e /\ a = e - b + 2 /\ y = pos - b + 1
    BY <1>4, <1>10, <1>11, <1>13, <2>1
  <2>3. e \in Nat /\ e <= pos /\ pos \in Nat /\ pos <= Len(r.bytes) /\ Len(r.bytes) \in Nat
    BY <1>2, <1>4, <1>10, <1>12 DEF N
  <2>4. /\ b \in 1..(Len(r.bytes) + 1) /\ pos \in (b - 1)..Len(r.bytes)
        /\ a \in 1..(pos - b + 2) /\ y \in (a - 1)..(pos - b + 1)
        /\ b + a - 1 = e + 1 /\ b + y - 1 = pos
    BY <2>2, <2>3
  <2>5. SubSeq(SubSeq(r.bytes, b, pos), a, y) = SubSeq(r.bytes, b + a - 1, b + y - 1)
    BY <1>2, <2>4, PartOfPart
  <2> QED
    BY <1>6, <2>1, <2>4, <2>5
<1>15. ChunkData(x.p, rest)
  <2>1. \/ HasError(x.p)
        \/ ~IsFinished(x.p)
        \/ ChunkData(x.p, rest)
    BY DEF ParseChunk, x
  <2> QED
    BY <1>13, <2>1
<1> HIDE DEF rest
<1>16. Len(rest) = pos - e
  <2>1. pos \in e..Len(r.bytes)
    BY <1>2, <1>4, <1>10, <1>12 DEF N
  <2> QED
    BY <1>2, <1>10, <1>14, <2>1, PartFacts
<1>17. CASE f <= pos
  <2>1. Len(rest) >= z + 2 /\ ~(Len(rest) < z + 2) /\ e + z <= pos
    BY <1>4, <1>10, <1>16, <1>17
  <2>2. PICK a, y, w : a = e + 1 /\ y = z + 3 /\ w = Len(rest)
    OBVIOUS
  <2>3. /\ a \in 1..(Len(r.bytes) + 1) /\ pos \in (a - 1)..Len(r.bytes)
        /\ 1 \in 1..(pos - a + 2) /\ z \in (1 - 1)..(pos - a + 1)
        /\ y \in 1..(pos - a + 2) /\ w \in (y - 1)..(pos - a + 1)
        /\ a + 1 - 1 = a /\ a + z - 1 = e + z /\ a + y - 1 = f + 1 /\ a + w - 1 = pos
    BY <1>2, <1>4, <1>10, <1>12, <1>16, <1>17, <2>1, <2>2 DEF N
  <2>4. SubSeq(SubSeq(r.bytes, a, pos), 1, z) = SubSeq(r.bytes, a + 1 - 1, a + z - 1)
    BY <1>2, <2>3, PartOfPart
  <2>5. SubSeq(SubSeq(r.bytes, a, pos), y, w) = SubSeq(r.bytes, a + y - 1, a + w - 1)
    BY <1>2, <2>3, PartOfPart
  <2>6. body \o SubSeq(rest, 1, z) = L.text[f]
    BY <1>6, <1>10, <1>14, <2>2, <2>3, <2>4
  <2>7. SubSeq(rest, z + 3, Len(rest)) = SubSeq(r.bytes, f + 1, pos)
    BY <1>14, <2>2, <2>3, <2>5
  <2>8. IF x.p.chunks_done THEN Return(x.p, L.text[f])
        ELSE p' = x.p /\ data' = SubSeq(r.bytes, f + 1, pos) /\ body' = L.text[f] /\ st' = st
    BY <1>13, <1>15, <2>1, <2>6, <2>7 DEF ChunkData
  <2>9. CASE f = N
    <3>1. Return(x.p, L.text[N]) /\ pos = N
      BY <1>2, <1>4, <1>13, <1>17, <2>8, <2>9
    <3>2. "m_data" \in DOMAIN x.p /\ Delivered([x.p.m_data EXCEPT !.body = L.text[N]], r.want)
      BY <1>9, <1>13
    <3>3. st' = "done" /\ data' = <<>> /\ p'.m_data = [x.p.m_data EXCEPT !.body = L.text[N]]
      BY <3>1, <3>2, ReturnFacts
    <3> QED
      BY <1>1, <1>4, <3>1, <3>2, <3>3 DEF Where, r, N
  <2>10. CASE f # N
    <3>1. /\ p' = x.p /\ data' = SubSeq(r.bytes, f + 1, pos) /\ body' = L.text[f]
          /\ st' = "chunk" /\ f \in DOMAIN L.end
      BY <1>1, <1>10, <1>13, <2>8, <2>10
    <3>2. InChunk(lay, after)'
      BY <1>1, <1>5, <1>13, <1>17, <3>1 DEF InChunk, r, L
    <3> QED
      BY <1>1, <1>4, <3>1, <3>2 DEF Where, r
  <2> QED
    BY <2>9, <2>10
<1>18. CASE ~(f <= pos)
  <2>1. ~(Len(rest) >= z + 2) /\ z + 2 - Len(rest) = f - pos /\ f - pos > 0
    BY <1>4, <1>10, <1>16, <1>18
  <2>2. st' = "data" /\ p' = x.p /\ data' = <<>> /\ body' = L.text[c] \o rest /\ left' = f - pos
    BY <1>6, <1>13, <1>15, <2>1 DEF ChunkData
  <2>3. /\ c \in DOMAIN L.end /\ e <= pos /\ left' = f - pos /\ left' > 0
        /\ body' = L.text[c] \o SubSeq(r.bytes, e + 1, pos)
        /\ p'.chunks_done <=> f = N
    BY <1>6, <1>12, <1>13, <1>14, <2>1, <2>2
  <2>4. InData(lay, after)'
    BY <1>1, <1>5, <1>13, <2>2, <2>3 DEF InData, r, L, N, e, f
  <2> QED
    BY <1>1, <1>4, <2>2, <2>4 DEF Where, r
<1> QED
  BY <1>17, <1>18
(* A read of the rest of a chunk.                                          *)
LEMMA ReadDataStep ==
    ASSUME NEW lay, NEW mid, NEW after, ParsesByLine(lay, mid, after), ConnInv(lay, mid, after),
           NEW n \in 1..HeaderSize, ReadData(n), cuts' = 0
    PROVE  Where(lay, mid, after)'
<1> DEFINE r == Now
           L == lay[r]
           N == Len(r.bytes)
           m == pos + n
<1>1. st = "data" /\ n <= left /\ Take(n)
  BY DEF ReadData
<1>2. /\ Where(lay, mid, after)
      /\ n \in Nat \ {0} /\ pos \in Nat /\ m <= N
      /\ pos' = m /\ m \notin r.lines /\ Now' = r
      /\ Arrived(n) = SubSeq(r.bytes, pos + 1, m)
  BY <1>1, TakeFacts
<1>3. L.chunked /\ p \in after[r] /\ data = <<>>
  BY <1>1, <1>2 DEF Where, InData
<1>4. PICK c \in DOMAIN L.end :
        /\ L.end[c] <= pos /\ left = NextChunk(L, c) - pos /\ left > 0
        /\ body = L.text[c] \o SubSeq(r.bytes, L.end[c] + 1, pos)
        /\ p.chunks_done <=> NextChunk(L, c) = N
  BY <1>1, <1>2 DEF Where, InData
<1>5. r \in Responses /\ r.bytes \in Seq(AnyByte) /\ N \in Nat \ {0}
  BY NowFacts
<1>6. Laid(r, L)
  BY <1>5 DEF ParsesByLine
<1>7. \A q \in after[r] :
          "m_data" \in DOMAIN q /\ Delivered([q.m_data EXCEPT !.body = L.text[N]], r.want)
  BY <1>5 DEF ParsesByLine
<1> HIDE DEF r, L, N
<1> DEFINE e == L.end[c]
           z == L.size[c]
           f == NextChunk(L, c)
           A == L.text[c]
           B == SubSeq(r.bytes, e + 1, m)
<1>8. /\ e \in Nat /\ z \in Nat /\ A \in Seq(AnyByte)
      /\ f = e + z + 2 /\ f \in Nat
      /\ f \in DOMAIN L.end \/ f = N
      /\ f <= N
      /\ L.text[f] = A \o SubSeq(r.bytes, e + 1, e + z)
  <2>1. /\ c \in Nat /\ L.end[c] \in Nat /\ L.size[c] \in Nat /\ L.text[c] \in Seq(AnyByte)
        /\ c < L.end[c] /\ (c + 1)..(L.end[c] - 1) \subseteq r.lines
        /\ NextChunk(L, c) = L.end[c] + L.size[c] + 2 /\ NextChunk(L, c) \in Nat
        /\ NextChunk(L, c) \in DOMAIN L.end \/ NextChunk(L, c) = N
        /\ NextChunk(L, c) <= N
        /\ L.text[NextChunk(L, c)] = L.text[c] \o SubSeq(r.bytes, L.end[c] + 1, L.end[c] + L.size[c])
    BY <1>5, <1>6, ChunkFacts DEF N
  <2> QED
    BY <2>1
<1>9. e <= pos /\ left = f - pos
  BY <1>4 DEF e, f
<1> HIDE DEF e, z, f, A
<1>10. /\ e \in Nat /\ pos \in Nat /\ n \in Nat \ {0} /\ e <= pos /\ pos <= Len(r.bytes)
       /\ m <= Len(r.bytes) /\ Len(r.bytes) \in Nat /\ e <= m
  BY <1>2, <1>5, <1>8, <1>9 DEF N
<1>11. B \in Seq(AnyByte) /\ Len(B) = m - e
  <2>1. m \in e..Len(r.bytes)
    BY <1>10
  <2> HIDE DEF m
  <2> QED
    BY <1>5, <1>8, <2>1, PartFacts
<1>12. body \o Arrived(n) = A \o B
  <2> DEFINE D == SubSeq(r.bytes, e + 1, pos)
             F == SubSeq(r.bytes, pos + 1, m)
  <2>1. pos \in e..Len(r.bytes) /\ m \in pos..Len(r.bytes)
    BY <1>10
  <2>2. D \in Seq(AnyByte)
    BY <1>5, <1>8, <2>1, PartFacts
  <2>3. F \in Seq(AnyByte)
    BY <1>2, <1>5, <2>1, PartFacts
  <2>4. D \o F = B
    <3>1. PICK a : a = e + 1
      OBVIOUS
    <3>2. a \in 1..(Len(r.bytes) + 1) /\ pos \in (a - 1)..Len(r.bytes)
      BY <1>10, <3>1
    <3> HIDE DEF m
    <3>3. SubSeq(r.bytes, a, pos) \o SubSeq(r.bytes, pos + 1, m) = SubSeq(r.bytes, a, m)
      BY <1>5, <2>1, <3>2, ConcatAdjacentSubSeq
    <3> QED
      BY <3>1, <3>3
  <2>5. body = A \o D /\ Arrived(n) = F
    BY <1>2, <1>4 DEF A, e
  <2> HIDE DEF D, F, B
  <2>6. (A \o D) \o F = A \o (D \o F)
    BY <1>8, <2>2, <2>3, ConcatAssociative
  <2> QED
    BY <2>4, <2>5, <2>6
<1> DEFINE text == SubSeq(A \o B, 1, Len(A \o B) - 2)
<1>13. \/ n < left /\ body' = A \o B /\ left' = left - n /\ st' = st /\ p' = p /\ data' = data
       \/ n = left /\ p.chunks_done /\ Return(p, text)
       \/ n = left /\ ~p.chunks_done /\ st' = "chunk" /\ body' = text /\ p' = p /\ data' = data
  <2> HIDE DEF B
  <2> QED
    BY <1>12 DEF ReadData
<1>14. CASE n < left
  <2> HIDE DEF text
  <2>1. n # left
    BY <1>2, <1>8, <1>9, <1>14
  <2>2. body' = A \o B /\ left' = left - n /\ st' = "data" /\ p' = p /\ data' = <<>>
    BY <1>1, <1>3, <1>13, <2>1
  <2>3. left - n = f - m /\ f - m > 0
    BY <1>2, <1>8, <1>9, <1>14
  <2>4. /\ c \in DOMAIN L.end /\ e <= m /\ left' = f - m /\ left' > 0
        /\ body' = A \o B
        /\ p'.chunks_done <=> f = N
    BY <1>4, <1>10, <2>2, <2>3 DEF f
  <2>5. InData(lay, after)'
    BY <1>2, <1>3, <2>2, <2>4 DEF InData, r, L, N, e, f, A
  <2> QED
    BY <1>2, <2>2, <2>5 DEF Where, r
<1>15. CASE n = left
  <2>1. m = f
    BY <1>2, <1>8, <1>9, <1>15
  <2>2. text = L.text[f]
    <3>1. Len(A) \in Nat /\ Len(A \o B) = Len(A) + Len(B)
      <4> HIDE DEF B
      <4> QED
        BY <1>8, <1>11, ConcatProperties, LenProperties
    <3>2. Len(A \o B) - 2 = Len(A) + z /\ z \in 0..Len(B)
      <4>1. Len(B) = z + 2
        BY <1>8, <1>11, <2>1
      <4> HIDE DEF B
      <4> QED
        BY <1>8, <3>1, <4>1
    <3>3. SubSeq(A \o B, 1, Len(A) + z) = A \o SubSeq(B, 1, z)
      <4> HIDE DEF B
      <4> QED
        BY <1>8, <1>11, <3>2, CutConcat
    <3>4. SubSeq(B, 1, z) = SubSeq(r.bytes, e + 1, e + z)
      <4>1. PICK a : a = e + 1
        OBVIOUS
      <4>2. /\ a \in 1..(Len(r.bytes) + 1) /\ f \in (a - 1)..Len(r.bytes)
            /\ 1 \in 1..(f - a + 2) /\ z \in (1 - 1)..(f - a + 1)
            /\ a + 1 - 1 = a /\ a + z - 1 = e + z
        BY <1>8, <1>10, <4>1 DEF N
      <4>3. SubSeq(SubSeq(r.bytes, a, f), 1, z) = SubSeq(r.bytes, a + 1 - 1, a + z - 1)
        BY <1>5, <4>2, PartOfPart
      <4> QED
        BY <2>1, <4>1, <4>2, <4>3
    <3> HIDE DEF B
    <3> QED
      BY <1>8, <3>2, <3>3, <3>4
  <2> HIDE DEF text
  <2>3. CASE f = N
    <3>1. Return(p, text)
      <4>1. p.chunks_done /\ ~(n < left)
        BY <1>2, <1>4, <1>15, <2>3 DEF f
      <4> QED
        BY <1>13, <4>1
    <3>2. "m_data" \in DOMAIN p /\ Delivered([p.m_data EXCEPT !.body = L.text[N]], r.want)
      BY <1>3, <1>7
    <3>3. st' = "done" /\ data' = <<>> /\ p'.m_data = [p.m_data EXCEPT !.body = text]
      BY <3>1, <3>2, ReturnFacts
    <3> QED
      BY <1>2, <2>1, <2>2, <2>3, <3>2, <3>3 DEF Where, r, N
  <2>4. CASE f # N
    <3>1. st' = "chunk" /\ body' = L.text[f] /\ p' = p /\ data' = <<>>
      BY <1>2, <1>3, <1>4, <1>13, <1>15, <2>2, <2>4 DEF f
    <3>2. f \in DOMAIN L.end /\ f <= f /\ SubSeq(r.bytes, f + 1, f) = <<>>
      <4>1. f \in Int /\ f + 1 \in Int /\ f < f + 1 /\ f <= f
        BY <1>8
      <4>2. SubSeq(r.bytes, f + 1, f) = <<>>
        BY <4>1, SubSeqEmpty
      <4> QED
        BY <1>8, <2>4, <4>1, <4>2
    <3>3. InChunk(lay, after)'
      BY <1>2, <1>3, <2>1, <3>1, <3>2 DEF InChunk, r, L
    <3> QED
      BY <1>2, <3>1, <3>3 DEF Where, r
  <2> QED
    BY <2>3, <2>4
<1> QED
  BY <1>13, <1>14, <1>15
(* A response of which nothing has been read.                              *)
LEMMA StartFacts ==
    ASSUME NEW lay, NEW mid, NEW after, ParsesByLine(lay, mid, after), NEW r \in Responses
    PROVE  0 \in Breaks(r, lay[r]) /\ NewParser \in mid[r][0] /\ 0 \notin r.lines
           /\ 0 \in 0..Len(r.bytes)
<1>1. r.bytes \in Seq(AnyByte) /\ r.lines \subseteq 1..(Len(r.bytes) - 1)
  BY ConnectionAssumption
<1>2. Len(r.bytes) \in Nat
  BY <1>1, LenProperties
<1>3. NewParser \in mid[r][0] /\ lay[r].head \in 1..Len(r.bytes)
  BY DEF ParsesByLine, Laid
<1>4. 0 \notin r.lines
  BY <1>1, <1>2
<1>5. 0 \in 0..(lay[r].head - 1)
  BY <1>2, <1>3
<1> QED
  BY <1>2, <1>3, <1>4, <1>5 DEF Breaks

(* The types.                                                              *)
LEMMA ConnTypes ==
    ASSUME NEW lay, NEW mid, NEW after, ConnInv(lay, mid, after), [Next]_vars
    PROVE  /\ script' \in Seq(Responses) /\ script' # <<>> /\ cuts' \in Nat
           /\ pos' \in 0..Len(Now'.bytes)
           /\ st' \in Reading \cup {"done", "closed", "broken"}
<1>1. /\ script \in Seq(Responses) /\ script # <<>> /\ cuts \in Nat /\ pos \in 0..Len(Now.bytes)
      /\ st \in Reading \cup {"done", "closed", "broken"}
  BY DEF ConnInv
<1>2. Len(Now.bytes) \in Nat
  BY NowFacts
<1>3. ASSUME script' = script, cuts' = cuts, pos' = pos,
             st' \in Reading \cup {"done", "closed", "broken"}
      PROVE  /\ script' \in Seq(Responses) /\ script' # <<>> /\ cuts' \in Nat
             /\ pos' \in 0..Len(Now'.bytes)
             /\ st' \in Reading \cup {"done", "closed", "broken"}
  BY <1>1, <1>3 DEF Now
<1>4. ASSUME NEW n \in 1..HeaderSize, Take(n), st' \in Reading \cup {"done", "closed", "broken"}
      PROVE  /\ script' \in Seq(Responses) /\ script' # <<>> /\ cuts' \in Nat
             /\ pos' \in 0..Len(Now'.bytes)
             /\ st' \in Reading \cup {"done", "closed", "broken"}
  <2>1. /\ pos + n <= Len(Now.bytes) /\ pos' = pos + n /\ script' = script /\ Now' = Now
        /\ cuts' = IF pos + n \in Now.lines THEN cuts + 1 ELSE cuts
    BY <1>4 DEF Take, Now
  <2>2. n \in Nat /\ cuts' \in Nat
    BY <1>1, <2>1, ConnectionAssumption
  <2>3. pos' \in 0..Len(Now.bytes)
    BY <1>1, <1>2, <2>1, <2>2
  <2> QED
    BY <1>1, <1>4, <2>1, <2>2, <2>3
<1>5. ASSUME NEW n \in 1..HeaderSize, ReadHead(n)
      PROVE  Take(n) /\ st' \in Reading \cup {"done", "closed", "broken"}
  BY <1>1, <1>5 DEF ReadHead, Closed, HeadDone, Return, Reading
<1>6. ASSUME NEW n \in 1..HeaderSize, ReadChunk(n)
      PROVE  Take(n) /\ st' \in Reading \cup {"done", "closed", "broken"}
  BY <1>1, <1>6 DEF ReadChunk
<1>7. ASSUME NEW n \in 1..HeaderSize, ReadData(n)
      PROVE  Take(n) /\ st' \in Reading \cup {"done", "closed", "broken"}
  BY <1>1, <1>7 DEF ReadData, Return, Reading
<1>8. ASSUME NEW n \in 1..HeaderSize, ReadBody(n)
      PROVE  Take(n) /\ st' \in Reading \cup {"done", "closed", "broken"}
  BY <1>1, <1>8 DEF ReadBody, Return, Reading
<1>9. CASE Recv
  BY <1>4, <1>5, <1>6, <1>7, <1>8, <1>9 DEF Recv
<1>10. CASE ParseChunk
  <2>1. /\ script' = script /\ cuts' = cuts /\ pos' = pos
        /\ st' \in Reading \cup {"done", "closed", "broken"}
    BY <1>1, <1>10 DEF ParseChunk, Closed, ChunkData, Return, Reading
  <2> QED
    BY <1>3, <2>1
<1>11. CASE Die \/ UNCHANGED vars
  BY <1>1, <1>3, <1>11 DEF Die, vars
<1>12. CASE EndOfFile \/ Timeout
  BY <1>3, <1>12 DEF EndOfFile, Timeout, ReadFails
<1>13. CASE Again
  <2>1. script' = Tail(script) /\ Len(script) > 1 /\ pos' = 0 /\ cuts' = cuts /\ st' = "head"
    BY <1>13 DEF Again
  <2>2. Tail(script) \in Seq(Responses) /\ Len(Tail(script)) = Len(script) - 1 /\ Len(script) \in Nat
    BY <1>1, HeadTailProperties, LenProperties
  <2>3. script' \in Seq(Responses) /\ script' # <<>>
    <3>1. Len(Tail(script)) # 0
      <4>1. \A k, l \in Nat : k > 1 /\ l = k - 1 => l # 0
        OBVIOUS
      <4> QED
        BY <2>1, <2>2, <4>1, LenProperties
    <3>2. Tail(script) # <<>>
      BY <3>1, EmptySeq
    <3> QED
      BY <2>1, <2>2, <3>2
  <2>4. Head(script') \in Responses
    BY <2>3, HeadTailProperties
  <2>5. Len(Head(script').bytes) \in Nat
    BY <2>4, ConnectionAssumption, LenProperties
  <2>6. Now' = Head(script')
    BY DEF Now
  <2> QED
    BY <1>1, <2>1, <2>3, <2>5, <2>6 DEF Reading
<1> QED
  BY <1>9, <1>10, <1>11, <1>12, <1>13 DEF Next
(* Every step keeps the invariant.                                         *)
LEMMA ConnStep ==
    ASSUME NEW lay, NEW mid, NEW after, ParsesByLine(lay, mid, after), ConnInv(lay, mid, after),
           [Next]_vars
    PROVE  ConnInv(lay, mid, after)'
<1> SUFFICES ASSUME cuts' = 0 PROVE Where(lay, mid, after)'
  BY ConnTypes DEF ConnInv
<1>1. CASE Recv
  <2>1. PICK n \in 1..HeaderSize : ReadHead(n) \/ ReadChunk(n) \/ ReadData(n) \/ ReadBody(n)
    BY <1>1 DEF Recv
  <2> QED
    BY <2>1, ReadHeadStep, ReadChunkStep, ReadDataStep, ReadBodyStep
<1>2. CASE ParseChunk
  BY <1>2, ParseChunkStep
<1>3. CASE Die
  <2>1. /\ Where(lay, mid, after) /\ ~alive'
        /\ script' = script /\ pos' = pos /\ st' = st /\ p' = p /\ data' = data
        /\ body' = body /\ left' = left
    BY <1>3 DEF Die, ConnInv
  <2> QED
    BY <2>1 DEF Where, InHead, InChunk, InData, InBody, Now
<1>4. CASE UNCHANGED vars
  <2>1. /\ Where(lay, mid, after) /\ alive' = alive /\ idle' = idle
        /\ script' = script /\ pos' = pos /\ st' = st /\ p' = p /\ data' = data
        /\ body' = body /\ left' = left
    BY <1>4 DEF vars, ConnInv
  <2> QED
    BY <2>1 DEF Where, InHead, InChunk, InData, InBody, Now
<1>5. CASE EndOfFile \/ Timeout
  <2>1. /\ Where(lay, mid, after) /\ st' \in {"closed", "broken"}
        /\ ~alive' \/ idle'
        /\ script' = script /\ pos' = pos
    BY <1>5 DEF EndOfFile, Timeout, ReadFails, ConnInv
  <2> QED
    BY <2>1 DEF Where, Now
<1>6. CASE Again
  <2>1. /\ Where(lay, mid, after) /\ st = "done" /\ st' = "head"
        /\ pos' = 0 /\ p' = NewParser /\ data' = data
    BY <1>6 DEF Again, ConnInv
  <2>2. data' = <<>>
    BY <2>1 DEF Where
  <2>3. script' \in Seq(Responses) /\ script' # <<>> /\ Now' = Head(script')
    BY ConnTypes DEF Now
  <2>4. Now' \in Responses
    BY <2>3, HeadTailProperties
  <2>5. PICK r \in Responses : r = Now'
    BY <2>4
  <2>6. 0 \in Breaks(r, lay[r]) /\ NewParser \in mid[r][0] /\ 0 \notin r.lines
    BY StartFacts
  <2>7. InHead(lay, mid)' /\ pos' \notin Now'.lines
    BY <2>1, <2>2, <2>5, <2>6 DEF InHead
  <2> QED
    BY <2>1, <2>7 DEF Where
<1> QED
  BY <1>1, <1>2, <1>3, <1>4, <1>5, <1>6 DEF Next

(* The invariant holds in every state.                                     *)
LEMMA ConnInvHolds ==
    ASSUME NEW lay, NEW mid, NEW after, ParsesByLine(lay, mid, after)
    PROVE  Spec => []ConnInv(lay, mid, after)
<1>1. Init => ConnInv(lay, mid, after)
  <2> SUFFICES ASSUME Init PROVE ConnInv(lay, mid, after)
    OBVIOUS
  <2>1. /\ script \in Scripts /\ pos = 0 /\ cuts = 0 /\ st = "head" /\ p = NewParser /\ data = <<>>
    BY DEF Init
  <2>2. script \in Seq(Responses) /\ script # <<>>
    BY <2>1, ConnectionAssumption
  <2>3. Now \in Responses
    BY <2>2, HeadTailProperties DEF Now
  <2>4. /\ 0 \in Breaks(Now, lay[Now]) /\ NewParser \in mid[Now][0] /\ 0 \notin Now.lines
        /\ 0 \in 0..Len(Now.bytes)
    BY <2>3, StartFacts
  <2>5. Where(lay, mid, after)
    BY <2>1, <2>4 DEF Where, InHead
  <2> QED
    BY <2>1, <2>2, <2>4, <2>5 DEF ConnInv, Reading
<1>2. ConnInv(lay, mid, after) /\ [Next]_vars => ConnInv(lay, mid, after)'
  BY ConnStep
<1> QED
  BY <1>1, <1>2, PTL DEF Spec

(* Whatever peers send, in whatever pieces: given a parser that reads      *)
(* line by line as recvResponse needs it, a response that is returned is   *)
(* the one sent, whole, with nothing of it left for the next call, as long *)
(* as no read has ended inside a line (HttpConnection::recvResponse).      *)
THEOREM ResponseDeliveredHolds ==
    ASSUME NEW lay, NEW mid, NEW after, ParsesByLine(lay, mid, after)
    PROVE  Spec => []ResponseDelivered
<1>1. ConnInv(lay, mid, after) => ResponseDelivered
  BY DEF ConnInv, Where, ResponseDelivered
<1> QED
  BY <1>1, ConnInvHolds, PTL

(* Under the same contract recvResponse gives up only on a peer that is    *)
(* gone or late (HttpConnection::recvResponse).                            *)
THEOREM NoSpuriousFailureHolds ==
    ASSUME NEW lay, NEW mid, NEW after, ParsesByLine(lay, mid, after)
    PROVE  Spec => []NoSpuriousFailure
<1>1. ConnInv(lay, mid, after) => NoSpuriousFailure
  BY DEF ConnInv, Where, NoSpuriousFailure
<1> QED
  BY <1>1, ConnInvHolds, PTL
=============================================================================
