------------------------- MODULE HttpResponseParser -------------------------
(***************************************************************************)
(* httpclient_parser_execute and the HttpResponseParser that owns it: one  *)
(* call on one buffer, for the head of a response or, after the parser has *)
(* been initialised again, for the size line of a chunk.                   *)
(***************************************************************************)
EXTENDS HttpResponseMachine, HttpMessage

TransferEncoding ==
    <<116, 114, 97, 110, 115, 102, 101, 114, 45, 101, 110, 99, 111, 100, 105, 110, 103>>

NewResponse ==
    [status |-> 200, version |-> 11, reason |-> <<>>, headers |-> <<>>, body |-> <<>>]

(* httpclient_parser_init leaves what belongs to the HttpResponseParser.   *)
InitParser(p) ==
    [p EXCEPT !.cs = 1, !.mark = 0, !.field_start = 0, !.field_len = 0,
              !.content_len = -1, !.chunked = FALSE, !.chunks_done = FALSE]

NewParser ==
    [cs |-> 1, mark |-> 0, field_start |-> 0, field_len |-> 0, content_len |-> -1,
     chunked |-> FALSE, chunks_done |-> FALSE, m_error |-> FALSE, m_data |-> NewResponse]

(* strtol and atoi from an offset of the buffer: white space is skipped,   *)
(* and the digits that follow are the number.                              *)
Strtol(buf, from, base) ==
    LET val(c) == IF c \in Digit THEN c - 48 ELSE (IF c \in Upper THEN c - 55 ELSE c - 87)
        digits == IF base = 16 THEN Hex ELSE Digit
        step(x, c) ==
            IF x.end \/ (~x.some /\ c \in Space) THEN x
            ELSE IF c \in digits THEN [x EXCEPT !.n = base * @ + val(c), !.some = TRUE]
            ELSE [x EXCEPT !.end = TRUE]
    IN  Fold(step, [n |-> 0, some |-> FALSE, end |-> FALSE], SubSeq(buf, from + 1, Len(buf))).n

(* A chunk of no bytes is the last one.                                    *)
OnChunkSize(p, size) ==
    [p EXCEPT !.chunked = TRUE, !.content_len = size, !.chunks_done = size <= 0]

(* One action of the machine, run at offset pos of the buffer.  The mark   *)
(* that conn_close leaves is read by nobody.                               *)
RunAction(p, a, buf, pos) ==
    LET text == Slice(buf, p.mark, pos - p.mark)
    IN  CASE a = "mark" -> [p EXCEPT !.mark = pos]
          [] a = "start_field" -> [p EXCEPT !.field_start = pos]
          [] a = "write_field" -> [p EXCEPT !.field_len = pos - p.field_start]
          [] a = "write_value" -> OnField(p, Slice(buf, p.field_start, p.field_len), text)
          [] a = "http_version" -> OnVersion(p, text)
          [] a = "status" -> [p EXCEPT !.m_data.status = Strtol(buf, p.mark, 10)]
          [] a = "reason" -> [p EXCEPT !.m_data.reason = text]
          [] a = "content_len" -> [p EXCEPT !.content_len = Strtol(buf, p.mark, 10)]
          [] a = "chunk_size" -> OnChunkSize(p, Strtol(buf, p.mark, 16))
          [] a = "chunked" -> [p EXCEPT !.chunked = TRUE]
          [] OTHER -> p                                     \* done, conn_close

Leaving == LeavingEdges(ResponseEdges, 123)

(* One byte: x is the parser, the offset and whether execute has left its  *)
(* loop, by an error or by the fbreak of done.                             *)
ByteStep(x, c, buf) ==
    LET edges == Taken(Leaving, x.p.cs, c)
        act(p, a) == RunAction(p, a, buf, x.n)
    IN  IF x.out THEN x
        ELSE IF edges = {} THEN [x EXCEPT !.p.cs = 0, !.out = TRUE]
        ELSE LET e == CHOOSE e \in edges : TRUE
             IN  [p |-> [Fold(act, x.p, e[4]) EXCEPT !.cs = e[3]], n |-> x.n + 1,
                  out |-> \E i \in DOMAIN e[4] : e[4][i] = "done"]

(* httpclient_parser_execute: the parser after the call and the bytes it   *)
(* read.  The checks at its end hold for every buffer that is not empty.   *)
ParserExecute(p, buf) ==
    LET start == [p EXCEPT !.mark = 0, !.field_start = 0, !.field_len = 0]
        step(x, c) == ByteStep(x, c, buf)
    IN  Fold(step, [p |-> start, n |-> 0, out |-> FALSE], buf)

Execute(p, buf, chunk) == ParserExecute(IF chunk THEN InitParser(p) ELSE p, buf)

HasError(p) == p.m_error \/ p.cs = 0

(* Only the first of the machine's four final states counts.               *)
IsFinished(p) == p.cs = 120
=============================================================================
