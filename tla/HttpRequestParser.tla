------------------------- MODULE HttpRequestParser -------------------------
(***************************************************************************)
(* http_parser_execute and the HttpRequestParser that owns it: what one    *)
(* call does with the bytes of one read, and the HttpRequest that the      *)
(* callbacks fill in.  Offsets are relative to the buffer of the call, as  *)
(* in the code, where they are reset by every call.                        *)
(***************************************************************************)
EXTENDS HttpRequestMachine, HttpMessage

CONSTANTS Methods,          \* the names in HTTP_METHOD_MAP that the inputs use
          FormType          \* the bytes of application/x-www-form-urlencoded

Connection == <<99, 111, 110, 110, 101, 99, 116, 105, 111, 110>>
ContentType == <<99, 111, 110, 116, 101, 110, 116, 45, 116, 121, 112, 101>>
Cookie == <<99, 111, 111, 107, 105, 101>>
KeepAliveText == <<107, 101, 101, 112, 45, 97, 108, 105, 118, 101>>

NewRequest ==
    [method |-> <<71, 69, 84>>, version |-> 11, close |-> TRUE, uri |-> <<>>, scheme |-> <<>>,
     path |-> <<Slash>>, query |-> <<>>, fragment |-> <<>>, headers |-> <<>>, params |-> <<>>,
     cookies |-> <<>>, body |-> <<>>]

(* A new HttpRequestParser; uri_relaxed is never given a value.            *)
NewParser(relaxed) ==
    [cs |-> 1, mark |-> 0, field_start |-> 0, field_len |-> 0, query_start |-> 0,
     relaxed |-> relaxed, m_error |-> FALSE, thrown |-> FALSE, m_data |-> NewRequest]
-----------------------------------------------------------------------------
(* The callbacks. *)
OnMethod(p, text) ==
    IF text \in Methods THEN [p EXCEPT !.m_data.method = text]
    ELSE [p EXCEPT !.m_data.method = <<>>, !.m_error = TRUE]

OnPath(p, text) ==
    [p EXCEPT !.m_data.path = IF Len(text) >= 2 /\ SubSeq(text, 1, 2) = <<Slash, Slash>>
                           THEN SubSeq(text, 3, Len(text)) ELSE text]

(* std::string(at, length) with the length of a query that started in the  *)
(* buffer of an earlier call: a negative one is a huge size_t, and throws. *)
OnQuery(p, buf, pos) ==
    IF pos < p.query_start THEN [p EXCEPT !.thrown = TRUE]
    ELSE [p EXCEPT !.m_data.query = Slice(buf, p.query_start, pos - p.query_start)]

(* One action of the machine, run at offset pos of the buffer.             *)
RunAction(p, a, buf, pos) ==
    LET text == Slice(buf, p.mark, pos - p.mark)
    IN  CASE a = "mark" -> [p EXCEPT !.mark = pos]
          [] a = "start_field" -> [p EXCEPT !.field_start = pos]
          [] a = "write_field" -> [p EXCEPT !.field_len = pos - p.field_start]
          [] a = "write_value" -> OnField(p, Slice(buf, p.field_start, p.field_len), text)
          [] a = "request_method" -> OnMethod(p, text)
          [] a = "request_uri" -> [p EXCEPT !.m_data.uri = text]
          [] a = "scheme" -> [p EXCEPT !.m_data.scheme = text]
          [] a = "request_path" -> OnPath(p, text)
          [] a = "fragment" -> [p EXCEPT !.m_data.fragment = text]
          [] a = "start_query" -> [p EXCEPT !.query_start = pos]
          [] a = "query_string" -> OnQuery(p, buf, pos)
          [] a = "http_version" -> OnVersion(p, text)
          [] OTHER -> p                                     \* xml, json, done

LeavingStrict == LeavingEdges(RequestEdges({}), 349)
LeavingRelaxed == LeavingEdges(RequestEdges(RelaxedDelims), 349)

(* One byte: x is the parser, the offset and whether execute has left its  *)
(* loop, by an error, by the fbreak of done or by an exception.            *)
ByteStep(x, c, buf) ==
    LET edges == Taken(IF x.p.relaxed THEN LeavingRelaxed ELSE LeavingStrict, x.p.cs, c)
    IN  IF x.out THEN x
        ELSE IF edges = {} THEN [x EXCEPT !.p.cs = 0, !.out = TRUE]
        ELSE LET e == CHOOSE e \in edges : TRUE
                 act(p, a) == IF p.thrown THEN p ELSE RunAction(p, a, buf, x.n)
                 q == Fold(act, x.p, e[4])
             IN  [p |-> [q EXCEPT !.cs = e[3]], n |-> x.n + 1,
                  out |-> q.thrown \/ \E i \in DOMAIN e[4] : e[4][i] = "done"]

(* http_parser_execute: the parser after the call and the bytes it read.   *)
Execute(p, buf) ==
    LET start == [p EXCEPT !.mark = 0, !.field_start = 0, !.field_len = 0]
        step(x, c) == ByteStep(x, c, buf)
    IN  Fold(step, [p |-> start, n |-> 0, out |-> FALSE], buf)

HasError(p) == p.m_error \/ p.cs = 0
IsFinished(p) == p.cs >= 348
-----------------------------------------------------------------------------
HexValue(c) == IF c \in Digit THEN c - 48 ELSE (IF c \in Upper THEN c - 55 ELSE c - 87)

(* crypto::urlDecode of a value (spaces are gone before it is called): a   *)
(* % and two hex digits are one byte, which is signed.                     *)
UrlDecode(s) ==
    LET coded(i) == i + 2 <= Len(s) /\ s[i] = Pct /\ s[i + 1] \in Hex /\ s[i + 2] \in Hex
        byte(i) == LET v == 16 * HexValue(s[i + 1]) + HexValue(s[i + 2])
                   IN  IF v > 127 THEN v - 256 ELSE v
        step(x, i) ==
            IF i < x.at THEN x
            ELSE IF coded(i) THEN [at |-> i + 3, out |-> Append(x.out, byte(i))]
            ELSE [at |-> i + 1, out |-> Append(x.out, s[i])]
    IN  Fold(step, [at |-> 1, out |-> <<>>], [i \in DOMAIN s |-> i]).out

(* kvParser: key=value pairs between delimiters, into the map params.  A   *)
(* key that is last and has no = is left out.                              *)
KvParser(data, params, delim) ==
    LET pair(x) == SetHeader(x.map, x.key, UrlDecode(x.value))
        step(x, c) ==
            CASE c \in (HT..CR) \cup {SP} -> x
              [] c = delim -> [map |-> pair(x), key |-> <<>>, value |-> <<>>, inKey |-> TRUE]
              [] c = 61 -> [x EXCEPT !.inKey = FALSE]
              [] OTHER -> IF x.inKey THEN [x EXCEPT !.key = Append(@, c)]
                          ELSE [x EXCEPT !.value = Append(@, c)]
        end == Fold(step, [map |-> params, key |-> <<>>, value |-> <<>>, inKey |-> TRUE], data)
    IN  IF end.inKey THEN end.map ELSE pair(end)

(* initParam: the parameters of the query, those of a body that is a form, *)
(* and the cookies.                                                        *)
InitParam(req) ==
    LET header(k) == IF k \in DOMAIN req.headers THEN req.headers[k] ELSE <<>>
        query == KvParser(req.query, req.params, 38)
    IN  [req EXCEPT
           !.params = IF LowerCase(header(ContentType)) = FormType
                      THEN KvParser(req.body, query, 38) ELSE query,
           !.cookies = KvParser(header(Cookie), @, 59)]

(* HttpRequest::init: any Connection header but keep-alive closes.         *)
InitRequest(req) ==
    LET conn == IF Connection \in DOMAIN req.headers THEN req.headers[Connection] ELSE <<>>
    IN  IF conn = <<>> THEN req ELSE [req EXCEPT !.close = LowerCase(conn) # KeepAliveText]
=============================================================================
