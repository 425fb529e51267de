------------------------- MODULE HttpRequestMachine -------------------------
(***************************************************************************)
(* The machine of http_parser_execute (http11_parser.rl.cpp): the labels   *)
(* of the generated code are the states, its tests of *p the edges.  more  *)
(* is the set of bytes that parser->uri_relaxed adds to what an address    *)
(* may hold; 348 and 349 are the final states.                             *)
(***************************************************************************)
EXTENDS HttpBytes

(* http11_parser.rl: unreserved and sub_delims, and the sets made of them. *)
Marks == {33, 36, 59, 61, 95, 126} \cup (38..46)        \* ! $ ; = _ ~ and & to .
RelaxedDelims == {94, 123, 125}                          \* ^ { }
RegName(more) == Marks \cup Digit \cup Alpha \cup more
PathChar(more) == RegName(more) \cup NotAscii \cup {Slash, Colon, At}
QueryChar(more) == PathChar(more) \cup {Quest, 124}     \* 124 is |

(* token: (0 - 31) in HTTP_CTL is a difference of sets, so that only byte *)
(* 0 is taken out and the control bytes, LF and CR included, stay in.     *)
Token == (1..126) \ {HT, SP, 34, 40, 41, 44, Slash, Colon, 59, 60, 61, 62,
                     Quest, At, 91, 92, 93, 123, 125}

Escape(s, t, back) == Go(s, {Pct}, t) \cup Go(t, Hex, t + 1) \cup Go(t + 1, Hex, back)
-----------------------------------------------------------------------------
(* States 1, 2: the first byte tells an HTTP request from the two socket   *)
(* protocols.                                                              *)
RequestStart ==
    Do(1, Digit \cup Upper, 2, <<"mark">>) \cup Do(1, {60}, 194, <<"mark">>)
    \cup Do(1, {At}, 198, <<"mark">>) \cup Go(2, Digit \cup Upper, 175)

(* States 175 to 193: a method has at most 20 bytes.                       *)
MethodTail ==
    UNION {Go(s, Digit \cup Upper, s + 1) : s \in 175..192}
    \cup UNION {Do(s, {SP}, 3, <<"request_method">>) : s \in {2} \cup (175..193)}

(* What ends a path: a blank, a fragment or a query.                       *)
PathEnd(s) ==
    Do(s, {SP}, 4, <<"request_path", "request_uri">>)
    \cup Do(s, {Hash}, 20, <<"request_path", "request_uri">>)
    \cup Do(s, {Quest}, 29, <<"request_path">>)

(* State 3: the first byte of the address.                                 *)
UriStart(more) ==
    Do(3, {SP}, 4, <<"mark", "request_path", "request_uri">>)
    \cup Do(3, {Hash}, 20, <<"mark", "request_path", "request_uri">>)
    \cup Do(3, {Quest}, 29, <<"mark", "request_path">>)
    \cup Do(3, Marks \cup Digit \cup {At} \cup more, 19, <<"mark">>)
    \cup Do(3, {Pct}, 24, <<"mark">>) \cup Do(3, {Slash}, 33, <<"mark">>)
    \cup Do(3, Alpha, 173, <<"mark">>)

(* States 4 to 12: HTTP/1.0 or HTTP/1.1.                                   *)
Version ==
    Do(4, {72}, 5, <<"mark">>) \cup Chars(5, <<84, 84, 80, Slash, 49, Dot>>)
    \cup Go(11, {48, 49}, 12) \cup Do(12, {LF}, 13, <<"http_version">>)
    \cup Do(12, {CR}, 17, <<"http_version">>)

(* States 13, 14: the start of a line and a field's name.                  *)
FieldName ==
    Do(13, Token \ {LF, CR}, 14, <<"start_field">>)
    \cup Do(13, {LF}, 348, <<"start_field", "done">>)
    \cup Do(13, {CR}, 18, <<"start_field">>)
    \cup Loop(14, Token) \cup Do(14, {Colon}, 15, <<"write_field">>)

(* States 15, 16: a field's value.                                         *)
FieldValue ==
    Do(15, AnyByte \ {NUL, HT, LF, CR, SP, 127}, 16, <<"mark">>)
    \cup Do(15, {HT, SP}, 15, <<"mark">>)
    \cup Do(15, {LF}, 13, <<"mark", "write_value">>)
    \cup Do(15, {CR}, 17, <<"mark", "write_value">>)
    \cup Loop(16, AnyByte \ {NUL, LF, CR, 127}) \cup Do(16, {LF}, 13, <<"write_value">>)
    \cup Do(16, {CR}, 17, <<"write_value">>)

(* States 17, 18, 348: the ends of a line and of the head.                 *)
LineEnd ==
    Go(17, {LF}, 13)
    \cup Go(18, Token \ {LF}, 14) \cup Do(18, {LF}, 348, <<"done">>)
    \cup Go(348, Token, 14)
    \cup UNION {Do(s, {Colon}, 15, <<"write_field">>) : s \in {18, 348}}

(* States 19, 24, 25: an address that starts with neither / nor a scheme.  *)
RelativePath(more) ==
    PathEnd(19) \cup Loop(19, RegName(more) \cup {At}) \cup Escape(19, 24, 19)
    \cup Go(19, {Slash}, 26)

(* States 20 to 23. *)
Fragment(more) ==
    Do(20, QueryChar(more), 21, <<"mark">>) \cup Do(20, {SP}, 4, <<"mark", "fragment">>)
    \cup Do(20, {Pct}, 22, <<"mark">>) \cup Loop(21, QueryChar(more))
    \cup Do(21, {SP}, 4, <<"fragment">>) \cup Escape(21, 22, 21)

(* States 26 to 28. *)
Path(more) ==
    PathEnd(26) \cup Loop(26, PathChar(more)) \cup Escape(26, 27, 26)

(* States 29 to 32. *)
Query(more) ==
    Do(29, QueryChar(more), 30, <<"start_query">>)
    \cup Do(29, {Pct}, 31, <<"start_query">>)
    \cup Do(29, {SP}, 4, <<"start_query", "query_string", "request_uri">>)
    \cup Do(29, {Hash}, 20, <<"start_query", "query_string", "request_uri">>)
    \cup Loop(30, QueryChar(more)) \cup Escape(30, 31, 30)
    \cup Do(30, {SP}, 4, <<"query_string", "request_uri">>)
    \cup Do(30, {Hash}, 20, <<"query_string", "request_uri">>)

(* States 33 and 174: the first / of a path, and what follows a scheme.    *)
PathStart(more) ==
    PathEnd(33) \cup Go(33, PathChar(more) \ {Slash}, 26) \cup Go(33, {Slash}, 34)
    \cup Go(33, {Pct}, 27)

(* States 173, 174: a scheme, which ends with its colon.                   *)
Scheme(more) ==
    PathEnd(173) \cup Go(173, (Marks \ {43, 45, 46}) \cup {At} \cup more, 19)
    \cup Go(173, {Pct}, 24) \cup Loop(173, {43, 45, 46} \cup Digit \cup Alpha)
    \cup Go(173, {Slash}, 26) \cup Do(173, {Colon}, 174, <<"scheme">>)

AfterScheme(more) ==
    {<<174, e[2], e[3], <<"mark">> \o e[4]>> : e \in PathEnd(26)}
    \cup Do(174, PathChar(more) \ {Slash}, 26, <<"mark">>)
    \cup Do(174, {Pct}, 27, <<"mark">>) \cup Do(174, {Slash}, 33, <<"mark">>)
-----------------------------------------------------------------------------
(* An authority, //user@host:port, is parsed twice: states 34 to 46 in an  *)
(* HTTP request, states 209 to 221 (o = 175 further) after the @ of a JSON *)
(* request.  End(o, s) are the edges that end the path, path is the state  *)
(* of the path that follows.                                               *)
JsonEnd(s) == Do(s, {SP}, 199, <<"request_path">>)
End(o, s) == IF o = 0 THEN PathEnd(s) ELSE JsonEnd(s)

HostStart(o, path, more) ==
    UNION {End(o, s) \cup Go(s, RegName(more), o + 35) \cup Go(s, {Slash}, path)
             \cup Go(s, {Colon}, o + 38) \cup Go(s, {At}, o + 42)
             \cup Escape(s, o + 36, o + 35) : s \in {o + 34, o + 35}}
    \cup Go(o + 34, {91}, o + 47)

UserOrPort(o, path, more) ==
    End(o, o + 38) \cup Go(o + 38, (RegName(more) \ Digit) \cup {Colon}, o + 39)
    \cup Loop(o + 38, Digit) \cup Go(o + 38, {Slash}, path)
    \cup Loop(o + 39, RegName(more) \cup {Colon})
    \cup UNION {Go(s, {At}, o + 42) \cup Escape(s, o + 40, o + 39) : s \in {o + 38, o + 39}}

Host(o, path, more) ==
    UNION {End(o, s) \cup Go(s, RegName(more), o + 43) \cup Go(s, {Slash}, path)
             \cup Go(s, {Colon}, o + 46) \cup Escape(s, o + 44, o + 43) : s \in {o + 42, o + 43}}
    \cup Go(o + 42, {91}, o + 47)
    \cup End(o, o + 46) \cup Loop(o + 46, Digit) \cup Go(o + 46, {Slash}, path)
-----------------------------------------------------------------------------
(* IP literals, states 47 to 172 and their copies 222 to 347.  A count     *)
(* such as 6( h16 ":" ) in the grammar is the byte with that value, not a  *)
(* repetition: states 47, 126, 150, 151 and 163 to 168 test for it.        *)
Group(s, next) ==       \* a group of at most four digits, its first one read
    UNION {Go(i, Hex, i + 1) : i \in s..(s + 2)}
    \cup UNION {Go(i, {Colon}, next) : i \in s..(s + 3)}

(* Digits of the last group or of an IPv4 address, as long as it can be    *)
(* either: one and two are the states after a first 1 or 2.                *)
Mixed(o, first, one, two, letter, next, closes) ==
    LET h == o + first + (IF first = 54 THEN 23 ELSE 1)
        all == {o + first, o + letter, h, h + 1, h + 2}
               \cup ((o + one)..(o + one + 2)) \cup ((o + two)..(o + two + 2))
    IN  Go(o + first, Hex, h) \cup Go(o + letter, Hex, h)
        \cup Go(h, Hex, h + 1) \cup Go(h + 1, Hex, h + 2)
        \cup Go(o + one, Digit, o + one + 1) \cup Go(o + one, HexLetter, h)
        \cup Go(o + one + 1, Digit, o + one + 2) \cup Go(o + one + 1, HexLetter, h + 1)
        \cup Go(o + one + 2, Hex, h + 2)
        \cup Go(o + two, {48}, o + two + 1) \cup Go(o + two, {53}, o + two + 2)
        \cup Go(o + two, Hex \ {48, 53}, h)
        \cup Go(o + two + 1, Digit, o + one + 2) \cup Go(o + two + 1, HexLetter, h + 1)
        \cup Go(o + two + 2, {48}, o + one + 2) \cup Go(o + two + 2, Hex \ {48}, h + 1)
        \cup UNION {Go(s, {Dot}, o + 55) : s \in {o + first, o + two} \cup ((o + one)..(o + one + 2))}
        \cup UNION {Go(s, {Colon}, o + next) : s \in all}
        \cup (IF closes THEN UNION {Go(s, {93}, o + 61) : s \in all} ELSE {})

MixedStart(s, o, first, one, two, letter) ==
    Go(s, Digit \ {49, 50}, o + first) \cup Go(s, {49}, o + one)
    \cup Go(s, {50}, o + two) \cup Go(s, HexLetter, o + letter)

(* One number of an IPv4 address, ended by sep.                            *)
Octet(o, s, last, one, two, sep, next) ==
    Go(o + s, Digit \ {49, 50}, o + last) \cup Go(o + s, {49}, o + one)
    \cup Go(o + s, {50}, o + two)
    \cup Go(o + one, Digit, o + one + 1) \cup Go(o + one + 1, Digit, o + last)
    \cup Go(o + two, {48}, o + two + 1) \cup Go(o + two, {53}, o + two + 2)
    \cup Go(o + two + 1, Digit, o + last) \cup Go(o + two + 2, {48}, o + last)
    \cup UNION {Go(o + i, {sep}, o + next) : i \in {last, one, one + 1, two}}

LiteralStart(o) ==
    Go(o + 47, {6}, o + 48) \cup Go(o + 47, Hex, o + 91) \cup Go(o + 47, {Colon}, o + 167)
    \cup Go(o + 47, {118}, o + 169) \cup Go(o + 48, Hex, o + 49) \cup Group(o + 49, o + 53)
    \cup MixedStart(o + 53, o, 54, 84, 87, 90)

IPv4(o) ==
    Octet(o, 55, 56, 72, 74, Dot, 57) \cup Octet(o, 57, 58, 67, 69, Dot, 59)
    \cup Octet(o, 59, 60, 62, 64, 93, 61)

LastGroup(o) ==
    Mixed(o, 54, 84, 87, 90, 80, FALSE)
    \cup UNION {Go(s, Hex, s + 1) : s \in (o + 80)..(o + 82)} \cup Go(o + 83, Hex, o + 60)
    \cup UNION {Go(s, {93}, o + 61) : s \in (o + 81)..(o + 83)}

(* After the literal. *)
LiteralEnd(o, path) ==
    End(o, o + 61) \cup Go(o + 61, {Slash}, path) \cup Go(o + 61, {Colon}, o + 46)

LeadingGroups(o) ==
    UNION {Group(o + s, o + s + 4) : s \in {91, 96, 101, 106, 111, 116, 121}}
    \cup UNION {Go(o + s, Hex, o + s + 1) : s \in {95, 100, 105, 110, 115, 120}}
    \cup Go(o + 125, Hex, o + 121)
    \cup UNION {Go(o + e[1], {Colon}, o + e[2]) :
                  e \in {<<95, 166>>, <<100, 165>>, <<105, 164>>, <<110, 163>>,
                         <<115, 151>>, <<120, 150>>, <<125, 126>>}}

AfterElision(o) ==
    UNION {MixedStart(o + s, o, 127, 143, 146, 149) : s \in {126, 150, 168}}
    \cup UNION {Go(o + s, {2, 3}, o + 48) : s \in {126, 150}}
    \cup Go(o + 168, 2..5, o + 48)
    \cup UNION {Go(o + s, {93}, o + 61) : s \in {126, 168}}
    \cup Mixed(o, 127, 143, 146, 149, 131, TRUE)

SecondLast(o) ==
    MixedStart(o + 131, o, 132, 136, 139, 142) \cup Mixed(o, 132, 136, 139, 142, 80, TRUE)

ElisionAfterFive(o) ==
    Go(o + 151, {2, 3}, o + 48) \cup MixedStart(o + 151, o, 152, 156, 159, 162)
    \cup Mixed(o, 152, 156, 159, 162, 131, FALSE)

ElisionEarlier(o) ==
    Go(o + 163, {2, 3}, o + 48) \cup Go(o + 163, Hex, o + 49) \cup Go(o + 164, {2, 3}, o + 48)
    \cup Go(o + 165, {3}, o + 48) \cup Go(o + 166, {4}, o + 48) \cup Go(o + 167, {Colon}, o + 168)

IPvFuture(o, more) ==
    Go(o + 169, Hex, o + 170) \cup Loop(o + 170, Hex) \cup Go(o + 170, {Dot}, o + 171)
    \cup Go(o + 171, RegName(more) \cup {Colon}, o + 172)
    \cup Loop(o + 172, RegName(more) \cup {Colon}) \cup Go(o + 172, {93}, o + 61)

Literal(o) ==
    LiteralStart(o) \cup IPv4(o) \cup LastGroup(o) \cup LeadingGroups(o) \cup AfterElision(o)
    \cup SecondLast(o) \cup ElisionAfterFive(o) \cup ElisionEarlier(o)
-----------------------------------------------------------------------------
(* States 194 to 197: <name ...> up to a > and a byte 0.                   *)
XmlSocket ==
    LET name == {45, Dot} \cup Digit \cup Alpha
    IN  Go(194, name, 195) \cup Loop(195, name)
        \cup Do(195, (HT..CR) \cup {SP, Slash, 62}, 196, <<"request_path">>)
        \cup Loop(196, AnyByte \ {62}) \cup Go(196, {62}, 197) \cup Go(197, AnyByte \ {NUL, 62}, 196)
        \cup Loop(197, {62}) \cup Do(197, {NUL}, 349, <<"xml", "done">>)

(* States 198 to 208: @ and a path; 199 to 201 the { ... } that follows.   *)
JsonPath(more) ==
    UNION {JsonEnd(s) \cup Escape(s, 203, 202) \cup Go(s, RegName(more) \cup {At}, 202)
             : s \in {198, 202}}
    \cup Go(198, {Slash}, 208) \cup Go(202, {Slash}, 205)
    \cup UNION {JsonEnd(s) \cup Escape(s, 206, 205) : s \in {205, 208}}
    \cup Loop(205, PathChar(more)) \cup Go(208, PathChar(more) \ {Slash}, 205)
    \cup Go(208, {Slash}, 209)

JsonData ==
    Do(199, {123}, 200, <<"mark">>) \cup Loop(200, AnyByte \ {125}) \cup Go(200, {125}, 201)
    \cup Go(201, AnyByte \ {NUL, 125}, 200) \cup Loop(201, {125})
    \cup Do(201, {NUL}, 349, <<"json", "done">>)

JsonHost(more) ==
    HostStart(175, 205, more) \cup UserOrPort(175, 205, more)
    \cup Host(175, 205, more) \cup LiteralEnd(175, 205)

JsonLiteral(more) == Literal(175) \cup IPvFuture(175, more)
-----------------------------------------------------------------------------
RequestEdges(more) ==
    RequestStart \cup MethodTail \cup UriStart(more) \cup Version \cup FieldName
    \cup FieldValue \cup LineEnd \cup RelativePath(more) \cup Fragment(more)
    \cup Path(more) \cup Query(more) \cup PathStart(more) \cup Scheme(more)
    \cup AfterScheme(more) \cup HostStart(0, 26, more)
    \cup UserOrPort(0, 26, more) \cup Host(0, 26, more)
    \cup LiteralEnd(0, 26) \cup Literal(0) \cup IPvFuture(0, more)
    \cup XmlSocket \cup JsonPath(more) \cup JsonData \cup JsonHost(more) \cup JsonLiteral(more)

RequestFinal == {348, 349}
=============================================================================
