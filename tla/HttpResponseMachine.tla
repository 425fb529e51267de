------------------------ MODULE HttpResponseMachine ------------------------
(***************************************************************************)
(* The machine of httpclient_parser_execute (httpclient_parser.rl.cpp),    *)
(* which reads the head of a response or the size line of a chunk.  The    *)
(* header lines are plain fields, but a line that starts like Connection,  *)
(* Transfer-Encoding or Content-Length has states of its own until its     *)
(* name, or the value looked for, is settled.                              *)
(***************************************************************************)
EXTENDS HttpBytes

ClientToken == (33..126) \ {34, 40, 41, 44, Slash, Colon, 59, 60, 61, 62, Quest, At,
                            91, 92, 93, 123, 125}
Blank == {HT, 11, 12, SP}
Space == Blank \cup {LF, CR}
c_ == Letter(99)
t_ == Letter(116)

(* What a line end does in each place: LF to one state, CR to another.     *)
Ends(s, lf, cr, acts) == Do(s, {LF}, lf, acts) \cup Do(s, {CR}, cr, acts)
-----------------------------------------------------------------------------
(* States 1 to 3: the first byte tells a size line from a status line.     *)
ChunkSize ==
    Do(1, Hex, 2, <<"mark">>) \cup Do(1, {72}, 8, <<"mark">>) \cup Loop(2, Hex)
    \cup Do(2, {LF}, 120, <<"chunk_size", "done">>) \cup Do(2, {CR}, 3, <<"chunk_size">>)
    \cup Do(2, {59}, 4, <<"chunk_size">>) \cup Do(3, {LF}, 120, <<"done">>)

(* States 4 to 7: the extensions of a chunk.                               *)
ChunkExtension ==
    LET write == <<"write_field", "mark", "write_value">>
    IN  Do(4, ClientToken, 5, <<"start_field">>) \cup Loop(5, ClientToken)
        \cup Do(5, {LF}, 120, write \o <<"done">>) \cup Do(5, {CR}, 3, write)
        \cup Do(5, {59}, 4, write) \cup Do(5, {61}, 6, <<"write_field", "mark">>)
        \cup Do(6, ClientToken, 7, <<"mark">>) \cup Loop(7, ClientToken)
        \cup Do(7, {LF}, 120, <<"write_value", "done">>) \cup Do(7, {CR}, 3, <<"write_value">>)
        \cup Do(7, {59}, 4, <<"write_value">>)

(* States 8 to 19: HTTP/n.n, the status code and the reason.               *)
StatusLine ==
    Chars(8, <<84, 84, 80, Slash>>) \cup Go(12, Digit, 13) \cup Loop(13, Digit)
    \cup Go(13, {Dot}, 14) \cup Go(14, Digit, 15) \cup Loop(15, Digit)
    \cup Do(15, {SP}, 16, <<"http_version">>) \cup Do(16, Digit, 17, <<"mark">>)
    \cup Loop(17, Digit) \cup Do(17, {SP}, 18, <<"status">>)
    \cup Do(18, AnyByte \ {LF}, 19, <<"mark">>) \cup Loop(19, AnyByte \ {LF, CR})
    \cup Ends(19, 20, 24, <<"reason">>)

(* The start of a header line: own are bytes that other edges of s take.   *)
LineStart(s, acts, own, c, cacts) ==
    Do(s, ClientToken \ (c_ \cup t_ \cup own), 21, acts \o <<"start_field">>)
    \cup Do(s, c_, c, acts \o cacts \o <<"start_field">>)
    \cup Do(s, t_, 44, acts \o <<"start_field">>)

(* States 20 and 24. *)
HeaderStart ==
    LineStart(20, <<>>, {}, 25, <<>>) \cup Do(20, {LF}, 120, <<"done">>)
    \cup Go(20, {CR}, 3) \cup Go(24, {LF}, 20)

(* A byte of a name: the next of a word looked for, or a plain one.        *)
NameByte(s, word, colon) ==
    Go(s, ClientToken \ UNION {w[1] : w \in word}, 21)
    \cup UNION {Go(s, w[1], w[2]) : w \in word} \cup Do(s, {Colon}, colon, <<"write_field">>)
NameWord(s, word) ==
    UNION {NameByte(s + i - 1, {<<Letter(word[i]), s + i>>}, 22) : i \in 1..Len(word)}

(* A byte of a value: the next of a word looked for, or a plain one.       *)
ValueStart(s, lf, cr, word, t) ==
    Do(s, AnyByte \ (Space \cup word), 23, <<"mark">>) \cup Do(s, Blank, s, <<"mark">>)
    \cup Ends(s, lf, cr, <<"mark", "write_value">>) \cup Do(s, word, t, <<"mark">>)
ValueByte(s, word, t) ==
    Go(s, AnyByte \ ({LF, CR} \cup word), 23) \cup Go(s, word, t)
ValueWord(s, word) ==
    UNION {ValueByte(s + i - 1, Letter(word[i]), s + i)
             \cup Ends(s + i - 1, 20, 24, <<"write_value">>) : i \in 1..Len(word)}

(* States 21 to 23: a field that is none of the three.                     *)
PlainField ==
    NameByte(21, {}, 22) \cup ValueStart(22, 20, 24, {}, 23) \cup ValueByte(23, {}, 23)
    \cup Ends(23, 20, 24, <<"write_value">>)
-----------------------------------------------------------------------------
(* States 25 to 34: the name Connection, from its second letter.           *)
ConnectionName ==
    NameByte(25, {<<Letter(111), 26>>}, 22) \cup NameByte(26, {<<Letter(110), 27>>}, 22)
    \cup NameByte(27, {<<Letter(110), 28>>, <<t_, 101>>}, 22)
    \cup NameWord(28, <<101, 99, 116, 105, 111, 110>>) \cup NameByte(34, {}, 35)

(* States 96 to 100: the value close after the name.                       *)
ConnectionValue ==
    ValueStart(35, 36, 95, c_, 96) \cup ValueWord(96, <<108, 111, 115, 101>>)
    \cup ValueByte(100, {}, 23) \cup Ends(100, 43, 88, <<"write_value">>) \cup Go(88, {LF}, 43)

(* States 36 to 43, 89, 95, 122: an empty value, and close on a later line.*)
CloseOnNextLine ==
    LineStart(36, <<>>, {}, 90, <<>>) \cup Go(36, Blank, 37) \cup Do(36, {LF}, 122, <<"done">>)
    \cup Go(36, {CR}, 89)
    \cup UNION {Go(s, Space \ (IF s \in {89, 95} THEN {LF} ELSE {}), 37) \cup Go(s, c_, 38)
                  : s \in {37, 89, 95, 122}}
    \cup Do(89, {LF}, 122, <<"done">>) \cup Go(95, {LF}, 36)
    \cup Go(38, Letter(108), 39) \cup Go(39, Letter(111), 40) \cup Go(40, Letter(115), 41)
    \cup Go(41, Letter(101), 42) \cup Go(42, {LF}, 43) \cup Go(42, {CR}, 88)

(* State 43: the line after Connection: close.                             *)
AfterClose ==
    LineStart(43, <<"conn_close">>, {}, 25, <<>>)
    \cup Do(43, {LF}, 120, <<"conn_close", "done">>) \cup Do(43, {CR}, 3, <<"conn_close">>)

(* States 90 to 94: a name that starts like close after an empty value.    *)
CloseAsName ==
    NameByte(90, {<<Letter(108), 91>>, <<Letter(111), 26>>}, 22)
    \cup NameWord(91, <<111, 115, 101>>) \cup NameByte(94, {}, 22)
    \cup Go(94, {LF}, 43) \cup Go(94, {CR}, 88)
-----------------------------------------------------------------------------
(* States 44 to 60: the name Transfer-Encoding, from its second letter;    *)
(* the - has no capital.                                                   *)
TransferName == NameWord(44, <<114, 97, 110, 115, 102, 101, 114>>)
TransferHyphen == NameByte(51, {<<{45}, 52>>}, 22)
EncodingName ==
    NameWord(52, <<101, 110, 99, 111, 100, 105, 110, 103>>) \cup NameByte(60, {}, 61)

(* States 61, 71, 81 to 87: the value chunked after the name.              *)
EncodingValue ==
    ValueStart(61, 62, 80, c_, 81) \cup ValueWord(81, <<104, 117, 110, 107, 101, 100>>)
    \cup ValueByte(87, {}, 23) \cup Do(87, {LF}, 20, <<"write_value", "chunked">>)
    \cup Do(87, {CR}, 71, <<"write_value">>) \cup Do(71, {LF}, 20, <<"chunked">>)

(* States 62 to 70, 72, 80, 121: an empty value, chunked on a later line.  *)
ChunkedOnNextLine ==
    LineStart(62, <<>>, {}, 73, <<"mark">>) \cup Go(62, Blank, 63)
    \cup Do(62, {LF}, 121, <<"done">>) \cup Go(62, {CR}, 72)
    \cup UNION {Go(s, Space \ (IF s \in {72, 80} THEN {LF} ELSE {}), 63)
                  \cup Do(s, c_, 64, <<"mark">>) : s \in {63, 72, 80, 121}}
    \cup Do(72, {LF}, 121, <<"done">>) \cup Go(80, {LF}, 62)
    \cup Go(64, Letter(104), 65) \cup Go(65, Letter(117), 66) \cup Go(66, Letter(110), 67)
    \cup Go(67, Letter(107), 68) \cup Go(68, Letter(101), 69) \cup Go(69, Letter(100), 70)
    \cup Do(70, {LF}, 20, <<"write_value", "chunked">>) \cup Do(70, {CR}, 71, <<"write_value">>)

(* States 73 to 79: a name that starts like chunked after an empty value.  *)
ChunkedAsName ==
    NameByte(73, {<<Letter(104), 74>>, <<Letter(111), 26>>}, 22)
    \cup NameWord(74, <<117, 110, 107, 101, 100>>) \cup NameByte(79, {}, 22)
    \cup Do(79, {LF}, 20, <<"write_value", "chunked">>) \cup Do(79, {CR}, 71, <<"write_value">>)
-----------------------------------------------------------------------------
(* States 101 to 111: the name Content-Length, from its fifth letter.      *)
ContentName == NameWord(101, <<101, 110, 116>>) \cup NameByte(104, {<<{45}, 105>>}, 22)
LengthName == NameWord(105, <<108, 101, 110, 103, 116, 104>>) \cup NameByte(111, {}, 112)

(* States 112, 119: digits after the name.                                 *)
LengthValue ==
    ValueStart(112, 113, 118, Digit, 119) \cup ValueByte(119, Digit, 119)
    \cup Ends(119, 20, 24, <<"content_len", "write_value">>)

(* States 113 to 118, 123: an empty value, and digits on a later line.     *)
LengthOnNextLine ==
    LineStart(113, <<>>, Digit, 25, <<>>) \cup Do(113, Digit, 117, <<"mark", "start_field">>)
    \cup Go(113, Blank, 114) \cup Do(113, {LF}, 123, <<"done">>) \cup Go(113, {CR}, 116)
    \cup UNION {Go(s, Space \ (IF s \in {116, 118} THEN {LF} ELSE {}), 114)
                  \cup Do(s, Digit, 115, <<"mark">>) : s \in {114, 116, 118, 123}}
    \cup Do(116, {LF}, 123, <<"done">>) \cup Go(118, {LF}, 113)
    \cup Loop(115, Digit) \cup NameByte(117, {<<Digit, 117>>}, 22)
    \cup UNION {Ends(s, 20, 24, <<"content_len", "write_value">>) : s \in {115, 117}}
-----------------------------------------------------------------------------
ResponseEdges ==
    ChunkSize \cup ChunkExtension \cup StatusLine \cup HeaderStart \cup PlainField
    \cup ConnectionName \cup ConnectionValue \cup CloseOnNextLine \cup AfterClose
    \cup CloseAsName \cup TransferName \cup TransferHyphen \cup EncodingName
    \cup EncodingValue \cup ChunkedOnNextLine \cup ChunkedAsName \cup ContentName
    \cup LengthName \cup LengthValue \cup LengthOnNextLine
=============================================================================
