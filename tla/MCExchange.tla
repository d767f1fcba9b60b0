----------------------------- MODULE MCExchange -----------------------------
(* Instances of Exchange for TLC.                                           *)
EXTENDS Exchange

(* "Content-Length: 2x" is read as 2.                                       *)
MCLengthOf == [length0 |-> 0, length2 |-> 2, length2x |-> 2]
(* "chunked, gzip" is taken for "chunked", "gzip" alone for no coding.      *)
MCChunkedLines == {"chunked", "chunkedgzip"}
MCLoose == {"length2x", "chunkedgzip", "gzip"}
MCHexOf == [c \in {"0", "1", "2", "a"} |-> IF c = "0" THEN 0 ELSE IF c = "1" THEN 1
                                           ELSE IF c = "2" THEN 2 ELSE 10]
MCParams == <<"p", "q", "r">>

AllCuts(lines, wire) == 1..(Len(lines) + 1 + Len(wire))
NoSigns == [malformed_uri |-> FALSE, blocked_ua |-> FALSE, headers |-> <<>>, path |-> <<>>, query |-> <<>>]
Request(lines, wire, body, has) ==
    [lines |-> lines, wire |-> wire, body |-> body, has |-> has, cuts |-> AllCuts(lines, wire),
     signs |-> NoSigns]

(* Signs of rules, some encoded once or more often than is undone.          *)
MCSigns ==
    [weak |-> [rule |-> "boolean", layers |-> 0], weak2 |-> [rule |-> "boolean", layers |-> 2],
     middle |-> [rule |-> "stacked", layers |-> 1], strong |-> [rule |-> "traversal", layers |-> 0],
     deep |-> [rule |-> "traversal", layers |-> 3]]
MCRules == <<[rule |-> "boolean", score |-> 3], [rule |-> "stacked", score |-> 4],
             [rule |-> "traversal", score |-> 5]>>
Payloads == {<<>>, <<"weak2">>, <<"weak", "-", "weak2">>, <<"middle">>, <<"strong">>, <<"deep", "-">>}
HeaderSets == {<<>>, <<{"oversized"}>>, <<{"oversized"}, {"oversized"}, {"crlf"}>>}
MCSignSets ==
    [malformed_uri : BOOLEAN, blocked_ua : {FALSE}, headers : HeaderSets, path : Payloads, query : Payloads]
        \cup {[NoSigns EXCEPT !.blocked_ua = TRUE]}
Guarded ==
    LET r == Request(<<"request", "length2">>, <<"weak", "multibyte">>, <<"weak", "multibyte">>, {})
        bodies == {<<"x", "y">>, <<"weak", "y">>, <<"middle", "multibyte">>, <<"multibyte", "x">>, <<"x", "strong">>}
    IN  {[r EXCEPT !.wire = b, !.body = b, !.signs = s, !.cuts = {5}] : b \in bodies, s \in MCSignSets}

MCErrorPage == <<[unit |-> 0], [unit |-> 9]>>
MCContents == {<<>>, <<[unit |-> 1]>>, <<[unit |-> 2], [unit |-> 3], [unit |-> 4]>>}

Crlf == <<"cr", "lf">>
(* Two chunks, the second with an extension, and the last one.              *)
ChunkWire == <<"2", "cr", "lf", "x", "0", "cr", "lf", "1", ";", "cr", "lf", "y", "cr", "lf",
               "0", "cr", "lf", "cr", "lf">>
ChunkBody == <<"x", "0", "y">>
(* Where the parser always keeps its place: after a chunk, its size, part of its data. *)
KeptPlaces == {3, 4, 7, 11, 14, 17, 18, 19}

Upgrade == {"get", "upgrade", "connection", "key", "version"}
Sized == Request(<<"request", "other", "length2">>, <<"x", "y", "z">>, <<"x", "y">>, {"php"})
InChunks == Request(<<"request", "chunked">>, ChunkWire, ChunkBody, {"php"})

Plain ==
    {Sized,
     Request(<<"request", "other">>, <<>>, <<>>, Upgrade),
     Request(<<"request", "other">>, <<>>, <<>>, Upgrade \ {"version"}),
     Request(<<"request", "length0">>, <<"x">>, <<>>, {"file"}),
     Request(<<"request", "other">>, <<>>, <<>>, {"file", "tls"}),
     Request(<<"request">>, <<>>, <<>>, {}),
     Request(<<"bad", "other">>, <<>>, <<>>, {}),
     Request(<<"request", "bad">>, <<>>, <<>>, {}),
     Request(<<"request", "badlength">>, <<>>, <<>>, {}),
     Request(<<"request", "length2", "length0">>, <<"x", "y">>, <<"x", "y">>, {}),
     Request(<<"request", "length2x">>, <<"x", "y">>, <<"x", "y">>, {}),
     Request(<<"request", "gzip">>, <<>>, <<>>, {}),
     Request(<<"request", "other", "other", "other", "other", "other">>, <<>>, <<>>, {})}

(* Chunks are read with every cut, and sent on with those of KeptPlaces.    *)
MCRequests ==
    Plain \cup Guarded \cup
    {[InChunks EXCEPT !.cuts = 1..3 \cup {3 + n : n \in KeptPlaces}]} \cup
    {Request(lines, ChunkWire, ChunkBody, {}) :
        lines \in {<<"request", "chunked">>, <<"request", "length2", "chunked">>, <<"request", "chunkedgzip">>}}

MCChunkedRequests == Plain \cup {InChunks}

F(opcode, fin, header, payload) ==
    [opcode |-> opcode, fin |-> fin, header |-> header, payload |-> payload]
MCFrames ==
    {F("TEXT", TRUE, "ok", <<"a">>), F("TEXT", FALSE, "ok", <<"b">>), F("BINARY", FALSE, "ok", <<>>),
     F("CONTINUATION", FALSE, "ok", <<"c", "d">>), F("CONTINUATION", TRUE, "ok", <<"e">>),
     F("PING", TRUE, "ok", <<"f">>), F("PING", TRUE, "ok", <<"f", "g">>), F("PONG", TRUE, "ok", <<>>),
     F("CLOSE", TRUE, "ok", <<>>), F("CLOSE", TRUE, "ok", <<"NORMAL">>),
     F("UNKNOWN", TRUE, "ok", <<>>), F("TEXT", TRUE, "unmasked", <<"h">>),
     F("TEXT", TRUE, "rsv", <<>>), F("BINARY", TRUE, "ok", <<"i", "i", "i">>)}

Rec(type, content, padding) == [type |-> type, content |-> content, padding |-> padding]
MCAnswers ==
    {<<Rec("STDOUT", <<"m", "n">>, 2), Rec("STDERR", <<"e">>, 0), Rec("STDOUT", <<"o">>, 0),
       Rec("END_REQUEST", <<"s">>, 1), Rec("STDOUT", <<"u">>, 0)>>,
     <<Rec("STDOUT", <<>>, 0), Rec("END_REQUEST", <<"s">>, 0)>>,
     <<Rec("STDOUT", <<"m", "n">>, 1), Rec("OTHER", <<"v">>, 0)>>,
     <<Rec("STDOUT", <<"m", "n", "o">>, 1), Rec("STDOUT", <<"p", "q">>, 0)>>}
=============================================================================
