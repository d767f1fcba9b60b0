----------------------------- MODULE HttpParser -----------------------------
(***************************************************************************)
(* HttpParser::feed() of src/http_parser.cpp, called by the worker with    *)
(* whatever a read returns.  A request is sent as a sequence of units: one *)
(* for each line of its head, one for the empty line that ends it, and the *)
(* bytes of its body, so that chunk sizes, CR and LF are read as the code  *)
(* reads them.  Offsets count units from 0, as body_start_offset_ does.    *)
(***************************************************************************)
EXTENDS Integers, SequencesExt

CONSTANTS
    Requests,        \* records: lines, wire (the body as sent), body, cuts
    LengthOf,        \* what std::from_chars reads in each "content-length" line it takes
    ChunkedLines,    \* "transfer-encoding" lines in which "chunked" is found
    Loose,           \* lines that RFC 7230 does not allow and the code takes: a length
                     \* followed by something, a coding after "chunked" or without it
    HexOf,           \* the value of each byte that is a hexadecimal digit
    MaxHead          \* the 16 KB a head without an end may have

VARIABLES
    req,             \* the request the client sends
    fed,             \* how many of its units were given to feed()
    parser,          \* the members of HttpParser that feed() keeps, and its result
    slipped          \* history: body was taken, and the place to read on from left before it

parserVars == <<req, fed, parser, slipped>>

Stream(r) == r.lines \o <<"eoh">> \o r.wire
Buffer == SubSeq(Stream(req), 1, fed)

ASSUME ParserAssumption ==
    /\ \A r \in Requests :
          /\ {r.lines, r.wire, r.body} \subseteq Seq(STRING) /\ ~Contains(r.lines, "eoh")
          /\ r.cuts \subseteq 1..Len(Stream(r))
    /\ LengthOf \in [DOMAIN LengthOf -> Nat] /\ HexOf \in [DOMAIN HexOf -> Nat] /\ MaxHead \in Nat

(* reset(): the members before anything was read.                           *)
NewParser ==
    [headers_done_ |-> FALSE, use_chunked_ |-> FALSE, content_length_ |-> 0,
     body_start_offset_ |-> 0, chunk_done_ |-> FALSE, current_chunk_remaining_ |-> 0,
     reading_chunk_size_ |-> TRUE, body |-> <<>>, state |-> "INCOMPLETE"]

ParserInit == req \in Requests /\ fed = 0 /\ parser = NewParser /\ slipped = FALSE

-----------------------------------------------------------------------------
(* The head: parse_request_line(), parse_header_line() for every line and   *)
(* validate_headers().                                                      *)
LengthLines(lines) == {i \in DOMAIN lines : lines[i] \in DOMAIN LengthOf}
HasChunked(lines) == \E i \in DOMAIN lines : lines[i] \in ChunkedLines

(* Fault: of two lengths the last one counts. *)
HeadAcceptsDuplicates(lines) ==
    Len(lines) > 1 /\ lines[1] = "request" /\ ~Contains(lines, "bad") /\ ~Contains(lines, "badlength")

HeadAccepted(lines) ==
    /\ Len(lines) > 1            \* "\r\n" is looked for inside the head
    /\ lines[1] = "request"
    /\ ~Contains(lines, "bad")   \* a null byte, no colon, a space in the name
    /\ ~Contains(lines, "badlength")
    /\ Cardinality(LengthLines(lines)) <= 1

ValidateHeaders(p, lines) ==
    LET chunked == HasChunked(lines)
        lengths == LengthLines(lines)
    IN  [p EXCEPT !.headers_done_ = TRUE,
                  !.use_chunked_ = chunked,
                  !.content_length_ = IF chunked \/ lengths = {} THEN 0 ELSE LengthOf[lines[Max(lengths)]],
                  !.body_start_offset_ = Len(lines) + 1]

ParseHead(p, buffer) ==
    IF ~Contains(buffer, "eoh")
    THEN [p EXCEPT !.state = IF Len(buffer) > MaxHead THEN "ERROR" ELSE "INCOMPLETE"]
    ELSE LET lines == SubSeq(buffer, 1, Min({i \in DOMAIN buffer : buffer[i] = "eoh"}) - 1)
         IN  IF HeadAccepted(lines) THEN ValidateHeaders(p, lines)
             ELSE [p EXCEPT !.state = "ERROR"]

-----------------------------------------------------------------------------
(* A chunked body.  at is the local pos; stop tells how the loop ends.      *)
FindCrlf(buffer, pos) ==
    {i \in pos..(Len(buffer) - 2) : buffer[i + 1] = "cr" /\ buffer[i + 2] = "lf"}

(* std::from_chars: the digits the text begins with.                        *)
Digits(text) ==
    LET n == Max({k \in 0..Len(text) : \A i \in 1..k : text[i] \in DOMAIN HexOf})
    IN  SubSeq(text, 1, n)
HexValue(digits) ==
    LET value[k \in 0..Len(digits)] == IF k = 0 THEN 0 ELSE 16 * value[k - 1] + HexOf[digits[k]]
    IN  value[Len(digits)]

ReadChunkSize(s, buffer) ==
    LET ends == FindCrlf(buffer, s.at)
        crlf == Min(ends)
        digits == Digits(SubSeq(buffer, s.at + 1, crlf))
    IN  IF ends = {} THEN [s EXCEPT !.stop = "INCOMPLETE"]
        ELSE IF digits = <<>> THEN [s EXCEPT !.stop = "ERROR"]
        ELSE IF HexValue(digits) = 0
        THEN [s EXCEPT !.p.chunk_done_ = TRUE,
                       !.stop = IF crlf + 4 <= Len(buffer) THEN "COMPLETE" ELSE "INCOMPLETE"]
        ELSE [s EXCEPT !.p.current_chunk_remaining_ = HexValue(digits),
                       !.p.reading_chunk_size_ = FALSE,
                       !.at = crlf + 2]

ReadChunkData(s, buffer) ==
    LET n == Min({Len(buffer) - s.at, s.p.current_chunk_remaining_})
        left == s.p.current_chunk_remaining_ - n
        read == [s EXCEPT !.p.body = @ \o SubSeq(buffer, s.at + 1, s.at + n),
                          !.p.current_chunk_remaining_ = left,
                          !.at = s.at + n]
    IN  IF left > 0 THEN read
        ELSE IF s.at + n + 2 > Len(buffer) THEN [read EXCEPT !.stop = "INCOMPLETE"]
        ELSE [read EXCEPT !.at = s.at + n + 2, !.p.reading_chunk_size_ = TRUE]

(* One turn of the loop over the chunks.                                    *)
ChunkTurn(s, buffer) ==
    IF s.stop # "no" THEN s
    ELSE IF s.at >= Len(buffer) \/ s.p.chunk_done_ THEN [s EXCEPT !.stop = "end"]
    ELSE IF s.p.reading_chunk_size_ THEN ReadChunkSize(s, buffer) ELSE ReadChunkData(s, buffer)

(* The returns inside the loop leave body_start_offset_ as it was.          *)
ParseChunks(p, buffer) ==
    LET turns == 2 * Len(buffer) + 2
        after[i \in 0..turns] == IF i = 0 THEN [p |-> p, at |-> p.body_start_offset_, stop |-> "no"]
                                 ELSE ChunkTurn(after[i - 1], buffer)
        s == after[turns]
    IN  IF s.stop = "end"
        THEN [s.p EXCEPT !.body_start_offset_ = s.at,
                         !.state = IF s.p.chunk_done_ THEN "COMPLETE" ELSE "INCOMPLETE"]
        ELSE [s.p EXCEPT !.state = s.stop]

(* A body with a length, cut to it.                                         *)
ParseLength(p, buffer) ==
    LET rest == SubSeq(buffer, p.body_start_offset_ + 1, Len(buffer))
    IN  IF Len(rest) >= p.content_length_
        THEN [p EXCEPT !.body = SubSeq(rest, 1, p.content_length_), !.state = "COMPLETE"]
        ELSE [p EXCEPT !.body = rest, !.state = "INCOMPLETE"]

Parsed(p, buffer) ==
    LET h == IF p.headers_done_ THEN p ELSE ParseHead(p, buffer)
    IN  IF ~h.headers_done_ THEN h
        ELSE IF h.use_chunked_ THEN ParseChunks(h, buffer) ELSE ParseLength(h, buffer)

(* A return from inside the loop after some of the body was taken: from p   *)
(* to q the body has grown, and body_start_offset_ is where the loop began. *)
Slips(p, q) ==
    /\ q.use_chunked_ /\ ~q.chunk_done_ /\ q.state = "INCOMPLETE"
    /\ Len(q.body) > Len(p.body)
    /\ q.body_start_offset_ = Max({p.body_start_offset_, Len(req.lines) + 1})

(* feed() with the units up to the next cut.                                *)
Feed(cut) ==
    /\ parser.state = "INCOMPLETE"
    /\ cut \in req.cuts /\ cut > fed
    /\ fed' = cut
    /\ parser' = Parsed(parser, SubSeq(Stream(req), 1, cut))
    /\ slipped' = (slipped \/ Slips(parser, parser'))
    /\ UNCHANGED req

-----------------------------------------------------------------------------
(* What RFC 7230 says of a request: a request line and fields, of which at  *)
(* most one is a length, which is a number, and "chunked" the only or last  *)
(* coding.  A request of HTTP/1.0 needs no field.                           *)
OneLength(r) ==
    \A i, j \in 1..Len(r.lines) :
        r.lines[i] \in DOMAIN LengthOf /\ r.lines[j] \in DOMAIN LengthOf => i = j
Strict(r) == \A i \in 1..Len(r.lines) : r.lines[i] \notin Loose
WellFormed(r) ==
    /\ Len(r.lines) > 0 /\ r.lines[1] = "request"
    /\ \A i \in 2..Len(r.lines) : r.lines[i] \notin {"bad", "badlength"}
    /\ OneLength(r) /\ Strict(r)

(* What a request whose body has a length, or has none, means by it.        *)
SizedBody(r) ==
    LET given == {LengthOf[r.lines[i]] : i \in {j \in 1..Len(r.lines) : r.lines[j] \in DOMAIN LengthOf}}
    IN  /\ given = {} => r.body = <<>>
        /\ \A n \in given : n <= Len(r.wire) /\ r.body = SubSeq(r.wire, 1, n)
Chunked(r) == HasChunked(r.lines)
ASSUME SizedAssumption == \A r \in Requests : OneLength(r) /\ ~Chunked(r) => SizedBody(r)

(* What is handed on is what was sent, wherever the reads cut it: the whole *)
(* body, nothing twice and nothing of what follows.                         *)
RequestAsSent == parser.state = "COMPLETE" => parser.body = req.body

(* Only a request that RFC 7230 allows is accepted, so that no reader could *)
(* take its framing differently.                                            *)
MalformedRefused == parser.state = "COMPLETE" => WellFormed(req)

(* A well-formed request is not refused, unless its head is longer than is  *)
(* permitted or is the request line alone, in which feed() looks for the    *)
(* end of that line in vain.                                                *)
WellFormedAccepted ==
    parser.state = "ERROR" => ~WellFormed(req) \/ Len(req.lines) > MaxHead \/ Len(req.lines) = 1

(* When all of a request has been read the parser has come to a decision:   *)
(* the worker does not wait for what the client will not send.              *)
WholeIsDecided == fed = Len(Stream(req)) => parser.state # "INCOMPLETE"

(* feed() accepts a request with its own body, refuses it exactly if it     *)
(* must and does not wait beyond its end: wherever the reads cut it, unless *)
(* one ended where the parser takes body and forgets its place (inside a    *)
(* chunk's size line or before the CR LF after its data, with data before   *)
(* it in the same read), and unless one of its lines is loose.              *)
ParsedAsSent ==
    ~slipped => /\ RequestAsSent /\ WellFormedAccepted /\ WholeIsDecided
                /\ Strict(req) => MalformedRefused
=============================================================================
