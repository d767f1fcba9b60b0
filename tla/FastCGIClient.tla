---------------------------- MODULE FastCGIClient ----------------------------
(***************************************************************************)
(* FastCGIClient::send_request() and read_response() of                    *)
(* src/fastcgi_client.cpp, against an application at the other end of a    *)
(* stream socket.  A record sent to the application is its type and its    *)
(* content; one it sends is a header of HeaderSize units followed by the   *)
(* units of content and padding, and read() may return any part of what    *)
(* has arrived.  The connection may be refused, fail or end at any time.   *)
(***************************************************************************)
EXTENDS Integers, SequencesExt

CONSTANTS
    Answers,           \* sequences of the records an application sends
    HeaderSize,        \* sizeof(Header)
    MaxRecord,         \* the 65535 bytes a record holds
    MaxFcgiResponse,   \* MAX_FCGI_RESPONSE
    Params             \* the encoded parameters

ASSUME FcgiAssumption ==
    /\ Answers \subseteq Seq([type : STRING, content : Seq(STRING), padding : Nat])
    /\ {HeaderSize, MaxRecord} \subseteq Nat \ {0} /\ MaxFcgiResponse \in Nat
    /\ Params \in Seq(STRING)

VARIABLES
    packet,            \* records of the request, not yet written
    received,          \* records the application has
    answer,            \* the application's records
    at,                \* units of them read() has returned
    fpc,               \* "idle", "write", "header", "content", "padding", "answered", "failed"
    got,               \* units of the part that is being read
    gone,              \* read() has returned 0 or an error
    stdout_data

fcgiVars == <<packet, received, answer, at, fpc, got, gone, stdout_data>>

FcgiInit ==
    /\ packet = <<>> /\ received = <<>> /\ answer = <<>> /\ at = 0
    /\ fpc = "idle" /\ got = 0 /\ gone = FALSE /\ stdout_data = <<>>

-----------------------------------------------------------------------------
(* Content in records of at most MaxRecord, and the empty one that ends it. *)
Records(type, content) ==
    LET n == Min({k \in 0..Len(content) : k * MaxRecord >= Len(content)})
        part(i) == SubSeq(content, (i - 1) * MaxRecord + 1, Min({i * MaxRecord, Len(content)}))
    IN  [i \in 1..(n + 1) |-> [type |-> type, content |-> IF i <= n THEN part(i) ELSE <<>>]]

(* send_request() once connected: the packet is put together.               *)
SendRequest(body) ==
    /\ fpc = "idle"
    /\ packet' = <<[type |-> "BEGIN", content |-> <<>>]>>
                 \o Records("PARAMS", Params) \o Records("STDIN", body)
    /\ fpc' = "write"
    /\ UNCHANGED <<received, answer, at, got, gone, stdout_data>>

ConnectFails ==
    fpc = "idle" /\ fpc' = "failed" /\ UNCHANGED <<packet, received, answer, at, got, gone, stdout_data>>

(* A write() is taken: some of the records are with the application.        *)
Write(n) ==
    /\ fpc = "write" /\ n \in 1..Len(packet)
    /\ received' = received \o SubSeq(packet, 1, n)
    /\ packet' = SubSeq(packet, n + 1, Len(packet))
    /\ fpc' = IF n = Len(packet) THEN "header" ELSE "write"
    /\ \/ n < Len(packet) /\ UNCHANGED answer
       \/ n = Len(packet) /\ answer' \in Answers
    /\ UNCHANGED <<at, got, gone, stdout_data>>

WriteFails ==
    fpc = "write" /\ fpc' = "failed" /\ UNCHANGED <<packet, received, answer, at, got, gone, stdout_data>>

-----------------------------------------------------------------------------
(* read_response().  SizeOf is the length of a record on the wire, Record   *)
(* the one that is being read: the first that at does not lie behind.       *)
SizeOf(r) == HeaderSize + Len(r.content) + r.padding
EndOf(i) ==
    LET end[n \in 0..Len(answer)] == IF n = 0 THEN 0 ELSE end[n - 1] + SizeOf(answer[n])
    IN  end[i]
Arriving == IF gone THEN 0 ELSE EndOf(Len(answer)) - at
Record == answer[Min({i \in DOMAIN answer : at < EndOf(i)})]

(* The record is complete: the switch on its type.                          *)
TakeRecord(r) ==
    /\ stdout_data' = IF r.type = "STDOUT" THEN stdout_data \o r.content ELSE stdout_data
    /\ fpc' = IF r.type = "END_REQUEST" THEN "answered" ELSE "header"
    /\ got' = 0

(* The part of a record that follows the one just read.                     *)
AfterContent(r) ==
    IF r.padding > 0 THEN fpc' = "padding" /\ got' = 0 /\ UNCHANGED stdout_data ELSE TakeRecord(r)
AfterHeader(r) ==
    IF r.content # <<>> THEN fpc' = "content" /\ got' = 0 /\ UNCHANGED stdout_data ELSE AfterContent(r)

TooLarge(r) == Len(stdout_data) + Len(r.content) > MaxFcgiResponse

(* One read() of the header: less than all of it is an error.               *)
ReadHeader(n) ==
    /\ fpc = "header" /\ n \in 1..HeaderSize /\ n <= Arriving
    /\ at' = at + n
    /\ LET r == Record IN
       IF n < HeaderSize \/ TooLarge(r)
       THEN fpc' = "failed" /\ UNCHANGED <<got, stdout_data>>
       ELSE AfterHeader(r)
    /\ UNCHANGED <<packet, received, answer, gone>>

ReadContent(n) ==
    /\ fpc = "content" /\ n \in 1..(Len(Record.content) - got) /\ n <= Arriving
    /\ at' = at + n
    /\ LET r == Record IN
       IF got + n < Len(r.content) THEN got' = got + n /\ UNCHANGED <<fpc, stdout_data>>
       ELSE AfterContent(r)
    /\ UNCHANGED <<packet, received, answer, gone>>

(* Fault: the padding is read once, whatever that returns. *)
ReadPaddingOnce(n) ==
    /\ fpc = "padding" /\ n \in 1..(Record.padding - got) /\ n <= Arriving
    /\ at' = at + n
    /\ TakeRecord(Record)
    /\ UNCHANGED <<packet, received, answer, gone>>

ReadPadding(n) ==
    /\ fpc = "padding" /\ n \in 1..(Record.padding - got) /\ n <= Arriving
    /\ at' = at + n
    /\ LET r == Record IN
       IF got + n < r.padding THEN got' = got + n /\ UNCHANGED <<fpc, stdout_data>>
       ELSE TakeRecord(r)
    /\ UNCHANGED <<packet, received, answer, gone>>

(* read() returns 0 or an error.  With no END_REQUEST what there is counts  *)
(* as the answer; inside the padding the record counts all the same.        *)
ReadEnds ==
    /\ gone' = TRUE
    /\ \/ /\ fpc = "header"
          /\ fpc' = IF stdout_data = <<>> THEN "failed" ELSE "answered"
          /\ UNCHANGED <<got, stdout_data>>
       \/ fpc = "content" /\ fpc' = "failed" /\ UNCHANGED <<got, stdout_data>>
       \/ fpc = "padding" /\ TakeRecord(Record)
    /\ UNCHANGED <<packet, received, answer, at>>

-----------------------------------------------------------------------------
(* What the first n records hold of a stream.                               *)
ContentOf(records, n, type) ==
    FlattenSeq([i \in 1..n |-> IF records[i].type = type THEN records[i].content ELSE <<>>])

(* What the application can put together of a request is what was sent:     *)
(* the parameters and the body, each ended by the one empty record, however *)
(* the writes are cut.                                                      *)
Forwarded(type, content) ==
    /\ ContentOf(received, Len(received), type) = content
    /\ \E last \in 1..Len(received) :
          /\ received[last].type = type
          /\ \A i \in 1..Len(received) : received[i].type = type =>
                i <= last /\ (received[i].content = <<>> <=> i = last)

(* An answer is what the application wrote to stdout, in order and up to    *)
(* its END_REQUEST, with no padding, header or stderr in it and no record   *)
(* in part.  Only if the connection ends first may the rest be missing.     *)
Taken == Max({0} \cup {i \in DOMAIN answer : EndOf(i) - answer[i].padding <= at})
AnswerIntact ==
    fpc = "answered" =>
        /\ stdout_data = ContentOf(answer, Taken, "STDOUT")
        /\ \A i \in 1..(Taken - 1) : answer[i].type # "END_REQUEST"
        /\ Taken > 0 /\ (gone \/ answer[Taken].type = "END_REQUEST")
=============================================================================
