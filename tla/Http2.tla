-------------------------------- MODULE Http2 --------------------------------
(***************************************************************************)
(* Http2Connection and HPACKDecoder of src/http2.cpp, at the server's end  *)
(* of one connection, and the client at the other end.  The client speaks  *)
(* HTTP/2 as RFC 9113 and RFC 7541 allow, and may also send a frame that   *)
(* the handlers refuse.  inbox holds the frames that have been sent and    *)
(* not yet parsed: bytes arrive in any pieces, but parse_frame waits for   *)
(* whole frames.  out is everything process_input has returned.            *)
(*                                                                         *)
(* A header block is a sequence of HPACK instructions, a payload of DATA a *)
(* sequence of pieces of 16384 bytes.  Huffman coding, the static table    *)
(* and the pseudo-headers are data and left out: a field that does not     *)
(* touch the dynamic table is a "plain" one.                               *)
(***************************************************************************)
EXTENDS Integers, SequencesExt

CONSTANTS
    Streams,          \* stream identifiers the client opens, odd and positive
    Fields, Names,    \* header fields and their names
    NameOf, SizeOf,   \* [Fields -> Names], [Fields -> Nat]: entry size in the table
    NoField,
    TableSize,        \* HPACK table size both ends start with (4096)
    StreamWindow,     \* the windows the server grants: INITIAL_WINDOW_SIZE and
    ConnWindow,       \*   the connection's (both 65535), in pieces
    Announced,        \* settings the client may send: [id, value]
    ResponseSizes,    \* sizes of response bodies, in pieces
    MaxInstructions,  \* bound: instructions in one header block
    MaxFrames,        \* bound: frames the client sends, and how many of them are
    MaxControl,       \*   other than HEADERS in one piece and DATA
    MaxInFlight       \* bound: frames the server has not parsed yet

VARIABLES
    inbox,
    preface_received_, goaway_sent_, last_stream_id_, connection_window_,
    streams_,         \* partial function: stream identifier -> H2Stream
    settings,         \* the four settings a client may change
    decoder,          \* [table, max]: dynamic_table_ and max_dynamic_table_size_
    out,
    handled,          \* history: the requests given to handler_
    client            \* the peer's own state

h2Vars == <<preface_received_, goaway_sent_, last_stream_id_, connection_window_,
            streams_, settings, decoder, out, handled>>
vars == <<h2Vars, inbox, client>>

ASSUME Http2Assumption ==
    /\ Streams \subseteq Nat \ {0}
    /\ NameOf \in [Fields -> Names] /\ SizeOf \in [Fields -> Nat \ {0}]
    /\ NoField \notin Fields
    /\ {TableSize, StreamWindow, ConnWindow} \subseteq Nat
    /\ ResponseSizes \subseteq Nat
    /\ Announced \subseteq [id : {"HEADER_TABLE_SIZE", "MAX_CONCURRENT_STREAMS",
                                  "INITIAL_WINDOW_SIZE", "MAX_FRAME_SIZE"}, value : Nat]
    /\ \A a \in Announced : a.id = "MAX_FRAME_SIZE" => a.value > 0

-----------------------------------------------------------------------------
(* The sum of a sequence of numbers.                                        *)
Total(sizes) ==
    LET upTo[n \in 0..Len(sizes)] == IF n = 0 THEN 0 ELSE upTo[n - 1] + sizes[n]
    IN  upTo[Len(sizes)]

(* HPACK.  Newest entry first, as dynamic_table_ has it.                    *)
TableBytes(t) == Total([k \in 1..Len(t) |-> SizeOf[t[k]]])

(* What remains when entries are dropped from the end until n bytes fit.    *)
Evicted(t, n) ==
    LET fits == {k \in 0..Len(t) : TableBytes(SubSeq(t, 1, k)) <= n}
    IN  SubSeq(t, 1, Max(fits \cup {0}))

SetMaxTableSize(d, n) == [table |-> Evicted(d.table, n), max |-> n]

(* Fault: >= for > in the eviction loop. *)
AddEvictsTooMuch(d, f) ==
    LET kept == Evicted(d.table, d.max - SizeOf[f] - 1)
    IN  [d EXCEPT !.table = IF SizeOf[f] <= d.max THEN <<f>> \o kept ELSE kept]

AddToDynamicTable(d, f) ==
    LET kept == Evicted(d.table, d.max - SizeOf[f])
    IN  [d EXCEPT !.table = IF SizeOf[f] <= d.max THEN <<f>> \o kept ELSE kept]

(* Fault: a literal without indexing enters the table as well. *)
DecodeIndexesAll(r, i) ==
    IF ~r.ok THEN r
    ELSE CASE i.op = "index" ->
                IF i.arg <= Len(r.d.table)
                THEN [r EXCEPT !.fields = Append(@, r.d.table[i.arg])]
                ELSE [r EXCEPT !.ok = FALSE]
           [] i.op \in {"literal", "plain"} ->
                [r EXCEPT !.fields = Append(@, i.arg), !.d = AddToDynamicTable(@, i.arg)]
           [] i.op = "resize" -> [r EXCEPT !.d = SetMaxTableSize(@, i.arg)]

(* decode: the fields of a block, in order; ok becomes FALSE at an index    *)
(* that lookup does not find, where decode returns nullopt.                 *)
DecodeOne(r, i) ==
    IF ~r.ok THEN r
    ELSE CASE i.op = "index" ->
                IF i.arg <= Len(r.d.table)
                THEN [r EXCEPT !.fields = Append(@, r.d.table[i.arg])]
                ELSE [r EXCEPT !.ok = FALSE]
           [] i.op = "literal" ->
                [r EXCEPT !.fields = Append(@, i.arg), !.d = AddToDynamicTable(@, i.arg)]
           [] i.op = "resize" -> [r EXCEPT !.d = SetMaxTableSize(@, i.arg)]
           [] i.op = "plain" -> [r EXCEPT !.fields = Append(@, i.arg)]

Decode(d, block) ==
    LET after[k \in 0..Len(block)] == IF k = 0 THEN [ok |-> TRUE, d |-> d, fields |-> <<>>]
                                      ELSE DecodeOne(after[k - 1], block[k])
    IN  after[Len(block)]

(* request.headers[name] = value for every field in turn: the last one wins. *)
WithFields(headers, fields) ==
    LET after[k \in 0..Len(fields)] == IF k = 0 THEN headers
                                       ELSE [after[k - 1] EXCEPT ![NameOf[fields[k]]] = fields[k]]
    IN  after[Len(fields)]

NoHeaders == [n \in Names |-> NoField]

-----------------------------------------------------------------------------
(* Frames the server builds.                                                *)

(* Fault: the last stream is not reported. *)
GoawayWithoutLast(last) == [type |-> "goaway", sid |-> 0, last |-> 0]

Goaway(last) == [type |-> "goaway", sid |-> 0, last |-> last]

SettingsFrame(ack) == [type |-> "settings", sid |-> 0, ack |-> ack]

WindowUpdate(sid, n) == [type |-> "window_update", sid |-> sid, inc |-> n]

(* build_headers_response: HEADERS, then the body in DATA frames of at most *)
(* max_frame_size_, END_STREAM on the last frame.                           *)
Response(sid, size) ==
    LET max == settings.MAX_FRAME_SIZE
        n == (size + max - 1) \div max
    IN  <<[type |-> "headers", sid |-> sid, end_stream |-> size = 0]>> \o
        [k \in 1..n |-> [type |-> "data", sid |-> sid,
                         len |-> IF k < n THEN max ELSE size - (n - 1) * max,
                         end_stream |-> k = n]]

Emit(frames) == out' = out \o frames

(* build_goaway: the connection is over.                                    *)
FailWith(last) ==
    /\ goaway_sent_' = TRUE
    /\ Emit(<<Goaway(last)>>)

Fail == FailWith(last_stream_id_)

(* get_or_create_stream                                                     *)
NewStream ==
    [state |-> "IDLE", window_size |-> settings.INITIAL_WINDOW_SIZE,
     header_block |-> <<>>, headers |-> NoHeaders, body |-> <<>>,
     headers_complete |-> FALSE]

GetOrCreateStream(sid) == IF sid \in DOMAIN streams_ THEN streams_[sid] ELSE NewStream

LastStreamId(sid) == IF sid \in DOMAIN streams_ THEN last_stream_id_
                                                 ELSE Max({last_stream_id_, sid})

SetStream(sid, s) ==
    streams_' = [x \in DOMAIN streams_ \cup {sid} |-> IF x = sid THEN s ELSE streams_[x]]

(* handler_(stream.request), and the response it returns.                   *)
Handle(sid, s) ==
    /\ handled' = Append(handled, [sid |-> sid, headers |-> s.headers, body |-> s.body])
    /\ \E size \in ResponseSizes : Emit(Response(sid, size))

-----------------------------------------------------------------------------
(* process_input.  Parsing stops at GOAWAY, and for good at a frame longer  *)
(* than max_frame_size_, which parse_frame leaves in the buffer.            *)
Fits(f) == f.type = "data" => Len(f.payload) <= settings.MAX_FRAME_SIZE

Parse(type) ==
    /\ preface_received_ /\ ~goaway_sent_
    /\ inbox # <<>> /\ Head(inbox).type = type /\ Fits(Head(inbox))
    /\ inbox' = Tail(inbox)
    /\ UNCHANGED <<client, preface_received_>>

ReceivePreface ==
    /\ ~preface_received_ /\ ~goaway_sent_
    /\ inbox # <<>> /\ Head(inbox).type = "preface"
    /\ IF Head(inbox).bad
       THEN /\ Fail
            /\ UNCHANGED <<inbox, preface_received_>>
       ELSE /\ inbox' = Tail(inbox)
            /\ preface_received_' = TRUE
            /\ Emit(<<SettingsFrame(FALSE)>>)
            /\ UNCHANGED goaway_sent_
    /\ UNCHANGED <<last_stream_id_, connection_window_, streams_, settings, decoder,
                   handled, client>>

(* A frame of the wrong size, or a value out of range, ends the connection; *)
(* a table size is applied to the decoder at once.                          *)
HandleSettings ==
    LET f == Head(inbox) IN
    /\ Parse("settings")
    /\ CASE f.ack -> UNCHANGED <<settings, decoder, goaway_sent_, out>>
         [] ~f.ack /\ f.bad -> Fail /\ UNCHANGED <<settings, decoder>>
         [] ~f.ack /\ ~f.bad ->
              /\ settings' = [settings EXCEPT ![f.id] = f.value]
              /\ decoder' = IF f.id = "HEADER_TABLE_SIZE"
                            THEN SetMaxTableSize(decoder, f.value) ELSE decoder
              /\ Emit(<<SettingsFrame(TRUE)>>)
              /\ UNCHANGED goaway_sent_
    /\ UNCHANGED <<last_stream_id_, connection_window_, streams_, handled>>

(* HEADERS on stream 0. *)
HeadersOnStreamZero ==
    /\ Parse("headers")
    /\ Head(inbox).sid = 0
    /\ Fail
    /\ UNCHANGED <<last_stream_id_, connection_window_, streams_, settings, decoder, handled>>

(* Every other HEADERS frame creates its stream, s being what it becomes.   *)
HeadersFor(s) ==
    /\ Parse("headers")
    /\ Head(inbox).sid # 0
    /\ last_stream_id_' = LastStreamId(Head(inbox).sid)
    /\ SetStream(Head(inbox).sid, s)
    /\ UNCHANGED <<connection_window_, settings>>

(* Padding longer than the frame. *)
HeadersBadPadding ==
    /\ HeadersFor(GetOrCreateStream(Head(inbox).sid))
    /\ Head(inbox).bad
    /\ FailWith(last_stream_id_')
    /\ UNCHANGED <<decoder, handled>>

(* The block so far, with this frame's fragment, and what it decodes to.    *)
Accumulated ==
    [GetOrCreateStream(Head(inbox).sid) EXCEPT !.header_block = @ \o Head(inbox).block]
Decoded == Decode(decoder, Accumulated.header_block)

(* No END_HEADERS: the fragment is kept. *)
HeadersFragment ==
    /\ HeadersFor(Accumulated)
    /\ ~Head(inbox).bad /\ ~Head(inbox).end_headers
    /\ UNCHANGED <<decoder, handled, goaway_sent_, out>>

HeadersUndecodable ==
    /\ HeadersFor(Accumulated)
    /\ ~Head(inbox).bad /\ Head(inbox).end_headers /\ ~Decoded.ok
    /\ decoder' = Decoded.d
    /\ FailWith(last_stream_id_')
    /\ UNCHANGED handled

(* The fields join the request; with END_STREAM it is handled at once.      *)
HeadersComplete ==
    LET f == Head(inbox)
        s == [Accumulated EXCEPT
                !.headers = WithFields(@, Decoded.fields), !.header_block = <<>>,
                !.headers_complete = TRUE,
                !.state = IF f.end_stream THEN "HALF_CLOSED_REMOTE" ELSE "OPEN"]
    IN
    /\ HeadersFor(s)
    /\ ~f.bad /\ f.end_headers /\ Decoded.ok
    /\ decoder' = Decoded.d
    /\ IF f.end_stream THEN Handle(f.sid, s) ELSE UNCHANGED <<handled, out>>
    /\ UNCHANGED goaway_sent_

HandleHeaders ==
    \/ HeadersOnStreamZero
    \/ HeadersBadPadding
    \/ HeadersFragment
    \/ HeadersUndecodable
    \/ HeadersComplete

DataOnUnknownStream ==
    /\ Parse("data")
    /\ Head(inbox).sid \notin DOMAIN streams_
    /\ Fail
    /\ UNCHANGED <<last_stream_id_, connection_window_, streams_, settings, decoder, handled>>

(* The whole payload joins the body: handle_data does not look at PADDED.   *)
WithBody(f) ==
    [streams_[f.sid] EXCEPT
        !.body = @ \o f.payload,
        !.state = IF f.end_stream THEN "HALF_CLOSED_REMOTE" ELSE @]

DataFor(f) ==
    /\ Parse("data")
    /\ f.sid \in DOMAIN streams_
    /\ SetStream(f.sid, WithBody(f))
    /\ UNCHANGED <<goaway_sent_, last_stream_id_, connection_window_, settings, decoder>>

Completes(f) == f.end_stream /\ streams_[f.sid].headers_complete

(* The last DATA of a request: handle_data returns with the response.       *)
DataCompletes ==
    LET f == Head(inbox) IN
    /\ DataFor(f)
    /\ Completes(f)
    /\ Handle(f.sid, WithBody(f))

(* Fault: only the connection gets its credit back. *)
DataCreditsConnection ==
    LET f == Head(inbox)
        n == Len(f.payload)
    IN
    /\ DataFor(f)
    /\ ~Completes(f)
    /\ Emit(IF n > 0 THEN <<WindowUpdate(0, n)>> ELSE <<>>)
    /\ UNCHANGED handled

(* Any other DATA: its credit is given back, for connection and stream.     *)
DataContinues ==
    LET f == Head(inbox)
        n == Len(f.payload)
    IN
    /\ DataFor(f)
    /\ ~Completes(f)
    /\ Emit(IF n > 0 THEN <<WindowUpdate(0, n), WindowUpdate(f.sid, n)>> ELSE <<>>)
    /\ UNCHANGED handled

HandleData ==
    \/ DataOnUnknownStream
    \/ DataCompletes
    \/ DataContinues

(* An increment of zero, or a frame that is not four bytes long, is refused. *)
HandleWindowUpdate ==
    LET f == Head(inbox) IN
    /\ Parse("window_update")
    /\ IF f.inc = 0
       THEN Fail /\ UNCHANGED <<connection_window_, streams_>>
       ELSE /\ connection_window_' = IF f.sid = 0 THEN connection_window_ + f.inc
                                                  ELSE connection_window_
            /\ streams_' = IF f.sid \in DOMAIN streams_
                           THEN [streams_ EXCEPT ![f.sid].window_size = @ + f.inc]
                           ELSE streams_
            /\ UNCHANGED <<goaway_sent_, out>>
    /\ UNCHANGED <<last_stream_id_, settings, decoder, handled>>

HandlePing ==
    LET f == Head(inbox) IN
    /\ Parse("ping")
    /\ IF f.bad
       THEN Fail
       ELSE /\ Emit(IF f.ack THEN <<>> ELSE <<[type |-> "ping", sid |-> 0, id |-> f.id]>>)
            /\ UNCHANGED goaway_sent_
    /\ UNCHANGED <<last_stream_id_, connection_window_, streams_, settings, decoder, handled>>

(* The client's GOAWAY marks the connection as closed, without an answer.   *)
HandleGoaway ==
    /\ Parse("goaway")
    /\ goaway_sent_' = TRUE
    /\ UNCHANGED <<last_stream_id_, connection_window_, streams_, settings, decoder,
                   out, handled>>

(* RST_STREAM, PRIORITY and every type without a handler, CONTINUATION too. *)
IgnoreFrame ==
    /\ \E t \in {"rst_stream", "continuation"} : Parse(t)
    /\ UNCHANGED <<goaway_sent_, last_stream_id_, connection_window_, streams_, settings,
                   decoder, out, handled>>

ServerStep ==
    \/ ReceivePreface
    \/ HandleSettings
    \/ HandleHeaders
    \/ HandleData
    \/ HandleWindowUpdate
    \/ HandlePing
    \/ HandleGoaway
    \/ IgnoreFrame

-----------------------------------------------------------------------------
(* The client.  It encodes with a table of its own, opens streams in        *)
(* ascending order, sends DATA within the credit it has, padded or not, and *)
(* after HEADERS without END_HEADERS only CONTINUATION.  sent is what it    *)
(* said on each stream: the fields in order, the payloads of DATA.          *)
Idle == [phase |-> "idle", fields |-> <<>>, body |-> <<>>]

(* 16384 bytes of a payload: data, in a padded frame with the Pad Length    *)
(* octet in front of it and the padding behind.                             *)
Piece(data, padded) == [data |-> data, padded |-> padded]

ClientInit ==
    [table |-> <<>>, max |-> TableSize, frames |-> 0, control |-> 0, pings |-> 0,
     sent |-> [s \in Streams |-> Idle], continuing |-> 0, derailed |-> FALSE]

Instructions ==
    [op : {"index"}, arg : 1..TableSize] \cup [op : {"literal", "plain"}, arg : Fields]
        \cup [op : {"resize"}, arg : 0..TableSize]

(* RFC 7541: an entry is inserted in front, then as many as fit remain.     *)
EncodeOne(r, i) ==
    CASE i.op = "index" -> [r EXCEPT !.fields = Append(@, r.table[i.arg])]
      [] i.op = "literal" -> [r EXCEPT !.fields = Append(@, i.arg),
                                       !.table = Evicted(<<i.arg>> \o @, r.max)]
      [] i.op = "resize" -> [r EXCEPT !.table = Evicted(@, i.arg), !.max = i.arg]
      [] i.op = "plain" -> [r EXCEPT !.fields = Append(@, i.arg)]

(* An encoder with this table after each instruction of the block.          *)
Encoding(table, max, block) ==
    LET after[k \in 0..Len(block)] == IF k = 0 THEN [table |-> table, max |-> max, fields |-> <<>>]
                                      ELSE EncodeOne(after[k - 1], block[k])
    IN  after

Encode(block) == Encoding(client.table, client.max, block)[Len(block)]

(* Blocks whose indices exist when they are reached, resizes in front.      *)
Encodable(table, max, block) ==
    \A k \in 1..Len(block) :
        /\ block[k].op = "resize" => k = 1
        /\ block[k].op = "index" => block[k].arg <= Len(Encoding(table, max, block)[k - 1].table)

Blocks == {b \in BoundedSeq(Instructions, MaxInstructions) :
              b # <<>> /\ Encodable(client.table, client.max, b)}

(* Credit: what the server granted less what was sent.                      *)
Granted(sid) ==
    Total([k \in 1..Len(out) |->
              IF out[k].type = "window_update" /\ out[k].sid = sid THEN out[k].inc ELSE 0])
StreamCredit(s) == StreamWindow + Granted(s) - Len(client.sent[s].body)
ConnCredit ==
    ConnWindow + Granted(0)
        - FoldLeft(LAMBDA n, s : n + Len(client.sent[s].body), 0, SetToSeq(Streams))

Ready ==
    /\ client.frames < MaxFrames
    /\ Len(inbox) < MaxInFlight
    /\ \A k \in 1..Len(out) : out[k].type # "goaway"

Post(f, c) ==
    /\ Ready
    /\ inbox' = Append(inbox, f)
    /\ client' = [c EXCEPT !.frames = @ + 1]
    /\ UNCHANGED h2Vars

PostControl(f, c) ==
    /\ client.continuing = 0
    /\ client.control < MaxControl
    /\ Post(f, [c EXCEPT !.control = @ + 1])

(* HEADERS that open a stream, or carry the trailers of an open one.        *)
HeadersOf(s, block, end_stream, end_headers) ==
    [type |-> "headers", sid |-> s, block |-> block, end_stream |-> end_stream,
     end_headers |-> end_headers, bad |-> FALSE]

Saying(s, block, end_stream) ==
    [client EXCEPT !.table = Encode(block).table, !.max = Encode(block).max,
                   !.sent[s].fields = @ \o Encode(block).fields,
                   !.sent[s].phase = IF end_stream THEN "done" ELSE "open"]

MaySendHeaders(s, end_stream) ==
    \/ /\ client.sent[s].phase = "idle"
       /\ \A t \in Streams : t > s => client.sent[t].phase = "idle"
    \/ client.sent[s].phase = "open" /\ end_stream

SendHeaders(s) ==
    /\ client.continuing = 0
    /\ \E block \in Blocks, end_stream \in BOOLEAN :
        /\ MaySendHeaders(s, end_stream)
        /\ Post(HeadersOf(s, block, end_stream, TRUE), Saying(s, block, end_stream))

(* The same block, its end in a CONTINUATION frame.                         *)
SendSplitHeaders(s) ==
    \E block \in Blocks, end_stream \in BOOLEAN :
        /\ MaySendHeaders(s, end_stream)
        /\ PostControl(HeadersOf(s, block, end_stream, FALSE),
                       [Saying(s, block, end_stream) EXCEPT !.continuing = s, !.derailed = TRUE])

SendContinuation ==
    /\ client.continuing # 0
    /\ Post([type |-> "continuation", sid |-> client.continuing],
            [client EXCEPT !.continuing = 0])

SendData(s) ==
    /\ client.continuing = 0
    /\ client.sent[s].phase = "open"
    /\ \E payload \in {<<>>} \cup {<<Piece(client.frames, padded)>> : padded \in BOOLEAN},
         end_stream \in BOOLEAN :
        /\ Len(payload) <= StreamCredit(s) /\ Len(payload) <= ConnCredit
        /\ Post([type |-> "data", sid |-> s, payload |-> payload, end_stream |-> end_stream],
                [client EXCEPT !.sent[s].body = @ \o payload,
                               !.sent[s].phase = IF end_stream THEN "done" ELSE "open"])

(* A table size below the one the encoder uses only concerns the server's   *)
(* encoder; the code applies it to its decoder.                             *)
SendSettings ==
    \E a \in Announced :
        PostControl([type |-> "settings", id |-> a.id, value |-> a.value, ack |-> FALSE, bad |-> FALSE],
                    [client EXCEPT !.derailed = @ \/ (a.id = "HEADER_TABLE_SIZE" /\ a.value < client.max)])

SendReset(s) ==
    /\ client.sent[s].phase = "open"
    /\ PostControl([type |-> "rst_stream", sid |-> s], [client EXCEPT !.sent[s].phase = "reset"])

SendPing ==
    PostControl([type |-> "ping", id |-> client.pings + 1, ack |-> FALSE, bad |-> FALSE],
                [client EXCEPT !.pings = @ + 1])

(* Acknowledgements, credit for responses, GOAWAY, and frames the handlers  *)
(* refuse or never finish parsing.                                          *)
Others ==
    {[type |-> "settings", ack |-> TRUE, bad |-> FALSE],
     [type |-> "settings", ack |-> FALSE, bad |-> TRUE],
     [type |-> "ping", ack |-> TRUE, bad |-> FALSE],
     [type |-> "ping", ack |-> FALSE, bad |-> TRUE],
     [type |-> "goaway"],
     [type |-> "headers", sid |-> 0, block |-> <<>>, end_stream |-> TRUE,
      end_headers |-> TRUE, bad |-> FALSE],
     [type |-> "data", sid |-> 0, payload |-> <<Piece(0, FALSE)>>, end_stream |-> TRUE],
     [type |-> "data", sid |-> 0, payload |-> [k \in 1..3 |-> Piece(0, FALSE)], end_stream |-> TRUE]}
    \cup [type : {"window_update"}, sid : Streams \cup {0}, inc : {0, 1}]
    \cup [type : {"headers"}, sid : Streams, block : {<<>>}, end_stream : {TRUE},
          end_headers : {TRUE}, bad : {TRUE}]

SendOther == \E f \in Others : PostControl(f, client)

ClientStep ==
    \/ \E s \in Streams : SendHeaders(s) \/ SendSplitHeaders(s) \/ SendData(s) \/ SendReset(s)
    \/ SendContinuation
    \/ SendSettings
    \/ SendPing
    \/ SendOther

-----------------------------------------------------------------------------
Init ==
    /\ \E bad \in BOOLEAN : inbox = <<[type |-> "preface", bad |-> bad]>>
    /\ preface_received_ = FALSE /\ goaway_sent_ = FALSE
    /\ last_stream_id_ = 0
    /\ connection_window_ = ConnWindow
    /\ streams_ = <<>>
    /\ settings = [HEADER_TABLE_SIZE |-> TableSize, MAX_CONCURRENT_STREAMS |-> 100,
                   INITIAL_WINDOW_SIZE |-> StreamWindow, MAX_FRAME_SIZE |-> 1]
    /\ decoder = [table |-> <<>>, max |-> TableSize]
    /\ out = <<>> /\ handled = <<>>
    /\ client = ClientInit

Next == ServerStep \/ ClientStep

Spec == Init /\ [][Next]_vars

-----------------------------------------------------------------------------
Quiet == preface_received_ /\ inbox = <<>> /\ ~goaway_sent_
HandledAt(s) == {k \in 1..Len(handled) : handled[k].sid = s}

(* Types, and the dynamic table within its size (dynamic_table_size_ is     *)
(* unsigned: it must not be left above the maximum by a resize).            *)
TypeOK ==
    /\ {preface_received_, goaway_sent_, client.derailed} \subseteq BOOLEAN
    /\ DOMAIN streams_ \subseteq Streams
    /\ last_stream_id_ \in {0} \cup Streams
    /\ decoder.table \in Seq(Fields)
    /\ TableBytes(decoder.table) <= decoder.max
    /\ connection_window_ \in Nat

(* The decoder's table is the encoder's, or longer, whenever everything     *)
(* sent has been parsed.                                                    *)
TablesAgree ==
    Quiet /\ ~client.derailed => IsPrefix(client.table, decoder.table)

(* headers has of every name the last of the fields with it, and nothing    *)
(* of a name that is not among them.                                        *)
LastOfEach(headers, fields) ==
    \A n \in Names :
        \/ /\ headers[n] = NoField
           /\ \A k \in 1..Len(fields) : NameOf[fields[k]] # n
        \/ \E k \in 1..Len(fields) :
              /\ NameOf[fields[k]] = n
              /\ headers[n] = fields[k]
              /\ \A j \in 1..Len(fields) : j > k => NameOf[fields[j]] # n

(* handler_ sees the request the client sent: of each name the last field,  *)
(* decoded through the table the streams share (a field followed by another *)
(* of its name is lost, http2.cpp:962), and for a body the payloads of the  *)
(* stream's DATA frames, which interleave with other streams.               *)
RequestsIntact ==
    ~client.derailed =>
        \A k \in 1..Len(handled) :
            LET h == handled[k] IN
            /\ LastOfEach(h.headers, client.sent[h.sid].fields)
            /\ h.body = client.sent[h.sid].body

(* "HTTP/2 Frame Types (RFC 7540 Section 6)", "PADDED = 0x8" (http2.hpp:15, *)
(* 51): Pad Length and padding of a DATA frame are no part of the body.     *)
BodyIsData ==
    \A k \in 1..Len(handled) :
        \A i \in 1..Len(handled[k].body) : ~handled[k].body[i].padded

(* No request is handled twice, and every request sent in full is handled.  *)
AnsweredOnce ==
    \A s \in Streams :
        /\ \A j, k \in HandledAt(s) : j = k
        /\ Quiet /\ ~client.derailed /\ client.sent[s].phase = "done" => HandledAt(s) # {}

(* The handler is called for each request the client has sent, once and     *)
(* with its fields and payloads, however the frames of the streams are      *)
(* interleaved.                                                             *)
RequestsHandled == TypeOK /\ RequestsIntact /\ AnsweredOnce

(* Each stream's answer: one HEADERS, then DATA, END_STREAM on the last     *)
(* frame and only there, nothing on a stream whose request is not handled.  *)
AnswerAt(s) == {k \in 1..Len(out) : out[k].sid = s /\ out[k].type # "window_update"}
ResponsesFramed ==
    \A s \in Streams :
        /\ HandledAt(s) # {} <=> AnswerAt(s) # {}
        /\ \A k \in AnswerAt(s) :
              /\ out[k].type = "headers" <=> \A j \in AnswerAt(s) : k <= j
              /\ out[k].end_stream <=> \A j \in AnswerAt(s) : j <= k

(* GOAWAY is the last frame, and names a stream no lower than any request   *)
(* handled: a client may repeat the requests above it.                      *)
GoawayIsLast ==
    \A k \in 1..Len(out) :
        out[k].type = "goaway" =>
            /\ k = Len(out)
            /\ \A h \in 1..Len(handled) : handled[h].sid <= out[k].last

(* What the connection writes is framed so that the client can tell which   *)
(* requests were answered, where each answer ends and which to repeat.      *)
OutputSound == ResponsesFramed /\ GoawayIsLast

(* A client in the middle of a body gets all the stream's credit back.      *)
StreamCreditReturned ==
    \A s \in Streams :
        Quiet /\ client.sent[s].phase = "open" => StreamCredit(s) = StreamWindow
=============================================================================
