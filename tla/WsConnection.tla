---------------------------- MODULE WsConnection ----------------------------
(***************************************************************************)
(* WsConnection of src/websocket.cpp and the loop of                       *)
(* Worker::handle_websocket around it, which echoes every message.  A      *)
(* frame is sent as two units, its header and the rest; payloads are       *)
(* sequences of letters and the limits are counted in letters.  A header   *)
(* is "ok", or breaks one of the rules that end the connection at once.    *)
(***************************************************************************)
EXTENDS Integers, SequencesExt

CONSTANTS
    Frames,              \* what the client may send: opcode, fin, header, payload
    MaxFrames,           \* bound: frames the client sends
    MaxFrameSize,        \* MAX_FRAME_SIZE
    MaxMessageSize,      \* MAX_MESSAGE_SIZE
    MaxControl           \* the 125 bytes of a PING

VARIABLES
    frames,              \* the frames the client has sent
    read,                \* how many units of them were given to process_input()
    ws,                  \* the members of WsConnection
    replies              \* what the client was sent, in order

wsVars == <<frames, read, ws, replies>>

Opcodes == {"TEXT", "BINARY", "CONTINUATION", "CLOSE", "PING", "PONG", "UNKNOWN"}

ASSUME WsAssumption ==
    /\ Frames \subseteq [opcode : Opcodes, fin : BOOLEAN, header : STRING, payload : Seq(STRING)]
    /\ {MaxFrames, MaxFrameSize, MaxMessageSize, MaxControl} \subseteq Nat

NewConnection ==
    [done |-> 0,         \* units removed from buffer_
     message_buffer_ |-> <<>>, fragment_opcode_ |-> "TEXT", in_fragment_ |-> FALSE,
     closed_ |-> FALSE, close_sent_ |-> FALSE]

WsInit == frames = <<>> /\ read = 0 /\ ws = NewConnection /\ replies = <<>>

Frame(opcode, payload) == [opcode |-> opcode, payload |-> payload]
CloseFrame(code) == Frame("CLOSE", <<code>>)

-----------------------------------------------------------------------------
(* handle_frame() works on s: the connection c, the echoes on_message_      *)
(* writes at once, and the output process_input() returns.                  *)
Close(s, code) == [s EXCEPT !.c.closed_ = TRUE, !.output = Append(@, CloseFrame(code))]
OnMessage(s, opcode, payload) == [s EXCEPT !.echoes = Append(@, Frame(opcode, payload))]

HandleData(s, f) ==
    IF s.c.in_fragment_ THEN Close(s, "PROTOCOL_ERROR")
    ELSE IF f.fin THEN OnMessage(s, f.opcode, f.payload)
    ELSE LET t == [s EXCEPT !.c.in_fragment_ = TRUE, !.c.fragment_opcode_ = f.opcode,
                            !.c.message_buffer_ = f.payload]
         IN  IF Len(f.payload) > MaxMessageSize THEN Close(t, "TOO_BIG") ELSE t

(* Fault: the end of a fragmented message is not noted. *)
HandleContinuationNoEnd(s, f) ==
    LET m == s.c.message_buffer_ \o f.payload
        t == [s EXCEPT !.c.message_buffer_ = m]
    IN  IF ~s.c.in_fragment_ THEN Close(s, "PROTOCOL_ERROR")
        ELSE IF Len(m) > MaxMessageSize THEN Close(t, "TOO_BIG")
        ELSE IF f.fin THEN OnMessage(t, s.c.fragment_opcode_, m) ELSE t

HandleContinuation(s, f) ==
    LET m == s.c.message_buffer_ \o f.payload
        t == [s EXCEPT !.c.message_buffer_ = m]
    IN  IF ~s.c.in_fragment_ THEN Close(s, "PROTOCOL_ERROR")
        ELSE IF Len(m) > MaxMessageSize THEN Close(t, "TOO_BIG")
        ELSE IF f.fin
        THEN OnMessage([t EXCEPT !.c.in_fragment_ = FALSE, !.c.message_buffer_ = <<>>],
                       s.c.fragment_opcode_, m)
        ELSE t

(* The code of the client's close is sent back, NO_STATUS if it has none.   *)
HandleClose(s, f) ==
    LET code == IF f.payload = <<>> THEN "NO_STATUS" ELSE Head(f.payload)
    IN  IF s.c.close_sent_ THEN [s EXCEPT !.c.closed_ = TRUE]
        ELSE [Close(s, code) EXCEPT !.c.close_sent_ = TRUE]

HandlePing(s, f) ==
    IF Len(f.payload) > MaxControl THEN Close(s, "PROTOCOL_ERROR")
    ELSE [s EXCEPT !.output = Append(@, Frame("PONG", f.payload))]

HandleFrame(s, f) ==
    CASE f.opcode \in {"TEXT", "BINARY"} -> HandleData(s, f)
      [] f.opcode = "CONTINUATION" -> HandleContinuation(s, f)
      [] f.opcode = "CLOSE" -> HandleClose(s, f)
      [] f.opcode = "PING" -> HandlePing(s, f)
      [] f.opcode = "PONG" -> s
      [] OTHER -> Close(s, "PROTOCOL_ERROR")

(* What parse_frame() refuses as soon as it has the header.                 *)
HeaderRefused(f) == f.header \in {"rsv", "msb", "unmasked"} \/ Len(f.payload) > MaxFrameSize

(* One turn of the loop of process_input().  Nothing is removed from        *)
(* buffer_ when the header is refused or the frame is not there in full.    *)
Turn(s, upto) ==
    LET f == frames[s.c.done \div 2 + 1]
    IN  IF s.c.closed_ \/ s.c.done >= upto THEN s
        ELSE IF HeaderRefused(f) THEN [s EXCEPT !.c.closed_ = TRUE]
        ELSE IF s.c.done + 2 > upto THEN s
        ELSE HandleFrame([s EXCEPT !.c.done = @ + 2], f)

(* The loop; it has come to its end after as many turns as frames.          *)
Turns(c, upto) ==
    LET after[i \in 0..(Len(frames) + 1)] ==
            IF i = 0 THEN [c |-> c, echoes |-> <<>>, output |-> <<>>] ELSE Turn(after[i - 1], upto)
    IN  after[Len(frames) + 1]

ClientSends(f) ==
    /\ Len(frames) < MaxFrames
    /\ frames' = Append(frames, f)
    /\ UNCHANGED <<read, ws, replies>>

(* A read returns n units and process_input() takes them.  The echoes are   *)
(* on their way before what it returns is written.                          *)
ProcessInput(n) ==
    /\ ~ws.closed_
    /\ read + n <= 2 * Len(frames)
    /\ read' = read + n
    /\ LET s == Turns(ws, read') IN ws' = s.c /\ replies' = replies \o s.echoes \o s.output
    /\ UNCHANGED frames

-----------------------------------------------------------------------------
(* Reference: the frames received in full, as far as none of them ends the  *)
(* connection.  Frame i belongs to a message that an earlier frame began    *)
(* if the data frame before it was not final.                               *)
Control == {"CLOSE", "PING", "PONG"}
Received == read \div 2
DataBefore(i) == {j \in 1..(i - 1) : frames[j].opcode \notin Control}
InMessage(i) == DataBefore(i) # {} /\ ~frames[Max(DataBefore(i))].fin
FirstOf(i) == Max({j \in 1..i : frames[j].opcode \notin Control /\ ~InMessage(j)})
DataFrom(b, i) ==
    FlattenSeq([j \in 1..i |-> IF j >= b /\ frames[j].opcode \notin Control
                               THEN frames[j].payload ELSE <<>>])
MessageUpTo(i) == DataFrom(FirstOf(i), i)

Ends(i) ==
    LET f == frames[i] IN
    \/ HeaderRefused(f)
    \/ f.opcode \in {"CLOSE", "UNKNOWN"}
    \/ f.opcode = "PING" /\ Len(f.payload) > MaxControl
    \/ f.opcode \in {"TEXT", "BINARY"} /\ (InMessage(i) \/ (~f.fin /\ Len(f.payload) > MaxMessageSize))
    \/ f.opcode = "CONTINUATION" /\ (~InMessage(i) \/ Len(MessageUpTo(i)) > MaxMessageSize)
Kept == Min({i - 1 : i \in {j \in 1..Received : Ends(j)}} \cup {Received})

Chosen(list, opcodes) ==
    FlattenSeq([i \in DOMAIN list |-> IF list[i].opcode \in opcodes THEN <<list[i]>> ELSE <<>>])
Sent(opcodes) == Chosen(replies, opcodes)

(* The echoes are the messages the client sent, each whole and with its     *)
(* own type, in order: however the reads cut the stream, and with control   *)
(* frames between the fragments.                                            *)
Messages(n) ==
    FlattenSeq([i \in 1..n |-> IF frames[i].opcode \notin Control /\ frames[i].fin
                               THEN <<Frame(frames[FirstOf(i)].opcode, MessageUpTo(i))>> ELSE <<>>])
MessagesIntact == Sent({"TEXT", "BINARY"}) = Messages(Kept)

(* Every PING is answered with its payload, in order, until the end.        *)
Pongs(n) ==
    FlattenSeq([i \in 1..n |-> IF frames[i].opcode = "PING"
                               THEN <<Frame("PONG", frames[i].payload)>> ELSE <<>>])
PingsAnswered == Sent({"PONG"}) = Pongs(Kept)

(* A close frame is the last thing sent, there is at most one, and it is    *)
(* sent exactly when a frame received in full ended the connection.         *)
CloseIsLast ==
    /\ \A i \in DOMAIN replies : replies[i].opcode = "CLOSE" => i = Len(replies) /\ ws.closed_
    /\ ws.closed_ /\ Kept < Received /\ ~HeaderRefused(frames[Kept + 1]) =>
           Sent({"CLOSE"}) # <<>>

(* Wherever the reads cut the frames, messages are echoed whole, pings are  *)
(* answered between their fragments, and nothing follows a close.           *)
AnsweredInOrder == MessagesIntact /\ PingsAnswered /\ CloseIsLast
=============================================================================
