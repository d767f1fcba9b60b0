------------------------------ MODULE Exchange ------------------------------
(***************************************************************************)
(* One HTTP/1.1 exchange of a worker, from the first byte read to the      *)
(* answer: the parser, the inspection of the request, and behind them the  *)
(* WebSocket for an upgrade, the FastCGI client for a PHP page, a static   *)
(* file, or a response made in the server.  The rate limit that lies       *)
(* between is in module Worker.                                            *)
(***************************************************************************)
EXTENDS HttpParser, Waf, WsConnection, FastCGIClient, FileHandler

CONSTANTS UpgradeNeeds     \* what is_upgrade_request() looks for in a request

ASSUME SignsAssumption ==
    \A r \in Requests :
        /\ {r.signs.malformed_uri, r.signs.blocked_ua} \subseteq BOOLEAN
        /\ r.signs.headers \in Seq(SUBSET DOMAIN HeaderScore)
        /\ {r.signs.path, r.signs.query} \subseteq Seq(STRING)

VARIABLES
    xpc,                   \* "read", "inspect", "php", "websocket", "file", "closed"
    verdict                \* of the inspection

vars == <<parserVars, wsVars, fcgiVars, fileVars, xpc, verdict>>

Init == ParserInit /\ WsInit /\ FcgiInit /\ FileInit /\ xpc = "read" /\ verdict = "none"

IsUpgradeRequest(r) == UpgradeNeeds \subseteq r.has

(* The worker reads until the parser has decided.                           *)
Read(cut) ==
    /\ xpc = "read"
    /\ Feed(cut)
    /\ xpc' = IF parser'.state = "INCOMPLETE" THEN "read"
              ELSE IF parser'.state = "ERROR" THEN "closed" ELSE "inspect"
    /\ UNCHANGED <<wsVars, fcgiVars, fileVars, verdict>>

(* The verdict of the WAF on what the parser made of the request; then the  *)
(* request goes where handle_connection() and route_request() send it.      *)
InspectRequest ==
    /\ xpc = "inspect"
    /\ verdict' = IF Inspect(req.signs, parser.body).blocked THEN "blocked" ELSE "passed"
    /\ xpc' = IF verdict' = "blocked" THEN "closed"
              ELSE IF IsUpgradeRequest(req) THEN "websocket"
              ELSE IF "php" \in req.has THEN "php"
              ELSE IF "file" \in req.has THEN "file" ELSE "closed"
    /\ UNCHANGED <<parserVars, wsVars, fcgiVars, fileVars>>

(* The client is gone, or the read timed out.                               *)
ReadStops ==
    /\ xpc \in {"read", "websocket"}
    /\ xpc' = "closed"
    /\ UNCHANGED <<parserVars, wsVars, fcgiVars, fileVars, verdict>>

Client(f) ==
    /\ xpc = "websocket" /\ ~ws.closed_ /\ ClientSends(f)
    /\ UNCHANGED <<parserVars, fcgiVars, fileVars, xpc, verdict>>

WebSocket(n) ==
    /\ xpc = "websocket" /\ ProcessInput(n)
    /\ xpc' = IF ws'.closed_ THEN "closed" ELSE "websocket"
    /\ UNCHANGED <<parserVars, fcgiVars, fileVars, verdict>>

(* The steps of send_request(); the 502 or the page is sent and the         *)
(* connection closed.                                                       *)
FastCGI ==
    /\ xpc = "php"
    /\ \/ SendRequest(parser.body) \/ ConnectFails
       \/ \E n \in 1..Len(packet) : Write(n)
       \/ WriteFails
       \/ \E n \in 1..HeaderSize : ReadHeader(n)
       \/ \E n \in 1..Arriving : ReadContent(n) \/ ReadPadding(n)
       \/ ReadEnds
    /\ xpc' = IF fpc' \in {"answered", "failed"} THEN "closed" ELSE "php"
    /\ UNCHANGED <<parserVars, wsVars, fileVars, verdict>>

(* sendfile() is used on a connection without TLS.                          *)
StaticFile ==
    /\ xpc = "file"
    /\ \/ \E m \in {"GET", "HEAD", "POST"}, content \in Contents : Begin(m, content)
       \/ "tls" \notin req.has /\ OpenFile
       \/ Decline
       \/ FileStep
       \/ \E content \in Contents : WriteFile(content)
    /\ xpc' = IF hpc' = "done" THEN "closed" ELSE "file"
    /\ UNCHANGED <<parserVars, wsVars, fcgiVars, verdict>>

Next ==
    \/ \E cut \in req.cuts : Read(cut)
    \/ InspectRequest
    \/ ReadStops
    \/ \E f \in Frames : Client(f)
    \/ \E n \in 1..(2 * Len(frames) - read) : WebSocket(n)
    \/ FastCGI
    \/ StaticFile

Spec == Init /\ [][Next]_vars

-----------------------------------------------------------------------------
(* The shapes of the variables: no offset lies behind what has been read,   *)
(* and read_response() keeps within MAX_FCGI_RESPONSE.                      *)
TypeOK ==
    /\ xpc \in {"read", "inspect", "php", "websocket", "file", "closed"}
    /\ verdict \in {"none", "passed", "blocked"}
    /\ parser.state \in {"INCOMPLETE", "COMPLETE", "ERROR"}
    /\ fed \in 0..Len(Stream(req)) /\ parser.body_start_offset_ \in 0..fed
    /\ read \in 0..(2 * Len(frames)) /\ ws.done \in 0..read
    /\ fpc \in {"idle", "write", "header", "content", "padding", "answered", "failed"}
    /\ at \in 0..EndOf(Len(answer)) /\ Len(stdout_data) <= MaxFcgiResponse

(* A request is blocked exactly if its signs, all parts together, come to   *)
(* the threshold: no early return of inspect() forgets what an earlier part *)
(* has added, and it sees the body that is handed on, up to its limit.      *)
VerdictIsTotal ==
    verdict # "none" => (verdict = "blocked" <=> Suspicious(req.signs, req.body))

(* Once a request is written the application has exactly what the client    *)
(* sent, through the parser's and the client's own framing.                 *)
BodyForwarded ==
    fpc \notin {"idle", "write", "failed"} =>
        Forwarded("PARAMS", Params) /\ Forwarded("STDIN", req.body)

(* A PHP request and its answer pass the FastCGI client whole, however both *)
(* are split into records, writes and reads.                                *)
ForwardedWhole == TypeOK /\ BodyForwarded /\ AnswerIntact
=============================================================================
