------------------------------- MODULE Worker -------------------------------
(***************************************************************************)
(* Worker::handle_connection, handle_h2_connection and handle_websocket of *)
(* src/worker.cpp, as steps of the worker threads.  wpc is the point a     *)
(* thread has reached; the points of the dispatch loop around              *)
(* handle_connection are in module Server.  A connection stands for its    *)
(* file descriptor.  What the client sends, what the WAF says of it and    *)
(* how it is routed are choices of the steps.                              *)
(*                                                                         *)
(*   handle -> [tls] -> read -> waf -> limit -> sendfile/route | ws        *)
(*                  \-> h2                                                 *)
(*   every path ends  close -> release -> finish; after a failed read      *)
(*   close408 -> release408 -> count408 -> finish                          *)
(***************************************************************************)
EXTENDS DDoSGuard, Metrics

CONSTANTS
    Conns, IpOf, NoConn,
    Workers,
    MaxMsgs        \* bound: messages or requests on one WebSocket or HTTP/2 connection

VARIABLES
    cstate,        \* client connection: "new", "backlog", "open", "closed"
    wpc, wconn,    \* per worker: program point, connection in hand
    msgs,          \* messages seen on the current WebSocket or HTTP/2 connection
    tls_enabled,   \* config_.tls_enabled, as Server::start has settled it
    waf_enabled    \* config_.waf_enabled, which a reload writes

workerVars == <<connections_, total_connections_, max_per_ip_, now, metrics,
                cstate, wpc, wconn, msgs, tls_enabled, waf_enabled>>

ASSUME WorkerAssumption ==
    /\ IpOf \in [Conns -> Ips]
    /\ NoConn \notin Conns
    /\ MaxMsgs \in Nat

(* Points at which the connection is open, holds its guard slot, is counted. *)
Serving == {"handle", "tls", "read", "waf", "limit", "sendfile", "route",
            "ws", "h2", "close", "close408"}
Holding == Serving \cup {"release", "release408"}
Handling == Holding \cup {"count408", "finish"}
Counted == Handling \ {"handle"}

Goto(w, to) == wpc' = [wpc EXCEPT ![w] = to]
Ip(w) == IpOf[wconn[w]]

BeginHandling(w) ==
    /\ wpc[w] = "handle"
    /\ metrics' = RecordWorkerBusy(RecordConnection(metrics))
    /\ Goto(w, IF tls_enabled THEN "tls" ELSE "read")
    /\ UNCHANGED <<guardVars, cstate, wconn, msgs, tls_enabled, waf_enabled>>

(* wrap_socket returns null: handshake error or its cumulative deadline.    *)
HandshakeFails(w) ==
    /\ wpc[w] = "tls"
    /\ Goto(w, "close")
    /\ UNCHANGED <<guardVars, metrics, cstate, wconn, msgs, tls_enabled, waf_enabled>>

(* Handshake done; ALPN decides between HTTP/2 and HTTP/1.1.                *)
HandshakeDone(w) ==
    /\ wpc[w] = "tls"
    /\ \E to \in {"h2", "read"} : Goto(w, to)
    /\ msgs' = [msgs EXCEPT ![w] = 0]
    /\ UNCHANGED <<guardVars, metrics, cstate, wconn, tls_enabled, waf_enabled>>

ReadRequest(w) ==
    /\ wpc[w] = "read"
    /\ Goto(w, "waf")
    /\ UNCHANGED <<guardVars, metrics, cstate, wconn, msgs, tls_enabled, waf_enabled>>

(* Deadline, peer gone, too large or malformed: 408 is sent; this path     *)
(* counts the request only after it has given the slot back.               *)
ReadFails(w) ==
    /\ wpc[w] = "read"
    /\ Goto(w, "close408")
    /\ UNCHANGED <<guardVars, metrics, cstate, wconn, msgs, tls_enabled, waf_enabled>>

WafBlocks(w) ==
    /\ wpc[w] = "waf"
    /\ waf_enabled
    /\ metrics' = RecordRequest(RecordWafBlock(metrics))
    /\ Goto(w, "close")
    /\ UNCHANGED <<guardVars, cstate, wconn, msgs, tls_enabled, waf_enabled>>

WafPasses(w) ==
    /\ wpc[w] = "waf"
    /\ Goto(w, "limit")
    /\ UNCHANGED <<guardVars, metrics, cstate, wconn, msgs, tls_enabled, waf_enabled>>

RateLimited(w) ==
    /\ wpc[w] = "limit"
    /\ DenyRequest(Ip(w))
    /\ metrics' = RecordRequest(metrics)
    /\ Goto(w, "close")
    /\ UNCHANGED <<cstate, wconn, msgs, tls_enabled, waf_enabled>>

(* A token was consumed: WebSocket upgrade, or sendfile (plain only), or    *)
(* the router.                                                              *)
WithinRate(w) ==
    /\ wpc[w] = "limit"
    /\ AllowRequest(Ip(w))
    /\ \/ Goto(w, "route") /\ UNCHANGED msgs
       \/ ~tls_enabled /\ Goto(w, "sendfile") /\ UNCHANGED msgs
       \/ Goto(w, "ws") /\ msgs' = [msgs EXCEPT ![w] = 0]
    /\ UNCHANGED <<metrics, cstate, wconn, tls_enabled, waf_enabled>>

SendfileDone(w) ==
    /\ wpc[w] = "sendfile"
    /\ metrics' = RecordRequest(metrics)
    /\ Goto(w, "close")
    /\ UNCHANGED <<guardVars, cstate, wconn, msgs, tls_enabled, waf_enabled>>

(* try_sendfile returned false: not a plain file, or its headers were not   *)
(* sent in full.  The router answers instead.                               *)
SendfileDeclines(w) ==
    /\ wpc[w] = "sendfile"
    /\ Goto(w, "route")
    /\ UNCHANGED <<guardVars, metrics, cstate, wconn, msgs, tls_enabled, waf_enabled>>

RouteAndRespond(w) ==
    /\ wpc[w] = "route"
    /\ metrics' = RecordRequest(metrics)
    /\ Goto(w, "close")
    /\ UNCHANGED <<guardVars, cstate, wconn, msgs, tls_enabled, waf_enabled>>

-----------------------------------------------------------------------------
(* The loops of handle_h2_connection and handle_websocket.                  *)

(* One HTTP/2 request through the connection's request handler.             *)
H2Request(w) ==
    /\ wpc[w] = "h2"
    /\ msgs[w] < MaxMsgs
    /\ \/ /\ waf_enabled
          /\ metrics' = RecordWafBlock(metrics)
          /\ UNCHANGED guardVars
       \/ /\ AllowRequest(Ip(w)) \/ DenyRequest(Ip(w))
          /\ UNCHANGED metrics
    /\ msgs' = [msgs EXCEPT ![w] = @ + 1]
    /\ UNCHANGED <<cstate, wpc, wconn, tls_enabled, waf_enabled>>

(* A WebSocket message is echoed or answered; a close frame or a protocol   *)
(* error ends the loop.                                                     *)
WsMessage(w) ==
    /\ wpc[w] = "ws"
    /\ msgs[w] < MaxMsgs
    /\ msgs' = [msgs EXCEPT ![w] = @ + 1]
    /\ \E to \in {"ws", "close"} : Goto(w, to)
    /\ UNCHANGED <<guardVars, metrics, cstate, wconn, tls_enabled, waf_enabled>>

(* The peer has gone, a write failed, or the connection is no longer alive. *)
PeerGone(w) ==
    /\ wpc[w] \in {"ws", "h2"}
    /\ Goto(w, "close")
    /\ UNCHANGED <<guardVars, metrics, cstate, wconn, msgs, tls_enabled, waf_enabled>>

(* SO_RCVTIMEO expired.  recv returns -1 and the plain loop ends; SSL_read  *)
(* reports SSL_ERROR_WANT_READ, on which both TLS loops continue.           *)
ReceiveTimeout(w) ==
    /\ wpc[w] \in {"ws", "h2"}
    /\ Goto(w, IF tls_enabled THEN wpc[w] ELSE "close")
    /\ UNCHANGED <<guardVars, metrics, cstate, wconn, msgs, tls_enabled, waf_enabled>>

-----------------------------------------------------------------------------
(* The clean-up every path ends with, in the order of the code.             *)
CloseFd(w) ==
    /\ wpc[w] \in {"close", "close408"}
    /\ cstate' = [cstate EXCEPT ![wconn[w]] = "closed"]
    /\ Goto(w, IF wpc[w] = "close" THEN "release" ELSE "release408")
    /\ UNCHANGED <<guardVars, metrics, wconn, msgs, tls_enabled, waf_enabled>>

(* Fault: the 408 path forgets release_connection. *)
ReleaseUnless408(w) ==
    /\ wpc[w] \in {"release", "release408"}
    /\ IF wpc[w] = "release" THEN ReleaseConnection(Ip(w)) ELSE UNCHANGED guardVars
    /\ Goto(w, IF wpc[w] = "release" THEN "finish" ELSE "count408")
    /\ UNCHANGED <<metrics, cstate, wconn, msgs, tls_enabled, waf_enabled>>

ReleaseSlot(w) ==
    /\ wpc[w] \in {"release", "release408"}
    /\ ReleaseConnection(Ip(w))
    /\ Goto(w, IF wpc[w] = "release" THEN "finish" ELSE "count408")
    /\ UNCHANGED <<metrics, cstate, wconn, msgs, tls_enabled, waf_enabled>>

(* Faults: the 408 path falls through to the common clean-up; or it returns *)
(* before the gauges are taken back.                                        *)
Count408FallsThrough(w) ==
    /\ wpc[w] = "count408"
    /\ metrics' = RecordRequest(metrics)
    /\ Goto(w, "release")
    /\ UNCHANGED <<guardVars, cstate, wconn, msgs, tls_enabled, waf_enabled>>
Count408Returns(w) ==
    /\ wpc[w] = "count408"
    /\ metrics' = RecordRequest(metrics)
    /\ wconn' = [wconn EXCEPT ![w] = NoConn]
    /\ Goto(w, "loop")
    /\ UNCHANGED <<guardVars, cstate, msgs, tls_enabled, waf_enabled>>

Count408(w) ==
    /\ wpc[w] = "count408"
    /\ metrics' = RecordRequest(metrics)
    /\ Goto(w, "finish")
    /\ UNCHANGED <<guardVars, cstate, wconn, msgs, tls_enabled, waf_enabled>>

Finish(w) ==
    /\ wpc[w] = "finish"
    /\ metrics' = RecordWorkerIdle(RecordDisconnection(metrics))
    /\ wconn' = [wconn EXCEPT ![w] = NoConn]
    /\ Goto(w, "loop")
    /\ UNCHANGED <<guardVars, cstate, msgs, tls_enabled, waf_enabled>>

(* Steps the thread takes by itself ...                                     *)
HandleStep(w) ==
    \/ BeginHandling(w)
    \/ HandshakeFails(w)
    \/ HandshakeDone(w)
    \/ ReadRequest(w)
    \/ ReadFails(w)
    \/ WafBlocks(w)
    \/ WafPasses(w)
    \/ RateLimited(w)
    \/ WithinRate(w)
    \/ SendfileDone(w)
    \/ SendfileDeclines(w)
    \/ RouteAndRespond(w)
    \/ ReceiveTimeout(w)
    \/ CloseFd(w)
    \/ ReleaseSlot(w)
    \/ Count408(w)
    \/ Finish(w)

(* ... and those that wait for the client.                                  *)
ClientStep(w) ==
    \/ H2Request(w)
    \/ WsMessage(w)
    \/ PeerGone(w)

WorkerTypeOK ==
    /\ cstate \in [Conns -> {"new", "backlog", "open", "closed"}]
    /\ wconn \in [Workers -> Conns \cup {NoConn}]
    /\ msgs \in [Workers -> Nat]
    /\ tls_enabled \in BOOLEAN /\ waf_enabled \in BOOLEAN
=============================================================================
