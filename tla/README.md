# JustServer in TLA+

A model of JustServer (`src/`, C++20): the reactor and its worker pool, the
admission control in front of them, start-up and the dropping of privileges,
the HTTP/1.1 exchange from the first byte read to the answer (parser, WAF,
WebSocket, FastCGI, static files), the HTTP/2 connection, and the libraries
built beside the server: reverse proxy with cache and load balancer, anti-bot
filter, io_uring loop. TLC checks the modules on small instances; TLAPS
proves the main results about admission control, the server, start-up, static
files, the HTTP/2 connection, the cache, the balancers, the anti-bot filter and
the io_uring loop for every size.

The code is the reference. Definitions keep its names (`pending_`,
`queue_mutex_`, `total_connections_`, `body_start_offset_`), and `PROJECT.json`
("map") gives the lines each one stands for. Operators introduced by a comment
`Fault: ...` are wrong variants of the definition that follows them: each is a
plausible slip in that code and shows which property would notice it. They are
not part of any specification.

## The system

**Server** (`server.cpp`, `main.cpp`). `start()` initialises TLS, applies the
security settings, creates the listener, starts the workers and runs
`event_loop()` in the calling thread. The loop looks at `reload_requested_`
(set by SIGHUP), waits in `epoll_wait`, accepts from the edge-triggered
listener until `accept4` fails, asks the guard for a slot, and pushes
`(fd, address)` on `pending_` under `queue_mutex_`, with one `notify_one` for
each push. `worker_thread_func` waits on the condition variable and hands each
connection to `Worker::handle_connection`. `stop()` runs in a signal handler:
it clears `running_` and calls `notify_all`, without the mutex. Correct means:
each descriptor has one owner and is closed once, no wakeup is lost, every
accepted connection is served, a reload takes effect, and stop ends the
server.

**Worker** (`worker.cpp`). One connection from start to end: TLS handshake,
request, WAF, rate limit, a route (sendfile, file, FastCGI, metrics) or an
upgrade to HTTP/2 or WebSocket, with a receive timeout. There are seven ways
out, and each repeats the close, the release of the guard's slot and the
updates of the gauges. Correct means: whatever the way out, all of them happen,
once, in an order that cannot touch another client's descriptor.

**DDoSGuard** (`ddos_guard.cpp`). A table of addresses (open connections, token
bucket, last use) under a mutex, and an atomic total. `allow_connection` tests
the total before it takes the mutex; `release_connection` erases the entry of
an address with its last connection; `cleanup` sweeps old entries; a reload
changes the limit while connections above it are open. Correct means: both
counts are exact, the total is never passed, a bucket grants no more than its
burst and rate.

**Start-up** (`server.cpp`: `start`, `apply_security`, `setup_listener`). TLS
key, chroot, supplementary groups, group, user, seccomp filter, bind, epoll.
Each needs rights that a later one gives up, and each may fail by itself.
Correct means: an order in which every step can succeed, and nothing of root
kept but what a call that failed could not give up.

**HttpParser** (`http_parser.cpp`). `feed()` is called after every read with all
bytes so far; between calls it keeps where the body begins, how much of a
chunk is missing and what it has collected. Correct means: how the bytes are cut
makes no difference, and what it accepts is what the client sent.

**WAF** (`waf.cpp`). Scores the URI, user agent, headers, path, query and body of
a request and blocks at a threshold. Correct means: the verdict depends on the
request as a whole.

**WsConnection** (`websocket.cpp`) and the worker's echo. A buffer, a message
under assembly, and whether the connection is closed. Correct means: messages
whole and in order whatever lies between their fragments, pings answered,
nothing after a close.

**FastCGIClient** (`fastcgi_client.cpp`). One request written as records over a
stream socket, one answer read as records, under a limit. Correct means: the
application has the request, the caller has the application's output.

**FileHandler** (`file_handler.cpp`, `Worker::try_sendfile`). An open file and the
size announced for it. Correct means: the bytes sent agree with the head, and
the file is closed.

**Http2Connection, HPACKDecoder** (`http2.cpp`). A buffer of input, the streams
with their header blocks and bodies, the client's settings, flow-control
windows and the dynamic table that all streams of a connection share. Correct
means: the handler gets the requests the client sent, each once; the answer is
framed properly; the credit the client spent comes back; GOAWAY tells the truth.

**ReverseProxy, HttpCache, LoadBalancer, HealthChecker** (`proxy.cpp`,
`cache.cpp`, `load_balancer.cpp`). Callers' threads look up the cache (a mutex),
choose a backend (no lock: atomics), forward, retry, report and store, while a
thread probes the backends. Correct means: counts match the requests under way,
the cache is within its bounds and lifetimes, healthy backends are used.

**AntiBot** (`anti_bot.cpp`). Fingerprints, token buckets, a JavaScript challenge
with a cookie, proof of work; each part has a mutex of its own, and a request
passes through them one by one. Correct means: limits hold, a challenge serves
once, a cookie is honoured where and as long as it is valid.

**IoUringLoop** (`io_uring_loop.cpp`). A submission and a completion queue shared
with the kernel, a map from ids to callbacks, a pool of buffers. Correct means:
every operation is called back as often as it should be, no buffer has two
owners, the loop goes on and ends when told.

**Metrics, Config.** Atomic counters read by `/metrics`; settings read from a
file at start and on SIGHUP.

How they interact: the reactor and the workers share the queue, the guard, the
metrics and `config_`; the guard is called by the reactor (admission, reload)
and by the workers (requests, release); the signal handlers write two flags. A
worker calls parser, WAF, WebSocket, FastCGI and files in turn for one
connection. The reverse proxy, the anti-bot filter and the io_uring loop are
built and tested, and the server does not call them.

What is hard to test is listed under "hazards" in `PROJECT.json`, each at its
line, with the properties that cover it.

## Modules

| Module | Stands for |
|---|---|
| `DDoSGuard` | the guard's table and its operations; no specification of its own |
| `AdmissionControl` | what the guard promises: a set of open connections, never above the limits when one is added |
| `DDoSGuardUse` | the guard and a caller that admits one connection at a time (as the reactor does) and releases each once (as the workers must); implements `AdmissionControl` |
| `DDoSGuardRate` | `DDoSGuardUse` with history variables that count the requests granted |
| `Metrics` | counters and gauges |
| `Worker` | a worker between taking a connection and finishing it |
| `Server` | reactor, queue, workers, signals, configuration; composes `Worker`, `DDoSGuard`, `Metrics`; refines `DDoSGuardUse` |
| `ServerBacklog` | `Server` with a history variable: whether `accept4` has failed over a backlog and no client came since |
| `Startup` | the steps of `start()` before the loop |
| `HttpParser`, `Waf`, `WsConnection`, `FastCGIClient`, `FileHandler` | the parts of an HTTP/1.1 exchange; no specifications of their own |
| `Exchange` | one exchange of a worker; composes the five |
| `Http2` | one HTTP/2 connection and its client |
| `HttpCache`, `LoadBalancer` | the cache; the balancers and the health checker |
| `ReverseProxy` | threads in `proxy_request()`; composes the two |
| `AntiBot` | threads in `AntiBotEngine::inspect()` |
| `IoUringLoop` | the loop, its callers and the kernel |
| `MC...` | values for the constants |
| `DDoSGuardProofs` | theorems about `DDoSGuardUse` and `DDoSGuardRate` |
| `ServerProofs`, `StartupProofs` | theorems about `Server` and `Startup` |
| `ExchangeProofs` | theorems about the parts of an `Exchange`: static file, WebSocket, FastCGI client, parser, inspection |
| `Http2Proofs` | theorems about `Http2` |
| `ProxyProofs` | theorems about the cache, the balancers and the health checker inside `ReverseProxy` |
| `AntiBotProofs`, `UringProofs` | theorems about `AntiBot` and `IoUringLoop` |

### State and actions

*Guard.* `connections_[ip]` is an entry or `NoEntry`. `allow_connection` is two
steps, as its test of the total is outside the lock: `PassGlobalCheck`, then
`AdmitConnection` or `RefuseConnection`. The other operations hold the lock and
are one step. Tokens and the clock are integers; the code uses doubles and
seconds, and refills by the same formula.

*Server.* `rpc` is where the reactor stands, `wpc[w]` where worker `w` stands,
`rconn` and `wconn` the connection each holds. `cstate[c]` follows a connection
from the backlog to its close. Waiting on the condition variable is as fine as
the hazard needs: take the mutex (`Lock`), evaluate the predicate
(`PredicateFalse` or `Take`), and only then block and release the mutex
(`Block`), so that a `stop()`, which takes no lock, can fall in between. Push
and `notify_one` are two steps (`Enqueue`, `NotifyOne`). `stop()` is two as
well (`StopStore`, `StopNotify`). A reload is three: take the flag
(`LoopTop`), read the file (`ReadConfig` or `ReloadThrows`), install
(`ApplyReload`); edits and further signals fall in between. `edge` is the
event epoll has not delivered yet; `AcceptFails` is any error of `accept4`
(for want of a descriptor, or with `AcceptMayFail` any other), which leaves the
loop as EAGAIN does.

*Worker.* One action for each step after which another thread could see a
difference. The contents of requests and answers are choices here (`Exchange`
and `Http2` have them); sending is part of the step that decides the answer.

*Startup.* `step` walks through `Following`, the order of the calls. Every
step may fail because the kernel refuses (not root, filtered call), or, for the
members of `Faults`, for an outside reason; `faulted` is the set of steps that
failed so.

*Exchange.* `xpc` says which part has the connection. `Read(cut)` gives the
parser the bytes up to `cut`; `parser` holds the members of `HttpParser`, and
`Parsed` is one call of `feed()`, with one `ChunkTurn` per turn of its loop. A
line of the head is a unit that is well formed, malformed, a length or a coding;
`Loose` are the ones the code takes and RFC 7230 does not allow (`2x` as a
length, a coding behind `chunked`), `WellFormed` is what the RFC allows, defined
apart from `HeadAccepted`. `slipped` is a history variable: some `feed()` has
appended to the body and left its offset where it was. The
bytes of a chunked body are units of their own, so sizes, CR and LF are read as
in the code. `InspectRequest` is `WAF::inspect` on what the parser made of
the request (a server with `waf_enabled`) and the routing; the rate limit between
the two is in `Worker`. A payload is a sequence of units, some of them the sign of
a rule under a number of percent-encodings. `Client` and `WebSocket` are the
client's frames and one `process_input()` with the worker's writes: the echoes
first, then pongs and close, as in the code. `FastCGI` has one step for each
`write` and `read`, of any length. `StaticFile` has one for each `send` and
`sendfile`, the file being written by others at any time; what
`resolve_path()` finds is a choice. An answer of `make_error()` has its page for
a body whatever the method. A head that cannot be sent is given up (`broken`
keeps what had gone out) and `serve()` begins anew on the same connection.

*Http2.* One action for each kind of frame and outcome (`HeadersFragment`,
`HeadersUndecodable`, `HeadersComplete`, `DataCompletes`, ...). A header block
is a sequence of HPACK instructions (indexed field, literal with or without
indexing); a body is a sequence of tokens, each standing for 16384 bytes of a
DATA frame's payload, with padding or without.
The client half has the encoder's table and what it has sent. It keeps to
the protocol and its credit, may reset streams, and may send any single frame
that the handlers refuse. It may also do legal things the code does not
support. After a block split with CONTINUATION, or a table size announced below
the decoder's, `client.derailed` holds and the properties on content claim
nothing. A padded DATA frame and a repeated field leave the connection in step:
`RequestsIntact` says what the handler gets of them (payloads, padding
included, and the last field of each name, which `LastOfEach` states of the fields sent
without the code's map), and `BodyIsData`, which is refuted, that this is not what
was meant. Sums and tables are recursive functions and evictions the longest
prefix that fits, so that they can be reasoned about for every length.

*ReverseProxy.* `pc[t]` is where thread `t` stands in `proxy_request()`. The
cache holds its mutex, so each of its operations is a step; `recency` is a
history variable, the order in which keys were used, which the LRU list and each
eviction are held against. `Directives` is what is recognised of Cache-Control:
nothing, unless the field is `spelled` as the look-up has it. `select()` is a step
for each access to an atomic, for all four balancers; an EWMA comparison is a
choice. `do_http_request()` is one step with its outcomes. `Probe` is one turn
of `check_all()`; `condition` is what is true of a backend, and `ProbeOutcomes`
what a probe of it can say.

*AntiBot.* `pc[t]` walks through the checks that are enabled, a step in each.
A jar is the cookies of one browser, which may change its address. A solution
is the number of zero bits of its digest.

*IoUringLoop.* `lpc` is where the loop stands; callbacks prepare further
operations (`Async`, `ReturnBuffer`) at "callback". An operation may be refused at
once, with -ENOMEM (`AsyncNoRoom`) or with -EINVAL (`RecvWithoutPool`); the
second has taken an entry, which holds what `ring` says its last user put there,
and `stale` is set. A submit may fail (`SubmitFails`), and so may the
registration of the pool. `sq`, `inflight` and `cq` are
the operation's way through the kernel, which answers in any order, more than
once for a multishot accept, with a later notification for a zero-copy send.

## Runs

| Run | Question | Result |
|---|---|---|
| `guard` | Are the counts exact, is the cap hard, are burst and rate of a bucket honoured, is `AdmissionControl` implemented, under reloads, cleanup and refusals? | holds |
| `server` | With two workers, TLS and plain, failed handshakes, timeouts, spurious wakeups, a failing `epoll_wait` and a stop: are descriptors, slots, wakeups and gauges consistent, without deadlock? | holds |
| `server_reload` | Does the last signalled file take effect, and does the server use the guard as `DDoSGuardUse` says? | holds |
| `server_live` | With `accept4` failing at any time: is the queue served, the backlog accepted unless a failure has stranded it, and does every worker that can hear of a stop leave? | holds |
| `startup` | For every configuration and any calls failing: are root's steps taken as root, does each failure cost its own step only, and is root kept only if `setuid` failed or there was nothing to drop? | holds |
| `exchange` | However the bytes are cut, and for a chunked body as long as the parser has not lost its place: is the request what was sent, the verdict that of all parts, are messages, pings and closes in order, do body and answer pass FastCGI whole, is a file that changes framed and closed? | holds |
| `chunked_body` | Is a chunked body what was sent, wherever it is cut? | violated |
| `http2` | Do requests arrive with their last fields and all payloads, once, do the tables agree, are answers framed, does GOAWAY come last and stream credit come back? | holds |
| `proxy` | With two threads, probes, failing backends and more cacheable keys than the cache has room for: are the connection counts exact, does a scan give up only with all backends down, does a backend change state after a full series only; is the cache consistent and within both limits, is the least recently used entry evicted and no more than needed, is what is recognised as private or no-store kept out, and is a hit within its lifetime? | holds |
| `proxy_live` | Does every proxied request end, and is a recovered backend used again? | holds |
| `antibot` | With two threads, cleanup and an operator: do rate, blocked fingerprints, cookies and challenges hold what they promise? | holds |
| `uring` | With a full queue, refusals, failing submits, a failed registration, callbacks that submit and an arbitrary kernel: is every operation called back as it should and does each buffer have one owner, until an entry is left unprepared; do timeouts fire, and does `stop()` end `run()`? | holds |

A property a run checks is often a conjunction of named parts, each with its own
comment: `DescriptorsOwned`, `PrivilegesSound`, `RequestsHandled`, `OutputSound`,
`CacheSound`, `ParsedAsSent`, `AnsweredInOrder`, `ForwardedWhole`, `FileSound`,
`LimitsKept`, `PassesEarned`, `CompletionsExact`. Where a module has a type
invariant it is the first part of one of them.

### What the code does against its comments

`chunked_body` checks what a comment of the repository says, and TLC finds a
behaviour of the code that contradicts it; the finding in `PROJECT.json` quotes
the lines. Seven further configurations do the same for smaller matters. They
are not among the runs of `PROJECT.json`; each holds one property, which TLC
refutes (`tlc -config X.cfg M`).

| Configuration | Module | Property | What is said |
|---|---|---|---|
| `MCExchangeMalformed.cfg` | `MCExchange` | `MalformedRefused` | "Request Smuggling Protection (RFC 7230 Section 3.3.3)", `http_parser.cpp:379`; "Invalid Content-Length value", `:359` |
| `MCServerAccept.cfg` | `MCServer` | `AllPendingAccepted` | "Accept all pending connections (edge-triggered)", `server.cpp:452` |
| `MCServerIdle.cfg` | `MCServer` | `IdleIsClosed` | "5 minute idle timeout", `worker.cpp:526` |
| `MCStartupOrder.cfg` | `Startup` | `BindBeforeDrop` | "This must happen AFTER bind(), TLS cert loading, and chroot().", `server.cpp:213` |
| `MCHttp2Padded.cfg` | `MCHttp2` | `BodyIsData` | "HTTP/2 Frame Types (RFC 7540 Section 6)" with "PADDED = 0x8", `http2.hpp:15`, `:51` |
| `MCProxyNoStore.cfg` | `MCProxy` | `NoStoreObeyed` | "Don't cache" of no-store, `cache.cpp:75` |
| `MCUringStale.cfg` | `MCUring` | `CalledWhenDone` | "Async operations (submit to SQ, callback on CQ)", `io_uring_loop.hpp:54` |

*`chunked_body`.* The loop over chunks returns INCOMPLETE from its inside when a
size line or the CRLF behind a chunk is not there yet (`http_parser.cpp:182`,
`:218`). Chunks before that were appended to the body, but `body_start_offset_`
is updated only behind the loop, so the next call reads them again. `exchange`
cuts chunked bodies everywhere too; `slipped` tells the reads after which this
has happened, and `ParsedAsSent` says that there is no other way to go wrong.

*`MalformedRefused`.* `std::from_chars` takes the number at the beginning of a
Content-Length and is content (`http_parser.cpp:357`), and "chunked" is looked for
anywhere in Transfer-Encoding, other codings being ignored (`:369`). In
`exchange` these are the `Loose` lines: `ParsedAsSent` says that all other
requests are accepted exactly if RFC 7230 allows them, with one exception named
below.

*`AllPendingAccepted`.* Any error of `accept4` but EAGAIN also ends the accept loop
(`server.cpp:464`), with connections left in the backlog and the edge consumed:
they wait for the next client. The configuration has one descriptor for two
clients. That
nothing else leaves a connection behind is `BacklogIsAccepted` of `server_live`.

*`IdleIsClosed`.* When `SO_RCVTIMEO` expires over TLS, `SSL_read` fails with
`SSL_ERROR_WANT_READ`, and the loop of `handle_websocket` continues
(`worker.cpp:538`); the one of HTTP/2 does the same (`:100`). The worker is never
free again.

*`BindBeforeDrop`.* `start()` calls `apply_security()` before `setup_listener()`
(`server.cpp:83`), against the comment that the drop must come after `bind()`.
The filter allows neither `bind`, `listen` nor `epoll_create1`: with `drop_uid` set
the server does not come up.

*`BodyIsData`.* `handle_data` does not look at PADDED (`http2.cpp:1009`): Pad
Length and padding are appended to the body.

*`NoStoreObeyed`.* Header names are kept as the backend sent them
(`proxy.cpp:284`) and looked up as "Cache-Control" (`cache.cpp:72`, `:176`): in
any other spelling no directive is seen, no-store and private among them.

*`CalledWhenDone`.* `async_recv_provided` takes an entry of the submission queue before
it looks for the pool (`io_uring_loop.cpp:326`). The entry goes to the kernel as
its last user left it: an operation that has been called back is done again.

### Known behaviour the properties leave out

Found while modelling; the properties are stated so that they say what does
hold.

- `stop()` takes no mutex: a worker that has found the predicate false and not
  blocked yet misses it, and `join` never returns (`server.cpp:112`).
  `AwakeWorkersExit` says which workers leave.
- A bucket goes with the last connection of its address, the next one starts
  full (`ddos_guard.cpp:83`); `BucketHonoured` speaks of a bucket while it lives.
- A failed `setuid`, `setgid`, `setgroups` or `chroot` is logged and no more
  (`server.cpp:217`, `:226`): the server goes on with what it could not give up,
  and without `drop_uid` or `drop_gid` it keeps the user or group it has.
  `PrivilegesSound` names what is kept after which failure.
- The DATA frame that ends a request returns before the connection's credit is
  given back (`http2.cpp:1014`); `StreamCreditReturned` holds because that
  stream is over.
- Connections queued at exit are never closed; a stop before `running_ = true`
  is overwritten; a malformed number ends the process at a reload
  (`ReloadThrows`); HTTP/2 and WebSocket requests are not counted;
  `FileHandler` keeps the document root from before the chroot.
- HTTP/2: CONTINUATION is ignored; the client's HEADER_TABLE_SIZE shrinks the
  decoder's table; a frame above the maximum size is never consumed; send
  windows are kept and not used; of repeated fields the last one is kept
  (`http2.cpp:962`), a cookie in several fields for example.
- HTTP/1.1: a head that is the request line alone is an error, which HTTP/1.0
  would allow (`http_parser.cpp:130`; `WellFormedAccepted` excepts it); the limit on the head
  applies only while its end is not found; behind the last chunk any further byte
  completes the request.
- WebSocket: echoes overtake the pongs of the same read; the result of sending
  an echo is ignored; a close without a status is answered with 1005; a refused
  header ends the connection without a close frame.
- FastCGI: the end of the stream before END_REQUEST counts as a complete answer
  (`AnswerIntact` allows it); all is written before anything is read, without
  timeouts.
- Files: `main.cpp:88` installs its handlers without SA_RESTART, so a signal can cut
  a `send` or `sendfile` short; a file that shrinks after `fstat` gives a short
  body. After a head that could not be sent the worker runs `serve()` and sends a
  second head, behind whatever had gone out of the first (`worker.cpp:341`).
  Error pages are sent with their body in answer to HEAD too
  (`file_handler.cpp:52`). `FileSound` says both.
- Round robin: threads share `counter_`, and one can draw the same failed backend
  until it gives up although another is healthy (`load_balancer.cpp:49`);
  `NoneMeansDownElsewhere` speaks of the other balancers. A probe passes a
  backend that is silent or refuses after EINPROGRESS.
- Proxy and cache: `max-age=0` becomes the default lifetime
  (`HitsWithinLifetime` leaves it out); no-cache and must-revalidate are parsed
  and not used; a revalidation that fails is not repeated; a callback that calls
  `put()` deadlocks on the cache's mutex; a slow older answer can replace a newer
  entry; a truncated answer is taken, and cached, as whole (`proxy.cpp:232`);
  requests that are not idempotent are retried; an answer 5xx is a success.
- Anti-bot: challenges never expire and pile up; a solution is not bound to a
  client; `cleanup()` forgets what `set_rate()` set.
- io_uring: `register_buffer_pool` takes the next completion for its own, and keeps
  its entry in `pending_` for ever, whether it succeeds or not; a buffer
  given back on a full queue is lost; a `stop()` before `run()` is overwritten; an
  iterator is used after the callback, which may rehash the map
  (`io_uring_loop.cpp:382`).

### Bounds

- `guard`: three connections, two from one address; limits per address
  {0, 1, 2}, total 2, so that each limit refuses by itself, and a reload can go
  below the number open. Burst and rate 1, clock up to 2: an entry can go stale,
  a bucket can empty, refill and be capped.
- `server`: two workers, three connections, two addresses, `MaxTotal` and
  `MaxOpenFiles` 2: there is a worker too few and a slot too few. One stop. More
  workers repeat the same races between one that sleeps, one on its way and the
  reactor.
- `server_reload`: one worker, two connections and two edits, the fewest with
  which an edit can fall into a running reload and a slot be held across it;
  with TLS and without, one message or request on a WebSocket or HTTP/2
  connection.
- `server_live`: two workers and two connections, so that one can be stranded by
  the other's failure or freed by its edge. The workers are not symmetric for
  liveness, so no symmetry is used; in `server` the workers are.
  `MCServerAccept.cfg` and `MCServerIdle.cfg` have one worker, and as few clients
  as their behaviour takes.
- `startup`: every combination of the configuration, user ids
  root and two others, any of the eight steps failing, several in one start too.
- `exchange`: sixteen shapes of request (lengths, two lengths, length and
  chunks, loose lengths and codings, malformed, too long, the request line alone,
  upgrades with and without a header) cut
  everywhere; two chunks, one with an extension, whose data contain a digit, so
  that bytes read twice make another chunk; the chunked request that is sent on
  to FastCGI is cut where the parser keeps its place (`KeptPlaces`), the others
  everywhere;
  four WebSocket frames, enough for a message in two fragments with control
  frames between them and one behind; records of two units, so parameters and
  bodies take two; answers with stderr, padding, an early end and more than the
  limit. Rules of 3, 4 and 5 points against a threshold of 5, in every pair of
  path and query, with up to three encodings of which two are undone. A file of
  0, 1 or 3 units, written twice.
- `http2`: two streams; two fields of one name with sizes 1 and 2 in a table
  of size 2, so each insertion of the larger evicts; windows of 2 tokens, padded or not; four
  frames, one of them a control frame, two in flight; answers of 0 and 3
  tokens. Four frames are two whole requests with bodies, interleaved.
- `proxy`: two backends, two threads (symmetric: all six properties are of single
  states or steps), thresholds of two probes, two events. Without a cache all four balancers, two requests and one retry. With a cache consistent
  hashing, four requests and no retry; three keys that may be cached and one that
  may not, two entries and three units of memory, answers of one and two units:
  the third key evicts by the number of entries, two answers of two units by
  memory, and there are two candidates. Two events (ticks, invalidations,
  revalidations) let an entry go stale and expire.
- `proxy_live`: one thread, all conditions of a backend, no cache.
- `antibot`: two threads and addresses, three requests, rate, burst, window and
  cookie lifetime 1 over three ticks: a cookie and a bucket can both become too
  old. Difficulty 6 with solutions of 0, 4 and 7 bits: 4 is one nibble.
- `uring`: three operations of every kind, at most one of them a multishot accept
  and one a zero-copy send, a submission queue of one, two buffers, one repeat of
  a multishot, one operation refused: the queue is full at every second call. An
  unprepared entry is followed by one operation at most, as `CompletionsExact` and
  `BuffersInOnePlace` claim nothing of it. The constraint (`UringBound`) takes away
  operations that callers need not begin and that no fairness asks for, so it
  hides no behaviour from the liveness properties but those with more
  operations. `MCUringStale.cfg` has no such bound.

Deadlock is checked in `guard`, `server`, `server_reload` and `startup`. The
others may stop: in `server_live` a lost stop leaves every thread waiting, and
in the rest the clients have sent what their bound allows.

### Fairness

*Server.* Weak fairness for the reactor, for each worker's dispatching and
handling, and for the rest of a signal handler that was entered: threads and
handlers run. Nothing for clients (`ClientStep`, `Connect`), for the operator,
for the clock and for spurious wakeups. Weak is enough for the mutex because no
thread holds it across a step that needs something else. `HandleStep` includes
the send of an answer. There is no send timeout in the code, so that its step
ends is an assumption on the client, listed as a hazard. `HandleStep` includes
the expiry of the receive timeout: the kernel's timer is assumed to run. With it
`AllPendingAccepted` and `IdleIsClosed` are refuted all the same. `server_live` has the same
fairness over `ServerBacklog` (`BacklogFairSpec`).

*ReverseProxy.* Weak fairness for each caller's thread and for the health
checker's. A forward is one step: its receives time out, that its sends end is
an assumption on the backend.

*IoUringLoop.* Weak fairness for the loop's thread; strong fairness for a wait
that sees a completion, as the wait has a timeout and may return empty in
between, and for a submit that succeeds, as one that fails is tried again in the
next turn; weak fairness for the kernel where it needs nobody else (timeouts,
notifications, buffers provided, receives, cancels). Nothing for other
operations, which may never complete.

## Proofs

Each theorem is about the same specification as the runs, for every value of
the constants its assumptions allow: any number of workers, threads, connections,
addresses, backends or buffers, any limits.

| Module | Theorem | Statement |
|---|---|---|
| `DDoSGuardProofs` | `GuardTypeCorrect` | `UseSpec => []UseTypeOK` |
| | `GuardCountsExact` | `UseSpec => []CountsExact` |
| | `GuardHardCap` | `UseSpec => []HardCap` |
| | `GuardOpenHasBucket` | `UseSpec => []OpenHasBucket` |
| | `GuardImplementsPromise` | `UseSpec => ImplementsPromise` (refinement of `AdmissionControl`) |
| | `GuardBucketHonoured` | `RateSpec => []BucketHonoured` |
| `StartupProofs` | `StartupPrivileges` | `Spec => []PrivilegesSound` |
| `ServerProofs` | `ServerDescriptorsOwned` | `Spec => []DescriptorsOwned` |
| | `ServerNoLostWakeup` | `Spec => []NoLostWakeup` |
| | `ServerGaugesExact` | `Spec => []GaugesExact` |
| | `ServerConfigFresh` | `Spec => []ConfigFresh` |
| | `ServerSlotsExact` | `Spec => []SlotsExact` |
| | `ServerUsesGuardProperly` | `Spec => UsesGuardProperly` (refinement of `DDoSGuardUse`) |
| `AntiBotProofs` | `AntiBotLimitsKept` | `Spec => []LimitsKept` |
| | `AntiBotChallengeUsedOnce` | `Spec => []ChallengeUsedOnce` |
| | `AntiBotPassesEarned` | `Spec => PassesEarned` (action property) |
| `ProxyProofs` | `ProxyActiveExact` | `Spec => []ActiveExact` |
| | `ProxyNoneMeansDown` | `Spec => []NoneMeansDownElsewhere` |
| | `ProxyHealthIsDamped` | `Spec => HealthIsDamped` (action property) |
| | `ProxyCacheSound` | `Spec => []CacheSound` |
| | `ProxyEvictsLeastRecent` | `Spec => EvictsLeastRecent` (action property) |
| | `ProxyHitsWithinLifetime` | `Spec => HitsWithinLifetime` (action property) |
| `Http2Proofs` | `Http2OutputSound` | `Spec => []OutputSound` |
| | `Http2CreditReturned` | `Spec => []StreamCreditReturned` |
| | `Http2TablesAgree` | `Spec => []TablesAgree` |
| | `Http2RequestsHandled` | `Spec => []RequestsHandled` |
| `ExchangeProofs` | `FileIsSound` | `Spec => []FileSound` |
| | `WsAnsweredInOrder` | `Spec => []AnsweredInOrder` |
| | `FcgiAnswerIntact` | `Spec => []AnswerIntact` (a part of `ForwardedWhole`) |
| | `ParserInvariant` | `Spec => []ParserInv`, chunks included |
| | `SizedParsedAsSent` | `Spec => [](~Chunked(req) => ~slipped /\ ParsedAsSent)` |
| | `VerdictTotal` | `Spec => [](RequestAsSent => VerdictIsTotal)` |
| | `WholeForwarded` | `Spec => [](RequestAsSent => ForwardedWhole)` |
| | `SizedExchange` | `Spec => [](~Chunked(req) => ParsedAsSent /\ VerdictIsTotal /\ ForwardedWhole)` |
| `UringProofs` | `UringCompletionsExact` | `Spec => []CompletionsExact` |
| | `UringBuffersInOnePlace` | `Spec => []BuffersInOnePlace` |

`GuardInvariant`, `ServerInvariant`, `AntiBotInvariant`, `ProxyInvariant`,
`FileInvariant`, `WsInvariant`, `ReadInvariant`, `ParserInvariant`,
`VerdictInvariant`, `SendInvariant` and `UringInvariant` state the inductive
invariants themselves. Those of `UringProofs` hold until an entry is left
unprepared: `UringInvariant` is `Spec => [](~stale => LoopInv)`, and
`CompletionsExact` and `BuffersInOnePlace` carry the same condition, without
which `RecvWithoutPool` breaks them.

The last four theorems about `Exchange` have a condition because what they would
say without it is false: a chunked body may be read twice (`chunked_body`), and
then inspection and application get the body the parser made, not the one that
was sent. `RequestAsSent` says that the parser has not done that; `SizedParsedAsSent`
shows it of every request without chunks (with `~slipped`, the condition inside
`ParsedAsSent`), which gives `SizedExchange`.

### Assumptions

All are named `ASSUME`s of the modules that declare the constants, and TLC
evaluates them on every run. Most give the constants their types and keep
`NoEntry`, `NoBackend`, `Nobody` and the like out of the sets they mark the
absence of. The ones that say more:

- `ServerAssumption`, `BalancerAssumption`: the sets of workers and of callers'
  threads are finite, for the cardinalities in the gauges and in `ActiveExact`.
- `BalancerAssumption`: there is a backend, and every backend is on the ring
  (`ConsistentHashBalancer` puts its virtual nodes there); thresholds are not zero.
- `AntiBotAssumption`: `Rate * Window >= Burst`, so that a bucket which has been
  idle for the age at which `cleanup()` drops it would have been full again.
  The defaults satisfy it (10 tokens a second, 60 seconds, a burst of 50;
  `anti_bot.hpp:60`). Without it `cleanup()` would hand an address more than its
  rate.
- `Http2Assumption`: stream ids are positive, a field has a size above zero (the
  code charges 32 bytes for each entry), and a MAX_FRAME_SIZE that is accepted is
  not zero: `handle_settings` refuses one below 16384 (`http2.cpp:891`). With zero,
  `send_response` would cut a body into frames without end.
- `FileAssumption`: a response has a head, and no unit of a body is a part of one.
- `ParserAssumption`: the end of the head is not one of its lines, and a read
  ends somewhere in what is sent. `SizedAssumption` is what a client means by a
  length: the body of a well-formed request without chunks is the first so many
  units of what follows the head, which has that many, and is empty if no length
  is given.
- `FcgiAssumption`: the header of a record has a length (8 bytes) and a record
  may hold something (65535 bytes).
- `LoopAssumption`: the queue has an entry and the id 0 is not a buffer. Callers
  register the pool before anything else, and `io_uring_submit` in
  `register_buffer_pool` succeeds: these are in `RegisterBegin`.

### Invariants, and why they are needed

None of the properties is inductive alone.

*Guard.* `GuardInv` adds that `open` is finite; `TableSound`: an entry's refill
time is not in the future, and its bucket is either initialised with the
configured rate and burst or belongs to an entry without connections (a refusal
creates one); `AdmittingSound`: the connection that passed the test of the total
is not open and there is still room for it. The last is what makes the unlocked
test safe: only one thread admits, and everything else only lowers the total.
`RateInv` adds that the tokens given out and left are covered by what accrued,
for every entry with a bucket and not only those with connections: an admission
may find a bucket that it does not fill anew.

*Start-up.* `StartupInv` adds what the process is at each step before `start()`
has settled: `UndroppedYet` until `setuid`, `RootStepsTaken` from the step that
takes each, `RootGone` from `setuid` on, each but for the steps in `faulted`.

*Server.* `ServerInv` has one part for each thing the threads share.
`OwnInv` says who owns what: `InHand` ties the program points to the connection
in hand and to the mutex, `BlockSeesEmpty` says that a worker about to block has
seen the queue empty and still holds the mutex, `PastClose` that a worker past
`close()` has closed. Most steps leave all ownership as it is; they are
instances of one step, `Calm`, and its lemma is proved once. `NoLostWakeup` is
inductive on top of it. `ConfigInv` adds `ReloadSound`: a configuration that was
read and is not applied yet is the file's unless the file was edited or a reload
requested since, which is why clearing the flag before reading is right.
`GaugeInv` adds that a request still to be counted has its connection counted.
`GuardInv` is taken over from the guard: the step simulation that
`ServerUsesGuardProperly` uses carries it, and with it `SlotsExact`, to the
server.

*Anti-bot.* `Accrued` covers addresses without a bucket too: what they were
granted is within the rate, so a new full bucket is owed to them. This is where
`Rate * Window >= Burst` is used. `ChallengesSound`: a challenge that is active
or not yet issued has let nobody through. `BlockingSound`: nothing leaves the
block list, so a request found blocked is blocked when its check comes.

*Proxy.* `Where` ties a thread's backend to its program point and keeps scans
within their lists. `PassedBy` says of every backend a scan has left behind that
it has not been healthy all the time since the scan began; at the end of the list
that is all backends. `CheckerInv` relates the counts of the health checker to
the series of probes seen.

*Cache.* `CacheInv` says that the list is in the order of use, with one entry
for each key of the index, that the memory charged is the sum of the sizes, and
of each entry that it may be stored and when it expires: the last is what a
later hit relies on, whoever stored the entry. The eviction loop is shown to
leave a prefix that fits, and one entry more would not (`StoreEvicts`), which
with the order of the list gives `EvictsLeastRecent`; `EntryRemoved` and its
like say what taking out an entry does to order, keys and sum. `CallersInv`
adds that an answer about to be stored is one, and that attempts are counted.

*HTTP/2.* Four invariants, each on top of the one before. `OrderInv` (streams are
numbered up to `last_stream_id_`, requests are handled on streams that exist) gives
`GoawayIsLast`. `EndInv` says that a stream has one frame that ends its request,
in flight or handled, and nothing of it behind that; with it an answer is written
to a stream that has none, and `ResponsesFramed` is inductive. `CreditInv` is the
balance behind `StreamCreditReturned` before the server has caught up: what was
granted and what is used by frames in flight make up the body sent. `TraceInv` is
what `TablesAgree` and `RequestsHandled` need: there is a state of the client for
each frame in flight, from the one the server has reached (`Matches`: the
decoder's table extends the encoder's, the streams hold what the client had
said) to the present one, and each frame took the client from one to the next.
A frame parsed takes the server one state further, one sent adds a state at the
end. `BlockInStep` is the heart of it: a decoder whose table extends the
encoder's decodes any block to the fields that were encoded, and extends it
again afterwards, although the two may evict at different sizes. `EndedInv` adds
that a request which is complete is on its way or handled.

*Static file.* `FilePhase` says for each program point how much of head and body
has been sent and how much is still in the buffer; `Framing` that the pieces up
to the head's size are parts of a head with one announced length and those after
it are not. `FileKept`: the file is not shorter than announced unless it was cut
after it was measured. What was sent of a head that was given up is less than a
head, which is all that is known of it.

*WebSocket.* `WsInv` says that of the frames received in full the first `k` have
been kept, for some `k`: none of them ends the connection, the echoes sent are
`Messages(k)` and the pongs `Pongs(k)`, the fragment under assembly is
`MessageUpTo(k)`, and while the connection is open `k` is all of them and
`buffer_` begins behind frame `k`. `process_input()` is a loop, so the invariant is
stated of its local state too (`TurnInv`); `TurnKeeps` shows it of one turn and
`LoopEnds` that the loop has stopped after as many turns as there are frames.

*FastCGI answer.* `ReadInv` gives the place of `read_response()`: inside which
record, in its header, content or padding, how far, with `stdout_data` the stdout
of the records before it and no END_REQUEST among them. That place and `at` are
tied by the sums of the sizes of the records (`EndOfStep`, `RecordIs`, `TakenIs`).

*FastCGI request.* `SendInv`: what the application has and what is still in
`packet` make up the request that was put together, of a body that does not
change any more as the parser is done. `RecordsAre` shows that the records of a
stream hold it, none of them empty but the last; `ContentJoin` that
streams in a row do not disturb each other.

*Parser.* `SizedAt` says for a request without chunks which members the parser
has after any number of units: those of a new one up to the end of the head, and
behind it those that the head and the units since determine (`Headed`). Each
`feed()` starts over from the members the last one left, so this is what makes
the cuts irrelevant. For chunks `ParserInv` has the types and offsets only
(`Parsers`); one turn of the loop over chunks keeps them (`TurnType`), and the
loop stops within the turns the model gives it (`ChunksType`).

*Inspection.* `VerdictInv`: a verdict is given on complete requests only and is
what the signs and the parsed body call for. `InspectIs` is the lemma behind it.
`SoFar` relates the verdict under way to the sum of the parts so far: equal,
unless the verdict is to block already and then the sum suffices. `CheckAgrees`
shows the same of the headers, which are given up early; `DecodedIs` and
`ScanIs` that rounds of decoding find the signs of at most so many encodings.

*io_uring.* `Links` follows an operation from the submission queue through the
kernel to the completion queue: it is in one place, nothing but the notification
of a zero-copy send comes after its last result, and something comes after a
result that announces more. It is stated of arbitrary places, not of the
variables, so that each move between two places is one lemma. From it follow
`Registration`, `Provides`, `Pending` and `Callbacks`: what the table, the
counter and the callbacks have to be. `BufferInv` adds that each buffer has one
place and that notifications carry none. `StaleStays` is what lets the proof stop
where an entry is left unprepared: no step takes that back.

### Only model-checked

- Liveness, in every module: progress needs fairness and `ENABLED`, which the
  prover does not handle.
- `ParsedAsSent` of chunked bodies, and with it `VerdictIsTotal` and
  `ForwardedWhole` for them without a condition: that a parser which has not
  `slipped` has read a chunked body as it was sent. TLC shows it for every cut of
  the bodies of `exchange`.

The library's induction theorems take an operator as parameter and cannot be
used with the installed provers. Where a proof needs induction over data it goes
through sets of naturals instead (`LeastElement`, `NatInd`, `UpTo`, from `WFMin`),
which is enough for recursive functions over the naturals: `Total`, `TotalSize`,
`Decode`, `Encoding`, `WithFields`, `Turns`, `EndOf`, `HexValue`, `ParseChunks`,
`Decoded`, `CheckHeaders`, and `FlattenSeq` of the community modules
(`FlattenIs`). It does not reach the folds of those modules, which are
`RECURSIVE` or defined over all bijections of an index set; what is proved about
is written without them.

`NoneMeansDown` does not hold for round robin: its counter is shared, so a scan
may look at one backend twice and miss another. The property and its theorem are
about the other balancers.

## Not modelled

- Contents: the syntax of request lines and headers, the WAF's expressions and
  the steps of its normalisation other than percent-decoding, resolution of
  paths, CGI headers, Huffman coding and the static table of HPACK, compression,
  headers of traces, tokens and certificates.
- OpenSSL, the kernel and other processes, except for the outcomes the code
  looks at.
- HTTP/3: `quic_conn_` is never assigned in `http3.cpp` or `http3.hpp`, so every
  operation of a connection returns at its first test.
- gRPC: a codec of one message without state; a length near 2^32 wraps in
  `5 + length` (`grpc_handler.cpp:54`).
- JWT: decoding, cryptography and comparisons within one call.
- The tarpit's drip feed, the GeoIP stub, the cache's hit counters, `run_once()`.
- Logging. Its mutex in a signal handler is listed as a hazard.
- Data races on members of `config_`: single words are read and written, and
  the model lets a reader see the old or the new value.
- Components marked `not_modelled` in `PROJECT.json`, with the reason there.

## Plan

Every invariant and every action property that a passing run checks is the
statement of a theorem, those of chunked requests under the condition named
above. What is left is to follow the code. Should `feed()` move
`body_start_offset_` before it returns from its loop, `chunked_body` would hold,
`SizedAt` would get a case for chunks (after any number of units: the chunks
complete so far, and where the next one begins), and the condition could be
dropped from the theorems. In the same way the property of each further
configuration would hold with the line it names: `stranded`, `Loose`, `spelled`,
`padded` and `stale` would go, and the conditions that name them.
