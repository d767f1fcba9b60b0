------------------------------- MODULE Server -------------------------------
(***************************************************************************)
(* src/server.cpp: the epoll reactor (start, event_loop), the queue of     *)
(* accepted connections with its mutex and condition variable, the worker  *)
(* threads (worker_thread_func around Worker::handle_connection), and the  *)
(* two signals of src/main.cpp, which call stop() and reload_config() at   *)
(* any moment.                                                             *)
(*                                                                         *)
(* The reactor's program point rpc:                                        *)
(*   starting -> loop -> [load] -> wait -> accept -> check -> admit        *)
(*     -> push -> notify -> accept ...;  loop -> join -> done              *)
(* A worker's points outside handle_connection:                            *)
(*   loop -> lock -> pred -> handle ...   | pred -> block -> waiting -> lock *)
(***************************************************************************)
EXTENDS Worker, Sequences, FiniteSets

CONSTANTS
    Nobody,          \* queue_mutex_ is free
    FileConfigs,     \* contents the configuration file may have
    DefaultConfig,   \* Config::defaults()
    Missing,         \* the configuration file cannot be opened
    Malformed,       \* a number in it is none: std::stoi throws
    TlsChoices,      \* values of tls_enabled that are tried
    HasConfigPath,   \* config_path_ is not empty
    MaxOpenFiles,    \* client descriptors left by RLIMIT_NOFILE
    AcceptMayFail,   \* accept4 may fail with ENFILE, ENOBUFS, ECONNABORTED ...
    EpollMayFail,    \* epoll_wait may fail with something other than EINTR
    SpuriousWakeups, \* a condition variable may wake without a notification
    MaxStops, MaxEdits, MaxTime  \* bounds: SIGTERMs, edits of the file, ticks

VARIABLES
    running_, reload_requested_,
    pending_, queue_mutex_,
    rpc, rconn,        \* the reactor: program point, connection in hand
    edge,              \* epoll has an unreported edge on the listener
    stopping, stops,   \* inside Server::stop(), between its two statements
    new_config,        \* what a reload has read and not yet applied
    conf_file, dirty, edits  \* the file; edited and not yet followed by SIGHUP

serverVars == <<running_, reload_requested_, pending_, queue_mutex_, rpc, rconn,
                edge, stopping, stops, conf_file, new_config, dirty, edits>>
vars == <<workerVars, serverVars>>

ConfigRecord == [max_per_ip : Int, waf_enabled : BOOLEAN]

ASSUME ServerAssumption ==
    /\ IsFiniteSet(Workers) /\ Nobody \notin Workers
    /\ MaxTotal >= 0
    /\ FileConfigs \subseteq ConfigRecord
    /\ DefaultConfig \in ConfigRecord
    /\ Missing \notin ConfigRecord
    /\ Malformed \notin ConfigRecord \cup {Missing}
    /\ TlsChoices \subseteq BOOLEAN
    /\ HasConfigPath \in BOOLEAN
    /\ AcceptMayFail \in BOOLEAN
    /\ EpollMayFail \in BOOLEAN
    /\ SpuriousWakeups \in BOOLEAN
    /\ MaxOpenFiles \in Nat
    /\ MaxStops \in Nat /\ MaxEdits \in Nat /\ MaxTime \in Nat

(* Config::load_from_file: a file that cannot be opened means defaults; a   *)
(* malformed one throws and yields no configuration.                        *)
LoadFromFile(f) == IF f = Missing THEN DefaultConfig ELSE f

OpenFds == {c \in Conns : cstate[c] = "open"}
Waiting == {w \in Workers : wpc[w] = "waiting"}

Init ==
    /\ conf_file \in IF HasConfigPath THEN FileConfigs \cup {Missing} ELSE {Missing}
    /\ GuardInit(LoadFromFile(conf_file).max_per_ip)
    /\ waf_enabled = LoadFromFile(conf_file).waf_enabled
    /\ MetricsInit
    /\ cstate = [c \in Conns |-> "new"]
    /\ wpc = [w \in Workers |-> "unborn"]
    /\ wconn = [w \in Workers |-> NoConn]
    /\ msgs = [w \in Workers |-> 0]
    /\ tls_enabled \in TlsChoices
    /\ running_ = FALSE
    /\ reload_requested_ = FALSE
    /\ pending_ = <<>>
    /\ queue_mutex_ = Nobody
    /\ rpc = "starting"
    /\ rconn = NoConn
    /\ edge = FALSE
    /\ stopping = FALSE
    /\ stops = 0
    /\ new_config = DefaultConfig
    /\ dirty = FALSE
    /\ edits = 0

-----------------------------------------------------------------------------
(* The main thread: start() and event_loop().                               *)

(* The listener is set up; running_ = true and the workers are spawned.     *)
Start ==
    /\ rpc = "starting"
    /\ running_' = TRUE
    /\ wpc' = [w \in Workers |-> "loop"]
    /\ rpc' = "loop"
    /\ UNCHANGED <<guardVars, metrics, cstate, wconn, msgs, tls_enabled, waf_enabled,
                   reload_requested_, pending_, queue_mutex_, rconn, edge,
                   stopping, stops, conf_file, new_config, dirty, edits>>

(* while (running_), then reload_requested_.exchange(false).                *)
LoopTop ==
    /\ rpc = "loop"
    /\ \/ ~running_ /\ rpc' = "join" /\ UNCHANGED reload_requested_
       \/ /\ running_
          /\ reload_requested_' = FALSE
          /\ rpc' = IF reload_requested_ /\ HasConfigPath THEN "load" ELSE "wait"
    /\ UNCHANGED <<workerVars, running_, pending_, queue_mutex_, rconn, edge,
                   stopping, stops, conf_file, new_config, dirty, edits>>

(* load_from_file; the file may be edited and signalled again before what   *)
(* was read is applied.                                                     *)
ReadConfig ==
    /\ rpc = "load"
    /\ conf_file # Malformed
    /\ new_config' = LoadFromFile(conf_file)
    /\ rpc' = "apply"
    /\ UNCHANGED <<workerVars, running_, reload_requested_, pending_, queue_mutex_, rconn,
                   edge, stopping, stops, conf_file, dirty, edits>>

(* Fault: the request flag is cleared after the reload. *)
ReloadThenClear ==
    /\ rpc = "apply"
    /\ SetMaxPerIp(new_config.max_per_ip)
    /\ waf_enabled' = new_config.waf_enabled
    /\ new_config' = DefaultConfig
    /\ reload_requested_' = FALSE
    /\ rpc' = "wait"
    /\ UNCHANGED <<metrics, cstate, wpc, wconn, msgs, tls_enabled,
                   running_, pending_, queue_mutex_, rconn,
                   edge, stopping, stops, conf_file, dirty, edits>>

(* The guard's limit, then config_; new_config goes out of scope.           *)
ApplyReload ==
    /\ rpc = "apply"
    /\ SetMaxPerIp(new_config.max_per_ip)
    /\ waf_enabled' = new_config.waf_enabled
    /\ new_config' = DefaultConfig
    /\ rpc' = "wait"
    /\ UNCHANGED <<metrics, cstate, wpc, wconn, msgs, tls_enabled,
                   running_, reload_requested_, pending_, queue_mutex_, rconn,
                   edge, stopping, stops, conf_file, dirty, edits>>

(* load_from_file throws; nothing catches it and the process terminates.    *)
ReloadThrows ==
    /\ rpc = "load"
    /\ conf_file = Malformed
    /\ rpc' = "crashed"
    /\ UNCHANGED <<workerVars, running_, reload_requested_, pending_, queue_mutex_,
                   rconn, edge, stopping, stops, conf_file, new_config, dirty, edits>>

(* epoll_wait reports the listener; the edge is consumed ...                *)
EpollReports ==
    /\ rpc = "wait"
    /\ edge
    /\ edge' = FALSE
    /\ rpc' = "accept"
    /\ UNCHANGED <<workerVars, running_, reload_requested_, pending_, queue_mutex_,
                   rconn, stopping, stops, conf_file, new_config, dirty, edits>>

(* ... or, with nothing to report, times out after a second or is           *)
(* interrupted (EINTR).                                                     *)
EpollReturnsEmpty ==
    /\ rpc = "wait"
    /\ ~edge
    /\ rpc' = "loop"
    /\ UNCHANGED <<workerVars, running_, reload_requested_, pending_, queue_mutex_,
                   rconn, edge, stopping, stops, conf_file, new_config, dirty, edits>>

(* Any other error leaves the loop with running_ still true.                *)
EpollFails ==
    /\ EpollMayFail
    /\ rpc = "wait"
    /\ rpc' = "join"
    /\ UNCHANGED <<workerVars, running_, reload_requested_, pending_, queue_mutex_,
                   rconn, edge, stopping, stops, conf_file, new_config, dirty, edits>>

(* accept4 succeeds.                                                        *)
Accept ==
    /\ rpc = "accept"
    /\ Cardinality(OpenFds) < MaxOpenFiles
    /\ \E c \in Conns :
          /\ cstate[c] = "backlog"
          /\ cstate' = [cstate EXCEPT ![c] = "open"]
          /\ rconn' = c
    /\ rpc' = "check"
    /\ UNCHANGED <<guardVars, metrics, wpc, wconn, msgs, tls_enabled, waf_enabled,
                   running_, reload_requested_, pending_, queue_mutex_, edge,
                   stopping, stops, conf_file, new_config, dirty, edits>>

(* accept4 fails: EAGAIN on an empty backlog, EMFILE with no descriptor     *)
(* left, or any other error, whatever the backlog holds.  All of them leave *)
(* the accept loop.                                                         *)
AcceptFails ==
    /\ rpc = "accept"
    /\ \/ \A c \in Conns : cstate[c] # "backlog"
       \/ Cardinality(OpenFds) >= MaxOpenFiles
       \/ AcceptMayFail
    /\ rpc' = "loop"
    /\ UNCHANGED <<workerVars, running_, reload_requested_, pending_, queue_mutex_,
                   rconn, edge, stopping, stops, conf_file, new_config, dirty, edits>>

(* allow_connection, its unlocked half.                                     *)
CheckTotal ==
    /\ rpc = "check"
    /\ rpc' = IF GlobalLimitReached THEN "refuse" ELSE "admit"
    /\ UNCHANGED <<workerVars, running_, reload_requested_, pending_, queue_mutex_,
                   rconn, edge, stopping, stops, conf_file, new_config, dirty, edits>>

(* allow_connection, its locked half.                                       *)
CheckPerIp ==
    /\ rpc = "admit"
    /\ \/ AdmitConnection(IpOf[rconn]) /\ rpc' = "push"
       \/ RefuseConnection(IpOf[rconn]) /\ rpc' = "refuse"
    /\ UNCHANGED <<metrics, cstate, wpc, wconn, msgs, tls_enabled, waf_enabled,
                   running_, reload_requested_, pending_, queue_mutex_, rconn,
                   edge, stopping, stops, conf_file, new_config, dirty, edits>>

RefuseClient ==
    /\ rpc = "refuse"
    /\ metrics' = RecordBlockedIp(metrics)
    /\ cstate' = [cstate EXCEPT ![rconn] = "closed"]
    /\ rconn' = NoConn
    /\ rpc' = "accept"
    /\ UNCHANGED <<guardVars, wpc, wconn, msgs, tls_enabled, waf_enabled,
                   running_, reload_requested_, pending_, queue_mutex_, edge,
                   stopping, stops, conf_file, new_config, dirty, edits>>

(* Fault: no notify_one after the push. *)
EnqueueSilently ==
    /\ rpc = "push"
    /\ queue_mutex_ = Nobody
    /\ pending_' = Append(pending_, rconn)
    /\ rconn' = NoConn
    /\ rpc' = "accept"
    /\ UNCHANGED <<workerVars, running_, reload_requested_, queue_mutex_, edge,
                   stopping, stops, conf_file, new_config, dirty, edits>>

(* Lock, push, unlock.                                                      *)
Enqueue ==
    /\ rpc = "push"
    /\ queue_mutex_ = Nobody
    /\ pending_' = Append(pending_, rconn)
    /\ rconn' = NoConn
    /\ rpc' = "notify"
    /\ UNCHANGED <<workerVars, running_, reload_requested_, queue_mutex_, edge,
                   stopping, stops, conf_file, new_config, dirty, edits>>

(* Fault: one accept per reported edge. *)
NotifyThenWait ==
    /\ rpc = "notify"
    /\ \/ \E w \in Waiting : Goto(w, "lock")
       \/ Waiting = {} /\ UNCHANGED wpc
    /\ rpc' = "loop"
    /\ UNCHANGED <<guardVars, metrics, cstate, wconn, msgs, tls_enabled, waf_enabled,
                   running_, reload_requested_, pending_, queue_mutex_, rconn,
                   edge, stopping, stops, conf_file, new_config, dirty, edits>>

(* notify_one wakes one waiting worker, if there is one.                    *)
NotifyOne ==
    /\ rpc = "notify"
    /\ \/ \E w \in Waiting : Goto(w, "lock")
       \/ Waiting = {} /\ UNCHANGED wpc
    /\ rpc' = "accept"
    /\ UNCHANGED <<guardVars, metrics, cstate, wconn, msgs, tls_enabled, waf_enabled,
                   running_, reload_requested_, pending_, queue_mutex_, rconn,
                   edge, stopping, stops, conf_file, new_config, dirty, edits>>

(* start() joins the workers and returns.                                   *)
Join ==
    /\ rpc = "join"
    /\ \A w \in Workers : wpc[w] = "exited"
    /\ rpc' = "done"
    /\ UNCHANGED <<workerVars, running_, reload_requested_, pending_, queue_mutex_,
                   rconn, edge, stopping, stops, conf_file, new_config, dirty, edits>>

Reactor ==
    \/ Start
    \/ LoopTop
    \/ ReadConfig
    \/ ApplyReload
    \/ ReloadThrows
    \/ EpollReports
    \/ EpollReturnsEmpty
    \/ EpollFails
    \/ Accept
    \/ AcceptFails
    \/ CheckTotal
    \/ CheckPerIp
    \/ RefuseClient
    \/ Enqueue
    \/ NotifyOne
    \/ Join

-----------------------------------------------------------------------------
(* A worker thread: worker_thread_func.                                     *)

LoopTest(w) ==
    /\ wpc[w] = "loop"
    /\ Goto(w, IF running_ THEN "lock" ELSE "exited")
    /\ UNCHANGED <<guardVars, metrics, cstate, wconn, msgs, tls_enabled, waf_enabled,
                   serverVars>>

(* The unique_lock, or its re-acquisition inside wait().                    *)
Lock(w) ==
    /\ wpc[w] = "lock"
    /\ queue_mutex_ = Nobody
    /\ queue_mutex_' = w
    /\ Goto(w, "pred")
    /\ UNCHANGED <<guardVars, metrics, cstate, wconn, msgs, tls_enabled, waf_enabled,
                   running_, reload_requested_, pending_, rpc, rconn, edge,
                   stopping, stops, conf_file, new_config, dirty, edits>>

(* The predicate of queue_cv_.wait is false: the thread will block.         *)
PredicateFalse(w) ==
    /\ wpc[w] = "pred"
    /\ pending_ = <<>> /\ running_
    /\ Goto(w, "block")
    /\ UNCHANGED <<guardVars, metrics, cstate, wconn, msgs, tls_enabled, waf_enabled,
                   serverVars>>

(* wait() releases the mutex and joins the waiters in one step, but only    *)
(* after the predicate was evaluated.                                       *)
Block(w) ==
    /\ wpc[w] = "block"
    /\ queue_mutex_' = Nobody
    /\ Goto(w, "waiting")
    /\ UNCHANGED <<guardVars, metrics, cstate, wconn, msgs, tls_enabled, waf_enabled,
                   running_, reload_requested_, pending_, rpc, rconn, edge,
                   stopping, stops, conf_file, new_config, dirty, edits>>

(* Fault: front() without pop(). *)
TakeWithoutPop(w) ==
    /\ wpc[w] = "pred"
    /\ pending_ # <<>>
    /\ wconn' = [wconn EXCEPT ![w] = Head(pending_)]
    /\ queue_mutex_' = Nobody
    /\ Goto(w, "handle")
    /\ UNCHANGED <<guardVars, metrics, cstate, msgs, tls_enabled, waf_enabled, pending_,
                   running_, reload_requested_, rpc, rconn, edge,
                   stopping, stops, conf_file, new_config, dirty, edits>>

(* The predicate holds and there is work: take the front, unlock.  running_ *)
(* never returns to true, so the test that follows wait() agrees with the   *)
(* predicate and both are one step.                                         *)
Take(w) ==
    /\ wpc[w] = "pred"
    /\ pending_ # <<>>
    /\ wconn' = [wconn EXCEPT ![w] = Head(pending_)]
    /\ pending_' = Tail(pending_)
    /\ queue_mutex_' = Nobody
    /\ Goto(w, "handle")
    /\ UNCHANGED <<guardVars, metrics, cstate, msgs, tls_enabled, waf_enabled,
                   running_, reload_requested_, rpc, rconn, edge,
                   stopping, stops, conf_file, new_config, dirty, edits>>

(* if (!running_ && pending_.empty()) return.                               *)
ReturnEmpty(w) ==
    /\ wpc[w] = "pred"
    /\ pending_ = <<>> /\ ~running_
    /\ queue_mutex_' = Nobody
    /\ Goto(w, "exited")
    /\ UNCHANGED <<guardVars, metrics, cstate, wconn, msgs, tls_enabled, waf_enabled,
                   running_, reload_requested_, pending_, rpc, rconn, edge,
                   stopping, stops, conf_file, new_config, dirty, edits>>

SpuriousWakeup(w) ==
    /\ SpuriousWakeups
    /\ wpc[w] = "waiting"
    /\ Goto(w, "lock")
    /\ UNCHANGED <<guardVars, metrics, cstate, wconn, msgs, tls_enabled, waf_enabled,
                   serverVars>>

Dispatch(w) ==
    \/ LoopTest(w)
    \/ Lock(w)
    \/ PredicateFalse(w)
    \/ Block(w)
    \/ Take(w)
    \/ ReturnEmpty(w)

-----------------------------------------------------------------------------
(* Signals, the operator, the clients, the clock.                           *)

(* SIGINT or SIGTERM: Server::stop() stores running_ ...                    *)
StopStore ==
    /\ stops < MaxStops
    /\ ~stopping
    /\ running_' = FALSE
    /\ stopping' = TRUE
    /\ stops' = stops + 1
    /\ UNCHANGED <<workerVars, reload_requested_, pending_, queue_mutex_, rpc, rconn,
                   edge, conf_file, new_config, dirty, edits>>

(* Fault: notify_one for notify_all. *)
StopNotifyOne ==
    /\ stopping
    /\ \/ \E w \in Waiting : Goto(w, "lock")
       \/ Waiting = {} /\ UNCHANGED wpc
    /\ stopping' = FALSE
    /\ UNCHANGED <<guardVars, metrics, cstate, wconn, msgs, tls_enabled, waf_enabled,
                   running_, reload_requested_, pending_, queue_mutex_, rpc, rconn,
                   edge, stops, conf_file, new_config, dirty, edits>>

(* ... and then notifies every waiter, without queue_mutex_.                *)
StopNotify ==
    /\ stopping
    /\ wpc' = [w \in Workers |-> IF wpc[w] = "waiting" THEN "lock" ELSE wpc[w]]
    /\ stopping' = FALSE
    /\ UNCHANGED <<guardVars, metrics, cstate, wconn, msgs, tls_enabled, waf_enabled,
                   running_, reload_requested_, pending_, queue_mutex_, rpc, rconn,
                   edge, stops, conf_file, new_config, dirty, edits>>

EditConfigFile ==
    /\ edits < MaxEdits
    /\ \E f \in FileConfigs \cup {Missing, Malformed} : f # conf_file /\ conf_file' = f
    /\ dirty' = TRUE
    /\ edits' = edits + 1
    /\ UNCHANGED <<workerVars, running_, reload_requested_, pending_, queue_mutex_,
                   rpc, rconn, edge, stopping, stops, new_config>>

(* SIGHUP: Server::reload_config().                                         *)
Sighup ==
    /\ dirty
    /\ reload_requested_' = TRUE
    /\ dirty' = FALSE
    /\ UNCHANGED <<workerVars, running_, pending_, queue_mutex_, rpc, rconn, edge,
                   stopping, stops, conf_file, new_config, edits>>

(* A client's connection enters the backlog and raises an edge.             *)
Connect(c) ==
    /\ rpc \notin {"starting", "done"}
    /\ cstate[c] = "new"
    /\ cstate' = [cstate EXCEPT ![c] = "backlog"]
    /\ edge' = TRUE
    /\ UNCHANGED <<guardVars, metrics, wpc, wconn, msgs, tls_enabled, waf_enabled,
                   running_, reload_requested_, pending_, queue_mutex_, rpc, rconn,
                   stopping, stops, conf_file, new_config, dirty, edits>>

ClockTick ==
    /\ now < MaxTime
    /\ Tick
    /\ UNCHANGED <<metrics, cstate, wpc, wconn, msgs, tls_enabled, waf_enabled, serverVars>>

(* The process is there: no exception has ended it.                         *)
Alive == rpc # "crashed"

(* start() has returned and main has ended, or the process was terminated.  *)
Terminated == rpc \in {"done", "crashed"} /\ UNCHANGED vars

Environment ==
    \/ StopStore
    \/ EditConfigFile
    \/ Sighup
    \/ \E c \in Conns : Connect(c)
    \/ ClockTick

Next ==
    \/ Reactor
    \/ \E w \in Workers : Alive /\ Dispatch(w)
    \/ \E w \in Workers : Alive /\ SpuriousWakeup(w)
    \/ \E w \in Workers : Alive /\ HandleStep(w) /\ UNCHANGED serverVars
    \/ \E w \in Workers : Alive /\ ClientStep(w) /\ UNCHANGED serverVars
    \/ Alive /\ StopNotify
    \/ Alive /\ Environment
    \/ Terminated

Spec == Init /\ [][Next]_vars

(* Every thread keeps running and a signal handler that was entered runs to *)
(* its end.  Clients, operators and the clock owe nothing.                  *)
Fairness ==
    /\ WF_vars(Reactor)
    /\ WF_vars(Alive /\ StopNotify)
    /\ \A w \in Workers :
          /\ WF_vars(Alive /\ Dispatch(w))
          /\ WF_vars(Alive /\ HandleStep(w) /\ UNCHANGED serverVars)

FairSpec == Spec /\ Fairness

-----------------------------------------------------------------------------
TypeOK ==
    /\ GuardTypeOK
    /\ MetricsTypeOK
    /\ WorkerTypeOK
    /\ wpc \in [Workers -> Handling \cup {"unborn", "loop", "lock", "pred", "block",
                                         "waiting", "exited"}]
    /\ running_ \in BOOLEAN /\ reload_requested_ \in BOOLEAN
    /\ pending_ \in Seq(Conns)
    /\ queue_mutex_ \in Workers \cup {Nobody}
    /\ rpc \in {"starting", "loop", "load", "apply", "wait", "accept", "check", "admit", "refuse",
               "push", "notify", "join", "done", "crashed"}
    /\ rconn \in Conns \cup {NoConn}
    /\ edge \in BOOLEAN /\ stopping \in BOOLEAN /\ dirty \in BOOLEAN
    /\ conf_file \in FileConfigs \cup {Missing, Malformed}
    /\ new_config \in ConfigRecord
    /\ stops \in Nat /\ edits \in Nat

InQueue(c) == \E i \in DOMAIN pending_ : pending_[i] = c

(* No descriptor has two owners: the reactor, a place in the queue and a    *)
(* worker never hold the same connection, so no close() can hit a           *)
(* descriptor that the kernel has already given to another client.          *)
NoDescriptorShared ==
    /\ \A i, j \in DOMAIN pending_ : pending_[i] = pending_[j] => i = j
    /\ \A v, w \in Workers : wconn[v] = wconn[w] /\ wconn[v] # NoConn => v = w
    /\ \A w \in Workers : ~InQueue(wconn[w]) /\ (wconn[w] = rconn => rconn = NoConn)
    /\ ~InQueue(rconn)

(* A descriptor is open exactly while somebody is responsible for it: none  *)
(* leaks on an error path, and none is used after it was closed.            *)
NoDescriptorLost ==
    \A c \in Conns :
        cstate[c] = "open" <=>
            \/ rconn = c
            \/ InQueue(c)
            \/ \E w \in Workers : wconn[w] = c /\ wpc[w] \in Serving

(* Every descriptor has exactly one owner between accept4() and its one     *)
(* close(): the reactor, the queue or a worker.                             *)
DescriptorsOwned == TypeOK /\ NoDescriptorShared /\ NoDescriptorLost

(* The connections for which allow_connection returned true and             *)
(* release_connection was not called yet.                                   *)
Held ==
    {c \in Conns : \/ rpc = "push" /\ rconn = c
                  \/ InQueue(c)
                  \/ \E w \in Workers : wconn[w] = c /\ wpc[w] \in Holding}

(* The server uses the guard as DDoSGuardUse assumes: one admission at a    *)
(* time, requests only on open connections, one release per admission on    *)
(* every path of the workers.  So all that holds of it holds of the server. *)
Guard == INSTANCE DDoSGuardUse WITH
    open <- Held,
    admitting <- IF rpc = "admit" THEN rconn ELSE NoConn,
    MaxPerIpChoices <- {f.max_per_ip : f \in FileConfigs \cup {DefaultConfig}}

UsesGuardProperly == Guard!UseSpec

(* The slots the guard counts are those of the connections in flight, and   *)
(* there are never more of them than max_total_connections.                 *)
SlotsExact == Guard!ActiveIsExact /\ Guard!TotalIsExact /\ Guard!HardCap

(* Workers on their way to look at the queue.                               *)
EnRoute == {w \in Workers : wpc[w] \in {"loop", "lock", "pred"}}

(* No wakeup is lost while the server runs: when a worker sleeps, every     *)
(* queued connection has a worker on its way to the queue, or the           *)
(* notify_one that follows its push is still to come.                       *)
NoLostWakeup ==
    running_ /\ Waiting # {} =>
        Len(pending_) <= Cardinality(EnRoute) + (IF rpc = "notify" THEN 1 ELSE 0)

(* /metrics adds up: the gauges count the workers inside handle_connection, *)
(* every client that was refused or handed to a worker is counted once, and *)
(* no exit path counts the request of a connection twice.                   *)
GaugesExact ==
    /\ metrics.active_connections_ = Cardinality({w \in Workers : wpc[w] \in Counted})
    /\ metrics.active_workers_ = metrics.active_connections_
    /\ metrics.total_connections_ + metrics.blocked_ips_ =
          Cardinality({c \in Conns :
              cstate[c] = "closed" \/ \E w \in Workers : wconn[w] = c /\ wpc[w] \in Counted})
    /\ metrics.total_requests_ <= metrics.total_connections_

(* A reload is not lost: once every edit was followed by a SIGHUP and no    *)
(* reload is requested or under way, the file is in effect, even when it    *)
(* was edited and signalled again while a reload was reading it.            *)
ConfigFresh ==
    Alive /\ ~dirty /\ ~reload_requested_ /\ rpc \notin {"load", "apply"} /\ HasConfigPath =>
        /\ max_per_ip_ = LoadFromFile(conf_file).max_per_ip
        /\ waf_enabled = LoadFromFile(conf_file).waf_enabled

(* A connection that reached the queue is served and closed, while the      *)
(* server runs and clients do not keep every worker busy for ever.          *)
QueuedIsServed ==
    \A c \in Conns :
        InQueue(c) /\ running_ ~> cstate[c] = "closed" \/ ~running_

(* "Accept all pending connections (edge-triggered)" (server.cpp:452): a    *)
(* connection does not stay in the backlog while the server runs.           *)
AllPendingAccepted ==
    \A c \in Conns :
        cstate[c] = "backlog" /\ running_ ~> cstate[c] # "backlog" \/ ~running_

(* "5 minute idle timeout" (worker.cpp:526): a client that sends no more    *)
(* does not keep a worker in the loop of handle_websocket for ever.         *)
IdleIsClosed ==
    \A w \in Workers : wpc[w] = "ws" ~> wpc[w] # "ws"

(* After stop() every worker that is awake, and every worker that waits     *)
(* when notify_all is reached, leaves its loop.                             *)
AwakeWorkersExit ==
    \A w \in Workers :
        /\ rpc # "starting" /\ ~running_ /\ wpc[w] # "block"
        /\ wpc[w] = "waiting" => stopping
        ~> wpc[w] = "exited"
=============================================================================
