---------------------------- MODULE ReverseProxy ----------------------------
(***************************************************************************)
(* ReverseProxy of src/proxy.cpp with one route: the threads of its        *)
(* callers in proxy_request(), over the cache and a load balancer, while   *)
(* health checks run, backends fail and recover, and the cache is managed  *)
(* through cache().  A request is its cache key; headers and bodies are    *)
(* not told apart.  do_http_request() is one step with its outcomes.       *)
(***************************************************************************)
EXTENDS LoadBalancer, HttpCache

CONSTANTS
    Routes,           \* records of an algorithm and of ProxyRoute::cache_enabled
    Responses,        \* what a backend that is up may answer
    GetKeys,          \* the keys of GET and HEAD requests
    HashOf,           \* [Keys -> Nat]: where the client's address falls on the ring
    CacheTtl,         \* ProxyRoute::cache_ttl
    MaxRetries,       \* ProxyRoute::max_retries, of a cached and of another route
    MaxRequests,      \* bound: requests in all, for a cached and another route
    MaxEvents         \* bound: changes of backends, or uses of the cache and ticks

VARIABLES
    cache_enabled,
    request,          \* per thread: the key of its request
    attempt,          \* per thread
    result,           \* per thread: the answer it holds
    requests, events  \* how many there were

proxyVars == <<cache_enabled, request, attempt, result, requests, events>>
vars == <<cacheVars, balancerVars, checkerVars, pc, steady, proxyVars>>

NoKey == CHOOSE k \in Keys : TRUE
Failed == [status |-> 0]   \* std::nullopt
ServerError == [status |-> 500, size |-> 1, spelled |-> TRUE, no_store |-> FALSE, private_ |-> FALSE,
                s_maxage |-> -1, max_age |-> -1]

ASSUME ProxyAssumption ==
    /\ Routes \subseteq [algorithm : {"round_robin", "least_connections", "ewma", "consistent_hash"},
                         cached : BOOLEAN]
    /\ GetKeys \subseteq Keys /\ HashOf \in [Keys -> 0..(Len(Ring) - 1)]
    /\ CacheTtl \in Nat /\ MaxRetries \in [BOOLEAN -> Nat]
    /\ Responses \subseteq [status : Nat, size : Nat, spelled : BOOLEAN, no_store : BOOLEAN,
                            private_ : BOOLEAN, s_maxage : Int, max_age : Int]
    /\ MaxRequests \in [BOOLEAN -> Nat] /\ MaxEvents \in [BOOLEAN -> Nat]

Init ==
    /\ CacheInit /\ BalancerInit
    /\ \E route \in Routes : algorithm = route.algorithm /\ cache_enabled = route.cached
    /\ request = [t \in Threads |-> NoKey]
    /\ attempt = [t \in Threads |-> 0]
    /\ result = [t \in Threads |-> Failed]
    /\ requests = 0 /\ events = 0

Key(t) == request[t]

(* A caller enters proxy_request() and the route is found.  Which key it    *)
(* asks for matters to the cache and to the ring only.                      *)
Request(t, key) ==
    /\ pc[t] = "idle" /\ requests < MaxRequests[cache_enabled]
    /\ key = NoKey \/ cache_enabled \/ algorithm = "consistent_hash"
    /\ requests' = requests + 1
    /\ request' = [request EXCEPT ![t] = key]
    /\ Goto(t, IF cache_enabled THEN "lookup" ELSE "try")
    /\ UNCHANGED <<cacheVars, balancerVars, checkerVars, steady, cache_enabled, attempt, result, events>>

(* The return from proxy_request(): its locals are gone.                    *)
Leave(t) ==
    /\ request' = [request EXCEPT ![t] = NoKey]
    /\ attempt' = [attempt EXCEPT ![t] = 0]
    /\ result' = [result EXCEPT ![t] = Failed]
    /\ UNCHANGED <<cache_enabled, requests, events>>

Lookup(t) ==
    /\ pc[t] = "lookup"
    /\ \/ (GetMiss(Key(t)) \/ GetExpired(Key(t))) /\ Goto(t, "try")
       \/ (GetFresh(Key(t)) \/ GetStale(Key(t))) /\ Goto(t, "hit")
    /\ UNCHANGED <<balancerVars, checkerVars, steady, proxyVars>>

Try(t) ==
    /\ pc[t] = "try"
    /\ BeginSelect(t, HashOf[Key(t)])
    /\ UNCHANGED <<cacheVars, checkerVars, proxyVars>>

Select(t) == SelectStep(t) /\ UNCHANGED <<cacheVars, checkerVars, proxyVars>>

(* Outcomes of do_http_request().  An answer with any status is a success;  *)
(* without a cache what it says is not looked at.                           *)
Answers(c) ==
    CASE c = "up" -> (IF cache_enabled THEN Responses ELSE {ServerError}) \cup {Failed}
      [] c = "failing" -> {ServerError}
      [] OTHER -> {Failed}

Retries == MaxRetries[cache_enabled]
RetriesLeft(t) == attempt[t] < Retries

(* Fault: a failed attempt that will be retried is not reported. *)
ForwardUnreported(t) ==
    /\ pc[t] = "forward"
    /\ \E r \in Answers(condition[backend[t]]) :
       \/ /\ r # Failed
          /\ ReportResult(t)
          /\ result' = [result EXCEPT ![t] = r]
          /\ Goto(t, "store") /\ UNCHANGED attempt
       \/ /\ r = Failed
          /\ backend' = [backend EXCEPT ![t] = NoBackend]
          /\ attempt' = [attempt EXCEPT ![t] = @ + 1]
          /\ Goto(t, IF RetriesLeft(t) THEN "try" ELSE "failed")
          /\ UNCHANGED <<result, algorithm, active_connections, counter_, scan, steady>>
    /\ UNCHANGED <<cacheVars, checkerVars, cache_enabled, request, requests, events>>

(* do_http_request() and the report_result() that follows it.               *)
Forward(t) ==
    /\ pc[t] = "forward"
    /\ ReportResult(t)
    /\ \E r \in Answers(condition[backend[t]]) :
       \/ /\ r # Failed
          /\ result' = [result EXCEPT ![t] = r]
          /\ Goto(t, "store") /\ UNCHANGED attempt
       \/ /\ r = Failed
          /\ attempt' = [attempt EXCEPT ![t] = @ + 1]
          /\ Goto(t, IF RetriesLeft(t) THEN "try" ELSE "failed")
          /\ UNCHANGED result
    /\ UNCHANGED <<cacheVars, checkerVars, cache_enabled, request, requests, events>>

IsCacheable(key, r) ==
    /\ key \in GetKeys
    /\ r.status < 400 \/ r.status = 404
    /\ ~Directives(r).no_store /\ ~Directives(r).private_

(* The answer is cached if it may be, and returned.                         *)
StoreResult(t) ==
    /\ pc[t] = "store"
    /\ \/ cache_enabled /\ IsCacheable(Key(t), result[t]) /\ Put(Key(t), result[t], CacheTtl)
       \/ ~(cache_enabled /\ IsCacheable(Key(t), result[t])) /\ UNCHANGED cacheVars
    /\ Goto(t, "idle") /\ Leave(t)
    /\ UNCHANGED <<balancerVars, checkerVars, steady>>

(* The other returns: a cached response, or one of the two 502s.            *)
Return(t) ==
    /\ pc[t] \in {"hit", "failed", "none"}
    /\ Goto(t, "idle") /\ Leave(t)
    /\ steady' = [steady EXCEPT ![t] = {}]
    /\ UNCHANGED <<cacheVars, balancerVars, checkerVars>>

ThreadStep(t) ==
    Lookup(t) \/ Try(t) \/ Select(t) \/ Forward(t) \/ StoreResult(t) \/ Return(t)

(* Health checks are left out for a cached route, to which they add nothing. *)
Probe == ~cache_enabled /\ CheckBackend /\ UNCHANGED <<cacheVars, proxyVars>>

(* Around the proxy: backends change, time passes, the cache is managed,    *)
(* revalidations that callbacks started come to an end.                     *)
Managed ==
    \/ Age
    \/ Clear
    \/ \E k \in Keys : Invalidate(k) \/ RevalidationFails(k)
    \/ \E k \in Keys, r \in Responses : IsCacheable(k, r) /\ Revalidated(k, r)

Surroundings ==
    /\ events < MaxEvents[cache_enabled]
    /\ events' = events + 1
    /\ \/ /\ ~cache_enabled /\ UNCHANGED cacheVars
          /\ \E b \in Backends, c \in Conditions : Change(b, c)
       \/ /\ cache_enabled /\ Managed
          /\ UNCHANGED <<balancerVars, checkerVars, pc, steady>>
    /\ UNCHANGED <<cache_enabled, request, attempt, result, requests>>

Next ==
    \/ \E t \in Threads : ThreadStep(t)
    \/ \E t \in Threads, k \in Keys : Request(t, k)
    \/ Probe
    \/ Surroundings

Spec == Init /\ [][Next]_vars

(* Callers' threads run on, and check_all() is called periodically.         *)
FairSpec == Spec /\ WF_vars(Probe) /\ \A t \in Threads : WF_vars(ThreadStep(t))

-----------------------------------------------------------------------------
(* The shapes of the variables; attempt stays within ProxyRoute::max_retries. *)
TypeOK ==
    /\ healthy \in [Backends -> BOOLEAN]
    /\ active_connections \in [Backends -> Nat]
    /\ counter_ \in 0..(N - 1) /\ next_probe \in 1..N
    /\ pc \in [Threads -> {"idle", "lookup", "hit", "try", "select", "take", "none", "forward",
                           "store", "failed"}]
    /\ backend \in [Threads -> Backends \cup {NoBackend}]
    /\ attempt \in [Threads -> 0..(Retries + 1)]
    /\ index_ \subseteq Keys /\ current_memory_ \in Nat

(* What the cache holds may be given to anybody, as far as the code sees:   *)
(* no answer to a POST, no server error, and nothing private or no-store    *)
(* under a Cache-Control in the spelling it looks for.                      *)
CacheHoldsPublic ==
    \A e \in ToSet(lru_list_) :
        /\ e.key \in GetKeys /\ e.response.status # 500
        /\ e.response.spelled => ~e.response.private_ /\ ~e.response.no_store

(* "Don't cache" what Cache-Control says not to store (cache.cpp:75).  The  *)
(* names of header fields do not tell upper case from lower.                *)
NoStoreObeyed == \A e \in ToSet(lru_list_) : ~e.response.no_store

(* The cache as its callers' threads leave it: index, list and memory agree *)
(* and are within the limits, the list is in the order of use, and nothing  *)
(* is kept that failed or was recognised as private or no-store.            *)
CacheSound == TypeOK /\ CacheConsistent /\ CacheBounded /\ InOrderOfUse /\ CacheHoldsPublic

(* put() evicts what was used longest ago and no more than it must: every   *)
(* entry that stays was used after every one that goes, and the last used   *)
(* of those that go would not have fitted.                                  *)
Evicted == index_ \ index_'
LeastRecentEvicted ==
    /\ \A victim \in Evicted :
          \A kept \in (index_ \cap index_') \ {lru_list_'[1].key} : <<kept, victim>> \in recency
    /\ Evicted # {} =>
          \E victim \in Evicted :
             /\ \A other \in Evicted \ {victim} : <<victim, other>> \in recency
             /\ \/ Len(lru_list_') >= MaxEntries
                \/ current_memory_' + EntrySize(EntryOf(victim)) > MaxMemory
Puts ==   \* a caller stores its answer, or a revalidation begins or ends
    \/ \E t \in Threads : pc[t] = "store" /\ pc'[t] = "idle"
    \/ revalidations' # revalidations
EvictsLeastRecent == [][Puts => LeastRecentEvicted]_vars

(* A hit is no older than the response's own Cache-Control allows, plus the *)
(* stale window, or than the defaults of route and cache where it says      *)
(* nothing or says it in another spelling; max-age=0 apart, for which put() *)
(* takes the default.                                                       *)
Lifetime(r) == IF r.spelled /\ r.s_maxage >= 0 THEN r.s_maxage
               ELSE IF r.spelled /\ r.max_age >= 0 THEN r.max_age ELSE Max({CacheTtl, DefaultTtl})
HitsWithinLifetime ==
    [][\A t \in Threads :
          pc[t] = "lookup" /\ pc'[t] = "hit" /\ Lifetime(EntryOf(Key(t)).response) # 0 =>
              clock - EntryOf(Key(t)).created < Lifetime(EntryOf(Key(t)).response) + StaleWhileRevalidate]_vars

(* Every call of proxy_request() returns: the scans of select() end, and    *)
(* the retries are counted across the attempts.  A do_http_request() is     *)
(* taken to end: its receives time out, a backend that takes no bytes or    *)
(* sends them one at a time is left out.                                    *)
RequestsReturn == \A t \in Threads : pc[t] # "idle" ~> pc[t] = "idle"

(* A backend that is up again for good is used again.                       *)
RecoveredIsUsed == \A b \in Backends : <>[](condition[b] = "up") => <>[]healthy[b]
=============================================================================
