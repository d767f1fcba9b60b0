---------------------------- MODULE LoadBalancer ----------------------------
(***************************************************************************)
(* The load balancers and the HealthChecker of src/load_balancer.cpp.      *)
(* Threads call select() and report_result() at the same time; a balancer  *)
(* has no lock, so every access to an atomic is a step.  EWMA scores are   *)
(* floating point and depend on the clock: which of two healthy backends   *)
(* scores lower is a choice.  counter_ is kept modulo the number of        *)
(* backends, which is all that is used of it.                              *)
(***************************************************************************)
EXTENDS Integers, Sequences, FiniteSetsExt

CONSTANTS
    Threads,
    Ptrs,                 \* ptrs_: the backends, a sequence without repetition
    Ring,                 \* ring_: the backends of the virtual nodes by their hash
    NoBackend,            \* nullptr
    Conditions,           \* what may be true of a backend
    UnhealthyThreshold, HealthyThreshold

VARIABLES
    algorithm,            \* the kind of balancer the route has
    healthy, active_connections,   \* of each Backend
    counter_,
    scan,                 \* per thread: the locals of a select() that is running
    pc, backend,          \* per thread: where it stands, the backend it was given
    failure_counts_, success_counts_,
    next_probe,           \* the checker's loop in check_all()
    condition,            \* what is true of each backend
    steady,               \* history: backends healthy since the thread's select() began
    outcomes              \* history: the latest probes of each backend, the last one first

balancerVars == <<algorithm, active_connections, counter_, scan, backend>>
checkerVars == <<healthy, failure_counts_, success_counts_, next_probe, condition, outcomes>>

Backends == {Ptrs[i] : i \in DOMAIN Ptrs}
N == Len(Ptrs)

ASSUME BalancerAssumption ==
    /\ IsFiniteSet(Threads)
    /\ Ptrs \in Seq(Backends) /\ N > 0
    /\ Ring \in Seq(Backends) /\ \A b \in Backends : \E i \in DOMAIN Ring : Ring[i] = b
    /\ NoBackend \notin Backends
    /\ Conditions \subseteq {"up", "failing", "unreachable", "refusing", "silent"}
    /\ {UnhealthyThreshold, HealthyThreshold} \subseteq Nat \ {0}

NoScan == [i |-> 0, best |-> NoBackend, least |-> 0]

BalancerInit ==
    /\ healthy = [b \in Backends |-> TRUE]
    /\ active_connections = [b \in Backends |-> 0]
    /\ counter_ = 0
    /\ scan = [t \in Threads |-> NoScan]
    /\ pc = [t \in Threads |-> "idle"]
    /\ backend = [t \in Threads |-> NoBackend]
    /\ failure_counts_ = [b \in Backends |-> 0]
    /\ success_counts_ = [b \in Backends |-> 0]
    /\ next_probe = 1
    /\ condition = [b \in Backends |-> "up"]
    /\ steady = [t \in Threads |-> {}]
    /\ outcomes = [b \in Backends |-> <<>>]

-----------------------------------------------------------------------------
(* select().  "select" scans, "take" adds to active_connections, "forward"  *)
(* is the return of a backend, "none" that of nullptr.                      *)
Goto(t, to) == pc' = [pc EXCEPT ![t] = to]

(* For consistent hashing the scan begins where the client's hash falls.    *)
BeginSelect(t, hash) ==
    /\ Goto(t, "select")
    /\ scan' = [scan EXCEPT ![t] = [i |-> 0, best |-> NoBackend,
                                    least |-> IF algorithm = "consistent_hash" THEN hash ELSE 0]]
    /\ steady' = [steady EXCEPT ![t] = {b \in Backends : healthy[b]}]
    /\ UNCHANGED <<algorithm, active_connections, counter_, backend>>

(* Fault: the loop looks for a healthy backend for as long as it takes. *)
AdvanceForEver(t, n) ==
    /\ scan' = [scan EXCEPT ![t].i = (@ + 1) % n]
    /\ UNCHANGED <<pc, active_connections, backend, steady>>

(* The loop goes on with the next index, or ends after n of them.           *)
Advance(t, n) ==
    /\ \/ /\ scan[t].i + 1 < n
          /\ scan' = [scan EXCEPT ![t].i = @ + 1]
          /\ Goto(t, "select")
       \/ /\ scan[t].i + 1 >= n
          /\ scan' = [scan EXCEPT ![t] = NoScan]
          /\ Goto(t, "none")
    /\ UNCHANGED <<active_connections, backend, steady>>

Take(t, b) ==
    /\ active_connections' = [active_connections EXCEPT ![b] = @ + 1]
    /\ backend' = [backend EXCEPT ![t] = b]
    /\ scan' = [scan EXCEPT ![t] = NoScan]
    /\ steady' = [steady EXCEPT ![t] = {}]
    /\ Goto(t, "forward")

RoundRobinStep(t) ==
    /\ algorithm = "round_robin" /\ pc[t] = "select"
    /\ counter_' = (counter_ + 1) % N
    /\ LET b == Ptrs[counter_ + 1] IN
       \/ healthy[b] /\ Take(t, b)
       \/ ~healthy[b] /\ Advance(t, N)
    /\ UNCHANGED algorithm

(* Fault: the ring is walked to its end only, not around. *)
ConsistentHashNoWrap(t) ==
    /\ algorithm = "consistent_hash" /\ pc[t] = "select"
    /\ LET at == scan[t].least + scan[t].i
           b == Ring[at + 1] IN
       \/ healthy[b] /\ Take(t, b)
       \/ ~healthy[b] /\ Advance(t, Len(Ring) - scan[t].least)
    /\ UNCHANGED <<algorithm, counter_>>

ConsistentHashStep(t) ==
    /\ algorithm = "consistent_hash" /\ pc[t] = "select"
    /\ LET b == Ring[((scan[t].least + scan[t].i) % Len(Ring)) + 1] IN
       \/ healthy[b] /\ Take(t, b)
       \/ ~healthy[b] /\ Advance(t, Len(Ring))
    /\ UNCHANGED <<algorithm, counter_>>

(* Is b better than what the scan has found?                                *)
Better(t, b) ==
    IF scan[t].best = NoBackend THEN {TRUE}
    ELSE IF algorithm = "ewma" THEN BOOLEAN ELSE {active_connections[b] < scan[t].least}

(* One round of the loop of LeastConnectionsLB or EwmaLB.                   *)
ScanStep(t) ==
    /\ algorithm \in {"least_connections", "ewma"} /\ pc[t] = "select"
    /\ LET b == Ptrs[scan[t].i + 1] IN
       \E better \in IF healthy[b] THEN Better(t, b) ELSE {FALSE} :
          /\ scan' = [scan EXCEPT ![t] =
                 [i |-> @.i + 1,
                  best |-> IF better THEN b ELSE @.best,
                  least |-> IF better /\ algorithm = "least_connections"
                            THEN active_connections[b] ELSE @.least]]
          /\ Goto(t, IF scan[t].i + 1 < N THEN "select"
                     ELSE IF scan'[t].best = NoBackend THEN "none" ELSE "take")
    /\ UNCHANGED <<algorithm, active_connections, counter_, backend, steady>>

TakeBest(t) ==
    /\ pc[t] = "take"
    /\ Take(t, scan[t].best)
    /\ UNCHANGED <<algorithm, counter_>>

SelectStep(t) == RoundRobinStep(t) \/ ConsistentHashStep(t) \/ ScanStep(t) \/ TakeBest(t)

(* report_result(): the connection is no longer counted.                    *)
ReportResult(t) ==
    /\ active_connections' = [active_connections EXCEPT ![backend[t]] = @ - 1]
    /\ backend' = [backend EXCEPT ![t] = NoBackend]
    /\ UNCHANGED <<algorithm, counter_, scan, steady>>

-----------------------------------------------------------------------------
(* probe_backend().  connected is cleared only by a response with a status  *)
(* other than 2xx: a backend that accepts and says nothing passes, and so   *)
(* does one that refuses after connect() returned EINPROGRESS, as poll()    *)
(* then reports POLLOUT together with the error.  A backend is unreachable  *)
(* too while this process has no descriptor for a socket().                 *)
ProbeOutcomes(c) ==
    CASE c = "up" -> {TRUE}
      [] c = "failing" -> {FALSE}
      [] c = "unreachable" -> {FALSE}
      [] c = "refusing" -> BOOLEAN
      [] c = "silent" -> {TRUE}

Capped(n, threshold) == IF n < threshold THEN n ELSE threshold

(* Fault: a success does not end a series of failures. *)
CountWithoutReset(b, ok) ==
    /\ failure_counts_' = [failure_counts_ EXCEPT ![b] =
           IF ok THEN @ ELSE Capped(@ + 1, UnhealthyThreshold)]
    /\ success_counts_' = [success_counts_ EXCEPT ![b] =
           IF ok THEN Capped(@ + 1, HealthyThreshold) ELSE 0]

(* Both counts, capped where the code no longer tells values apart.         *)
Count(b, ok) ==
    /\ failure_counts_' = [failure_counts_ EXCEPT ![b] =
           IF ok THEN 0 ELSE Capped(@ + 1, UnhealthyThreshold)]
    /\ success_counts_' = [success_counts_ EXCEPT ![b] =
           IF ok THEN Capped(@ + 1, HealthyThreshold) ELSE 0]

(* Fault: no branch sets healthy again. *)
HealthyAfterNoRecovery(b, ok) == healthy[b] /\ (ok \/ failure_counts_'[b] < UnhealthyThreshold)

HealthyAfter(b, ok) ==
    IF ok THEN healthy[b] \/ success_counts_'[b] >= HealthyThreshold
    ELSE healthy[b] /\ failure_counts_'[b] < UnhealthyThreshold

(* One round of the loop of check_all(), which its caller runs again and    *)
(* again.                                                                   *)
CheckBackend ==
    LET b == Ptrs[next_probe] IN
    \E ok \in ProbeOutcomes(condition[b]) :
        /\ Count(b, ok)
        /\ healthy' = [healthy EXCEPT ![b] = HealthyAfter(b, ok)]
        /\ steady' = [t \in Threads |-> IF healthy'[b] THEN steady[t] ELSE steady[t] \ {b}]
        /\ outcomes' = [outcomes EXCEPT ![b] =
               SubSeq(<<ok>> \o @, 1, Min({Len(@) + 1, Max({UnhealthyThreshold, HealthyThreshold})}))]
        /\ next_probe' = (next_probe % N) + 1
        /\ UNCHANGED <<condition, balancerVars, pc>>

Change(b, c) ==
    /\ condition[b] # c
    /\ condition' = [condition EXCEPT ![b] = c]
    /\ UNCHANGED <<healthy, failure_counts_, success_counts_, next_probe, outcomes,
                   balancerVars, pc, steady>>

-----------------------------------------------------------------------------
(* active_connections counts the requests that are with a backend: every    *)
(* select() that returned one is followed by one report_result(), on        *)
(* success, on failure and on a retry, and no update is lost.               *)
ActiveExact ==
    \A b \in Backends : active_connections[b] = Cardinality({t \in Threads : backend[t] = b})

(* "return nullptr; // All backends down": select() gives up only if no     *)
(* backend has been healthy all the time since it began.                    *)
NoneMeansDown == \A t \in Threads : pc[t] = "none" => steady[t] = {}

(* The same for every balancer but round robin, whose threads share         *)
(* counter_ and can draw the same backend again and again.                  *)
NoneMeansDownElsewhere == algorithm # "round_robin" => NoneMeansDown

(* A backend changes state only after a full series of equal probes.        *)
Series(b, ok, n) == Len(outcomes'[b]) >= n /\ \A i \in 1..n : outcomes'[b][i] = ok
HealthIsDamped ==
    [][\A b \in Backends :
          /\ healthy[b] /\ ~healthy'[b] => Series(b, FALSE, UnhealthyThreshold)
          /\ ~healthy[b] /\ healthy'[b] => Series(b, TRUE, HealthyThreshold)]_<<healthy, outcomes>>
=============================================================================
