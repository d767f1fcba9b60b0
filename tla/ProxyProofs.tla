----------------------------- MODULE ProxyProofs -----------------------------
(***************************************************************************)
(* Proofs about ReverseProxy: any number of callers' threads and backends, *)
(* every kind of balancer, any ring, thresholds, retries and responses.    *)
(***************************************************************************)
EXTENDS ReverseProxy, FiniteSetTheorems, WellFoundedInduction, TLAPS

Algorithms == {"round_robin", "least_connections", "ewma", "consistent_hash"}
Scanning == {"least_connections", "ewma"}
Points == {"idle", "lookup", "hit", "try", "select", "take", "none", "forward", "store", "failed"}
Scan == [i : Nat, best : Backends \cup {NoBackend}, least : Int]

Shape ==
    /\ algorithm \in Algorithms
    /\ healthy \in [Backends -> BOOLEAN]
    /\ active_connections \in [Backends -> Int]
    /\ counter_ \in 0..(N - 1)
    /\ scan \in [Threads -> Scan]
    /\ pc \in [Threads -> Points]
    /\ backend \in [Threads -> Backends \cup {NoBackend}]
    /\ steady \in [Threads -> SUBSET Backends]
    /\ request \in [Threads -> Keys \cup {NoKey}]

(* A thread has a backend exactly while its request is with it, a scan      *)
(* stays within its list, and what it ends with is a backend.               *)
Where ==
    \A t \in Threads :
        /\ backend[t] # NoBackend <=> pc[t] = "forward"
        /\ pc[t] = "take" => scan[t].best # NoBackend
        /\ pc[t] = "select" /\ algorithm \in Scanning => scan[t].i < N
        /\ pc[t] = "select" /\ algorithm = "consistent_hash" =>
              scan[t].i < Len(Ring) /\ scan[t].least \in 0..(Len(Ring) - 1)
        /\ pc[t] # "idle" => request[t] \in Keys

RingAt(least, j) == Ring[((least + j) % Len(Ring)) + 1]

(* What a scan has passed by has not been healthy all the time.             *)
PassedBy ==
    \A t \in Threads :
        /\ \A b \in steady[t] : healthy[b]
        /\ pc[t] = "select" /\ algorithm \in Scanning /\ scan[t].best = NoBackend =>
              \A j \in 1..scan[t].i : Ptrs[j] \notin steady[t]
        /\ pc[t] = "select" /\ algorithm = "consistent_hash" =>
              \A j \in 0..(scan[t].i - 1) : RingAt(scan[t].least, j) \notin steady[t]

BalancerInv == Shape /\ Where /\ ActiveExact /\ PassedBy /\ NoneMeansDownElsewhere

-----------------------------------------------------------------------------
(* The lists.                                                               *)
LEMMA Lists ==
    /\ N \in Nat /\ N > 0 /\ DOMAIN Ptrs = 1..N
    /\ \A i \in 1..N : Ptrs[i] \in Backends
    /\ \A b \in Backends : \E i \in 1..N : Ptrs[i] = b
    /\ Len(Ring) \in Nat /\ Len(Ring) > 0 /\ DOMAIN Ring = 1..Len(Ring)
    /\ \A i \in 1..Len(Ring) : Ring[i] \in Backends
    /\ \A b \in Backends : \E i \in 1..Len(Ring) : Ring[i] = b
  <1>1. N \in Nat /\ N > 0 /\ DOMAIN Ptrs = 1..N
    BY BalancerAssumption DEF N
  <1>2. /\ \A i \in 1..N : Ptrs[i] \in Backends
        /\ \A b \in Backends : \E i \in 1..N : Ptrs[i] = b
    BY <1>1 DEF Backends
  <1>3. Len(Ring) \in Nat /\ DOMAIN Ring = 1..Len(Ring)
    BY BalancerAssumption
  <1>4. /\ \A i \in 1..Len(Ring) : Ring[i] \in Backends
        /\ \A b \in Backends : \E i \in 1..Len(Ring) : Ring[i] = b
    BY <1>3, BalancerAssumption
  <1>5. Ptrs[1] \in Backends
    BY <1>1, <1>2
  <1>6. Len(Ring) > 0
    BY <1>3, <1>4, <1>5
  <1> QED
    BY <1>1, <1>2, <1>3, <1>4, <1>6

(* Going once around the ring meets every node.                             *)
LEMMA AroundTheRing ==
    ASSUME NEW least \in 0..(Len(Ring) - 1)
    PROVE  /\ \A j \in Nat : RingAt(least, j) \in Backends
           /\ \A b \in Backends : \E j \in 0..(Len(Ring) - 1) : RingAt(least, j) = b
  <1> DEFINE L == Len(Ring)
  <1>0. L \in Nat /\ L > 0
    BY Lists
  <1>1. \A x \in Nat : x % L \in 0..(L - 1)
    BY <1>0
  <1>2. \A x \in 0..(L - 1) : x % L = x /\ (x + L) % L = x
    <2> SUFFICES ASSUME NEW x \in 0..(L - 1) PROVE x % L = x /\ (x + L) % L = x
      OBVIOUS
    <2> HIDE DEF L
    <2>1. x % L = x
      BY <1>0
    <2>2. (x + L) % L = x
      BY <1>0
    <2> QED
      BY <2>1, <2>2
  <1>3. ASSUME NEW j \in Nat PROVE RingAt(least, j) \in Backends
    <2>1. (least + j) % L \in 0..(L - 1)
      BY <1>1, <1>0
    <2>2. ((least + j) % L) + 1 \in 1..L
      BY <2>1, <1>0
    <2> QED
      BY <2>2, Lists DEF RingAt
  <1>4. ASSUME NEW b \in Backends PROVE \E j \in 0..(L - 1) : RingAt(least, j) = b
    <2>1. PICK p \in 1..L : Ring[p] = b
      BY Lists
    <2>2. p - 1 \in 0..(L - 1)
      BY <1>0
    <2>3. \E j \in 0..(L - 1) : (least + j) % L = p - 1
      <3>1. CASE p - 1 >= least
        <4>1. PICK j \in 0..(L - 1) : least + j = p - 1
          BY <1>0, <3>1, (p - 1) - least \in 0..(L - 1)
        <4> QED
          BY <1>2, <2>2, <4>1
      <3>2. CASE p - 1 < least
        <4>0. ((p - 1) - least) + L \in 0..(L - 1) /\ least + (((p - 1) - least) + L) = (p - 1) + L
          BY <1>0, <3>2
        <4>1. PICK j \in 0..(L - 1) : least + j = (p - 1) + L
          BY <4>0
        <4> QED
          BY <1>2, <2>2, <4>1
      <3> QED
        BY <3>1, <3>2, <1>0
    <2>4. PICK j \in 0..(L - 1) : (least + j) % L = p - 1
      BY <2>3
    <2>5. ((least + j) % L) + 1 = p
      BY <2>4, <1>0
    <2> QED
      BY <2>1, <2>4, <2>5 DEF RingAt
  <1> QED
    BY <1>3, <1>4

-----------------------------------------------------------------------------
(* Threads that are not selecting, and their requests.                      *)
Elsewhere == Points \ {"select", "take", "none", "forward"}

(* The two counts of a backend move together.                               *)
LEMMA ThreadsCount ==
    ASSUME NEW S, S \subseteq Threads
    PROVE  IsFiniteSet(S) /\ Cardinality(S) \in Nat
  BY BalancerAssumption, FS_Subset, FS_CardinalityType

(* One thread moves between points that select nothing and hold nothing.    *)
LEMMA QuietMove ==
    ASSUME BalancerInv, NEW t \in Threads, NEW q \in Elsewhere,
           pc[t] \in Elsewhere \cup {"none"}, pc' = [pc EXCEPT ![t] = q],
           UNCHANGED <<balancerVars, healthy>>,
           steady' = steady \/ steady' = [steady EXCEPT ![t] = {}],
           request' \in [Threads -> Keys \cup {NoKey}],
           \A u \in Threads \ {t} : request'[u] = request[u],
           q # "idle" => request'[t] \in Keys
    PROVE  BalancerInv'
  <1>1. /\ Elsewhere \subseteq Points
        /\ Elsewhere \cap {"select", "take", "none", "forward"} = {}
    BY DEF Elsewhere
  <1>2. pc' \in [Threads -> Points] /\ pc'[t] = q /\ \A u \in Threads \ {t} : pc'[u] = pc[u]
    BY <1>1 DEF BalancerInv, Shape
  <1>3. /\ steady' \in [Threads -> SUBSET Backends]
        /\ steady'[t] \subseteq steady[t]
        /\ \A u \in Threads \ {t} : steady'[u] = steady[u]
    BY DEF BalancerInv, Shape
  <1>4. UNCHANGED <<algorithm, active_connections, counter_, scan, backend, healthy>>
    BY DEF balancerVars
  <1>5. Shape'
    BY <1>2, <1>3, <1>4 DEF BalancerInv, Shape
  <1>6. Where'
    BY <1>1, <1>2, <1>4 DEF BalancerInv, Where
  <1>7. ActiveExact'
    BY <1>4 DEF BalancerInv, ActiveExact
  <1>8. PassedBy'
    BY <1>1, <1>2, <1>3, <1>4 DEF BalancerInv, PassedBy
  <1>9. NoneMeansDownElsewhere'
    BY <1>1, <1>2, <1>3, <1>4 DEF BalancerInv, NoneMeansDownElsewhere, NoneMeansDown
  <1> QED
    BY <1>5, <1>6, <1>7, <1>8, <1>9 DEF BalancerInv

(* select() begins: nothing was passed by yet.                              *)
LEMMA BeginKeepsBalancer ==
    ASSUME BalancerInv, NEW t \in Threads, Try(t)
    PROVE  BalancerInv'
  <1> DEFINE h == HashOf[request[t]]
  <1> DEFINE s == [i |-> 0, best |-> NoBackend, least |-> IF algorithm = "consistent_hash" THEN h ELSE 0]
  <1>1. /\ pc[t] = "try" /\ pc' = [pc EXCEPT ![t] = "select"]
        /\ scan' = [scan EXCEPT ![t] = s]
        /\ steady' = [steady EXCEPT ![t] = {b \in Backends : healthy[b]}]
        /\ UNCHANGED <<algorithm, active_connections, counter_, backend, healthy, request>>
    BY DEF Try, BeginSelect, Goto, Key, checkerVars, proxyVars
  <1>2. request[t] \in Keys
    BY <1>1 DEF BalancerInv, Where
  <1>3. h \in 0..(Len(Ring) - 1)
    BY <1>2, ProxyAssumption
  <1>4. s \in Scan /\ s.i = 0 /\ s.best = NoBackend /\ (algorithm = "consistent_hash" => s.least = h)
    BY <1>3, Lists DEF Scan
  <1> HIDE DEF s, h
  <1>5. /\ pc' \in [Threads -> Points] /\ pc'[t] = "select"
        /\ \A u \in Threads \ {t} : pc'[u] = pc[u]
    BY <1>1 DEF BalancerInv, Shape, Points
  <1>6. /\ scan' \in [Threads -> Scan] /\ scan'[t] = s
        /\ \A u \in Threads \ {t} : scan'[u] = scan[u]
    BY <1>1, <1>4 DEF BalancerInv, Shape
  <1>7. /\ steady' \in [Threads -> SUBSET Backends] /\ steady'[t] = {b \in Backends : healthy[b]}
        /\ \A u \in Threads \ {t} : steady'[u] = steady[u]
    BY <1>1 DEF BalancerInv, Shape
  <1>8. Shape'
    BY <1>1, <1>5, <1>6, <1>7 DEF BalancerInv, Shape
  <1>9. Where'
    BY <1>1, <1>2, <1>3, <1>4, <1>5, <1>6, Lists DEF BalancerInv, Where
  <1>10. ActiveExact'
    BY <1>1 DEF BalancerInv, ActiveExact
  <1>11. PassedBy'
    BY <1>1, <1>4, <1>5, <1>6, <1>7 DEF BalancerInv, PassedBy
  <1>12. NoneMeansDownElsewhere'
    BY <1>1, <1>5, <1>7 DEF BalancerInv, NoneMeansDownElsewhere, NoneMeansDown
  <1> QED
    BY <1>8, <1>9, <1>10, <1>11, <1>12 DEF BalancerInv

(* select() returns a backend and counts the request.                       *)
LEMMA TakeKeepsBalancer ==
    ASSUME BalancerInv, NEW t \in Threads, NEW b \in Backends, pc[t] \in {"select", "take"},
           Take(t, b), UNCHANGED <<algorithm, healthy, request>>, counter_' \in 0..(N - 1)
    PROVE  BalancerInv'
  <1>1. /\ active_connections' = [active_connections EXCEPT ![b] = active_connections[b] + 1]
        /\ backend' = [backend EXCEPT ![t] = b]
        /\ scan' = [scan EXCEPT ![t] = NoScan]
        /\ steady' = [steady EXCEPT ![t] = {}]
        /\ pc' = [pc EXCEPT ![t] = "forward"]
    BY DEF Take, Goto
  <1>2. NoScan \in Scan /\ NoBackend \notin Backends
    BY BalancerAssumption DEF NoScan, Scan
  <1>3. /\ pc' \in [Threads -> Points] /\ pc'[t] = "forward"
        /\ \A u \in Threads \ {t} : pc'[u] = pc[u]
    BY <1>1 DEF BalancerInv, Shape, Points
  <1>4. /\ scan' \in [Threads -> Scan]
        /\ \A u \in Threads \ {t} : scan'[u] = scan[u]
    BY <1>1, <1>2 DEF BalancerInv, Shape
  <1>5. /\ steady' \in [Threads -> SUBSET Backends] /\ steady'[t] = {}
        /\ \A u \in Threads \ {t} : steady'[u] = steady[u]
    BY <1>1 DEF BalancerInv, Shape
  <1>6. /\ backend' \in [Threads -> Backends \cup {NoBackend}] /\ backend'[t] = b
        /\ \A u \in Threads \ {t} : backend'[u] = backend[u]
    BY <1>1 DEF BalancerInv, Shape
  <1>7. /\ active_connections' \in [Backends -> Int]
        /\ active_connections'[b] = active_connections[b] + 1
        /\ \A a \in Backends \ {b} : active_connections'[a] = active_connections[a]
    BY <1>1 DEF BalancerInv, Shape
  <1>8. Shape'
    BY <1>3, <1>4, <1>5, <1>6, <1>7 DEF BalancerInv, Shape
  <1>9. Where'
    BY <1>2, <1>3, <1>4, <1>6 DEF BalancerInv, Where
  <1>10. ActiveExact'
    <2>1. backend[t] = NoBackend
      BY DEF BalancerInv, Where
    <2> SUFFICES ASSUME NEW a \in Backends
                 PROVE  active_connections'[a] = Cardinality({u \in Threads : backend'[u] = a})
      BY DEF ActiveExact
    <2> DEFINE S == {u \in Threads : backend[u] = a}
    <2>2. IsFiniteSet(S) /\ active_connections[a] = Cardinality(S)
      BY ThreadsCount DEF BalancerInv, ActiveExact
    <2>3. CASE a = b
      <3>1. t \notin S
        BY <1>2, <2>1
      <3>2. \A u \in Threads : backend'[u] = a <=> backend[u] = a \/ u = t
        BY <1>6, <2>3
      <3>3. {u \in Threads : backend'[u] = a} = S \cup {t}
        BY <3>2
      <3>4. Cardinality(S \cup {t}) = Cardinality(S) + 1
        <4> HIDE DEF S
        <4> QED
          BY <2>2, <3>1, FS_AddElement
      <3> QED
        BY <1>7, <2>2, <2>3, <3>3, <3>4
    <2>4. CASE a # b
      <3>1. {u \in Threads : backend'[u] = a} = S
        BY <1>2, <1>6, <2>1, <2>4
      <3> QED
        BY <1>7, <2>2, <2>4, <3>1
    <2> QED
      BY <2>3, <2>4
  <1>11. PassedBy'
    BY <1>3, <1>4, <1>5 DEF BalancerInv, PassedBy
  <1>12. NoneMeansDownElsewhere'
    BY <1>3, <1>5 DEF BalancerInv, NoneMeansDownElsewhere, NoneMeansDown
  <1> QED
    BY <1>8, <1>9, <1>10, <1>11, <1>12 DEF BalancerInv

(* do_http_request() is over: the request is counted no more.               *)
LEMMA ReportKeepsBalancer ==
    ASSUME BalancerInv, NEW t \in Threads, Forward(t)
    PROVE  BalancerInv'
  <1>1. /\ pc[t] = "forward"
        /\ active_connections' = [active_connections EXCEPT ![backend[t]] = @ - 1]
        /\ backend' = [backend EXCEPT ![t] = NoBackend]
        /\ UNCHANGED <<algorithm, counter_, scan, steady, healthy, request>>
    BY DEF Forward, ReportResult, checkerVars
  <1>2. PICK q \in {"store", "try", "failed"} : pc' = [pc EXCEPT ![t] = q]
    BY DEF Forward, Goto
  <1>3. PICK b \in Backends : b = backend[t]
    BY <1>1 DEF BalancerInv, Shape, Where
  <1>4. NoBackend \notin Backends
    BY BalancerAssumption
  <1>5. /\ pc' \in [Threads -> Points] /\ pc'[t] = q
        /\ \A u \in Threads \ {t} : pc'[u] = pc[u]
    BY <1>2 DEF BalancerInv, Shape, Points
  <1>6. /\ backend' \in [Threads -> Backends \cup {NoBackend}] /\ backend'[t] = NoBackend
        /\ \A u \in Threads \ {t} : backend'[u] = backend[u]
    BY <1>1 DEF BalancerInv, Shape
  <1>7. /\ active_connections' \in [Backends -> Int]
        /\ active_connections'[b] = active_connections[b] - 1
        /\ \A a \in Backends \ {b} : active_connections'[a] = active_connections[a]
    BY <1>1, <1>3 DEF BalancerInv, Shape
  <1>8. Shape'
    BY <1>1, <1>5, <1>6, <1>7 DEF BalancerInv, Shape
  <1>9. Where'
    BY <1>1, <1>2, <1>5, <1>6 DEF BalancerInv, Where
  <1>10. ActiveExact'
    <2> SUFFICES ASSUME NEW a \in Backends
                 PROVE  active_connections'[a] = Cardinality({u \in Threads : backend'[u] = a})
      BY DEF ActiveExact
    <2> DEFINE S == {u \in Threads : backend[u] = a}
    <2>2. IsFiniteSet(S) /\ active_connections[a] = Cardinality(S)
      BY ThreadsCount DEF BalancerInv, ActiveExact
    <2>3. CASE a = b
      <3>1. t \in S
        BY <1>3, <1>4, <2>3
      <3>2. \A u \in Threads : backend'[u] = a <=> backend[u] = a /\ u # t
        BY <1>3, <1>4, <1>6, <2>3
      <3>3. {u \in Threads : backend'[u] = a} = S \ {t}
        BY <3>2
      <3>4. Cardinality(S \ {t}) = Cardinality(S) - 1
        <4> HIDE DEF S
        <4> QED
          BY <2>2, <3>1, FS_RemoveElement
      <3> QED
        BY <1>7, <2>2, <2>3, <3>3, <3>4
    <2>4. CASE a # b
      <3>1. {u \in Threads : backend'[u] = a} = S
        BY <1>3, <1>4, <1>6, <2>4
      <3> QED
        BY <1>7, <2>2, <2>4, <3>1
    <2> QED
      BY <2>3, <2>4
  <1>11. PassedBy'
    BY <1>1, <1>2, <1>5 DEF BalancerInv, PassedBy
  <1>12. NoneMeansDownElsewhere'
    BY <1>1, <1>2, <1>5 DEF BalancerInv, NoneMeansDownElsewhere, NoneMeansDown
  <1> QED
    BY <1>8, <1>9, <1>10, <1>11, <1>12 DEF BalancerInv

(* One round of a scan that returns no backend yet.                         *)
LEMMA ScanMove ==
    ASSUME BalancerInv, NEW t \in Threads, NEW s \in Scan, NEW q \in {"select", "none", "take"},
           pc[t] = "select", scan' = [scan EXCEPT ![t] = s], pc' = [pc EXCEPT ![t] = q],
           UNCHANGED <<algorithm, active_connections, backend, steady, healthy, request>>,
           counter_' \in 0..(N - 1),
           q = "take" => s.best # NoBackend,
           q = "select" /\ algorithm \in Scanning =>
              /\ s.i < N
              /\ s.best = NoBackend => \A j \in 1..s.i : Ptrs[j] \notin steady[t],
           q = "select" /\ algorithm = "consistent_hash" =>
              /\ s.i < Len(Ring) /\ s.least \in 0..(Len(Ring) - 1)
              /\ \A j \in 0..(s.i - 1) : RingAt(s.least, j) \notin steady[t],
           q = "none" /\ algorithm # "round_robin" => steady[t] = {}
    PROVE  BalancerInv'
  <1>1. /\ pc' \in [Threads -> Points] /\ pc'[t] = q
        /\ \A u \in Threads \ {t} : pc'[u] = pc[u]
    BY DEF BalancerInv, Shape, Points
  <1>2. /\ scan' \in [Threads -> Scan] /\ scan'[t] = s
        /\ \A u \in Threads \ {t} : scan'[u] = scan[u]
    BY DEF BalancerInv, Shape
  <1>3. Shape'
    BY <1>1, <1>2 DEF BalancerInv, Shape
  <1>4. Where'
    BY <1>1, <1>2 DEF BalancerInv, Where
  <1>5. ActiveExact'
    BY DEF BalancerInv, ActiveExact
  <1>6. PassedBy'
    BY <1>1, <1>2 DEF BalancerInv, PassedBy
  <1>7. NoneMeansDownElsewhere'
    BY <1>1 DEF BalancerInv, NoneMeansDownElsewhere, NoneMeansDown
  <1> QED
    BY <1>3, <1>4, <1>5, <1>6, <1>7 DEF BalancerInv

(* counter_ wraps within the list.                                          *)
LEMMA CounterWraps == counter_ \in 0..(N - 1) => counter_ + 1 \in 1..N /\ (counter_ + 1) % N \in 0..(N - 1)
  <1> SUFFICES ASSUME counter_ \in 0..(N - 1) PROVE counter_ + 1 \in 1..N /\ (counter_ + 1) % N \in 0..(N - 1)
    OBVIOUS
  <1>1. N \in Nat /\ N > 0 /\ counter_ + 1 \in 1..N
    BY Lists
  <1> QED
    BY <1>1

(* A choice by turns,                                                       *)
LEMMA RoundRobinKeepsBalancer ==
    ASSUME BalancerInv, NEW t \in Threads, RoundRobinStep(t), UNCHANGED <<healthy, request>>
    PROVE  BalancerInv'
  <1> DEFINE b == Ptrs[counter_ + 1]
  <1>1. counter_ + 1 \in 1..N /\ (counter_ + 1) % N \in 0..(N - 1)
    BY CounterWraps DEF BalancerInv, Shape
  <1>2. /\ algorithm = "round_robin" /\ pc[t] = "select" /\ algorithm' = algorithm
        /\ counter_' = (counter_ + 1) % N
        /\ (healthy[b] /\ Take(t, b)) \/ (~healthy[b] /\ Advance(t, N))
    BY DEF RoundRobinStep
  <1>3. b \in Backends
    BY <1>1, Lists
  <1>4. CASE Take(t, b)
    BY <1>1, <1>2, <1>3, <1>4, TakeKeepsBalancer
  <1>5. CASE Advance(t, N)
    <2>1. PICK s : s = IF scan[t].i + 1 < N THEN [scan[t] EXCEPT !.i = scan[t].i + 1] ELSE NoScan
      OBVIOUS
    <2>2. PICK q : q = IF scan[t].i + 1 < N THEN "select" ELSE "none"
      OBVIOUS
    <2>3. scan' = [scan EXCEPT ![t] = s] /\ pc' = [pc EXCEPT ![t] = q]
          /\ UNCHANGED <<active_connections, backend, steady>>
      <3>0. scan[t] \in Scan /\ scan[t].i \in Nat /\ N \in Nat
        BY Lists DEF BalancerInv, Shape, Scan
      <3>1. scan' = [scan EXCEPT ![t] = s]
        <4>1. CASE scan[t].i + 1 < N
          BY <1>5, <2>1, <3>0, <4>1 DEF Advance, BalancerInv, Shape
        <4>2. CASE ~(scan[t].i + 1 < N)
          BY <1>5, <2>1, <3>0, <4>2 DEF Advance
        <4> QED
          BY <4>1, <4>2
      <3>2. pc' = [pc EXCEPT ![t] = q]
        BY <1>5, <2>2, <3>0 DEF Advance, Goto
      <3>3. UNCHANGED <<active_connections, backend, steady>>
        BY <1>5 DEF Advance
      <3> QED
        BY <3>1, <3>2, <3>3
    <2>4. s \in Scan
      <3>1. scan[t] \in Scan /\ NoScan \in Scan
        BY DEF BalancerInv, Shape, Scan, NoScan
      <3>2. CASE scan[t].i + 1 < N
        <4>1. s = [scan[t] EXCEPT !.i = scan[t].i + 1]
          BY <2>1, <3>2
        <4> QED
          BY <3>1, <4>1 DEF Scan
      <3>3. CASE ~(scan[t].i + 1 < N)
        BY <2>1, <3>1, <3>3
      <3> QED
        BY <3>2, <3>3
    <2>5. q \in {"select", "none"}
      BY <2>2
    <2>6. algorithm \notin Scanning /\ algorithm # "consistent_hash"
      BY <1>2 DEF Scanning
    <2> QED
      BY <1>1, <1>2, <2>3, <2>4, <2>5, <2>6, ScanMove
  <1> QED
    BY <1>2, <1>4, <1>5

(* by the ring,                                                             *)
LEMMA ConsistentHashKeepsBalancer ==
    ASSUME BalancerInv, NEW t \in Threads, ConsistentHashStep(t), UNCHANGED <<healthy, request>>
    PROVE  BalancerInv'
  <1> DEFINE b == RingAt(scan[t].least, scan[t].i)
  <1> DEFINE L == Len(Ring)
  <1>1. /\ algorithm = "consistent_hash" /\ pc[t] = "select" /\ UNCHANGED <<algorithm, counter_>>
        /\ (healthy[b] /\ Take(t, b)) \/ (~healthy[b] /\ Advance(t, L))
    BY DEF ConsistentHashStep, RingAt
  <1>2. /\ scan[t] \in Scan /\ scan[t].i \in Nat /\ scan[t].i < L /\ scan[t].least \in 0..(L - 1)
        /\ L \in Nat /\ L > 0
    BY <1>1, Lists DEF BalancerInv, Shape, Where, Scan
  <1>3. b \in Backends
    BY <1>2, AroundTheRing
  <1>4. CASE Take(t, b)
    BY <1>1, <1>3, <1>4, TakeKeepsBalancer DEF BalancerInv, Shape
  <1>5. CASE ~healthy[b] /\ Advance(t, L)
    <2>1. PICK s : s = IF scan[t].i + 1 < L THEN [scan[t] EXCEPT !.i = scan[t].i + 1] ELSE NoScan
      OBVIOUS
    <2>2. PICK q : q = IF scan[t].i + 1 < L THEN "select" ELSE "none"
      OBVIOUS
    <2>3. scan' = [scan EXCEPT ![t] = s] /\ pc' = [pc EXCEPT ![t] = q]
          /\ UNCHANGED <<active_connections, backend, steady>>
      <3>0. scan[t] \in Scan /\ scan[t].i \in Nat /\ L \in Nat
        BY Lists DEF BalancerInv, Shape, Scan
      <3>1. scan' = [scan EXCEPT ![t] = s]
        <4>1. CASE scan[t].i + 1 < L
          BY <1>5, <2>1, <3>0, <4>1 DEF Advance, BalancerInv, Shape
        <4>2. CASE ~(scan[t].i + 1 < L)
          BY <1>5, <2>1, <3>0, <4>2 DEF Advance
        <4> QED
          BY <4>1, <4>2
      <3>2. pc' = [pc EXCEPT ![t] = q]
        BY <1>5, <2>2, <3>0 DEF Advance, Goto
      <3>3. UNCHANGED <<active_connections, backend, steady>>
        BY <1>5 DEF Advance
      <3> QED
        BY <3>1, <3>2, <3>3
    <2>4. s \in Scan
      BY <1>2, <2>1 DEF Scan, NoScan
    <2>5. q \in {"select", "none"}
      BY <2>2
    <2>6. algorithm \notin Scanning
      BY <1>1 DEF Scanning
    <2>7. b \notin steady[t]
      BY <1>5 DEF BalancerInv, PassedBy
    <2>8. \A j \in 0..scan[t].i : RingAt(scan[t].least, j) \notin steady[t]
      <3>1. \A j \in 0..(scan[t].i - 1) : RingAt(scan[t].least, j) \notin steady[t]
        BY <1>1 DEF BalancerInv, PassedBy
      <3>2. \A j \in 0..scan[t].i : j \in 0..(scan[t].i - 1) \/ j = scan[t].i
        BY <1>2
      <3> QED
        BY <2>7, <3>1, <3>2
    <2>9. CASE q = "select"
      <3>1. scan[t].i + 1 < L
        BY <2>2, <2>9
      <3>2. s.i = scan[t].i + 1 /\ s.least = scan[t].least
        BY <1>2, <2>1, <3>1 DEF Scan
      <3>3. s.i - 1 = scan[t].i /\ s.i < L
        BY <1>2, <3>1, <3>2
      <3>4. /\ s.i < L /\ s.least \in 0..(L - 1)
            /\ \A j \in 0..(s.i - 1) : RingAt(s.least, j) \notin steady[t]
        BY <1>2, <2>8, <3>2, <3>3
      <3> QED
        BY <1>1, <2>3, <2>4, <2>5, <2>6, <2>9, <3>4, ScanMove DEF BalancerInv, Shape
    <2>10. CASE q = "none"
      <3>1. scan[t].i = L - 1
        BY <1>2, <2>2, <2>10
      <3>2. \A a \in Backends : a \notin steady[t]
        BY <1>2, <2>8, <3>1, AroundTheRing
      <3>3. steady[t] = {}
        BY <3>2 DEF BalancerInv, Shape
      <3> QED
        BY <1>1, <2>3, <2>4, <2>6, <2>10, <3>3, ScanMove DEF BalancerInv, Shape
    <2> QED
      BY <2>5, <2>9, <2>10
  <1> QED
    BY <1>1, <1>4, <1>5

(* and one step of the scan for the least loaded.                           *)
LEMMA ScanKeepsBalancer ==
    ASSUME BalancerInv, NEW t \in Threads, ScanStep(t), UNCHANGED <<healthy, request>>
    PROVE  BalancerInv'
  <1> DEFINE b == Ptrs[scan[t].i + 1]
  <1>1. /\ algorithm \in Scanning /\ pc[t] = "select"
        /\ UNCHANGED <<algorithm, active_connections, counter_, backend, steady>>
    BY DEF ScanStep, Scanning
  <1>2. /\ scan[t] \in Scan /\ scan[t].i \in Nat /\ scan[t].i < N /\ N \in Nat
        /\ scan[t].best \in Backends \cup {NoBackend} /\ scan[t].least \in Int
    BY <1>1, Lists DEF BalancerInv, Shape, Where, Scan
  <1>3. b \in Backends /\ b # NoBackend
    <2>1. scan[t].i + 1 \in 1..N
      BY <1>2
    <2>2. b \in Backends
      BY <2>1, Lists
    <2> QED
      BY <2>2, BalancerAssumption
  <1>4. PICK better \in IF healthy[b] THEN Better(t, b) ELSE {FALSE} :
          /\ scan' = [scan EXCEPT ![t] =
                 [i |-> @.i + 1,
                  best |-> IF better THEN b ELSE @.best,
                  least |-> IF better /\ algorithm = "least_connections"
                            THEN active_connections[b] ELSE @.least]]
          /\ Goto(t, IF scan[t].i + 1 < N THEN "select"
                     ELSE IF scan'[t].best = NoBackend THEN "none" ELSE "take")
    BY DEF ScanStep
  <1>5. PICK s : s = [i |-> scan[t].i + 1,
                      best |-> IF better THEN b ELSE scan[t].best,
                      least |-> IF better /\ algorithm = "least_connections"
                                THEN active_connections[b] ELSE scan[t].least]
    OBVIOUS
  <1>6. s \in Scan /\ s.i = scan[t].i + 1 /\ s.best = (IF better THEN b ELSE scan[t].best)
    BY <1>2, <1>3, <1>5 DEF Scan, BalancerInv, Shape
  <1>7. scan' = [scan EXCEPT ![t] = s] /\ scan'[t] = s
    BY <1>4, <1>5 DEF BalancerInv, Shape
  <1>8. PICK q : q = IF scan[t].i + 1 < N THEN "select" ELSE IF s.best = NoBackend THEN "none" ELSE "take"
    OBVIOUS
  <1>9. pc' = [pc EXCEPT ![t] = q] /\ q \in {"select", "none", "take"}
    BY <1>4, <1>7, <1>8 DEF Goto
  <1>10. s.best = NoBackend => scan[t].best = NoBackend /\ b \notin steady[t]
    <2> SUFFICES ASSUME s.best = NoBackend PROVE scan[t].best = NoBackend /\ b \notin steady[t]
      OBVIOUS
    <2>1. ~better /\ scan[t].best = NoBackend
      BY <1>3, <1>6
    <2>2. ~healthy[b]
      BY <1>4, <2>1 DEF Better
    <2> QED
      BY <2>1, <2>2 DEF BalancerInv, PassedBy
  <1>11. s.best = NoBackend => \A j \in 1..(scan[t].i + 1) : Ptrs[j] \notin steady[t]
    <2> SUFFICES ASSUME s.best = NoBackend, NEW j \in 1..(scan[t].i + 1) PROVE Ptrs[j] \notin steady[t]
      OBVIOUS
    <2>1. j \in 1..scan[t].i \/ j = scan[t].i + 1
      BY <1>2
    <2> QED
      BY <1>1, <1>10, <2>1 DEF BalancerInv, PassedBy
  <1>12. q = "none" => steady[t] = {}
    <2> SUFFICES ASSUME q = "none" PROVE steady[t] = {}
      OBVIOUS
    <2>1. s.best = NoBackend /\ scan[t].i + 1 = N
      BY <1>2, <1>8
    <2>2. \A a \in Backends : a \notin steady[t]
      BY <1>11, <2>1, Lists
    <2> QED
      BY <2>2 DEF BalancerInv, Shape
  <1>13. q = "select" => s.i < N /\ (s.best = NoBackend => \A j \in 1..s.i : Ptrs[j] \notin steady[t])
    BY <1>6, <1>8, <1>11
  <1>14. q = "take" => s.best # NoBackend
    BY <1>8
  <1>15. algorithm # "consistent_hash" /\ counter_' \in 0..(N - 1)
    BY <1>1 DEF Scanning, BalancerInv, Shape
  <1> QED
    BY <1>1, <1>6, <1>7, <1>9, <1>12, <1>13, <1>14, <1>15, ScanMove

(* select_backend(), with any strategy.                                     *)
LEMMA SelectKeepsBalancer ==
    ASSUME BalancerInv, NEW t \in Threads, Select(t)
    PROVE  BalancerInv'
  <1>1. UNCHANGED <<healthy, request>>
    BY DEF Select, checkerVars, proxyVars
  <1>2. CASE TakeBest(t)
    <2>1. pc[t] = "take" /\ Take(t, scan[t].best) /\ UNCHANGED <<algorithm, counter_>>
      BY <1>2 DEF TakeBest
    <2>2. scan[t].best \in Backends
      BY <2>1 DEF BalancerInv, Where, Shape, Scan
    <2> QED
      BY <1>1, <2>1, <2>2, TakeKeepsBalancer DEF BalancerInv, Shape
  <1> QED
    BY <1>1, <1>2, RoundRobinKeepsBalancer, ConsistentHashKeepsBalancer, ScanKeepsBalancer
    DEF Select, SelectStep

(* A probe: what it marks unhealthy has not been healthy all the time.      *)
LEMMA ProbeKeepsBalancer ==
    ASSUME BalancerInv, Probe, next_probe \in 1..N
    PROVE  BalancerInv'
  <1> DEFINE b == Ptrs[next_probe]
  <1>0. b \in Backends
    BY Lists
  <1>1. PICK ok : healthy' = [healthy EXCEPT ![b] = HealthyAfter(b, ok)]
    BY DEF Probe, CheckBackend
  <1>2. steady' = [t \in Threads |-> IF healthy'[b] THEN steady[t] ELSE steady[t] \ {b}]
    BY DEF Probe, CheckBackend
  <1>3. UNCHANGED <<algorithm, active_connections, counter_, scan, backend, pc, request>>
    BY DEF Probe, CheckBackend, balancerVars, proxyVars
  <1>4. HealthyAfter(b, ok) \in BOOLEAN
    BY <1>0 DEF HealthyAfter, BalancerInv, Shape
  <1>5. healthy' \in [Backends -> BOOLEAN] /\ \A a \in Backends \ {b} : healthy'[a] = healthy[a]
    BY <1>0, <1>1, <1>4 DEF BalancerInv, Shape
  <1>6. /\ steady' \in [Threads -> SUBSET Backends]
        /\ \A t \in Threads : steady'[t] \subseteq steady[t] /\ (b \in steady'[t] => healthy'[b])
    BY <1>2 DEF BalancerInv, Shape
  <1>7. Shape'
    BY <1>3, <1>5, <1>6 DEF BalancerInv, Shape
  <1>8. Where' /\ ActiveExact'
    BY <1>3 DEF BalancerInv, Where, ActiveExact
  <1>9. PassedBy'
    <2>1. \A t \in Threads : \A a \in steady'[t] : healthy'[a]
      BY <1>5, <1>6 DEF BalancerInv, Shape, PassedBy
    <2> QED
      BY <1>3, <1>6, <2>1 DEF BalancerInv, PassedBy
  <1>10. NoneMeansDownElsewhere'
    BY <1>3, <1>6 DEF BalancerInv, NoneMeansDownElsewhere, NoneMeansDown
  <1> QED
    BY <1>7, <1>8, <1>9, <1>10 DEF BalancerInv

-----------------------------------------------------------------------------
(* The checker: each count is the length of a series of equal outcomes that *)
(* the latest probes of its backend begin with.                             *)
ConditionSet == {"up", "failing", "unreachable", "refusing", "silent"}

CheckerShape ==
    /\ next_probe \in 1..N
    /\ condition \in [Backends -> ConditionSet]
    /\ failure_counts_ \in [Backends -> 0..UnhealthyThreshold]
    /\ success_counts_ \in [Backends -> 0..HealthyThreshold]
    /\ outcomes \in [Backends -> Seq(BOOLEAN)]

StartsWith(outs, n, ok) == n <= Len(outs) /\ \A i \in 1..n : outs[i] = ok

CountsTrue ==
    \A b \in Backends : /\ StartsWith(outcomes[b], failure_counts_[b], FALSE)
                        /\ StartsWith(outcomes[b], success_counts_[b], TRUE)

CheckerInv == CheckerShape /\ CountsTrue

(* The thresholds of the health checker.                                    *)
LEMMA Thresholds ==
    /\ UnhealthyThreshold \in Nat /\ UnhealthyThreshold > 0
    /\ HealthyThreshold \in Nat /\ HealthyThreshold > 0
  BY BalancerAssumption

(* The smaller of two numbers,                                              *)
LEMMA MinOfTwo ==
    ASSUME NEW a \in Nat, NEW b \in Nat
    PROVE  Min({a, b}) \in {a, b} /\ Min({a, b}) <= a /\ Min({a, b}) <= b
  <1>1. \E x \in {a, b} : \A y \in {a, b} : x <= y
    BY a <= b \/ b <= a
  <1> QED
    BY <1>1 DEF Min

(* and the larger.                                                          *)
LEMMA MaxOfTwo ==
    ASSUME NEW a \in Nat, NEW b \in Nat
    PROVE  Max({a, b}) \in {a, b} /\ a <= Max({a, b}) /\ b <= Max({a, b})
  <1>1. \E x \in {a, b} : \A y \in {a, b} : x >= y
    BY a <= b \/ b <= a
  <1> QED
    BY <1>1 DEF Max

(* The latest outcome goes in front, and the oldest may be forgotten.       *)
LEMMA InFront ==
    ASSUME NEW outs \in Seq(BOOLEAN), NEW ok \in BOOLEAN, NEW m \in 1..(Len(outs) + 1)
    PROVE  LET new == SubSeq(<<ok>> \o outs, 1, m) IN
           /\ new \in Seq(BOOLEAN) /\ Len(new) = m
           /\ new[1] = ok /\ \A i \in 2..m : new[i] = outs[i - 1]
  <1> DEFINE long == <<ok>> \o outs
  <1> DEFINE new == SubSeq(long, 1, m)
  <1>1. /\ long \in Seq(BOOLEAN) /\ Len(long) = Len(outs) + 1
        /\ long[1] = ok /\ \A i \in 2..(Len(outs) + 1) : long[i] = outs[i - 1]
    OBVIOUS
  <1> HIDE DEF long
  <1>2. /\ new \in Seq(BOOLEAN) /\ Len(new) = m
        /\ \A i \in 1..m : new[i] = long[i]
    BY <1>1
  <1> HIDE DEF new
  <1>3. new[1] = ok /\ \A i \in 2..m : new[i] = outs[i - 1]
    BY <1>1, <1>2
  <1> QED
    BY <1>2, <1>3 DEF new, long

(* new is ok and then outs, cut no shorter than limit.                      *)
Extends(new, outs, ok, limit) ==
    /\ Len(outs) \in Nat /\ Len(new) \in Nat
    /\ Len(new) = Len(outs) + 1 \/ Len(new) >= limit
    /\ new[1] = ok /\ \A i \in 2..Len(new) : new[i] = outs[i - 1]

(* A series grows by an equal outcome, and a count stays capped.            *)
LEMMA SeriesGrows ==
    ASSUME NEW outs, NEW ok, NEW n \in Nat, StartsWith(outs, n, ok),
           NEW new, NEW limit \in Nat \ {0}, Extends(new, outs, ok, limit)
    PROVE  StartsWith(new, Capped(n + 1, limit), ok) /\ Capped(n + 1, limit) \in 0..limit
  <1>0. PICK m \in Nat : /\ Len(new) = m /\ (m = Len(outs) + 1 \/ m >= limit)
                         /\ new[1] = ok /\ \A i \in 2..m : new[i] = outs[i - 1]
                         /\ Len(outs) \in Nat
    BY DEF Extends
  <1>1. PICK c : c = Capped(n + 1, limit)
    OBVIOUS
  <1>2. c \in 0..limit /\ c <= n + 1 /\ c <= m
    <2>1. Len(outs) \in Nat /\ n <= Len(outs) /\ (m = Len(outs) + 1 \/ m >= limit)
      BY <1>0 DEF StartsWith
    <2> QED
      BY <1>1, <2>1 DEF Capped
  <1>3. ASSUME NEW i \in 1..c PROVE new[i] = ok
    <2>1. CASE i = 1
      BY <1>0, <2>1
    <2>2. CASE i # 1
      <3>1. i \in 2..m /\ i - 1 \in 1..n
        BY <1>2, <2>2
      <3> QED
        BY <1>0, <3>1 DEF StartsWith
    <2> QED
      BY <2>1, <2>2
  <1> QED
    BY <1>0, <1>1, <1>2, <1>3 DEF StartsWith

(* One probe: the one count grows and the other starts again.               *)
LEMMA ProbeKeepsChecker ==
    ASSUME CheckerInv, Probe
    PROVE  CheckerInv' /\ condition' = condition
  <1> DEFINE b == Ptrs[next_probe]
  <1> DEFINE outs == outcomes[b]
  <1> DEFINE K == Max({UnhealthyThreshold, HealthyThreshold})
  <1> DEFINE m == Min({Len(outs) + 1, K})
  <1>0. b \in Backends
    BY Lists DEF CheckerInv, CheckerShape
  <1>1. PICK ok \in ProbeOutcomes(condition[b]) :
          /\ Count(b, ok)
          /\ outcomes' = [outcomes EXCEPT ![b] = SubSeq(<<ok>> \o outs, 1, m)]
    BY DEF Probe, CheckBackend
  <1>2. ok \in BOOLEAN
    BY <1>0 DEF ProbeOutcomes, CheckerInv, CheckerShape, ConditionSet
  <1>3. next_probe' = (next_probe % N) + 1 /\ condition' = condition
    BY DEF Probe, CheckBackend
  <1>4. next_probe' \in 1..N
    <2>1. N \in Nat /\ N > 0 /\ next_probe \in Nat
      BY Lists DEF CheckerInv, CheckerShape
    <2>2. next_probe % N \in 0..(N - 1)
      BY <2>1
    <2> QED
      BY <1>3, <2>1, <2>2
  <1>5. outs \in Seq(BOOLEAN) /\ Len(outs) \in Nat
    BY <1>0 DEF CheckerInv, CheckerShape
  <1>6. K \in Nat /\ K > 0 /\ UnhealthyThreshold <= K /\ HealthyThreshold <= K
    BY Thresholds, MaxOfTwo
  <1> HIDE DEF K
  <1>7. m \in 1..(Len(outs) + 1) /\ (m = Len(outs) + 1 \/ m >= K)
    <2>1. m \in {Len(outs) + 1, K} /\ m <= Len(outs) + 1
      BY <1>5, <1>6, MinOfTwo
    <2> HIDE DEF m
    <2> QED
      BY <1>5, <1>6, <2>1
  <1>8. PICK new : new = SubSeq(<<ok>> \o outs, 1, m)
    OBVIOUS
  <1> HIDE DEF m
  <1>9. /\ new \in Seq(BOOLEAN) /\ Len(new) = m
        /\ new[1] = ok /\ \A i \in 2..m : new[i] = outs[i - 1]
    BY <1>2, <1>5, <1>7, <1>8, InFront
  <1>10. /\ outcomes' \in [Backends -> Seq(BOOLEAN)] /\ outcomes'[b] = new
         /\ \A a \in Backends \ {b} : outcomes'[a] = outcomes[a]
    BY <1>0, <1>1, <1>8, <1>9 DEF CheckerInv, CheckerShape
  <1>11. PICK f : f = IF ok THEN 0 ELSE Capped(failure_counts_[b] + 1, UnhealthyThreshold)
    OBVIOUS
  <1>12. PICK s : s = IF ok THEN Capped(success_counts_[b] + 1, HealthyThreshold) ELSE 0
    OBVIOUS
  <1>13. /\ failure_counts_' = [failure_counts_ EXCEPT ![b] = f]
         /\ success_counts_' = [success_counts_ EXCEPT ![b] = s]
    BY <1>1, <1>11, <1>12 DEF Count
  <1>14. /\ failure_counts_[b] \in Nat /\ StartsWith(outs, failure_counts_[b], FALSE)
         /\ success_counts_[b] \in Nat /\ StartsWith(outs, success_counts_[b], TRUE)
    <2>1. failure_counts_[b] \in 0..UnhealthyThreshold /\ success_counts_[b] \in 0..HealthyThreshold
      BY <1>0 DEF CheckerInv, CheckerShape
    <2>2. failure_counts_[b] \in Nat /\ success_counts_[b] \in Nat
      BY <2>1, Thresholds
    <2> HIDE DEF b
    <2>3. StartsWith(outs, failure_counts_[b], FALSE) /\ StartsWith(outs, success_counts_[b], TRUE)
      BY <1>0 DEF CheckerInv, CountsTrue
    <2> QED
      BY <2>2, <2>3
  <1>15. m \in Nat /\ (m = Len(outs) + 1 \/ (m >= UnhealthyThreshold /\ m >= HealthyThreshold))
    BY <1>5, <1>6, <1>7, Thresholds
  <1> HIDE DEF outs
  <1>16. f \in 0..UnhealthyThreshold /\ StartsWith(new, f, FALSE)
    <2>1. CASE ok
      BY <1>9, <1>11, <1>15, <2>1, Thresholds DEF StartsWith
    <2>2. CASE ~ok
      <3>1. ok = FALSE /\ f = Capped(failure_counts_[b] + 1, UnhealthyThreshold)
        BY <1>2, <1>11, <2>2
      <3>2. PICK n \in Nat : n = failure_counts_[b] /\ StartsWith(outs, n, ok)
        BY <1>14, <3>1
      <3>3. PICK limit \in Nat \ {0} : limit = UnhealthyThreshold
        BY Thresholds
      <3>4. StartsWith(new, Capped(n + 1, limit), ok) /\ Capped(n + 1, limit) \in 0..limit
        <4>1. m = Len(outs) + 1 \/ m >= limit
          BY <1>15, <3>3
        <4>2. Extends(new, outs, ok, limit)
          BY <1>5, <1>9, <1>15, <4>1 DEF Extends
        <4> QED
          BY <3>2, <4>2, SeriesGrows
      <3> QED
        BY <3>1, <3>2, <3>3, <3>4
    <2> QED
      BY <2>1, <2>2
  <1>17. s \in 0..HealthyThreshold /\ StartsWith(new, s, TRUE)
    <2>1. CASE ~ok
      BY <1>9, <1>12, <1>15, <2>1, Thresholds DEF StartsWith
    <2>2. CASE ok
      <3>1. ok = TRUE /\ s = Capped(success_counts_[b] + 1, HealthyThreshold)
        BY <1>2, <1>12, <2>2
      <3>2. PICK n \in Nat : n = success_counts_[b] /\ StartsWith(outs, n, ok)
        BY <1>14, <3>1
      <3>3. PICK limit \in Nat \ {0} : limit = HealthyThreshold
        BY Thresholds
      <3>4. StartsWith(new, Capped(n + 1, limit), ok) /\ Capped(n + 1, limit) \in 0..limit
        <4>1. m = Len(outs) + 1 \/ m >= limit
          BY <1>15, <3>3
        <4>2. Extends(new, outs, ok, limit)
          BY <1>5, <1>9, <1>15, <4>1 DEF Extends
        <4> QED
          BY <3>2, <4>2, SeriesGrows
      <3> QED
        BY <3>1, <3>2, <3>3, <3>4
    <2> QED
      BY <2>1, <2>2
  <1>18. /\ failure_counts_' \in [Backends -> 0..UnhealthyThreshold] /\ failure_counts_'[b] = f
         /\ \A a \in Backends \ {b} : failure_counts_'[a] = failure_counts_[a]
    BY <1>0, <1>13, <1>16 DEF CheckerInv, CheckerShape
  <1>19. /\ success_counts_' \in [Backends -> 0..HealthyThreshold] /\ success_counts_'[b] = s
         /\ \A a \in Backends \ {b} : success_counts_'[a] = success_counts_[a]
    BY <1>0, <1>13, <1>17 DEF CheckerInv, CheckerShape
  <1>20. CheckerShape'
    BY <1>3, <1>4, <1>10, <1>18, <1>19 DEF CheckerInv, CheckerShape
  <1>21. CountsTrue'
    <2> SUFFICES ASSUME NEW a \in Backends
                 PROVE  /\ StartsWith(outcomes'[a], failure_counts_'[a], FALSE)
                        /\ StartsWith(outcomes'[a], success_counts_'[a], TRUE)
      BY DEF CountsTrue
    <2>1. CASE a = b
      BY <1>10, <1>16, <1>17, <1>18, <1>19, <2>1
    <2>2. CASE a # b
      BY <1>10, <1>18, <1>19, <2>2 DEF CheckerInv, CountsTrue
    <2> QED
      BY <2>1, <2>2
  <1> QED
    BY <1>3, <1>20, <1>21 DEF CheckerInv

-----------------------------------------------------------------------------
(* The steps of the whole specification.                                    *)
ProxyInv == BalancerInv /\ CheckerInv

(* Steps of the others leave the checker's counts.                          *)
LEMMA CheckerUnchanged ==
    ASSUME CheckerInv, UNCHANGED checkerVars
    PROVE  CheckerInv'
  BY DEF CheckerInv, CheckerShape, CountsTrue, checkerVars

(* The invariant at the start.                                              *)
LEMMA ProxyStarts == Init => ProxyInv
  <1> SUFFICES ASSUME Init PROVE ProxyInv
    OBVIOUS
  <1>1. BalancerInit /\ request = [t \in Threads |-> NoKey]
    BY DEF Init
  <1>2. PICK route \in Routes : algorithm = route.algorithm
    BY DEF Init
  <1>3. algorithm \in Algorithms
    BY <1>2, ProxyAssumption DEF Algorithms
  <1>4. NoScan \in Scan
    BY DEF NoScan, Scan
  <1>5. counter_ \in 0..(N - 1) /\ next_probe \in 1..N
    BY <1>1, Lists DEF BalancerInit
  <1>6. Shape
    BY <1>1, <1>3, <1>4, <1>5 DEF Shape, BalancerInit, Points
  <1>7. \A t \in Threads : pc[t] = "idle" /\ backend[t] = NoBackend /\ steady[t] = {}
    BY <1>1 DEF BalancerInit
  <1>8. Where
    BY <1>7 DEF Where
  <1>9. ActiveExact
    <2> SUFFICES ASSUME NEW b \in Backends
                 PROVE  active_connections[b] = Cardinality({t \in Threads : backend[t] = b})
      BY DEF ActiveExact
    <2>1. {t \in Threads : backend[t] = b} = {}
      BY <1>7, BalancerAssumption
    <2> QED
      BY <1>1, <2>1, FS_EmptySet DEF BalancerInit
  <1>10. PassedBy /\ NoneMeansDownElsewhere
    BY <1>7 DEF PassedBy, NoneMeansDownElsewhere, NoneMeansDown
  <1>11. CheckerShape
    BY <1>1, <1>5, Thresholds DEF CheckerShape, BalancerInit, ConditionSet
  <1>12. CountsTrue
    BY <1>1 DEF CountsTrue, StartsWith, BalancerInit
  <1> QED
    BY <1>6, <1>8, <1>9, <1>10, <1>11, <1>12 DEF ProxyInv, BalancerInv, CheckerInv

(* A caller enters, looks its key up, or leaves.                            *)
LEMMA CallerKeepsBalancer ==
    ASSUME BalancerInv, NEW t \in Threads,
           (\E k \in Keys : Request(t, k)) \/ Lookup(t) \/ StoreResult(t) \/ Return(t)
    PROVE  BalancerInv'
  <1>0. /\ request \in [Threads -> Keys \cup {NoKey}]
        /\ {"idle", "lookup", "hit", "try", "store", "failed"} \subseteq Elsewhere
    BY DEF BalancerInv, Shape, Elsewhere, Points
  <1>1. ASSUME NEW k \in Keys, Request(t, k) PROVE BalancerInv'
    <2>1. PICK q \in {"lookup", "try"} : pc' = [pc EXCEPT ![t] = q]
      BY <1>1 DEF Request, Goto
    <2>2. /\ pc[t] = "idle" /\ request' = [request EXCEPT ![t] = k]
          /\ UNCHANGED <<balancerVars, healthy, steady>>
      BY <1>1 DEF Request, checkerVars
    <2>3. /\ request' \in [Threads -> Keys \cup {NoKey}] /\ request'[t] = k
          /\ \A u \in Threads \ {t} : request'[u] = request[u]
      BY <1>0, <2>2
    <2> QED
      BY <1>0, <2>1, <2>2, <2>3, QuietMove
  <1>2. CASE Lookup(t)
    <2>1. PICK q \in {"hit", "try"} : pc' = [pc EXCEPT ![t] = q]
      BY <1>2 DEF Lookup, Goto
    <2>2. pc[t] = "lookup" /\ UNCHANGED <<balancerVars, healthy, steady, request>>
      BY <1>2 DEF Lookup, checkerVars, proxyVars
    <2>3. request'[t] \in Keys
      BY <2>2 DEF BalancerInv, Where
    <2> QED
      BY <1>0, <2>1, <2>2, <2>3, QuietMove
  <1>3. CASE StoreResult(t) \/ Return(t)
    <2>1. /\ pc[t] \in {"store", "hit", "failed", "none"} /\ pc' = [pc EXCEPT ![t] = "idle"]
          /\ request' = [request EXCEPT ![t] = NoKey]
          /\ UNCHANGED <<balancerVars, healthy>>
          /\ steady' = steady \/ steady' = [steady EXCEPT ![t] = {}]
      BY <1>3 DEF StoreResult, Return, Leave, Goto, checkerVars
    <2>2. /\ request' \in [Threads -> Keys \cup {NoKey}]
          /\ \A u \in Threads \ {t} : request'[u] = request[u]
      BY <1>0, <2>1
    <2> QED
      BY <1>0, <2>1, <2>2, QuietMove
  <1> QED
    BY <1>1, <1>2, <1>3

(* Steps that leave the balancer and the callers where they are.            *)
LEMMA BalancerUnchanged ==
    ASSUME BalancerInv, UNCHANGED <<balancerVars, healthy, pc, steady, request>>
    PROVE  BalancerInv'
  <1>1. UNCHANGED <<algorithm, active_connections, counter_, scan, backend, healthy, pc, steady, request>>
    BY DEF balancerVars
  <1> QED
    BY <1>1 DEF BalancerInv, Shape, Where, ActiveExact, PassedBy, NoneMeansDownElsewhere, NoneMeansDown

(* Clients, backends and time.                                              *)
LEMMA SurroundingsKeep ==
    ASSUME ProxyInv, Surroundings
    PROVE  ProxyInv' /\ healthy' = healthy /\ outcomes' = outcomes
  <1>1. UNCHANGED <<balancerVars, healthy, pc, steady, request, failure_counts_, success_counts_,
                    next_probe, outcomes>>
    BY DEF Surroundings, Change, checkerVars
  <1>2. BalancerInv'
    BY <1>1, BalancerUnchanged DEF ProxyInv
  <1>3. condition' \in [Backends -> ConditionSet]
    <2>1. CASE condition' = condition
      BY <2>1 DEF ProxyInv, CheckerInv, CheckerShape
    <2>2. ASSUME NEW b \in Backends, NEW c \in Conditions, Change(b, c)
          PROVE  condition' \in [Backends -> ConditionSet]
      BY <2>2, BalancerAssumption DEF Change, ProxyInv, CheckerInv, CheckerShape, ConditionSet
    <2> QED
      BY <2>1, <2>2 DEF Surroundings, checkerVars
  <1>4. CheckerInv'
    BY <1>1, <1>3 DEF ProxyInv, CheckerInv, CheckerShape, CountsTrue
  <1> QED
    BY <1>1, <1>2, <1>4 DEF ProxyInv

(* Only a probe touches what the checker keeps.                             *)
LEMMA CallersLeaveChecker ==
    ASSUME NEW t \in Threads, ThreadStep(t) \/ \E k \in Keys : Request(t, k)
    PROVE  UNCHANGED checkerVars
  BY DEF ThreadStep, Lookup, Try, Select, Forward, StoreResult, Return, Request

(* Every step keeps the invariant.                                          *)
LEMMA ProxyStep == ProxyInv /\ [Next]_vars => ProxyInv'
  <1> SUFFICES ASSUME ProxyInv, [Next]_vars PROVE ProxyInv'
    OBVIOUS
  <1>0. BalancerInv /\ CheckerInv /\ next_probe \in 1..N
    BY DEF ProxyInv, CheckerInv, CheckerShape
  <1>1. ASSUME NEW t \in Threads, ThreadStep(t) PROVE ProxyInv'
    BY <1>0, <1>1, CallersLeaveChecker, CheckerUnchanged, CallerKeepsBalancer, BeginKeepsBalancer,
       SelectKeepsBalancer, ReportKeepsBalancer
    DEF ThreadStep, ProxyInv
  <1>2. ASSUME NEW t \in Threads, NEW k \in Keys, Request(t, k) PROVE ProxyInv'
    BY <1>0, <1>2, CallersLeaveChecker, CheckerUnchanged, CallerKeepsBalancer DEF ProxyInv
  <1>3. CASE Probe
    BY <1>0, <1>3, ProbeKeepsBalancer, ProbeKeepsChecker DEF ProxyInv
  <1>4. CASE Surroundings
    BY <1>4, SurroundingsKeep
  <1>5. CASE UNCHANGED vars
    <2>1. UNCHANGED <<balancerVars, checkerVars, healthy, pc, steady, request>>
      BY <1>5 DEF vars, checkerVars, proxyVars
    <2> QED
      BY <1>0, <2>1, BalancerUnchanged, CheckerUnchanged DEF ProxyInv
  <1> QED
    BY <1>1, <1>2, <1>3, <1>4, <1>5 DEF Next

(* The inductive invariant of the balancer, its callers and its checker.    *)
THEOREM ProxyInvariant == Spec => []ProxyInv
  BY ProxyStarts, ProxyStep, PTL DEF Spec

(* active_connections is exact: select() adds one and report_result() takes *)
(* it back, whatever the interleaving of the callers and however often a    *)
(* request is retried.                                                      *)
THEOREM ProxyActiveExact == Spec => []ActiveExact
  <1>1. ProxyInv => ActiveExact
    BY DEF ProxyInv, BalancerInv
  <1> QED
    BY <1>1, ProxyInvariant, PTL

(* select() of every balancer but round robin returns nullptr only if no    *)
(* backend was healthy all the time since it began, for any backends and    *)
(* any ring that has them all.                                              *)
THEOREM ProxyNoneMeansDown == Spec => []NoneMeansDownElsewhere
  <1>1. ProxyInv => NoneMeansDownElsewhere
    BY DEF ProxyInv, BalancerInv
  <1> QED
    BY <1>1, ProxyInvariant, PTL

(* check_all() changes a backend's state only after as many equal probes in *)
(* a row as the threshold says.                                             *)
THEOREM ProxyHealthIsDamped == Spec => HealthIsDamped
  <1> DEFINE Damped ==
        \A b \in Backends :
          /\ healthy[b] /\ ~healthy'[b] => Series(b, FALSE, UnhealthyThreshold)
          /\ ~healthy[b] /\ healthy'[b] => Series(b, TRUE, HealthyThreshold)
  <1>1. ProxyInv /\ [Next]_vars => [Damped]_<<healthy, outcomes>>
    <2> SUFFICES ASSUME ProxyInv, [Next]_vars PROVE UNCHANGED <<healthy, outcomes>> \/ Damped
      OBVIOUS
    <2>1. CASE Probe
      <3>1. CheckerInv'
        BY <2>1, ProbeKeepsChecker DEF ProxyInv
      <3>2. next_probe \in 1..N
        BY DEF ProxyInv, CheckerInv, CheckerShape
      <3> DEFINE p == Ptrs[next_probe]
      <3>3. p \in Backends
        BY <3>2, Lists
      <3>4. PICK ok \in ProbeOutcomes(condition[p]) :
              healthy' = [healthy EXCEPT ![p] = HealthyAfter(p, ok)]
        BY <2>1 DEF Probe, CheckBackend
      <3>5. /\ healthy'[p] = HealthyAfter(p, ok)
            /\ \A a \in Backends \ {p} : healthy'[a] = healthy[a]
        BY <3>3, <3>4 DEF ProxyInv, BalancerInv, Shape
      <3>6. /\ failure_counts_'[p] \in 0..UnhealthyThreshold
            /\ success_counts_'[p] \in 0..HealthyThreshold
            /\ StartsWith(outcomes'[p], failure_counts_'[p], FALSE)
            /\ StartsWith(outcomes'[p], success_counts_'[p], TRUE)
        BY <3>1, <3>3 DEF CheckerInv, CheckerShape, CountsTrue
      <3> HIDE DEF p
      <3>7. ASSUME healthy[p], ~healthy'[p] PROVE Series(p, FALSE, UnhealthyThreshold)
        <4>1. ~(failure_counts_'[p] < UnhealthyThreshold)
          BY <3>5, <3>7 DEF HealthyAfter
        <4>2. failure_counts_'[p] = UnhealthyThreshold
          BY <3>6, <4>1, Thresholds
        <4> QED
          BY <3>6, <4>2, Thresholds DEF StartsWith, Series
      <3>8. ASSUME ~healthy[p], healthy'[p] PROVE Series(p, TRUE, HealthyThreshold)
        <4>1. success_counts_'[p] >= HealthyThreshold
          BY <3>5, <3>8 DEF HealthyAfter
        <4>2. success_counts_'[p] = HealthyThreshold
          BY <3>6, <4>1, Thresholds
        <4> QED
          BY <3>6, <4>2, Thresholds DEF StartsWith, Series
      <3> QED
        BY <3>5, <3>7, <3>8
    <2>2. CASE Surroundings
      BY <2>2, SurroundingsKeep
    <2>3. ASSUME NEW t \in Threads, ThreadStep(t) \/ \E k \in Keys : Request(t, k)
          PROVE  UNCHANGED <<healthy, outcomes>>
      BY <2>3, CallersLeaveChecker DEF checkerVars
    <2>4. CASE UNCHANGED vars
      BY <2>4 DEF vars, checkerVars
    <2> QED
      BY <2>1, <2>2, <2>3, <2>4 DEF Next
  <1> QED
    BY <1>1, ProxyInvariant, PTL DEF Spec, HealthIsDamped

-----------------------------------------------------------------------------
(* Induction, which the cache's sums and limits need.                       *)

(* A set of naturals that is not empty has a least element.                 *)
LEMMA LeastElement ==
    ASSUME NEW T, T \subseteq Nat, T # {}
    PROVE  \E x \in T : \A y \in T : x <= y
  <1>1. PICK R : R = OpToRel(<, Nat)
    OBVIOUS
  <1>2. IsWellFoundedOn(R, Nat)
    BY <1>1, NatLessThanWellFounded, Zenon
  <1>3. \A x, y \in Nat : <<x, y>> \in R <=> x < y
    BY <1>1 DEF OpToRel
  <1>4. PICK x \in T : \A y \in T : ~(<<y, x>> \in R)
    BY <1>2, WFMin
  <1>5. ASSUME NEW y \in T PROVE x <= y
    <2>1. x \in Nat /\ y \in Nat
      OBVIOUS
    <2>2. ~(y < x)
      BY <2>1, <1>3, <1>4
    <2> QED
      BY <2>1, <2>2
  <1> QED
    BY <1>5

(* Induction over the naturals, for the set of those that have a property.  *)
LEMMA NatInd ==
    ASSUME NEW S, 0 \in S, \A n \in Nat : n \in S => n + 1 \in S
    PROVE  Nat \subseteq S
  <1> SUFFICES ASSUME Nat \ S # {} PROVE FALSE
    OBVIOUS
  <1>1. PICK x \in Nat \ S : \A y \in Nat \ S : x <= y
    BY LeastElement
  <1>2. x # 0 /\ x - 1 \in Nat /\ x - 1 \in S
    BY <1>1
  <1> QED
    BY <1>2

(* A set of naturals up to a bound has a greatest element, which is Max.    *)
LEMMA MaxIn ==
    ASSUME NEW T, NEW b \in Nat, T \subseteq 0..b, T # {}
    PROVE  Max(T) \in T /\ \A y \in T : Max(T) >= y
  <1>1. PICK D : D = {b - x : x \in T}
    OBVIOUS
  <1>2. D \subseteq Nat /\ D # {}
    <2>1. \A x \in T : x \in 0..b /\ b - x \in Nat
      OBVIOUS
    <2> QED
      BY <1>1, <2>1
  <1>3. PICK d \in D : \A y \in D : d <= y
    BY <1>2, LeastElement
  <1>4. PICK x \in T : d = b - x
    BY <1>1, <1>3
  <1>5. \A y \in T : x >= y
    BY <1>1, <1>3, <1>4
  <1> QED
    BY <1>4, <1>5 DEF Max

-----------------------------------------------------------------------------
Resp == [status : Nat, size : Nat, spelled : BOOLEAN, no_store : BOOLEAN, private_ : BOOLEAN,
         s_maxage : Int, max_age : Int]
Entries == [key : Keys, response : Resp, created : Nat, expires : Nat, stale_expires : Nat,
            revalidating : BOOLEAN]

(* g[n] is the size of the first n entries.                                 *)
Sums(list, g) ==
    /\ g \in [0..Len(list) -> Nat]
    /\ g[0] = 0
    /\ \A n \in 1..Len(list) : g[n] = g[n - 1] + EntrySize(list[n])

(* An entry of a list has a size.                                           *)
LEMMA Sized ==
    ASSUME NEW list \in Seq(Entries)
    PROVE  /\ Len(list) \in Nat
           /\ \A i \in 1..Len(list) : list[i] \in Entries /\ EntrySize(list[i]) \in Nat
  <1>1. \A e \in Entries : e.response \in Resp
    BY DEF Entries
  <1>2. \A r \in Resp : r.size \in Nat
    BY DEF Resp
  <1>3. Len(list) \in Nat /\ \A i \in 1..Len(list) : list[i] \in Entries
    OBVIOUS
  <1> QED
    BY <1>1, <1>2, <1>3 DEF EntrySize

(* Every list has its sums.                                                 *)
LEMMA SumsExist ==
    ASSUME NEW list \in Seq(Entries)
    PROVE  \E g : Sums(list, g)
  <1> DEFINE Up(n, g) == /\ g \in [0..n -> Nat] /\ g[0] = 0
                         /\ \A i \in 1..n : g[i] = g[i - 1] + EntrySize(list[i])
             S == {n \in Nat : n <= Len(list) => \E g : Up(n, g)}
  <1>0. Len(list) \in Nat /\ \A i \in 1..Len(list) : EntrySize(list[i]) \in Nat
    BY Sized
  <1>1. 0 \in S
    <2>1. PICK g : g = [i \in 0..0 |-> 0]
      OBVIOUS
    <2>2. Up(0, g)
      BY <2>1
    <2> QED
      BY <2>2
  <1>2. ASSUME NEW n \in Nat, n \in S PROVE n + 1 \in S
    <2> SUFFICES ASSUME n + 1 <= Len(list) PROVE \E g : Up(n + 1, g)
      OBVIOUS
    <2>1. PICK g : Up(n, g)
      BY <1>0, <1>2
    <2>2. PICK h : h = [i \in 0..(n + 1) |-> IF i = n + 1 THEN g[n] + EntrySize(list[n + 1]) ELSE g[i]]
      OBVIOUS
    <2>3. h \in [0..(n + 1) -> Nat] /\ h[0] = 0
      BY <2>1, <2>2, <1>0
    <2>4. ASSUME NEW i \in 1..(n + 1) PROVE h[i] = h[i - 1] + EntrySize(list[i])
      <3>1. CASE i = n + 1
        BY <3>1, <2>1, <2>2
      <3>2. CASE i # n + 1
        <4>1. i \in 1..n /\ i - 1 \in 0..n /\ i - 1 # n + 1
          BY <3>2
        <4> QED
          BY <4>1, <2>1, <2>2
      <3> QED
        BY <3>1, <3>2
    <2>5. Up(n + 1, h)
      BY <2>3, <2>4
    <2> QED
      BY <2>5
  <1>3. Nat \subseteq S
    <2> HIDE DEF S
    <2> QED
      BY <1>1, <1>2, NatInd
  <1>4. Len(list) \in S
    BY <1>3, <1>0
  <1>5. PICK g : Up(Len(list), g)
    BY <1>4, <1>0
  <1> QED
    BY <1>5 DEF Sums

(* There is one function of sums.                                           *)
LEMMA SumsAgree ==
    ASSUME NEW list \in Seq(Entries), NEW g, NEW h, Sums(list, g), Sums(list, h)
    PROVE  \A n \in 0..Len(list) : g[n] = h[n]
  <1> DEFINE S == {n \in Nat : n <= Len(list) => g[n] = h[n]}
  <1>1. 0 \in S
    BY DEF Sums
  <1>2. ASSUME NEW n \in Nat, n \in S PROVE n + 1 \in S
    <2> SUFFICES ASSUME n + 1 <= Len(list) PROVE g[n + 1] = h[n + 1]
      OBVIOUS
    <2>1. n + 1 \in 1..Len(list) /\ (n + 1) - 1 = n /\ g[n] = h[n]
      BY <1>2
    <2> QED
      BY <2>1 DEF Sums
  <1>3. Nat \subseteq S
    <2> HIDE DEF S
    <2> QED
      BY <1>1, <1>2, NatInd
  <1> QED
    BY <1>3

(* TotalSize is the last of the sums.                                       *)
LEMMA TotalIsSum ==
    ASSUME NEW list \in Seq(Entries), NEW g, Sums(list, g)
    PROVE  TotalSize(list) = g[Len(list)] /\ TotalSize(list) \in Nat
  <1> DEFINE P(u) == u = [n \in 0..Len(list) |-> IF n = 0 THEN 0 ELSE u[n - 1] + EntrySize(list[n])]
  <1>0. Len(list) \in Nat
    OBVIOUS
  <1>1. P(g)
    <2>1. \A n \in 0..Len(list) : g[n] = IF n = 0 THEN 0 ELSE g[n - 1] + EntrySize(list[n])
      <3> TAKE n \in 0..Len(list)
      <3>1. n = 0 \/ n \in 1..Len(list)
        BY <1>0
      <3> QED
        BY <3>1 DEF Sums
    <2> QED
      BY <2>1 DEF Sums
  <1>2. PICK u : u = CHOOSE v : P(v)
    OBVIOUS
  <1>3. P(u)
    BY <1>1, <1>2
  <1>4. TotalSize(list) = u[Len(list)]
    BY <1>2 DEF TotalSize
  <1>5. \A n \in 0..Len(list) : u[n] = IF n = 0 THEN 0 ELSE u[n - 1] + EntrySize(list[n])
    BY <1>3
  <1> HIDE DEF P
  <1> DEFINE S == {n \in Nat : n <= Len(list) => u[n] = g[n]}
  <1>6. 0 \in S
    BY <1>5, <1>0 DEF Sums
  <1>7. ASSUME NEW n \in Nat, n \in S PROVE n + 1 \in S
    <2> SUFFICES ASSUME n + 1 <= Len(list) PROVE u[n + 1] = g[n + 1]
      OBVIOUS
    <2>1. n + 1 \in 1..Len(list) /\ (n + 1) - 1 = n /\ u[n] = g[n] /\ n + 1 # 0 /\ n + 1 \in 0..Len(list)
      BY <1>7, <1>0
    <2> QED
      BY <2>1, <1>5 DEF Sums
  <1>8. Nat \subseteq S
    <2> HIDE DEF S
    <2> QED
      BY <1>6, <1>7, NatInd
  <1>9. Len(list) \in S
    BY <1>8, <1>0
  <1>10. g[Len(list)] \in Nat
    BY <1>0 DEF Sums
  <1> QED
    BY <1>9, <1>4, <1>10

(* Two lists in a row.                                                      *)
IsJoin(c, s, t) ==
    /\ c \in Seq(Entries) /\ Len(c) = Len(s) + Len(t)
    /\ \A i \in 1..Len(s) : c[i] = s[i]
    /\ \A i \in 1..Len(t) : c[Len(s) + i] = t[i]

(* Where the entries of two lists in a row are.                             *)
LEMMA Joined ==
    ASSUME NEW s \in Seq(Entries), NEW t \in Seq(Entries)
    PROVE  IsJoin(s \o t, s, t)
  BY DEF IsJoin

(* Lists with the same entries are the same.                                *)
LEMMA SameList ==
    ASSUME NEW s \in Seq(Entries), NEW t \in Seq(Entries), Len(s) = Len(t),
           \A i \in 1..Len(s) : s[i] = t[i]
    PROVE  s = t
  OBVIOUS

(* The size of two lists in a row.                                          *)
LEMMA TotalOfConcat ==
    ASSUME NEW s \in Seq(Entries), NEW t \in Seq(Entries)
    PROVE  /\ TotalSize(s \o t) = TotalSize(s) + TotalSize(t)
           /\ TotalSize(s) \in Nat /\ TotalSize(t) \in Nat
  <1>0. Len(s) \in Nat /\ Len(t) \in Nat
    OBVIOUS
  <1>1. PICK g : Sums(s, g)
    BY SumsExist
  <1>2. PICK h : Sums(t, h)
    BY SumsExist
  <1>3. PICK c : c = s \o t
    OBVIOUS
  <1>4. /\ c \in Seq(Entries) /\ Len(c) = Len(s) + Len(t)
        /\ \A i \in 1..Len(s) : c[i] = s[i]
        /\ \A i \in 1..Len(t) : c[Len(s) + i] = t[i]
    BY <1>3, Joined DEF IsJoin
  <1>5. PICK k : k = [n \in 0..Len(c) |-> IF n <= Len(s) THEN g[n] ELSE g[Len(s)] + h[n - Len(s)]]
    OBVIOUS
  <1>6. Sums(c, k)
    <2>1. k \in [0..Len(c) -> Nat]
      <3> SUFFICES ASSUME NEW n \in 0..Len(c) PROVE k[n] \in Nat
        BY <1>5
      <3>1. CASE n <= Len(s)
        BY <3>1, <1>1, <1>5, <1>0, <1>4 DEF Sums
      <3>2. CASE n > Len(s)
        <4>1. n - Len(s) \in 0..Len(t) /\ Len(s) \in 0..Len(s)
          BY <3>2, <1>0, <1>4
        <4>2. g[Len(s)] \in Nat /\ h[n - Len(s)] \in Nat
          BY <4>1, <1>1, <1>2 DEF Sums
        <4> QED
          BY <4>2, <3>2, <1>5, <1>0
      <3> QED
        BY <3>1, <3>2, <1>0, <1>4
    <2>2. k[0] = 0
      BY <1>1, <1>5, <1>4, <1>0 DEF Sums
    <2>3. ASSUME NEW n \in 1..Len(c) PROVE k[n] = k[n - 1] + EntrySize(c[n])
      <3>1. CASE n <= Len(s)
        <4>1. n \in 1..Len(s) /\ n - 1 \in 0..Len(c) /\ n \in 0..Len(c) /\ n - 1 <= Len(s)
          BY <3>1, <1>0, <1>4
        <4> QED
          BY <4>1, <3>1, <1>1, <1>4, <1>5 DEF Sums
      <3>2. CASE n > Len(s)
        <4>0. n - Len(s) \in 1..Len(t) /\ n = Len(s) + (n - Len(s))
          BY <3>2, <1>0, <1>4
        <4>1. PICK m \in 1..Len(t) : n = Len(s) + m
          BY <4>0
        <4>2. k[n] = g[Len(s)] + h[m] /\ EntrySize(c[n]) = EntrySize(t[m])
          BY <4>1, <3>2, <1>0, <1>4, <1>5
        <4>3. k[n - 1] = g[Len(s)] + h[m - 1]
          <5>1. CASE m = 1
            <6>1. n - 1 = Len(s) /\ Len(s) \in 0..Len(c)
              BY <5>1, <4>1, <1>0, <1>4
            <6>2. g[Len(s)] \in Nat /\ h[m - 1] = 0
              <7>1. Len(s) \in 0..Len(s) /\ m - 1 = 0
                BY <5>1, <1>0
              <7> QED
                BY <7>1, <1>1, <1>2 DEF Sums
            <6> QED
              BY <6>1, <6>2, <1>0, <1>5
          <5>2. CASE m # 1
            <6>1. n - 1 \in 0..Len(c) /\ ~(n - 1 <= Len(s)) /\ (n - 1) - Len(s) = m - 1
              BY <5>2, <4>1, <1>0, <1>4
            <6> QED
              BY <6>1, <1>5
          <5> QED
            BY <5>1, <5>2
        <4>4. h[m] = h[m - 1] + EntrySize(t[m]) /\ h[m - 1] \in Nat /\ h[m] \in Nat /\ g[Len(s)] \in Nat
          <5>1. Len(s) \in 0..Len(s) /\ m \in 0..Len(t) /\ m - 1 \in 0..Len(t)
            BY <1>0
          <5> QED
            BY <5>1, <1>1, <1>2 DEF Sums
        <4>5. EntrySize(t[m]) \in Nat
          BY Sized
        <4> QED
          BY <4>2, <4>3, <4>4, <4>5
      <3> QED
        BY <3>1, <3>2, <1>0, <1>4
    <2> QED
      BY <2>1, <2>2, <2>3 DEF Sums
  <1>7. k[Len(c)] = g[Len(s)] + h[Len(t)]
    <2>1. CASE Len(t) = 0
      BY <2>1, <1>0, <1>1, <1>2, <1>4, <1>5 DEF Sums
    <2>2. CASE Len(t) # 0
      BY <2>2, <1>0, <1>4, <1>5
    <2> QED
      BY <2>1, <2>2
  <1>8. TotalSize(c) = k[Len(c)] /\ TotalSize(s) = g[Len(s)] /\ TotalSize(t) = h[Len(t)]
        /\ TotalSize(s) \in Nat /\ TotalSize(t) \in Nat
    BY <1>1, <1>2, <1>4, <1>6, TotalIsSum
  <1> QED
    BY <1>3, <1>7, <1>8

(* The size of one entry, and of none.                                      *)
LEMMA TotalOfOne ==
    ASSUME NEW e \in Entries
    PROVE  <<e>> \in Seq(Entries) /\ TotalSize(<<e>>) = EntrySize(e) /\ TotalSize(<<>>) = 0
  <1>1. PICK s : s = <<e>>
    OBVIOUS
  <1>2. s \in Seq(Entries) /\ Len(s) = 1 /\ s[1] = e
    BY <1>1
  <1>3. PICK g : g = [n \in 0..1 |-> IF n = 0 THEN 0 ELSE EntrySize(e)]
    OBVIOUS
  <1>4. EntrySize(e) \in Nat
    BY <1>2, Sized
  <1>5. Sums(s, g)
    BY <1>2, <1>3, <1>4 DEF Sums
  <1>6. TotalSize(s) = g[1]
    BY <1>2, <1>5, TotalIsSum
  <1>7. PICK z : z = <<>>
    OBVIOUS
  <1>8. z \in Seq(Entries) /\ Len(z) = 0
    BY <1>7
  <1>9. PICK h : Sums(z, h)
    BY <1>8, SumsExist
  <1>10. TotalSize(z) = h[0]
    BY <1>8, <1>9, TotalIsSum
  <1> QED
    BY <1>1, <1>2, <1>3, <1>6, <1>7, <1>9, <1>10 DEF Sums

(* What the cache may give to anybody, and for how long.                    *)
Fine(e) ==
    /\ e.key \in GetKeys /\ e.response.status # 500
    /\ e.response.spelled => ~e.response.private_ /\ ~e.response.no_store
    /\ e.expires <= e.stale_expires
    /\ Lifetime(e.response) # 0 =>
          e.stale_expires <= e.created + Lifetime(e.response) + StaleWhileRevalidate

(* A list in the order of use rec, one entry for each key.                  *)
Good(list, rec) ==
    /\ list \in Seq(Entries)
    /\ \A i, j \in 1..Len(list) :
          i < j => list[i].key # list[j].key /\ <<list[i].key, list[j].key>> \in rec
    /\ \A i \in 1..Len(list) : Fine(list[i])

KeysOf(list) == {list[i].key : i \in 1..Len(list)}

(* Every element of one list is an element of the other.                    *)
PartOf(rest, list) == \A i \in 1..Len(rest) : \E k \in 1..Len(list) : rest[i] = list[k]

(* One entry is taken out of a list.                                        *)
LEMMA EntryRemoved ==
    ASSUME NEW list, NEW rec, Good(list, rec), NEW p \in 1..Len(list), NEW rest, rest = RemoveAt(list, p)
    PROVE  /\ Good(rest, rec) /\ Len(rest) = Len(list) - 1
           /\ KeysOf(rest) = KeysOf(list) \ {list[p].key}
           /\ TotalSize(list) = TotalSize(rest) + EntrySize(list[p])
           /\ PartOf(rest, list)
  <1>0. list \in Seq(Entries) /\ Len(list) \in Nat /\ list[p] \in Entries /\ EntrySize(list[p]) \in Nat
    BY Sized DEF Good
  <1>1. PICK a : a = SubSeq(list, 1, p - 1)
    OBVIOUS
  <1>2. PICK b : b = SubSeq(list, p + 1, Len(list))
    OBVIOUS
  <1>3. a \in Seq(Entries) /\ Len(a) = p - 1 /\ \A i \in 1..(p - 1) : a[i] = list[i]
    BY <1>0, <1>1
  <1>4. b \in Seq(Entries) /\ Len(b) = Len(list) - p /\ \A i \in 1..(Len(list) - p) : b[i] = list[p + i]
    BY <1>0, <1>2
  <1>5. rest = a \o b
    BY <1>1, <1>2 DEF RemoveAt
  <1>6. /\ rest \in Seq(Entries) /\ Len(rest) = Len(list) - 1
        /\ \A i \in 1..(p - 1) : rest[i] = a[i]
        /\ \A i \in 1..(Len(list) - p) : rest[(p - 1) + i] = b[i]
    <2>1. IsJoin(rest, a, b)
      BY <1>3, <1>4, <1>5, Joined
    <2> QED
      BY <2>1, <1>3, <1>4, <1>0 DEF IsJoin
  <1>7. ASSUME NEW i \in 1..Len(rest)
        PROVE  /\ i < p => i \in 1..Len(list) /\ rest[i] = list[i]
               /\ ~(i < p) => i + 1 \in 1..Len(list) /\ rest[i] = list[i + 1]
    <2>1. CASE i < p
      BY <2>1, <1>0, <1>3, <1>6
    <2>2. CASE ~(i < p)
      <3>1. /\ i - (p - 1) \in 1..(Len(list) - p) /\ p + (i - (p - 1)) = i + 1
            /\ (p - 1) + (i - (p - 1)) = i
        BY <2>2, <1>6, <1>0
      <3>2. rest[i] = b[i - (p - 1)]
        BY <3>1, <1>6
      <3> QED
        BY <2>2, <3>1, <3>2, <1>0, <1>4, <1>6
    <2> QED
      BY <2>1, <2>2
  <1>8. Good(rest, rec)
    <2>1. ASSUME NEW i \in 1..Len(rest), NEW j \in 1..Len(rest), i < j
          PROVE  rest[i].key # rest[j].key /\ <<rest[i].key, rest[j].key>> \in rec
      <3>1. PICK k \in 1..Len(list), m \in 1..Len(list) : k < m /\ rest[i] = list[k] /\ rest[j] = list[m]
        <4>1. CASE j < p
          <5>1. i < p
            BY <4>1, <2>1, <1>6, <1>0
          <5> QED
            BY <4>1, <5>1, <2>1, <1>7
        <4>2. CASE ~(j < p) /\ i < p
          <5>1. i < j + 1
            BY <4>2, <1>6, <1>0
          <5> QED
            BY <4>2, <5>1, <1>7
        <4>3. CASE ~(j < p) /\ ~(i < p)
          <5>1. i + 1 < j + 1
            BY <2>1, <1>6, <1>0
          <5> QED
            BY <4>3, <5>1, <1>7
        <4> QED
          BY <4>1, <4>2, <4>3
      <3> QED
        BY <3>1 DEF Good
    <2>2. \A i \in 1..Len(rest) : Fine(rest[i])
      BY <1>7 DEF Good
    <2> QED
      BY <2>1, <2>2, <1>6 DEF Good
  <1>9. KeysOf(rest) = KeysOf(list) \ {list[p].key}
    <2>1. ASSUME NEW i \in 1..Len(rest) PROVE rest[i].key \in KeysOf(list) \ {list[p].key}
      <3>1. PICK k \in 1..Len(list) : k # p /\ rest[i] = list[k]
        <4>1. CASE i < p
          BY <4>1, <1>7, <1>0
        <4>2. CASE ~(i < p)
          <5>1. i + 1 # p
            BY <4>2, <1>6, <1>0
          <5> QED
            BY <4>2, <5>1, <1>7
        <4> QED
          BY <4>1, <4>2
      <3>2. list[k].key # list[p].key
        <4>1. k < p \/ p < k
          BY <3>1, <1>0
        <4> QED
          BY <4>1 DEF Good
      <3> QED
        BY <3>1, <3>2 DEF KeysOf
    <2>2. ASSUME NEW k \in 1..Len(list), k # p PROVE list[k].key \in KeysOf(rest)
      <3>1. CASE k < p
        <4>1. k \in 1..Len(rest) /\ rest[k] = list[k]
          BY <3>1, <1>6, <1>0, <1>7
        <4> QED
          BY <4>1 DEF KeysOf
      <3>2. CASE k > p
        <4>1. k - 1 \in 1..Len(rest) /\ ~(k - 1 < p) /\ (k - 1) + 1 = k
          BY <3>2, <1>6, <1>0
        <4>2. rest[k - 1] = list[k]
          BY <4>1, <1>7
        <4> QED
          BY <4>1, <4>2 DEF KeysOf
      <3> QED
        BY <3>1, <3>2, <2>2
    <2>3. KeysOf(rest) \subseteq KeysOf(list) \ {list[p].key}
      BY <2>1 DEF KeysOf
    <2>4. KeysOf(list) \ {list[p].key} \subseteq KeysOf(rest)
      BY <2>2 DEF KeysOf
    <2> QED
      BY <2>3, <2>4
  <1>10. TotalSize(list) = TotalSize(rest) + EntrySize(list[p])
    <2>1. PICK one : one = <<list[p]>>
      OBVIOUS
    <2>2. one \in Seq(Entries) /\ TotalSize(one) = EntrySize(list[p]) /\ Len(one) = 1 /\ one[1] = list[p]
      BY <2>1, <1>0, TotalOfOne
    <2>3. PICK ap : ap = a \o one
      OBVIOUS
    <2>4. /\ ap \in Seq(Entries) /\ Len(ap) = p /\ ap[p] = list[p]
          /\ \A i \in 1..(p - 1) : ap[i] = list[i]
      <3>1. IsJoin(ap, a, one)
        BY <2>2, <2>3, <1>3, Joined
      <3>2. ap[(p - 1) + 1] = one[1]
        BY <3>1, <2>2, <1>3 DEF IsJoin
      <3> QED
        BY <3>1, <3>2, <2>2, <1>3, <1>0 DEF IsJoin
    <2>5. PICK whole : whole = ap \o b
      OBVIOUS
    <2>6. /\ whole \in Seq(Entries) /\ Len(whole) = Len(list)
          /\ \A i \in 1..p : whole[i] = ap[i]
          /\ \A i \in 1..(Len(list) - p) : whole[p + i] = b[i]
      <3>1. IsJoin(whole, ap, b)
        BY <2>4, <2>5, <1>4, Joined
      <3> QED
        BY <3>1, <2>4, <1>4, <1>0 DEF IsJoin
    <2>7. ASSUME NEW i \in 1..Len(list) PROVE whole[i] = list[i]
      <3>1. CASE i < p
        BY <3>1, <2>4, <2>6, <1>0
      <3>2. CASE i = p
        BY <3>2, <2>4, <2>6, <1>0
      <3>3. CASE i > p
        <4>1. i - p \in 1..(Len(list) - p) /\ p + (i - p) = i
          BY <3>3, <1>0
        <4> QED
          BY <4>1, <2>6, <1>4
      <3> QED
        BY <3>1, <3>2, <3>3, <1>0
    <2>8. whole = list
      BY <2>6, <2>7, <1>0, SameList
    <2>9. TotalSize(list) = TotalSize(ap) + TotalSize(b) /\ TotalSize(ap) = TotalSize(a) + EntrySize(list[p])
      <3>1. TotalSize(ap \o b) = TotalSize(ap) + TotalSize(b)
        BY <2>4, <1>4, TotalOfConcat
      <3>2. TotalSize(a \o one) = TotalSize(a) + TotalSize(one)
        BY <2>2, <1>3, TotalOfConcat
      <3> QED
        BY <3>1, <3>2, <2>2, <2>3, <2>5, <2>8
    <2>10. TotalSize(rest) = TotalSize(a) + TotalSize(b) /\ TotalSize(a) \in Nat /\ TotalSize(b) \in Nat
      BY <1>3, <1>4, <1>5, TotalOfConcat
    <2> QED
      BY <2>9, <2>10, <1>0
  <1>11. PartOf(rest, list)
    BY <1>7 DEF PartOf
  <1> QED
    BY <1>6, <1>8, <1>9, <1>10, <1>11

(* A list is cut in two.                                                    *)
Cut(list, n, a, b) == a = SubSeq(list, 1, n) /\ b = SubSeq(list, n + 1, Len(list))
KeysIn(b) == {e.key : e \in ToSet(b)}

(* What the two parts of a list hold.                                       *)
LEMMA ListCut ==
    ASSUME NEW list, NEW rec, Good(list, rec), NEW n \in 0..Len(list), NEW a, NEW b, Cut(list, n, a, b)
    PROVE  /\ Good(a, rec) /\ Len(a) = n
           /\ KeysOf(a) = KeysOf(list) \ KeysIn(b)
           /\ TotalSize(list) = TotalSize(a) + TotalSize(b)
           /\ TotalSize(a) \in Nat /\ TotalSize(b) \in Nat
  <1>0. list \in Seq(Entries) /\ Len(list) \in Nat
    BY Sized DEF Good
  <1>3. a \in Seq(Entries) /\ Len(a) = n /\ \A i \in 1..n : a[i] = list[i] /\ i \in 1..Len(list)
    BY <1>0 DEF Cut
  <1>4. b \in Seq(Entries) /\ Len(b) = Len(list) - n /\ \A i \in 1..(Len(list) - n) : b[i] = list[n + i]
    BY <1>0 DEF Cut
  <1>5. Good(a, rec)
    <2>1. \A i \in 1..n : Fine(a[i])
      BY <1>3 DEF Good
    <2>2. ASSUME NEW i \in 1..n, NEW j \in 1..n, i < j
          PROVE  a[i].key # a[j].key /\ <<a[i].key, a[j].key>> \in rec
      BY <2>2, <1>3 DEF Good
    <2> QED
      BY <1>3, <2>1, <2>2 DEF Good
  <1>6. KeysOf(a) = KeysOf(list) \ KeysIn(b)
    <2>1. PICK B : B = KeysIn(b)
      OBVIOUS
    <2>2. DOMAIN b = 1..(Len(list) - n)
      BY <1>4
    <2>3. B = {b[i].key : i \in 1..(Len(list) - n)}
      BY <2>1, <2>2 DEF ToSet, KeysIn
    <2>4. ASSUME NEW i \in 1..n PROVE list[i].key \in KeysOf(list) /\ list[i].key \notin B
      <3>1. i \in 1..Len(list)
        BY <1>0
      <3>2. ASSUME NEW j \in 1..(Len(list) - n), b[j].key = list[i].key PROVE FALSE
        <4>1. n + j \in 1..Len(list) /\ i < n + j /\ b[j] = list[n + j]
          BY <1>0, <1>4
        <4> QED
          BY <4>1, <3>1, <3>2 DEF Good
      <3> QED
        BY <2>3, <3>1, <3>2 DEF KeysOf
    <2>5. ASSUME NEW i \in 1..Len(list), list[i].key \notin B PROVE i \in 1..n
      <3>1. ASSUME i > n PROVE FALSE
        <4>1. i - n \in 1..(Len(list) - n) /\ n + (i - n) = i
          BY <3>1, <1>0
        <4> QED
          BY <4>1, <2>3, <2>5, <1>4
      <3> QED
        BY <3>1, <1>0
    <2>6. KeysOf(a) = {list[i].key : i \in 1..n}
      BY <1>3 DEF KeysOf
    <2> QED
      BY <2>1, <2>4, <2>5, <2>6 DEF KeysOf
  <1>7. TotalSize(list) = TotalSize(a) + TotalSize(b) /\ TotalSize(a) \in Nat /\ TotalSize(b) \in Nat
    <2>1. PICK c : c = a \o b
      OBVIOUS
    <2>2. /\ c \in Seq(Entries) /\ Len(c) = Len(list)
          /\ \A i \in 1..n : c[i] = a[i]
          /\ \A i \in 1..(Len(list) - n) : c[n + i] = b[i]
      <3>1. IsJoin(c, a, b)
        BY <2>1, <1>3, <1>4, Joined
      <3>2. Len(c) = Len(list) /\ Len(a) = n /\ Len(b) = Len(list) - n
        BY <3>1, <1>3, <1>4, <1>0 DEF IsJoin
      <3>3. /\ c \in Seq(Entries) /\ \A i \in 1..Len(a) : c[i] = a[i]
            /\ \A i \in 1..Len(b) : c[Len(a) + i] = b[i]
        BY <3>1 DEF IsJoin
      <3> QED
        BY <3>2, <3>3
    <2>3. ASSUME NEW i \in 1..Len(list) PROVE c[i] = list[i]
      <3>1. CASE i <= n
        BY <3>1, <2>2, <1>3, <1>0
      <3>2. CASE i > n
        <4>1. i - n \in 1..(Len(list) - n) /\ n + (i - n) = i
          BY <3>2, <1>0
        <4> QED
          BY <4>1, <2>2, <1>4
      <3> QED
        BY <3>1, <3>2, <1>0
    <2>4. c = list
      BY <2>2, <2>3, <1>0, SameList
    <2> QED
      BY <2>1, <2>4, <1>3, <1>4, TotalOfConcat
  <1> QED
    BY <1>3, <1>4, <1>5, <1>6, <1>7

(* An entry goes in front of a list and is now the one used last.           *)
PutBefore(e, list, new) == new = <<e>> \o list
UsedLast(key, rec, used) == used = {p \in rec : p[2] # key} \cup ({key} \X (Keys \ {key}))

MayInsert(e, list, rec) == Good(list, rec) /\ e \in Entries /\ Fine(e) /\ e.key \notin KeysOf(list)
Inserted(e, list, new, used) ==
    /\ Good(new, used) /\ Len(new) = Len(list) + 1
    /\ KeysOf(new) = KeysOf(list) \cup {e.key}
    /\ TotalSize(new) = EntrySize(e) + TotalSize(list)

(* The list with the new entry and the new order of use.                    *)
LEMMA EntryInFront ==
    ASSUME NEW list, NEW rec, NEW e, MayInsert(e, list, rec),
           NEW new, PutBefore(e, list, new), NEW used, UsedLast(e.key, rec, used)
    PROVE  Inserted(e, list, new, used)
  <1> Good(list, rec) /\ e \in Entries /\ Fine(e) /\ e.key \notin KeysOf(list)
    BY DEF MayInsert
  <1>0. list \in Seq(Entries) /\ Len(list) \in Nat /\ \A i \in 1..Len(list) : list[i] \in Entries
    BY Sized DEF Good
  <1>1. <<e>> \in Seq(Entries) /\ TotalSize(<<e>>) = EntrySize(e)
    BY TotalOfOne
  <1>2. /\ new \in Seq(Entries) /\ Len(new) = Len(list) + 1 /\ new[1] = e
        /\ \A i \in 1..Len(list) : new[i + 1] = list[i]
    BY <1>0 DEF PutBefore
  <1>3. TotalSize(new) = EntrySize(e) + TotalSize(list)
    BY <1>0, <1>1, TotalOfConcat DEF PutBefore
  <1>4. ASSUME NEW i \in 2..Len(new) PROVE i - 1 \in 1..Len(list) /\ new[i] = list[i - 1]
    <2>1. i - 1 \in 1..Len(list) /\ (i - 1) + 1 = i
      BY <1>0, <1>2
    <2> QED
      BY <2>1, <1>2
  <1>5. \A i \in 1..Len(list) : list[i].key \in Keys /\ list[i].key # e.key /\ e.key \in Keys
    BY <1>0 DEF Entries, KeysOf
  <1>6. ASSUME NEW i \in 1..Len(new), NEW j \in 1..Len(new), i < j
        PROVE  new[i].key # new[j].key /\ <<new[i].key, new[j].key>> \in used
    <2>0. j \in 2..Len(new)
      BY <1>6, <1>0, <1>2
    <2>1. CASE i = 1
      BY <2>0, <2>1, <1>2, <1>4, <1>5 DEF UsedLast
    <2>2. CASE i # 1
      <3>1. i \in 2..Len(new) /\ i - 1 < j - 1
        BY <2>2, <1>6, <1>0, <1>2
      <3>2. /\ list[i - 1].key # list[j - 1].key
            /\ <<list[i - 1].key, list[j - 1].key>> \in rec
            /\ list[j - 1].key # e.key
        BY <3>1, <2>0, <1>4, <1>5 DEF Good
      <3> QED
        BY <3>1, <3>2, <2>0, <1>4 DEF UsedLast
    <2> QED
      BY <2>1, <2>2
  <1>7. ASSUME NEW i \in 1..Len(new) PROVE Fine(new[i])
    <2>1. CASE i = 1
      BY <2>1, <1>2
    <2>2. CASE i # 1
      <3>1. i \in 2..Len(new)
        BY <2>2, <1>0, <1>2
      <3> QED
        BY <3>1, <1>4 DEF Good
    <2> QED
      BY <2>1, <2>2
  <1>8. KeysOf(new) = KeysOf(list) \cup {e.key}
    <2>1. ASSUME NEW i \in 1..Len(new) PROVE new[i].key \in KeysOf(list) \cup {e.key}
      <3>1. CASE i = 1
        BY <3>1, <1>2
      <3>2. CASE i # 1
        <4>1. i \in 2..Len(new)
          BY <3>2, <1>0, <1>2
        <4> QED
          BY <4>1, <1>4 DEF KeysOf
      <3> QED
        BY <3>1, <3>2
    <2>2. ASSUME NEW i \in 1..Len(list) PROVE list[i].key \in KeysOf(new)
      <3>1. i + 1 \in 1..Len(new) /\ new[i + 1] = list[i]
        BY <1>0, <1>2
      <3> QED
        BY <3>1 DEF KeysOf
    <2>3. e.key \in KeysOf(new)
      <3>1. 1 \in 1..Len(new)
        BY <1>0, <1>2
      <3> QED
        BY <3>1, <1>2 DEF KeysOf
    <2>4. KeysOf(new) \subseteq KeysOf(list) \cup {e.key}
      BY <2>1 DEF KeysOf
    <2>5. KeysOf(list) \subseteq KeysOf(new)
      BY <2>2 DEF KeysOf
    <2> QED
      BY <2>3, <2>4, <2>5
  <1> QED
    BY <1>2, <1>3, <1>6, <1>7, <1>8 DEF Good, Inserted

(* A list has as many keys as entries.                                      *)
LEMMA KeysCounted ==
    ASSUME NEW list, NEW rec, Good(list, rec)
    PROVE  Cardinality(KeysOf(list)) = Len(list)
  <1>0. list \in Seq(Entries) /\ Len(list) \in Nat
    BY Sized DEF Good
  <1>1. PICK f : f = [i \in 1..Len(list) |-> list[i].key]
    OBVIOUS
  <1>2. f \in Surjection(1..Len(list), KeysOf(list))
    BY <1>1 DEF Surjection, KeysOf
  <1>3. f \in Injection(1..Len(list), KeysOf(list))
    <2>1. ASSUME NEW i \in 1..Len(list), NEW j \in 1..Len(list), f[i] = f[j] PROVE i = j
      <3>1. ~(i < j) /\ ~(j < i)
        BY <2>1, <1>1 DEF Good
      <3> QED
        BY <3>1, <1>0
    <2>2. f \in [1..Len(list) -> KeysOf(list)]
      BY <1>1 DEF KeysOf
    <2> QED
      BY <2>1, <2>2 DEF Injection, IsInjective
  <1>4. \A n \in Nat : IsFiniteSet(1..n) /\ Cardinality(1..n) = n
    <2> TAKE n \in Nat
    <2>1. IsFiniteSet(1..n) /\ Cardinality(1..n) = IF 1 > n THEN 0 ELSE n - 1 + 1
      BY FS_Interval
    <2> QED
      BY <2>1
  <1> QED
    BY <1>0, <1>2, <1>3, <1>4, FS_Surjection

-----------------------------------------------------------------------------
(* The operations of the cache.                                             *)
CacheInv ==
    /\ Good(lru_list_, recency)
    /\ index_ = KeysOf(lru_list_)
    /\ current_memory_ = TotalSize(lru_list_)
    /\ stats_ = [current_entries |-> Len(lru_list_), current_bytes |-> current_memory_]
    /\ CacheBounded
    /\ clock \in Nat

(* What the cache's limits are.                                             *)
LEMMA Limits ==
    /\ MaxEntries \in Nat /\ MaxMemory \in Nat /\ DefaultTtl \in Nat /\ StaleWhileRevalidate \in Nat
    /\ CacheTtl \in Nat /\ MaxRetries \in [BOOLEAN -> Nat]
    /\ Responses \subseteq Resp /\ GetKeys \subseteq Keys
  BY CacheAssumption, ProxyAssumption DEF Resp

(* The sizes of a cache that is sound.                                      *)
LEMMA CacheSized ==
    ASSUME CacheInv
    PROVE  /\ lru_list_ \in Seq(Entries) /\ Len(lru_list_) \in Nat
           /\ current_memory_ \in Nat
           /\ \A i \in 1..Len(lru_list_) : lru_list_[i] \in Entries /\ EntrySize(lru_list_[i]) \in Nat
  <1>1. lru_list_ \in Seq(Entries)
    BY DEF CacheInv, Good
  <1>2. PICK g : Sums(lru_list_, g)
    BY <1>1, SumsExist
  <1> QED
    BY <1>1, <1>2, Sized, TotalIsSum DEF CacheInv

(* What index_ finds is the entry of the key.                               *)
LEMMA Found ==
    ASSUME CacheInv, NEW key \in index_
    PROVE  /\ Position(key) \in 1..Len(lru_list_)
           /\ EntryOf(key) = lru_list_[Position(key)]
           /\ EntryOf(key).key = key /\ EntryOf(key) \in Entries /\ Fine(EntryOf(key))
           /\ EntrySize(EntryOf(key)) \in Nat
  <1>1. DOMAIN lru_list_ = 1..Len(lru_list_)
    BY CacheSized
  <1>2. \E i \in 1..Len(lru_list_) : lru_list_[i].key = key
    BY DEF CacheInv, KeysOf
  <1>3. PICK p : p = Position(key)
    OBVIOUS
  <1>4. p \in 1..Len(lru_list_) /\ lru_list_[p].key = key
    BY <1>1, <1>2, <1>3 DEF Position
  <1>5. Fine(lru_list_[p])
    BY <1>4 DEF CacheInv, Good
  <1> QED
    BY <1>3, <1>4, <1>5, CacheSized DEF EntryOf

Freed(key) == IF key \in index_ THEN EntrySize(EntryOf(key)) ELSE 0

(* The list without a key.                                                  *)
LEMMA WithoutKey ==
    ASSUME CacheInv, NEW key
    PROVE  /\ Good(Without(key), recency)
           /\ KeysOf(Without(key)) = index_ \ {key}
           /\ TotalSize(Without(key)) = current_memory_ - Freed(key)
           /\ TotalSize(Without(key)) \in Nat /\ Len(Without(key)) \in Nat /\ Freed(key) \in Nat
           /\ key \in index_ => Len(Without(key)) = Len(lru_list_) - 1
  <1>0. Good(lru_list_, recency) /\ index_ = KeysOf(lru_list_) /\ current_memory_ = TotalSize(lru_list_)
    BY DEF CacheInv
  <1>1. CASE key \in index_
    <2>1. PICK p : p = Position(key)
      OBVIOUS
    <2>2. /\ p \in 1..Len(lru_list_) /\ lru_list_[p].key = key
          /\ EntrySize(lru_list_[p]) \in Nat /\ Freed(key) = EntrySize(lru_list_[p])
      BY <1>1, <2>1, Found DEF Freed
    <2>3. PICK rest : rest = RemoveAt(lru_list_, p)
      OBVIOUS
    <2>4. Without(key) = rest
      BY <1>1, <2>1, <2>3 DEF Without
    <2>5. /\ Good(rest, recency) /\ Len(rest) = Len(lru_list_) - 1
          /\ KeysOf(rest) = KeysOf(lru_list_) \ {lru_list_[p].key}
          /\ TotalSize(lru_list_) = TotalSize(rest) + EntrySize(lru_list_[p])
      BY <1>0, <2>2, <2>3, EntryRemoved
    <2>6. rest \in Seq(Entries)
      BY <2>5 DEF Good
    <2>7. TotalSize(rest) \in Nat /\ Len(rest) \in Nat
      BY <2>6, SumsExist, TotalIsSum
    <2> QED
      BY <1>0, <2>2, <2>4, <2>5, <2>7
  <1>2. CASE key \notin index_
    BY <1>0, <1>2, CacheSized DEF Without, Freed
  <1> QED
    BY <1>1, <1>2

(* What is left when a key is taken out are entries of their keys.          *)
LEMMA EntryStays ==
    ASSUME CacheInv, NEW key, NEW i \in 1..Len(Without(key))
    PROVE  EntryOf(Without(key)[i].key) = Without(key)[i]
  <1>0. lru_list_ \in Seq(Entries) /\ Len(lru_list_) \in Nat /\ DOMAIN lru_list_ = 1..Len(lru_list_)
    BY CacheSized
  <1>1. PICK k \in 1..Len(lru_list_) : Without(key)[i] = lru_list_[k]
    <2>1. CASE key \in index_
      <3>1. PICK p : p = Position(key)
        OBVIOUS
      <3>2. p \in 1..Len(lru_list_) /\ Without(key) = RemoveAt(lru_list_, p)
        BY <2>1, <3>1, Found DEF Without
      <3>3. PICK rest : rest = RemoveAt(lru_list_, p)
        OBVIOUS
      <3>4. i \in 1..Len(rest)
        BY <3>2, <3>3
      <3>5. \A j \in 1..Len(rest) : \E k \in 1..Len(lru_list_) : rest[j] = lru_list_[k]
        <4>1. Good(lru_list_, recency)
          BY DEF CacheInv
        <4>2. PartOf(rest, lru_list_)
          BY <4>1, <3>2, <3>3, EntryRemoved
        <4> QED
          BY <4>2 DEF PartOf
      <3> QED
        BY <3>2, <3>3, <3>4, <3>5
    <2>2. CASE key \notin index_
      BY <2>2 DEF Without
    <2> QED
      BY <2>1, <2>2
  <1>2. PICK x : x = lru_list_[k]
    OBVIOUS
  <1>3. x.key \in index_
    BY <1>2 DEF CacheInv, KeysOf
  <1>4. PICK p : p = Position(x.key)
    OBVIOUS
  <1>5. p \in 1..Len(lru_list_) /\ EntryOf(x.key) = lru_list_[p] /\ lru_list_[p].key = x.key
    BY <1>3, <1>4, Found
  <1>6. ~(p < k) /\ ~(k < p)
    BY <1>2, <1>5 DEF CacheInv, Good
  <1>7. p = k
    BY <1>5, <1>6, <1>0
  <1> QED
    BY <1>1, <1>2, <1>5, <1>7

(* A hit moves its entry to the front.                                      *)
LEMMA HitKeepsCache ==
    ASSUME CacheInv, NEW key \in index_, NEW e \in Entries,
           e.key = key, e.response = EntryOf(key).response, Fine(e),
           MoveToFront(key, e), Used(key), UNCHANGED <<index_, current_memory_, stats_, clock>>
    PROVE  CacheInv'
  <1>1. PICK rest : rest = Without(key)
    OBVIOUS
  <1>2. /\ Good(rest, recency) /\ KeysOf(rest) = index_ \ {key}
        /\ TotalSize(rest) = current_memory_ - EntrySize(EntryOf(key))
        /\ Len(rest) = Len(lru_list_) - 1
    BY <1>1, WithoutKey DEF Freed
  <1>3. PutBefore(e, rest, lru_list_')
    BY <1>1 DEF MoveToFront, PutBefore
  <1>4. UsedLast(e.key, recency, recency')
    BY DEF Used, UsedLast
  <1>5. e.key \notin KeysOf(rest)
    BY <1>2
  <1>6. /\ Good(lru_list_', recency') /\ Len(lru_list_') = Len(rest) + 1
        /\ KeysOf(lru_list_') = KeysOf(rest) \cup {e.key}
        /\ TotalSize(lru_list_') = EntrySize(e) + TotalSize(rest)
    <2>1. MayInsert(e, rest, recency)
      BY <1>2, <1>5 DEF MayInsert
    <2>2. Inserted(e, rest, lru_list_', recency')
      BY <2>1, <1>3, <1>4, EntryInFront
    <2> QED
      BY <2>2 DEF Inserted
  <1>7. KeysOf(lru_list_') = index_
    BY <1>2, <1>6
  <1>8. TotalSize(lru_list_') = current_memory_ /\ Len(lru_list_') = Len(lru_list_)
    <2>1. EntrySize(e) = EntrySize(EntryOf(key)) /\ EntrySize(EntryOf(key)) \in Nat
      BY Found DEF EntrySize
    <2>2. TotalSize(rest) \in Nat /\ Len(rest) \in Nat
      BY <1>1, WithoutKey
    <2> QED
      BY <1>2, <1>6, <2>1, <2>2, CacheSized
  <1> QED
    BY <1>6, <1>7, <1>8 DEF CacheInv, CacheBounded

(* A fresh hit,                                                             *)
LEMMA FreshKeepsCache ==
    ASSUME CacheInv, NEW key, GetFresh(key)
    PROVE  CacheInv'
  <1>1. key \in index_
    BY DEF GetFresh
  <1> QED
    BY <1>1, Found, HitKeepsCache DEF GetFresh

(* and a stale one, which may set the entry's flag.                         *)
LEMMA StaleKeepsCache ==
    ASSUME CacheInv, NEW key, GetStale(key)
    PROVE  CacheInv'
  <1>1. key \in index_
    BY DEF GetStale
  <1>2. PICK o : o = EntryOf(key)
    OBVIOUS
  <1>3. o \in Entries /\ Fine(o) /\ o.key = key
    BY <1>1, <1>2, Found
  <1>4. PICK e : e = [o EXCEPT !.revalidating = @ \/ HasCallback]
    OBVIOUS
  <1>5. e \in Entries
    BY <1>3, <1>4, CacheAssumption DEF Entries
  <1>6. /\ e.key = o.key /\ e.response = o.response /\ e.created = o.created
        /\ e.stale_expires = o.stale_expires /\ e.expires = o.expires
    BY <1>3, <1>4 DEF Entries
  <1>7. Fine(e)
    BY <1>3, <1>6 DEF Fine
  <1>8. /\ MoveToFront(key, e) /\ Used(key)
        /\ UNCHANGED <<index_, current_memory_, stats_, clock>>
    BY <1>2, <1>4 DEF GetStale
  <1> QED
    BY <1>1, <1>2, <1>3, <1>5, <1>6, <1>7, <1>8, HitKeepsCache

(* An entry leaves.                                                         *)
LEMMA DropKeepsCache ==
    ASSUME CacheInv, NEW key \in index_, DropEntry(key)
    PROVE  CacheInv'
  <1>1. /\ Good(lru_list_', recency) /\ KeysOf(lru_list_') = index_ \ {key}
        /\ TotalSize(lru_list_') = current_memory_ - EntrySize(EntryOf(key))
        /\ Len(lru_list_') = Len(lru_list_) - 1
        /\ TotalSize(lru_list_') \in Nat /\ Len(lru_list_') \in Nat
    BY WithoutKey DEF DropEntry, Freed
  <1>2. /\ index_' = KeysOf(lru_list_') /\ current_memory_' = TotalSize(lru_list_')
        /\ recency' = recency /\ clock' = clock
    BY <1>1 DEF DropEntry
  <1>3. Cardinality(index_') = Len(lru_list_')
    BY <1>1, <1>2, KeysCounted
  <1>4. stats_' = [current_entries |-> Len(lru_list_'), current_bytes |-> current_memory_']
    BY <1>3 DEF DropEntry, RecordStats
  <1>5. CacheBounded'
    <2>1. EntrySize(EntryOf(key)) \in Nat
      BY Found
    <2>2. CASE Len(lru_list_') = 0
      <3>1. lru_list_' \in Seq(Entries)
        BY <1>1 DEF Good
      <3>2. PICK g : Sums(lru_list_', g)
        BY <3>1, SumsExist
      <3>3. TotalSize(lru_list_') = 0
        BY <2>2, <3>1, <3>2, TotalIsSum DEF Sums
      <3> QED
        BY <2>2, <3>3, <1>2, Limits DEF CacheBounded
    <2>3. CASE Len(lru_list_') # 0
      <3>1. Len(lru_list_) # 1 /\ Len(lru_list_) \in Nat /\ current_memory_ \in Nat
        BY <2>3, <1>1, CacheSized
      <3>2. current_memory_ <= MaxMemory /\ Len(lru_list_) <= IF MaxEntries = 0 THEN 1 ELSE MaxEntries
        BY <3>1 DEF CacheInv, CacheBounded
      <3>3. current_memory_' <= MaxMemory
        BY <3>1, <3>2, <2>1, <1>1, <1>2, Limits
      <3>4. Len(lru_list_') <= IF MaxEntries = 0 THEN 1 ELSE MaxEntries
        BY <3>1, <3>2, <1>1, Limits
      <3> QED
        BY <3>3, <3>4 DEF CacheBounded
    <2> QED
      BY <2>2, <2>3
  <1> QED
    BY <1>1, <1>2, <1>4, <1>5 DEF CacheInv

(* A cache without entries is sound.                                        *)
LEMMA EmptyCache ==
    /\ Good(<<>>, recency) /\ KeysOf(<<>>) = {} /\ TotalSize(<<>>) = 0
    /\ Len(<<>>) = 0 /\ Cardinality({}) = 0
  <1>1. PICK z : z = <<>>
    OBVIOUS
  <1>2. z \in Seq(Entries) /\ Len(z) = 0
    BY <1>1
  <1>3. PICK g : Sums(z, g)
    BY <1>2, SumsExist
  <1>4. TotalSize(z) = 0
    BY <1>2, <1>3, TotalIsSum DEF Sums
  <1>5. Good(z, recency) /\ KeysOf(z) = {}
    BY <1>2 DEF Good, KeysOf
  <1> QED
    BY <1>1, <1>2, <1>4, <1>5, FS_EmptySet

(* clear() leaves nothing.                                                  *)
LEMMA ClearKeepsCache ==
    ASSUME CacheInv, Clear
    PROVE  CacheInv'
  <1>1. /\ lru_list_' = <<>> /\ index_' = {} /\ current_memory_' = 0
        /\ recency' = recency /\ clock' = clock
        /\ stats_' = [current_entries |-> 0, current_bytes |-> 0]
    BY EmptyCache DEF Clear, RecordStats
  <1>2. CacheBounded'
    BY <1>1, EmptyCache, Limits DEF CacheBounded
  <1> QED
    BY <1>1, <1>2, EmptyCache DEF CacheInv

(* The entry put() makes of a response that may be kept.                    *)
LEMMA EntryMade ==
    ASSUME clock \in Nat, NEW key \in Keys, NEW r \in Resp, IsCacheable(key, r), NEW ttl \in {0, CacheTtl}
    PROVE  /\ NewEntry(key, r, ttl) \in Entries /\ Fine(NewEntry(key, r, ttl))
           /\ NewEntry(key, r, ttl).key = key /\ NewEntry(key, r, ttl).response = r
  <1> DEFINE asked(c, default) == IF c.s_maxage >= 0 THEN c.s_maxage
                                  ELSE IF c.max_age >= 0 THEN c.max_age ELSE default
  <1>0. /\ r.s_maxage \in Int /\ r.max_age \in Int /\ r.status \in Nat
        /\ r.no_store \in BOOLEAN /\ r.private_ \in BOOLEAN /\ r.spelled \in BOOLEAN
    BY DEF Resp
  <1>00. PICK cc : cc = Directives(r)
    OBVIOUS
  <1>01. /\ r.spelled => cc.s_maxage = r.s_maxage /\ cc.max_age = r.max_age
                         /\ cc.no_store = r.no_store /\ cc.private_ = r.private_
         /\ ~r.spelled => cc.s_maxage = -1 /\ cc.max_age = -1
    BY <1>00 DEF Directives, NoDirectives
  <1>1. PICK l : l = TtlFor(r, ttl)
    OBVIOUS
  <1>2. PICK m : m = Max({CacheTtl, DefaultTtl})
    OBVIOUS
  <1>3. m \in Nat /\ CacheTtl <= m /\ DefaultTtl <= m
    BY <1>2, Limits, MaxOfTwo
  <1>4. l \in Nat /\ (Lifetime(r) # 0 => l <= Lifetime(r)) /\ Lifetime(r) \in Nat
    <2>0. /\ l = IF asked(cc, ttl) = 0 THEN DefaultTtl ELSE asked(cc, ttl)
      BY <1>00, <1>1 DEF TtlFor
    <2>1. CASE r.spelled /\ r.s_maxage >= 0
      BY <2>0, <2>1, <1>0, <1>01, <1>3, Limits DEF Lifetime
    <2>2. CASE r.spelled /\ ~(r.s_maxage >= 0) /\ r.max_age >= 0
      BY <2>0, <2>2, <1>0, <1>01, <1>3, Limits DEF Lifetime
    <2>3. CASE ~r.spelled \/ (~(r.s_maxage >= 0) /\ ~(r.max_age >= 0))
      <3>1. Lifetime(r) = m
        BY <2>3, <1>2 DEF Lifetime
      <3>2. ~(cc.s_maxage >= 0) /\ ~(cc.max_age >= 0)
        BY <2>3, <1>01
      <3> QED
        BY <2>0, <3>1, <3>2, <1>3, Limits
    <2> QED
      BY <2>1, <2>2, <2>3
  <1>5. PICK e : e = NewEntry(key, r, ttl)
    OBVIOUS
  <1>6. e = [key |-> key, response |-> r, created |-> clock, expires |-> clock + l,
             stale_expires |-> (clock + l) + StaleWhileRevalidate, revalidating |-> FALSE]
    BY <1>1, <1>5 DEF NewEntry
  <1>7. clock + l \in Nat /\ (clock + l) + StaleWhileRevalidate \in Nat
    BY <1>4, Limits
  <1>8. e \in Entries
    BY <1>6, <1>7 DEF Entries
  <1>9. key \in GetKeys /\ r.status # 500 /\ (r.spelled => ~r.private_ /\ ~r.no_store)
    BY <1>0, <1>00, <1>01 DEF IsCacheable
  <1>10. /\ Lifetime(r) # 0 => (clock + l) + StaleWhileRevalidate <= clock + Lifetime(r) + StaleWhileRevalidate
         /\ clock + l <= (clock + l) + StaleWhileRevalidate
    BY <1>4, Limits
  <1>11. /\ e.key = key /\ e.response = r /\ e.created = clock /\ e.expires = clock + l
         /\ e.stale_expires = (clock + l) + StaleWhileRevalidate
    BY <1>6
  <1>12. Fine(e)
    BY <1>9, <1>10, <1>11 DEF Fine
  <1> QED
    BY <1>5, <1>8, <1>11, <1>12

(* put() keeps as many entries as fit.                                      *)
LEMMA KeptFits ==
    ASSUME NEW list \in Seq(Entries), NEW memory \in Int, NEW size \in Nat
    PROVE  /\ Kept(list, memory, size) \in 0..Len(list)
           /\ \/ Kept(list, memory, size) = 0
              \/ /\ Kept(list, memory, size) < MaxEntries
                 /\ (memory - TotalSize(SubSeq(list, Kept(list, memory, size) + 1, Len(list)))) + size <= MaxMemory
           /\ \A n \in 0..Len(list) :
                 n > Kept(list, memory, size) /\ n < MaxEntries =>
                    ~((memory - TotalSize(SubSeq(list, n + 1, Len(list)))) + size <= MaxMemory)
  <1>1. PICK T : T = {n \in 0..Len(list) :
                        n = 0 \/ (n < MaxEntries /\ (memory - TotalSize(SubSeq(list, n + 1, Len(list)))) + size <= MaxMemory)}
    OBVIOUS
  <1>2. Len(list) \in Nat
    OBVIOUS
  <1>3. T \subseteq 0..Len(list) /\ T # {}
    BY <1>1, <1>2
  <1>4. Max(T) \in T /\ \A n \in T : Max(T) >= n
    BY <1>2, <1>3, MaxIn
  <1>5. PICK m : m = Kept(list, memory, size)
    OBVIOUS
  <1>6. m = Max(T)
    BY <1>1, <1>5 DEF Kept
  <1>7. m \in T /\ \A n \in T : m >= n
    BY <1>4, <1>6
  <1>8. ASSUME NEW n \in 0..Len(list), n > m, n < MaxEntries
        PROVE  ~((memory - TotalSize(SubSeq(list, n + 1, Len(list)))) + size <= MaxMemory)
    <2>1. n \notin T
      <3>1. m \in Nat /\ n \in Nat
        BY <1>2, <1>3, <1>7
      <3> QED
        BY <3>1, <1>7, <1>8
    <2> QED
      BY <2>1, <1>1, <1>8
  <1> QED
    BY <1>1, <1>5, <1>7, <1>8

(* put() of a response that may be kept: replace, evict, insert.            *)
LEMMA StoreKeepsCache ==
    ASSUME CacheInv, NEW key \in Keys, NEW r \in Resp, IsCacheable(key, r), NEW ttl \in {0, CacheTtl},
           Store(key, r, ttl)
    PROVE  CacheInv'
  <1>1. PICK others : others = Without(key)
    OBVIOUS
  <1>2. PICK freed : freed = Freed(key)
    OBVIOUS
  <1>3. PICK n : n = Kept(others, current_memory_ - freed, r.size)
    OBVIOUS
  <1>4. PICK kept : kept = SubSeq(others, 1, n)
    OBVIOUS
  <1>5. PICK victims : victims = SubSeq(others, n + 1, Len(others))
    OBVIOUS
  <1>6. PICK e : e = NewEntry(key, r, ttl)
    OBVIOUS
  <1>7. /\ PutBefore(e, kept, lru_list_') /\ Cut(others, n, kept, victims)
        /\ index_' = (index_ \ KeysIn(victims)) \cup {key}
        /\ current_memory_' = current_memory_ - freed - TotalSize(victims) + r.size
        /\ RecordStats /\ Used(key) /\ clock' = clock
    BY <1>1, <1>2, <1>3, <1>4, <1>5, <1>6 DEF Store, Freed, PutBefore, Cut, KeysIn
  <1>8. e \in Entries /\ Fine(e) /\ e.key = key /\ e.response = r
    BY <1>6, EntryMade DEF CacheInv
  <1>9. /\ Good(others, recency) /\ KeysOf(others) = index_ \ {key}
        /\ TotalSize(others) = current_memory_ - freed /\ TotalSize(others) \in Nat /\ freed \in Nat
        /\ Len(others) \in Nat
    BY <1>1, <1>2, WithoutKey
  <1>10. others \in Seq(Entries) /\ r.size \in Nat /\ current_memory_ - freed \in Int
    BY <1>9, CacheSized DEF Good, Resp
  <1>11. /\ n \in 0..Len(others)
         /\ \/ n = 0
            \/ n < MaxEntries /\ ((current_memory_ - freed) - TotalSize(victims)) + r.size <= MaxMemory
    BY <1>3, <1>5, <1>10, KeptFits
  <1>12. /\ Good(kept, recency) /\ Len(kept) = n
         /\ KeysOf(kept) = KeysOf(others) \ KeysIn(victims)
         /\ TotalSize(others) = TotalSize(kept) + TotalSize(victims)
         /\ TotalSize(kept) \in Nat /\ TotalSize(victims) \in Nat
    BY <1>7, <1>9, <1>11, ListCut
  <1>13. e.key \notin KeysOf(kept)
    BY <1>8, <1>9, <1>12
  <1>14. UsedLast(e.key, recency, recency')
    BY <1>7, <1>8 DEF Used, UsedLast
  <1>15. /\ Good(lru_list_', recency') /\ Len(lru_list_') = n + 1
         /\ KeysOf(lru_list_') = KeysOf(kept) \cup {key}
         /\ TotalSize(lru_list_') = r.size + TotalSize(kept)
    <2>1. EntrySize(e) = r.size
      BY <1>8 DEF EntrySize
    <2>2. /\ Good(lru_list_', recency') /\ Len(lru_list_') = Len(kept) + 1
          /\ KeysOf(lru_list_') = KeysOf(kept) \cup {e.key}
          /\ TotalSize(lru_list_') = EntrySize(e) + TotalSize(kept)
      <3>1. MayInsert(e, kept, recency)
        BY <1>8, <1>12, <1>13 DEF MayInsert
      <3>2. Inserted(e, kept, lru_list_', recency')
        BY <3>1, <1>7, <1>14, EntryInFront
      <3> QED
        BY <3>2 DEF Inserted
    <2> QED
      BY <1>8, <1>12, <2>1, <2>2
  <1>16. index_' = KeysOf(lru_list_')
    BY <1>7, <1>9, <1>12, <1>15
  <1>17. /\ current_memory_' = TotalSize(lru_list_')
         /\ current_memory_' = ((current_memory_ - freed) - TotalSize(victims)) + r.size
    <2>1. PICK m : m = current_memory_
      OBVIOUS
    <2>2. PICK a, b \in Nat : a = TotalSize(kept) /\ b = TotalSize(victims)
      BY <1>12
    <2>3. m \in Nat /\ a + b = m - freed
      BY <2>1, <2>2, <1>9, <1>12, CacheSized
    <2>4. m - freed - b + r.size = r.size + a /\ m - freed - b + r.size = ((m - freed) - b) + r.size
      BY <2>3, <1>9, <1>10
    <2> QED
      BY <2>1, <2>2, <2>4, <1>7, <1>15
  <1>18. stats_' = [current_entries |-> Len(lru_list_'), current_bytes |-> current_memory_']
    BY <1>7, <1>15, <1>16, KeysCounted DEF RecordStats
  <1>19. CacheBounded'
    <2>1. CASE n = 0
      BY <2>1, <1>15, Limits DEF CacheBounded
    <2>2. CASE n # 0
      BY <2>2, <1>11, <1>15, <1>17, <1>9, Limits DEF CacheBounded
    <2> QED
      BY <2>1, <2>2
  <1> QED
    BY <1>7, <1>15, <1>16, <1>17, <1>18, <1>19 DEF CacheInv

(* The entry put() drops first is the last used of those that go and would  *)
(* not have fitted, and those that stay were used after those that go.      *)
LEMMA StoreEvicts ==
    ASSUME CacheInv, NEW key \in Keys, NEW r \in Resp, NEW ttl, Store(key, r, ttl)
    PROVE  LeastRecentEvicted
  <1>1. PICK others : others = Without(key)
    OBVIOUS
  <1>2. PICK freed : freed = Freed(key)
    OBVIOUS
  <1>3. PICK n : n = Kept(others, current_memory_ - freed, r.size)
    OBVIOUS
  <1>4. PICK kept : kept = SubSeq(others, 1, n)
    OBVIOUS
  <1>5. PICK victims : victims = SubSeq(others, n + 1, Len(others))
    OBVIOUS
  <1>6. PICK e : e = NewEntry(key, r, ttl)
    OBVIOUS
  <1>7. /\ PutBefore(e, kept, lru_list_') /\ Cut(others, n, kept, victims)
        /\ index_' = (index_ \ KeysIn(victims)) \cup {key}
        /\ current_memory_' = current_memory_ - freed - TotalSize(victims) + r.size
    BY <1>1, <1>2, <1>3, <1>4, <1>5, <1>6 DEF Store, Freed, PutBefore, Cut, KeysIn
  <1>8. e.key = key
    BY <1>6 DEF NewEntry
  <1>9. /\ Good(others, recency) /\ KeysOf(others) = index_ \ {key}
        /\ TotalSize(others) = current_memory_ - freed /\ TotalSize(others) \in Nat /\ freed \in Nat
        /\ Len(others) \in Nat
    BY <1>1, <1>2, WithoutKey
  <1>10. others \in Seq(Entries) /\ r.size \in Nat /\ current_memory_ - freed \in Int
    BY <1>9, CacheSized DEF Good, Resp
  <1>11. /\ n \in 0..Len(others)
         /\ \A m \in 0..Len(others) :
               m > n /\ m < MaxEntries =>
                  ~(((current_memory_ - freed) - TotalSize(SubSeq(others, m + 1, Len(others)))) + r.size <= MaxMemory)
    BY <1>3, <1>10, KeptFits
  <1>12. /\ kept \in Seq(Entries) /\ Len(kept) = n /\ \A i \in 1..n : kept[i] = others[i]
         /\ victims \in Seq(Entries) /\ Len(victims) = Len(others) - n
         /\ \A i \in 1..(Len(others) - n) : victims[i] = others[n + i]
    BY <1>4, <1>5, <1>10, <1>11
  <1>13. /\ KeysOf(kept) = KeysOf(others) \ KeysIn(victims)
         /\ TotalSize(victims) \in Nat
    BY <1>7, <1>9, <1>11, ListCut
  <1>14. lru_list_'[1] = e /\ Len(lru_list_') = n + 1
    BY <1>7, <1>12 DEF PutBefore
  <1>15. KeysIn(victims) = {others[n + i].key : i \in 1..(Len(others) - n)}
    <2>1. DOMAIN victims = 1..(Len(others) - n)
      BY <1>12
    <2>2. KeysIn(victims) = {victims[i].key : i \in 1..(Len(others) - n)}
      BY <2>1 DEF KeysIn, ToSet
    <2>3. \A i \in 1..(Len(others) - n) : victims[i].key = others[n + i].key
      BY <1>12
    <2> QED
      BY <2>2, <2>3
  <1>16. KeysIn(victims) \subseteq index_ \ {key}
    <2>1. ASSUME NEW i \in 1..(Len(others) - n) PROVE others[n + i].key \in KeysOf(others)
      <3>1. n + i \in 1..Len(others)
        BY <1>9, <1>11
      <3> QED
        BY <3>1 DEF KeysOf
    <2> QED
      BY <2>1, <1>9, <1>15
  <1>17. Evicted = KeysIn(victims)
    BY <1>7, <1>16 DEF Evicted
  <1>18. ASSUME NEW v \in Evicted, NEW k \in (index_ \cap index_') \ {lru_list_'[1].key}
         PROVE  <<k, v>> \in recency
    <2>1. PICK i \in 1..(Len(others) - n) : v = others[n + i].key
      BY <1>15, <1>17
    <2>2. k \in KeysOf(kept)
      BY <1>7, <1>8, <1>9, <1>13, <1>14
    <2>3. PICK j \in 1..n : k = others[j].key
      BY <2>2, <1>12 DEF KeysOf
    <2>4. j \in 1..Len(others) /\ n + i \in 1..Len(others) /\ j < n + i
      BY <1>9, <1>11
    <2> QED
      BY <2>1, <2>3, <2>4, <1>9 DEF Good
  <1>19. ASSUME Evicted # {}
         PROVE  \E v \in Evicted :
                   /\ \A other \in Evicted \ {v} : <<v, other>> \in recency
                   /\ \/ Len(lru_list_') >= MaxEntries
                      \/ current_memory_' + EntrySize(EntryOf(v)) > MaxMemory
    <2>1. 1 \in 1..(Len(others) - n) /\ n + 1 \in 1..Len(others) /\ n + 1 \in 0..Len(others)
      <3>1. PICK i \in 1..(Len(others) - n) : TRUE
        BY <1>15, <1>17, <1>19
      <3> QED
        BY <3>1, <1>9, <1>11
    <2>2. PICK x : x = others[n + 1]
      OBVIOUS
    <2>3. PICK v : v = x.key
      OBVIOUS
    <2>4. v \in Evicted
      BY <2>1, <2>2, <2>3, <1>15, <1>17
    <2>5. ASSUME NEW other \in Evicted \ {v} PROVE <<v, other>> \in recency
      <3>1. PICK i \in 1..(Len(others) - n) : other = others[n + i].key
        BY <1>15, <1>17
      <3>2. i # 1
        BY <3>1, <2>2, <2>3
      <3>3. n + i \in 1..Len(others) /\ n + 1 < n + i
        BY <3>2, <1>9, <1>11
      <3> QED
        BY <3>1, <3>3, <2>1, <2>2, <2>3, <1>9 DEF Good
    <2>6. EntrySize(EntryOf(v)) = EntrySize(x) /\ EntrySize(x) \in Nat
      <3>1. v \in index_ /\ v # key
        BY <2>4, <1>16, <1>17
      <3>2. EntryOf(v) = x
        BY <3>1, <2>1, <2>2, <2>3, <1>1, EntryStays
      <3> QED
        BY <3>1, <3>2, Found
    <2>7. PICK rest : rest = SubSeq(others, (n + 1) + 1, Len(others))
      OBVIOUS
    <2>8. TotalSize(victims) = EntrySize(x) + TotalSize(rest) /\ TotalSize(rest) \in Nat
      <3>1. /\ rest \in Seq(Entries) /\ Len(rest) = Len(others) - (n + 1)
            /\ \A i \in 1..(Len(others) - (n + 1)) : rest[i] = others[(n + 1) + i]
        BY <2>1, <2>7, <1>10, <1>11
      <3>2. x \in Entries
        BY <2>1, <2>2, <1>10
      <3>3. PICK one : one = <<x>>
        OBVIOUS
      <3>4. one \in Seq(Entries) /\ Len(one) = 1 /\ one[1] = x /\ TotalSize(one) = EntrySize(x)
        BY <3>2, <3>3, TotalOfOne
      <3>5. PICK c : c = one \o rest
        OBVIOUS
      <3>6. IsJoin(c, one, rest)
        BY <3>1, <3>4, <3>5, Joined
      <3>7. /\ c \in Seq(Entries) /\ Len(c) = 1 + Len(rest) /\ c[1] = x
            /\ \A i \in 1..Len(rest) : c[1 + i] = rest[i]
        <4>1. 1 \in 1..Len(one)
          BY <3>4
        <4> QED
          BY <4>1, <3>4, <3>6 DEF IsJoin
      <3>8. Len(c) = Len(victims)
        BY <3>1, <3>7, <1>9, <1>11, <1>12
      <3>9. ASSUME NEW i \in 1..Len(c) PROVE c[i] = victims[i]
        <4>1. CASE i = 1
          BY <4>1, <3>7, <2>1, <2>2, <1>12
        <4>2. CASE i # 1
          <5>1. PICK j \in 1..Len(rest) : i = 1 + j
            <6>1. i - 1 \in 1..Len(rest) /\ i = 1 + (i - 1)
              BY <4>2, <3>1, <3>7, <1>9, <1>11
            <6> QED
              BY <6>1
          <5>2. c[i] = others[(n + 1) + j]
            BY <5>1, <3>1, <3>7
          <5>3. i \in 1..(Len(others) - n) /\ n + i = (n + 1) + j
            BY <5>1, <3>1, <1>9, <1>11
          <5> QED
            BY <5>2, <5>3, <1>12
        <4> QED
          BY <4>1, <4>2
      <3>10. c = victims
        BY <3>7, <3>8, <3>9, <1>12, SameList
      <3> QED
        BY <3>1, <3>4, <3>5, <3>10, TotalOfConcat
    <2>9. CASE n + 1 >= MaxEntries
      BY <2>9, <2>4, <2>5, <1>14
    <2>10. CASE ~(n + 1 >= MaxEntries)
      <3>1. n + 1 > n /\ n + 1 < MaxEntries
        BY <2>10, <1>9, <1>11, Limits
      <3>2. ~(((current_memory_ - freed) - TotalSize(rest)) + r.size <= MaxMemory)
        BY <3>1, <2>1, <2>7, <1>11
      <3>3. PICK m, a, b, x2 \in Nat : m = current_memory_ /\ a = TotalSize(rest) /\ b = TotalSize(victims) /\ x2 = EntrySize(x)
        BY <2>6, <2>8, <1>13, CacheSized
      <3>4. /\ ~(((m - freed) - a) + r.size <= MaxMemory) /\ b = x2 + a
            /\ current_memory_' = m - freed - b + r.size
        BY <3>2, <3>3, <2>8, <1>7
      <3>5. (m - freed - b + r.size) + x2 > MaxMemory
        BY <3>4, <1>9, <1>10, Limits
      <3>6. current_memory_' + EntrySize(EntryOf(v)) > MaxMemory
        BY <3>3, <3>4, <3>5, <2>6
      <3> QED
        BY <3>6, <2>4, <2>5
    <2> QED
      BY <2>9, <2>10
  <1> QED
    BY <1>18, <1>19 DEF LeastRecentEvicted

(* Steps that leave the cache, whatever the time.                           *)
LEMMA CacheUntouched ==
    ASSUME CacheInv, UNCHANGED <<lru_list_, index_, current_memory_, stats_, recency>>, clock' \in Nat
    PROVE  CacheInv'
  BY DEF CacheInv, CacheBounded

-----------------------------------------------------------------------------
(* The callers: their attempts, and the answer that is about to be stored.  *)
CallersInv ==
    /\ cache_enabled \in BOOLEAN
    /\ attempt \in [Threads -> 0..(Retries + 1)]
    /\ result \in [Threads -> Resp \cup {Failed}]
    /\ \A t \in Threads : /\ pc[t] # "failed" => attempt[t] <= Retries
                          /\ pc[t] = "store" => result[t] \in Resp

(* A step that leaves attempts and answers.                                 *)
LEMMA CallersUntouched ==
    ASSUME CallersInv, UNCHANGED <<cache_enabled, attempt, result>>,
           \A t \in Threads : pc'[t] = pc[t] \/ (pc[t] # "failed" /\ pc'[t] # "store")
    PROVE  CallersInv'
  BY DEF CallersInv, Retries

(* A selection goes on, or ends with a backend or without.                  *)
LEMMA SelectMoves ==
    ASSUME NEW t \in Threads, SelectStep(t)
    PROVE  /\ pc[t] \in {"select", "take"}
           /\ \E q \in {"select", "take", "none", "forward"} : pc' = [pc EXCEPT ![t] = q]
  <1>1. CASE RoundRobinStep(t)
    BY <1>1 DEF RoundRobinStep, Take, Advance, Goto
  <1>2. CASE ConsistentHashStep(t)
    BY <1>2 DEF ConsistentHashStep, Take, Advance, Goto
  <1>3. CASE ScanStep(t)
    BY <1>3 DEF ScanStep, Goto
  <1>4. CASE TakeBest(t)
    BY <1>4 DEF TakeBest, Take, Goto
  <1> QED
    BY <1>1, <1>2, <1>3, <1>4 DEF SelectStep

(* Where the threads' steps begin and lead.                                 *)
LEMMA ThreadMoves ==
    ASSUME NEW t \in Threads, pc \in [Threads -> Points],
           Lookup(t) \/ Try(t) \/ Select(t) \/ \E k \in Keys : Request(t, k)
    PROVE  /\ \A u \in Threads \ {t} : pc'[u] = pc[u]
           /\ pc[t] \in {"lookup", "try", "select", "take", "idle"} /\ pc'[t] # "store"
           /\ ~Lookup(t) => pc[t] # "lookup"
           /\ UNCHANGED <<cache_enabled, attempt, result>>
  <1>1. CASE Lookup(t)
    BY <1>1 DEF Lookup, Goto, proxyVars
  <1>2. CASE Try(t)
    BY <1>2 DEF Try, BeginSelect, Goto, proxyVars
  <1>3. CASE Select(t)
    <2>1. SelectStep(t) /\ UNCHANGED <<cache_enabled, attempt, result>>
      BY <1>3 DEF Select, proxyVars
    <2> QED
      BY <2>1, SelectMoves
  <1>4. CASE \E k \in Keys : Request(t, k)
    BY <1>4 DEF Request, Goto
  <1> QED
    BY <1>1, <1>2, <1>3, <1>4

(* The answer of a backend, or an attempt that failed.                      *)
LEMMA ForwardKeepsCallers ==
    ASSUME CallersInv, pc \in [Threads -> Points], NEW t \in Threads, Forward(t)
    PROVE  CallersInv' /\ UNCHANGED cacheVars
  <1>0. /\ pc[t] = "forward" /\ UNCHANGED cacheVars
        /\ attempt[t] \in 0..Retries /\ Retries \in Nat
        /\ cache_enabled' = cache_enabled /\ Retries' = Retries
    BY Limits DEF Forward, CallersInv, Retries
  <1>1. PICK r \in Answers(condition[backend[t]]) :
           \/ /\ r # Failed
              /\ result' = [result EXCEPT ![t] = r]
              /\ Goto(t, "store") /\ UNCHANGED attempt
           \/ /\ r = Failed
              /\ attempt' = [attempt EXCEPT ![t] = @ + 1]
              /\ Goto(t, IF RetriesLeft(t) THEN "try" ELSE "failed")
              /\ UNCHANGED result
    BY DEF Forward
  <1>2. CASE r # Failed
    <2>1. ServerError \in Resp
      BY DEF ServerError, Resp
    <2>2. r \in Responses \cup {ServerError}
      BY <1>2 DEF Answers
    <2>3. r \in Resp
      BY <2>1, <2>2, Limits
    <2>4. /\ result' = [result EXCEPT ![t] = r] /\ attempt' = attempt
          /\ pc' = [pc EXCEPT ![t] = "store"]
      BY <1>1, <1>2 DEF Goto
    <2> QED
      BY <1>0, <2>3, <2>4 DEF CallersInv
  <1>3. CASE r = Failed
    <2>1. /\ attempt' = [attempt EXCEPT ![t] = @ + 1] /\ result' = result
          /\ pc' = [pc EXCEPT ![t] = IF RetriesLeft(t) THEN "try" ELSE "failed"]
      BY <1>1, <1>3 DEF Goto
    <2>2. attempt' \in [Threads -> 0..(Retries + 1)]
      BY <1>0, <2>1 DEF CallersInv
    <2>3. ASSUME NEW u \in Threads
          PROVE  /\ pc'[u] # "failed" => attempt'[u] <= Retries
                 /\ pc'[u] = "store" => result'[u] \in Resp
      <3>1. CASE u # t
        BY <3>1, <2>1 DEF CallersInv
      <3>2. CASE u = t
        <4>1. pc'[u] \in {"try", "failed"} /\ (pc'[u] = "try" => RetriesLeft(t))
          BY <3>2, <2>1
        <4>2. attempt'[u] = attempt[t] + 1
          BY <3>2, <2>1 DEF CallersInv
        <4> QED
          BY <4>1, <4>2, <1>0 DEF RetriesLeft
      <3> QED
        BY <3>1, <3>2
    <2>4. result' \in [Threads -> Resp \cup {Failed}]
      BY <2>1 DEF CallersInv
    <2> QED
      BY <1>0, <2>2, <2>3, <2>4 DEF CallersInv
  <1> QED
    BY <1>0, <1>2, <1>3

(* A caller returns.                                                        *)
LEMMA LeaveKeepsCallers ==
    ASSUME CallersInv, pc \in [Threads -> Points], NEW t \in Threads, Leave(t), Goto(t, "idle")
    PROVE  CallersInv'
  <1>1. /\ attempt' = [attempt EXCEPT ![t] = 0] /\ result' = [result EXCEPT ![t] = Failed]
        /\ pc' = [pc EXCEPT ![t] = "idle"] /\ cache_enabled' = cache_enabled
    BY DEF Leave, Goto
  <1>2. Retries \in Nat /\ Retries' = Retries
    BY <1>1, Limits DEF CallersInv, Retries
  <1> QED
    BY <1>1, <1>2 DEF CallersInv

CachedInv == ProxyInv /\ CacheInv /\ CallersInv

(* The cache is empty at the start and nobody has called.                   *)
LEMMA CachedStarts == Init => CachedInv
  <1> SUFFICES ASSUME Init PROVE CachedInv
    OBVIOUS
  <1>1. /\ lru_list_ = <<>> /\ index_ = {} /\ current_memory_ = 0 /\ clock = 0
        /\ stats_ = [current_entries |-> 0, current_bytes |-> 0]
    BY DEF Init, CacheInit
  <1>2. CacheBounded
    BY <1>1, EmptyCache, Limits DEF CacheBounded
  <1>3. CacheInv
    BY <1>1, <1>2, EmptyCache DEF CacheInv
  <1>4. CallersInv
    <2>1. cache_enabled \in BOOLEAN
      BY ProxyAssumption DEF Init
    <2>2. Retries \in Nat
      BY <2>1, Limits DEF Retries
    <2> QED
      BY <2>1, <2>2 DEF Init, BalancerInit, CallersInv
  <1> QED
    BY <1>3, <1>4, ProxyStarts DEF CachedInv

(* The steps of a caller.                                                   *)
LEMMA CallerKeepsCached ==
    ASSUME CachedInv, NEW t \in Threads, ThreadStep(t) \/ \E k \in Keys : Request(t, k)
    PROVE  CacheInv' /\ CallersInv'
  <1>0. /\ CacheInv /\ CallersInv /\ clock \in Nat
        /\ pc \in [Threads -> Points] /\ (pc[t] # "idle" => Key(t) \in Keys)
    BY DEF CachedInv, CacheInv, ProxyInv, BalancerInv, Shape, Where, Key
  <1>1. ASSUME Lookup(t) \/ Try(t) \/ Select(t) \/ \E k \in Keys : Request(t, k) PROVE CallersInv'
    BY <1>0, <1>1, ThreadMoves, CallersUntouched
  <1>2. CASE Lookup(t)
    <2>1. \/ UNCHANGED cacheVars \/ GetFresh(Key(t)) \/ GetStale(Key(t))
          \/ (Key(t) \in index_ /\ DropEntry(Key(t)))
      BY <1>2 DEF Lookup, GetMiss, GetExpired
    <2>2. CacheInv'
      BY <1>0, <2>1, FreshKeepsCache, StaleKeepsCache, DropKeepsCache, CacheUntouched DEF cacheVars
    <2> QED
      BY <1>1, <1>2, <2>2
  <1>3. CASE Try(t) \/ Select(t) \/ \E k \in Keys : Request(t, k)
    <2>1. UNCHANGED cacheVars
      BY <1>3 DEF Try, Select, Request
    <2> QED
      BY <1>0, <1>1, <1>3, <2>1, CacheUntouched DEF cacheVars
  <1>4. CASE Forward(t)
    BY <1>0, <1>4, ForwardKeepsCallers, CacheUntouched DEF cacheVars
  <1>5. CASE StoreResult(t)
    <2>1. pc[t] = "store" /\ Goto(t, "idle") /\ Leave(t)
      BY <1>5 DEF StoreResult
    <2>2. result[t] \in Resp /\ Key(t) \in Keys
      BY <1>0, <2>1 DEF CallersInv
    <2>3. \/ UNCHANGED cacheVars
          \/ IsCacheable(Key(t), result[t]) /\ Store(Key(t), result[t], CacheTtl)
      BY <1>5 DEF StoreResult, Put
    <2>4. CacheInv'
      BY <1>0, <2>2, <2>3, StoreKeepsCache, CacheUntouched DEF cacheVars
    <2> QED
      BY <1>0, <2>1, <2>4, LeaveKeepsCallers
  <1>6. CASE Return(t)
    <2>1. UNCHANGED cacheVars /\ Goto(t, "idle") /\ Leave(t)
      BY <1>6 DEF Return
    <2> QED
      BY <1>0, <2>1, LeaveKeepsCallers, CacheUntouched DEF cacheVars
  <1> QED
    BY <1>2, <1>3, <1>4, <1>5, <1>6 DEF ThreadStep

(* Whoever manages the cache, and time.                                     *)
LEMMA ManagedKeepsCache ==
    ASSUME CacheInv, Managed
    PROVE  CacheInv'
  <1>0. clock \in Nat
    BY DEF CacheInv
  <1>1. CASE Age
    BY <1>0, <1>1, CacheUntouched DEF Age
  <1>2. CASE Clear
    BY <1>2, ClearKeepsCache
  <1>3. ASSUME NEW k \in Keys, Invalidate(k) PROVE CacheInv'
    BY <1>3, DropKeepsCache DEF Invalidate
  <1>4. ASSUME NEW k \in Keys, RevalidationFails(k) PROVE CacheInv'
    BY <1>0, <1>4, CacheUntouched DEF RevalidationFails
  <1>5. ASSUME NEW k \in Keys, NEW r \in Responses, IsCacheable(k, r), Revalidated(k, r) PROVE CacheInv'
    <2>1. r \in Resp /\ Store(k, r, 0)
      BY <1>5, Limits DEF Revalidated
    <2> QED
      BY <1>5, <2>1, StoreKeepsCache
  <1> QED
    BY <1>1, <1>2, <1>3, <1>4, <1>5 DEF Managed

(* Every step keeps the invariant.                                          *)
LEMMA CachedStep == CachedInv /\ [Next]_vars => CachedInv'
  <1> SUFFICES ASSUME CachedInv, [Next]_vars PROVE CachedInv'
    OBVIOUS
  <1>0. ProxyInv' /\ CacheInv /\ CallersInv /\ clock \in Nat
    BY ProxyStep DEF CachedInv, CacheInv
  <1>1. ASSUME NEW t \in Threads, ThreadStep(t) PROVE CachedInv'
    BY <1>0, <1>1, CallerKeepsCached DEF CachedInv
  <1>2. ASSUME NEW t \in Threads, NEW k \in Keys, Request(t, k) PROVE CachedInv'
    BY <1>0, <1>2, CallerKeepsCached DEF CachedInv
  <1>3. CASE Probe
    <2>1. UNCHANGED <<cacheVars, pc, cache_enabled, attempt, result>>
      BY <1>3 DEF Probe, CheckBackend, proxyVars
    <2> QED
      BY <1>0, <2>1, CacheUntouched, CallersUntouched DEF cacheVars, CachedInv
  <1>4. CASE Surroundings
    <2>1. UNCHANGED <<pc, cache_enabled, attempt, result>>
      BY <1>4 DEF Surroundings, Change
    <2>2. UNCHANGED cacheVars \/ Managed
      BY <1>4 DEF Surroundings
    <2> QED
      BY <1>0, <2>1, <2>2, CacheUntouched, ManagedKeepsCache, CallersUntouched DEF cacheVars, CachedInv
  <1>5. CASE UNCHANGED vars
    BY <1>0, <1>5, CacheUntouched, CallersUntouched DEF vars, cacheVars, proxyVars, CachedInv
  <1> QED
    BY <1>1, <1>2, <1>3, <1>4, <1>5 DEF Next

(* The inductive invariant of the proxy and its cache.                      *)
THEOREM CachedInvariant == Spec => []CachedInv
  BY CachedStarts, CachedStep, PTL DEF Spec

(* The cache is sound, whatever callers, revalidations and the owner of the *)
(* cache do in whatever order: list, index_, current_memory_ and stats_     *)
(* describe the same entries within max_entries and max_memory_bytes, in    *)
(* the order of use, and no error or answer to a POST is kept and nothing   *)
(* private or no-store under a Cache-Control the code finds; for any keys,  *)
(* limits, lifetimes and responses.                                         *)
THEOREM ProxyCacheSound == Spec => []CacheSound
  <1>1. CachedInv => CacheSound
    <2> SUFFICES ASSUME CachedInv PROVE CacheSound
      OBVIOUS
    <2>0. CacheInv /\ CallersInv /\ BalancerInv /\ CheckerInv
      BY DEF CachedInv, ProxyInv
    <2>1. /\ lru_list_ \in Seq(Entries) /\ DOMAIN lru_list_ = 1..Len(lru_list_)
          /\ current_memory_ \in Nat /\ index_ = KeysOf(lru_list_)
          /\ \A i \in 1..Len(lru_list_) : lru_list_[i] \in Entries
      BY <2>0, CacheSized DEF CacheInv
    <2>2. KeysOf(lru_list_) = {e.key : e \in ToSet(lru_list_)}
      BY <2>1 DEF KeysOf, ToSet
    <2>3. CacheConsistent
      BY <2>0, <2>2, KeysCounted DEF CacheInv, CacheConsistent
    <2>4. CacheBounded
      BY <2>0 DEF CacheInv
    <2>5. InOrderOfUse
      BY <2>0, <2>1 DEF CacheInv, Good, InOrderOfUse
    <2>6. CacheHoldsPublic
      BY <2>0, <2>1 DEF CacheInv, Good, Fine, CacheHoldsPublic, ToSet
    <2>7. index_ \subseteq Keys
      BY <2>1 DEF KeysOf, Entries
    <2>8. active_connections \in [Backends -> Nat]
      <3>1. \A b \in Backends : active_connections[b] \in Nat
        <4> TAKE b \in Backends
        <4>1. active_connections[b] = Cardinality({t \in Threads : backend[t] = b})
          BY <2>0 DEF BalancerInv, ActiveExact
        <4> QED
          BY <4>1, ThreadsCount
      <3> QED
        BY <3>1, <2>0 DEF BalancerInv, Shape
    <2>9. TypeOK
      BY <2>0, <2>1, <2>7, <2>8 DEF TypeOK, BalancerInv, Shape, Points, CheckerInv, CheckerShape, CallersInv
    <2> QED
      BY <2>3, <2>4, <2>5, <2>6, <2>9 DEF CacheSound
  <1> QED
    BY <1>1, CachedInvariant, PTL

(* get() answers from the cache only within the lifetime the response's own *)
(* Cache-Control gives it, or the defaults, plus the stale window, for any  *)
(* ages and windows and whoever stored the entry.                           *)
THEOREM ProxyHitsWithinLifetime == Spec => HitsWithinLifetime
  <1> DEFINE Young ==
        \A t \in Threads :
          pc[t] = "lookup" /\ pc'[t] = "hit" /\ Lifetime(EntryOf(Key(t)).response) # 0 =>
              clock - EntryOf(Key(t)).created < Lifetime(EntryOf(Key(t)).response) + StaleWhileRevalidate
  <1>1. CachedInv /\ [Next]_vars => [Young]_vars
    <2> SUFFICES ASSUME CachedInv, Next, NEW t \in Threads, pc[t] = "lookup", pc'[t] = "hit",
                        Lifetime(EntryOf(Key(t)).response) # 0
                 PROVE  clock - EntryOf(Key(t)).created < Lifetime(EntryOf(Key(t)).response) + StaleWhileRevalidate
      OBVIOUS
    <2>0. pc \in [Threads -> Points] /\ CacheInv /\ clock \in Nat
      BY DEF CachedInv, CacheInv, ProxyInv, BalancerInv, Shape
    <2>1. Lookup(t)
      <3>1. ASSUME NEW u \in Threads, ThreadStep(u) \/ \E k \in Keys : Request(u, k) PROVE Lookup(t)
        <4>1. CASE Lookup(u) \/ Try(u) \/ Select(u) \/ \E k \in Keys : Request(u, k)
          BY <2>0, <4>1, ThreadMoves
        <4>2. CASE Forward(u) \/ StoreResult(u) \/ Return(u)
          <5>1. pc[u] \in {"forward", "store", "hit", "failed", "none"} /\ \E q : pc' = [pc EXCEPT ![u] = q]
            BY <4>2 DEF Forward, StoreResult, Return, Goto
          <5> QED
            BY <2>0, <5>1
        <4> QED
          BY <3>1, <4>1, <4>2 DEF ThreadStep
      <3>2. CASE Probe \/ Surroundings
        <4>1. pc' = pc
          BY <3>2 DEF Probe, CheckBackend, Surroundings, Change
        <4> QED
          BY <4>1
      <3> QED
        BY <3>1, <3>2 DEF Next
    <2>2. GetFresh(Key(t)) \/ GetStale(Key(t))
      BY <2>0, <2>1 DEF Lookup, Goto
    <2>3. PICK e : e = EntryOf(Key(t))
      OBVIOUS
    <2>4. Key(t) \in index_ /\ (clock < e.expires \/ clock < e.stale_expires)
      BY <2>2, <2>3 DEF GetFresh, GetStale
    <2>5. e \in Entries /\ Fine(e)
      BY <2>0, <2>3, <2>4, Found
    <2>6. e.expires \in Nat /\ e.stale_expires \in Nat /\ e.created \in Nat /\ e.response \in Resp
      BY <2>5 DEF Entries
    <2>7. PICK l : l = Lifetime(e.response)
      OBVIOUS
    <2>8. l \in Nat
      <3>1. e.response.s_maxage \in Int /\ e.response.max_age \in Int
        BY <2>6 DEF Resp
      <3>2. Max({CacheTtl, DefaultTtl}) \in Nat
        BY Limits, MaxOfTwo
      <3> QED
        BY <2>7, <3>1, <3>2 DEF Lifetime
    <2>9. e.expires <= e.stale_expires /\ e.stale_expires <= e.created + l + StaleWhileRevalidate
      BY <2>3, <2>5, <2>7 DEF Fine
    <2>10. clock - e.created < l + StaleWhileRevalidate
      BY <2>0, <2>4, <2>6, <2>8, <2>9, Limits
    <2> QED
      BY <2>3, <2>7, <2>10
  <1> QED
    BY <1>1, CachedInvariant, PTL DEF Spec, HitsWithinLifetime

(* put() evicts what was used longest ago and no more than it must,         *)
(* whoever stores and however entries were read before, for any keys, sizes *)
(* and limits.                                                              *)
THEOREM ProxyEvictsLeastRecent == Spec => EvictsLeastRecent
  <1>1. CachedInv /\ [Next]_vars => [Puts => LeastRecentEvicted]_vars
    <2> SUFFICES ASSUME CachedInv, Next, Puts PROVE LeastRecentEvicted
      OBVIOUS
    <2>0. pc \in [Threads -> Points] /\ CacheInv /\ CallersInv
      BY DEF CachedInv, ProxyInv, BalancerInv, Shape
    <2>1. ASSUME index_' = index_ PROVE LeastRecentEvicted
      BY <2>1 DEF LeastRecentEvicted, Evicted
    <2>2. ASSUME NEW t \in Threads, ThreadStep(t) \/ \E k \in Keys : Request(t, k) PROVE LeastRecentEvicted
      <3>1. CASE Lookup(t)
        <4>1. pc[t] = "lookup" /\ \A u \in Threads \ {t} : pc'[u] = pc[u]
          BY <2>0, <3>1, ThreadMoves DEF Lookup
        <4>2. revalidations' # revalidations
          BY <4>1 DEF Puts
        <4>3. GetStale(Key(t)) \/ revalidations' = revalidations
          BY <3>1 DEF Lookup, GetMiss, GetExpired, GetFresh, DropEntry, cacheVars
        <4>4. CASE GetStale(Key(t))
          BY <4>4, <2>1 DEF GetStale
        <4>5. CASE revalidations' = revalidations
          BY <4>2, <4>5
        <4> QED
          BY <4>3, <4>4, <4>5
      <3>2. CASE Try(t) \/ Select(t) \/ Forward(t) \/ Return(t) \/ \E k \in Keys : Request(t, k)
        <4>1. index_' = index_
          BY <3>2 DEF Try, Select, Forward, Return, Request, cacheVars
        <4> QED
          BY <4>1, <2>1
      <3>3. CASE StoreResult(t)
        <4>1. result[t] \in Resp /\ Key(t) \in Keys
          BY <2>0, <3>3 DEF StoreResult, CallersInv, CachedInv, ProxyInv, BalancerInv, Where, Key
        <4>2. UNCHANGED cacheVars \/ Store(Key(t), result[t], CacheTtl)
          BY <3>3 DEF StoreResult, Put
        <4> QED
          BY <4>1, <4>2, <2>0, <2>1, StoreEvicts DEF cacheVars
      <3> QED
        BY <2>2, <3>1, <3>2, <3>3 DEF ThreadStep
    <2>3. CASE Probe
      BY <2>1, <2>3 DEF Probe, cacheVars
    <2>4. CASE Surroundings
      <3>1. CASE ~Managed
        BY <3>1, <2>1, <2>4 DEF Surroundings, cacheVars
      <3>2. CASE Managed
        <4>1. ASSUME NEW k \in Keys, NEW r \in Responses, Revalidated(k, r) PROVE LeastRecentEvicted
          BY <4>1, <2>0, Limits, StoreEvicts DEF Revalidated
        <4>2. CASE Age \/ \E k \in Keys : RevalidationFails(k)
          BY <4>2, <2>1 DEF Age, RevalidationFails
        <4>3. CASE Clear \/ \E k \in Keys : Invalidate(k)
          <5>1. pc' = pc
            BY <2>4 DEF Surroundings, Change
          <5>2. revalidations' = revalidations
            BY <4>3 DEF Clear, Invalidate, DropEntry
          <5> QED
            BY <5>1, <5>2 DEF Puts
        <4> QED
          BY <3>2, <4>1, <4>2, <4>3 DEF Managed
      <3> QED
        BY <3>1, <3>2
    <2> QED
      BY <2>2, <2>3, <2>4 DEF Next
  <1> QED
    BY <1>1, CachedInvariant, PTL DEF Spec, EvictsLeastRecent
=============================================================================
