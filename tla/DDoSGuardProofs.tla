--------------------------- MODULE DDoSGuardProofs ---------------------------
(***************************************************************************)
(* Proofs about DDoSGuardUse, for any sets of addresses and connections    *)
(* and any limits, and about the rate limit of DDoSGuardRate, for any rate *)
(* and burst.                                                              *)
(***************************************************************************)
EXTENDS DDoSGuardRate, FiniteSetTheorems, TLAPS

(* An entry of the table as the operations leave it: its clock readings lie *)
(* in the past, and its bucket is initialised unless nothing was admitted.  *)
SoundEntry(e) ==
    /\ e.last_refill <= now
    /\ \/ e.rate = Rps /\ e.burst = Burst /\ e.tokens <= Burst
       \/ e.rate = 0 /\ e.burst = 0 /\ e.tokens = 0 /\ e.active = 0

TableSound == \A ip \in Ips : HasEntry(ip) => SoundEntry(connections_[ip])

(* The connection that passed the global check is not open yet, and nobody  *)
(* else can take the place it was promised.                                 *)
AdmittingSound ==
    admitting # NoConn => admitting \notin open /\ total_connections_ < MaxTotal

GuardInv ==
    /\ UseTypeOK
    /\ IsFiniteSet(open)
    /\ TableSound
    /\ AdmittingSound
    /\ ActiveIsExact
    /\ TotalIsExact
    /\ HardCap

-----------------------------------------------------------------------------
(* A product of naturals is a natural: what a bucket has accrued.           *)
LEMMA ProductNat ==
    ASSUME NEW x \in Nat, NEW y \in Nat
    PROVE  x * y \in Nat
  OBVIOUS

(* refill_tokens never leaves the type, never exceeds the burst and touches *)
(* nothing but the bucket.                                                  *)
LEMMA RefilledSound ==
    ASSUME now \in Nat, NEW e \in Entry, e.last_refill <= now
    PROVE  /\ Refilled(e) \in Entry
           /\ Refilled(e).active = e.active
           /\ Refilled(e).rate = e.rate
           /\ Refilled(e).burst = e.burst
           /\ Refilled(e).tokens <= e.burst
           /\ Refilled(e).last_refill = now
  <1> DEFINE elapsed == now - e.last_refill
             gained == elapsed * e.rate
  <1>1. elapsed \in Nat /\ e.rate \in Nat
    BY DEF Entry
  <1>2. gained \in Nat
    BY <1>1, ProductNat
  <1> HIDE DEF gained
  <1>3. Refilled(e) = [e EXCEPT !.tokens = Least(e.burst, e.tokens + gained),
                                !.last_refill = now]
    BY DEF Refilled, gained
  <1>4. Least(e.burst, e.tokens + gained) \in Nat /\ Least(e.burst, e.tokens + gained) <= e.burst
    BY <1>2 DEF Least, Entry
  <1> QED
    BY <1>3, <1>4 DEF Entry

(* connections_[key] is an entry whether or not the key was there.          *)
LEMMA LookupSound ==
    ASSUME UseTypeOK, TableSound, NEW ip \in Ips
    PROVE  Lookup(ip) \in Entry /\ SoundEntry(Lookup(ip))
  <1>1. FreshEntry \in Entry /\ SoundEntry(FreshEntry)
    BY DEF FreshEntry, Entry, SoundEntry, UseTypeOK, GuardTypeOK
  <1>2. CASE HasEntry(ip)
    BY <1>2 DEF Lookup, TableSound, UseTypeOK, GuardTypeOK, HasEntry
  <1>3. CASE ~HasEntry(ip)
    BY <1>1, <1>3 DEF Lookup
  <1> QED
    BY <1>2, <1>3

-----------------------------------------------------------------------------
(* The connections of S that come from ip; OpenFrom(ip) is From(open, ip).  *)
From(S, ip) == {x \in S : IpOf[x] = ip}

(* Opening a connection adds one to the count of its address and of no      *)
(* other.                                                                   *)
LEMMA CountAdd ==
    ASSUME NEW S, IsFiniteSet(S), NEW c, c \notin S, NEW ip
    PROVE  Cardinality(From(S \cup {c}, ip)) =
               IF IpOf[c] = ip THEN Cardinality(From(S, ip)) + 1 ELSE Cardinality(From(S, ip))
  <1>1. IsFiniteSet(From(S, ip)) /\ c \notin From(S, ip)
    BY FS_Subset DEF From
  <1>2. CASE IpOf[c] = ip
    <2>1. From(S \cup {c}, ip) = From(S, ip) \cup {c}
      BY <1>2 DEF From
    <2>2. Cardinality(From(S, ip) \cup {c}) = Cardinality(From(S, ip)) + 1
      BY <1>1, FS_AddElement
    <2> QED
      BY <1>2, <2>1, <2>2
  <1>3. CASE IpOf[c] # ip
    <2>1. From(S \cup {c}, ip) = From(S, ip)
      BY <1>3 DEF From
    <2> QED
      BY <1>3, <2>1
  <1> QED
    BY <1>2, <1>3

(* Closing one takes it back.                                               *)
LEMMA CountRemove ==
    ASSUME NEW S, IsFiniteSet(S), NEW c \in S, NEW ip
    PROVE  Cardinality(From(S \ {c}, ip)) =
               IF IpOf[c] = ip THEN Cardinality(From(S, ip)) - 1 ELSE Cardinality(From(S, ip))
  <1>1. IsFiniteSet(From(S, ip))
    BY FS_Subset DEF From
  <1>2. CASE IpOf[c] = ip
    <2>1. From(S \ {c}, ip) = From(S, ip) \ {c} /\ c \in From(S, ip)
      BY <1>2 DEF From
    <2> QED
      BY <1>1, <1>2, <2>1, FS_RemoveElement
  <1>3. CASE IpOf[c] # ip
    <2>1. From(S \ {c}, ip) = From(S, ip)
      BY <1>3 DEF From
    <2> QED
      BY <1>3, <2>1
  <1> QED
    BY <1>2, <1>3

(* A count is a natural, and at least one where a connection is open.       *)
LEMMA CountPositive ==
    ASSUME NEW S, IsFiniteSet(S), NEW ip
    PROVE  /\ Cardinality(From(S, ip)) \in Nat
           /\ (\E c \in S : IpOf[c] = ip) => Cardinality(From(S, ip)) >= 1
  <1>1. IsFiniteSet(From(S, ip))
    BY FS_Subset DEF From
  <1>2. (\E c \in S : IpOf[c] = ip) => From(S, ip) # {}
    BY DEF From
  <1>3. Cardinality(From(S, ip)) \in Nat /\ (From(S, ip) # {} => Cardinality(From(S, ip)) # 0)
    BY <1>1, FS_CardinalityType, FS_EmptySet
  <1> QED
    BY <1>2, <1>3

(* An action that leaves open alone and keeps every entry's active_connections *)
(* keeps the accounting.                                                    *)
LEMMA SameCounts ==
    ASSUME GuardInv, open' = open, total_connections_' = total_connections_,
           \A ip \in Ips : Lookup(ip)'.active = Lookup(ip).active
    PROVE  IsFiniteSet(open)' /\ ActiveIsExact' /\ TotalIsExact' /\ HardCap'
  <1>1. IsFiniteSet(open)' /\ TotalIsExact' /\ HardCap'
    BY DEF GuardInv, TotalIsExact, HardCap
  <1>2. ActiveIsExact'
    BY DEF GuardInv, ActiveIsExact, OpenFrom
  <1> QED
    BY <1>1, <1>2

(* The invariant at the start.                                              *)
LEMMA GuardInvInit == UseInit => GuardInv
  <1> SUFFICES ASSUME UseInit PROVE GuardInv
    OBVIOUS
  <1> USE GuardAssumption, UseAssumption DEF UseInit, GuardInit
  <1>1. UseTypeOK
    BY DEF UseTypeOK, GuardTypeOK
  <1>2. IsFiniteSet(open) /\ Cardinality(open) = 0
    BY FS_EmptySet
  <1>3. TableSound
    BY DEF TableSound, HasEntry
  <1>4. AdmittingSound
    BY DEF AdmittingSound
  <1>5. TotalIsExact /\ HardCap
    BY <1>2 DEF TotalIsExact, HardCap
  <1>6. ActiveIsExact
    <2>1. \A ip \in Ips : OpenFrom(ip) = {}
      BY DEF OpenFrom
    <2>2. \A ip \in Ips : Lookup(ip).active = 0
      BY DEF Lookup, HasEntry, FreshEntry
    <2> QED
      BY <2>1, <2>2, FS_EmptySet DEF ActiveIsExact
  <1> QED
    BY <1>1, <1>2, <1>3, <1>4, <1>5, <1>6 DEF GuardInv

-----------------------------------------------------------------------------
(* One lemma per operation: what it does to the table ...                   *)

(* Updating one entry of the table by a sound one keeps the table typed and *)
(* sound.                                                                   *)
LEMMA UpdateEntry ==
    ASSUME UseTypeOK, TableSound, NEW ip \in Ips, NEW e \in Entry \cup {NoEntry},
           connections_' = [connections_ EXCEPT ![ip] = e], now' = now,
           e # NoEntry => SoundEntry(e)
    PROVE  /\ connections_' \in [Ips -> Entry \cup {NoEntry}]
           /\ TableSound'
           /\ \A other \in Ips \ {ip} : Lookup(other)' = Lookup(other)
           /\ Lookup(ip)' = IF e = NoEntry THEN FreshEntry ELSE e
  <1>1. connections_' \in [Ips -> Entry \cup {NoEntry}]
    BY DEF UseTypeOK, GuardTypeOK
  <1>2. connections_'[ip] = e /\ \A other \in Ips \ {ip} : connections_'[other] = connections_[other]
    BY DEF UseTypeOK, GuardTypeOK
  <1>3. \A other \in Ips \ {ip} : Lookup(other)' = Lookup(other)
    BY <1>2 DEF Lookup, HasEntry
  <1>4. Lookup(ip)' = IF e = NoEntry THEN FreshEntry ELSE e
    BY <1>2 DEF Lookup, HasEntry
  <1>5. TableSound'
    BY <1>2 DEF TableSound, HasEntry, SoundEntry
  <1> QED
    BY <1>1, <1>3, <1>4, <1>5

(* ... and that the invariant survives it.                                  *)
LEMMA AdmitKeepsInv == GuardInv /\ Admit => GuardInv'
  <1> SUFFICES ASSUME GuardInv, Admit PROVE GuardInv'
    OBVIOUS
  <1> USE GuardAssumption, UseAssumption
  <1>0. PICK c \in Conns : c = admitting
    BY DEF GuardInv, UseTypeOK, Admit
  <1> DEFINE ip == IpOf[c]
             e == Lookup(ip)
             b == WithBucket(e)
             n == [b EXCEPT !.active = e.active + 1, !.last_seen = now]
  <1>1. c \notin open /\ ip \in Ips /\ total_connections_ < MaxTotal
    BY <1>0 DEF GuardInv, UseTypeOK, Admit, AdmittingSound
  <1>2. e \in Entry /\ SoundEntry(e)
    BY <1>1, LookupSound DEF GuardInv
  <1>3. now \in Nat /\ now' = now /\ max_per_ip_' = max_per_ip_
    BY DEF GuardInv, UseTypeOK, GuardTypeOK, Admit, AdmitConnection
  <1>4. n \in Entry /\ n.active = e.active + 1 /\ SoundEntry(n)
    <2> HIDE DEF e
    <2>1. b \in Entry
      BY <1>2, <1>3 DEF WithBucket, Entry
    <2>2. b.last_refill <= now /\ b.rate = Rps /\ b.burst = Burst /\ b.tokens <= Burst
      BY <1>2, <1>3 DEF WithBucket, Entry, SoundEntry
    <2> HIDE DEF b
    <2>3. e.active + 1 \in Int
      BY <1>2 DEF Entry
    <2>4. /\ n \in Entry /\ n.active = e.active + 1
          /\ n.last_refill = b.last_refill /\ n.rate = b.rate
          /\ n.burst = b.burst /\ n.tokens = b.tokens
      BY <1>3, <2>1, <2>3 DEF Entry
    <2> HIDE DEF n
    <2> QED
      BY <2>2, <2>4 DEF SoundEntry
  <1>5. connections_' = [connections_ EXCEPT ![ip] = n]
    BY <1>0 DEF Admit, AdmitConnection
  <1>6. n # NoEntry
    BY <1>4
  <1> HIDE DEF n
  <1>7. /\ connections_' \in [Ips -> Entry \cup {NoEntry}]
        /\ TableSound'
        /\ \A other \in Ips \ {ip} : Lookup(other)' = Lookup(other)
        /\ Lookup(ip)' = n
    BY <1>1, <1>3, <1>4, <1>5, <1>6, UpdateEntry DEF GuardInv
  <1>8. open' = open \cup {c} /\ admitting' = NoConn
        /\ total_connections_' = total_connections_ + 1
    BY <1>0 DEF Admit, AdmitConnection
  <1>9. IsFiniteSet(open') /\ Cardinality(open') = Cardinality(open) + 1
    BY <1>1, <1>8, FS_AddElement DEF GuardInv
  <1>10. TotalIsExact'
    BY <1>8, <1>9 DEF GuardInv, TotalIsExact
  <1>11. HardCap'
    BY <1>1, <1>9 DEF GuardInv, HardCap, TotalIsExact, UseTypeOK, GuardTypeOK
  <1>12. ActiveIsExact'
    <2> SUFFICES ASSUME NEW i \in Ips PROVE Lookup(i)'.active = Cardinality(OpenFrom(i)')
      BY DEF ActiveIsExact
    <2>1. Cardinality(OpenFrom(i)') =
             IF ip = i THEN Cardinality(OpenFrom(i)) + 1 ELSE Cardinality(OpenFrom(i))
      <3>1. OpenFrom(i)' = From(open \cup {c}, i) /\ OpenFrom(i) = From(open, i)
        BY <1>8 DEF OpenFrom, From
      <3>2. IsFiniteSet(open)
        BY DEF GuardInv
      <3> QED
        BY <1>1, <3>1, <3>2, CountAdd
    <2>2. Lookup(i).active = Cardinality(OpenFrom(i))
      BY DEF GuardInv, ActiveIsExact
    <2> QED
      BY <1>4, <1>7, <2>1, <2>2
  <1>13. UseTypeOK'
    BY <1>1, <1>3, <1>7, <1>8 DEF GuardInv, UseTypeOK, GuardTypeOK
  <1>14. AdmittingSound'
    BY <1>8 DEF AdmittingSound
  <1> QED
    BY <1>7, <1>9, <1>10, <1>11, <1>12, <1>13, <1>14 DEF GuardInv

(* A refused connection changes no count.                                   *)
LEMMA RefuseKeepsInv == GuardInv /\ Refuse => GuardInv'
  <1> SUFFICES ASSUME GuardInv, Refuse PROVE GuardInv'
    OBVIOUS
  <1> USE GuardAssumption, UseAssumption
  <1>0. PICK c \in Conns : c = admitting
    BY DEF GuardInv, UseTypeOK, Refuse
  <1> DEFINE ip == IpOf[c]
             e == Lookup(ip)
             n == [e EXCEPT !.last_seen = now]
  <1>1. ip \in Ips
    OBVIOUS
  <1>2. e \in Entry /\ SoundEntry(e)
    BY <1>1, LookupSound DEF GuardInv
  <1>3. now \in Nat /\ now' = now
    BY DEF GuardInv, UseTypeOK, GuardTypeOK, Refuse, RefuseConnection
  <1>4. n \in Entry /\ n.active = e.active /\ SoundEntry(n) /\ n # NoEntry
    <2> HIDE DEF e
    <2> QED
      BY <1>2, <1>3 DEF Entry, SoundEntry
  <1>5. connections_' = [connections_ EXCEPT ![ip] = n]
    BY <1>0 DEF Refuse, RefuseConnection
  <1> HIDE DEF n
  <1>6. /\ connections_' \in [Ips -> Entry \cup {NoEntry}]
        /\ TableSound'
        /\ \A other \in Ips \ {ip} : Lookup(other)' = Lookup(other)
        /\ Lookup(ip)' = n
    BY <1>1, <1>3, <1>4, <1>5, UpdateEntry DEF GuardInv
  <1>7. open' = open /\ admitting' = NoConn /\ UNCHANGED <<total_connections_, max_per_ip_>>
    BY DEF Refuse, RefuseConnection
  <1>8. \A i \in Ips : Lookup(i)'.active = Lookup(i).active
    BY <1>4, <1>6
  <1>9. IsFiniteSet(open)' /\ ActiveIsExact' /\ TotalIsExact' /\ HardCap'
    BY <1>7, <1>8, SameCounts
  <1>10. UseTypeOK' /\ AdmittingSound'
    BY <1>3, <1>6, <1>7 DEF GuardInv, UseTypeOK, GuardTypeOK, AdmittingSound
  <1> QED
    BY <1>6, <1>9, <1>10 DEF GuardInv

(* Replacing an entry by itself with a refilled, possibly charged bucket.   *)
LEMMA BucketStepKeepsInv ==
    ASSUME GuardInv, NEW ip \in Ips, HasEntry(ip), NEW k \in Nat,
           k <= Refilled(connections_[ip]).tokens,
           connections_' = [connections_ EXCEPT ![ip] =
                               [Refilled(connections_[ip]) EXCEPT !.tokens = k]],
           UNCHANGED <<total_connections_, max_per_ip_, now, open, admitting>>
    PROVE  GuardInv'
  <1> USE GuardAssumption, UseAssumption
  <1> DEFINE e == connections_[ip]
             r == Refilled(e)
             n == [r EXCEPT !.tokens = k]
  <1>1. e \in Entry /\ SoundEntry(e) /\ now \in Nat
    BY DEF GuardInv, TableSound, UseTypeOK, GuardTypeOK, HasEntry
  <1>2. /\ r \in Entry /\ r.active = e.active /\ r.rate = e.rate /\ r.burst = e.burst
        /\ r.tokens <= e.burst /\ r.last_refill = now
    <2> HIDE DEF e
    <2> QED
      BY <1>1, RefilledSound DEF SoundEntry
  <1> HIDE DEF r
  <1>3. /\ n \in Entry /\ n.active = r.active /\ n.rate = r.rate /\ n.burst = r.burst
        /\ n.tokens = k /\ n.last_refill = r.last_refill
    BY <1>2 DEF Entry
  <1>4. k <= r.tokens
    BY DEF r
  <1>5. connections_' = [connections_ EXCEPT ![ip] = n]
    BY DEF r
  <1> HIDE DEF n, e
  <1>6. n # NoEntry
    BY <1>3
  <1>7. SoundEntry(n)
    BY <1>1, <1>2, <1>3, <1>4 DEF SoundEntry, Entry
  <1>8. /\ connections_' \in [Ips -> Entry \cup {NoEntry}]
        /\ TableSound'
        /\ \A other \in Ips \ {ip} : Lookup(other)' = Lookup(other)
        /\ Lookup(ip)' = n
    BY <1>3, <1>5, <1>6, <1>7, UpdateEntry DEF GuardInv
  <1>9. Lookup(ip).active = e.active
    BY DEF Lookup, e
  <1>10. \A i \in Ips : Lookup(i)'.active = Lookup(i).active
    BY <1>2, <1>3, <1>8, <1>9
  <1>11. IsFiniteSet(open)' /\ ActiveIsExact' /\ TotalIsExact' /\ HardCap'
    BY <1>10, SameCounts
  <1>12. UseTypeOK' /\ AdmittingSound'
    BY <1>8 DEF GuardInv, UseTypeOK, GuardTypeOK, AdmittingSound
  <1> QED
    BY <1>8, <1>11, <1>12 DEF GuardInv

(* An open connection has an entry, and that entry has its bucket.          *)
LEMMA OpenHasEntry ==
    ASSUME GuardInv, NEW c \in open
    PROVE  /\ IpOf[c] \in Ips /\ HasEntry(IpOf[c])
           /\ connections_[IpOf[c]] \in Entry
           /\ connections_[IpOf[c]].active >= 1
           /\ SoundEntry(connections_[IpOf[c]])
  <1>1. IpOf[c] \in Ips
    BY UseAssumption DEF GuardInv, UseTypeOK
  <1>2. Cardinality(OpenFrom(IpOf[c])) >= 1
    <2>1. OpenFrom(IpOf[c]) = From(open, IpOf[c])
      BY DEF OpenFrom, From
    <2> QED
      BY <2>1, CountPositive DEF GuardInv
  <1>3. Lookup(IpOf[c]).active >= 1
    BY <1>1, <1>2 DEF GuardInv, ActiveIsExact
  <1>4. HasEntry(IpOf[c])
    BY <1>3 DEF Lookup, FreshEntry
  <1> QED
    BY <1>1, <1>3, <1>4 DEF Lookup, HasEntry, GuardInv, TableSound, UseTypeOK, GuardTypeOK

(* register_connection() keeps the invariant,                               *)
LEMMA RequestKeepsInv ==
    ASSUME GuardInv, NEW c \in Conns, RequestAllowed(c) \/ RequestDenied(c)
    PROVE  GuardInv'
  <1>1. c \in open
    BY DEF RequestAllowed, RequestDenied
  <1>2. PICK ip : ip = IpOf[c]
    OBVIOUS
  <1>3. /\ ip \in Ips /\ HasEntry(ip) /\ connections_[ip] \in Entry
        /\ SoundEntry(connections_[ip]) /\ now \in Nat
    BY <1>1, <1>2, OpenHasEntry DEF GuardInv, UseTypeOK, GuardTypeOK
  <1> DEFINE r == Refilled(connections_[ip])
  <1>4. r \in Entry
    BY <1>3, RefilledSound DEF SoundEntry
  <1> HIDE DEF r
  <1>5. r.tokens \in Nat
    BY <1>4 DEF Entry
  <1>6. UNCHANGED <<total_connections_, max_per_ip_, now, open, admitting>>
    BY DEF RequestAllowed, RequestDenied, AllowRequest, DenyRequest
  <1>7. CASE RequestAllowed(c)
    <2>1. r.tokens >= 1 /\ connections_' = [connections_ EXCEPT ![ip] = [r EXCEPT !.tokens = @ - 1]]
      BY <1>2, <1>3, <1>7 DEF RequestAllowed, AllowRequest, r
    <2>2. PICK k \in Nat : k = r.tokens - 1
      BY <1>5, <2>1
    <2>3. [r EXCEPT !.tokens = @ - 1] = [r EXCEPT !.tokens = k]
      BY <2>2
    <2>4. connections_' = [connections_ EXCEPT ![ip] = [r EXCEPT !.tokens = k]]
      BY <2>1, <2>3
    <2>5. k <= r.tokens
      BY <1>5, <2>2
    <2> QED
      BY <1>3, <1>6, <2>4, <2>5, BucketStepKeepsInv DEF r
  <1>8. CASE RequestDenied(c)
    <2>1. connections_' = [connections_ EXCEPT ![ip] = r]
      BY <1>2, <1>8 DEF RequestDenied, DenyRequest, r
    <2>2. PICK k \in Nat : k = r.tokens
      BY <1>5
    <2>3. r = [r EXCEPT !.tokens = k]
      BY <1>4, <2>2 DEF Entry
    <2>4. connections_' = [connections_ EXCEPT ![ip] = [r EXCEPT !.tokens = k]]
      BY <2>1, <2>3
    <2>5. k <= r.tokens
      BY <2>2
    <2> QED
      BY <1>3, <1>6, <2>4, <2>5, BucketStepKeepsInv DEF r
  <1> QED
    BY <1>7, <1>8

(* and so does release_connection().                                        *)
LEMMA ReleaseKeepsInv ==
    ASSUME GuardInv, NEW c \in Conns, Release(c)
    PROVE  GuardInv'
  <1> USE GuardAssumption, UseAssumption
  <1>1. c \in open
    BY DEF Release
  <1> DEFINE ip == IpOf[c]
             e == connections_[ip]
             n == IF e.active - 1 <= 0 THEN NoEntry ELSE [e EXCEPT !.active = @ - 1]
  <1>2. /\ ip \in Ips /\ HasEntry(ip) /\ e \in Entry /\ e.active >= 1 /\ SoundEntry(e)
    BY <1>1, OpenHasEntry
  <1>3. now \in Nat /\ now' = now
    BY DEF GuardInv, UseTypeOK, GuardTypeOK, Release, ReleaseConnection
  <1>4. /\ connections_' = [connections_ EXCEPT ![ip] = n]
        /\ total_connections_' = total_connections_ - 1
        /\ open' = open \ {c} /\ UNCHANGED <<max_per_ip_, admitting>>
    BY <1>2 DEF Release, ReleaseConnection
  <1>5. /\ n \in Entry \cup {NoEntry}
        /\ n # NoEntry => SoundEntry(n) /\ n.active = e.active - 1
        /\ n = NoEntry => e.active - 1 = 0
    <2> HIDE DEF e
    <2>1. CASE e.active - 1 <= 0
      BY <1>2, <2>1 DEF Entry
    <2>2. CASE ~(e.active - 1 <= 0)
      <3>1. n = [e EXCEPT !.active = @ - 1]
        BY <2>2
      <3>2. n \in Entry /\ n.active = e.active - 1 /\ n.last_refill = e.last_refill
            /\ n.rate = e.rate /\ n.burst = e.burst /\ n.tokens = e.tokens
        BY <1>2, <3>1 DEF Entry
      <3>3. e.active # 0
        BY <1>2 DEF Entry
      <3> HIDE DEF n
      <3>4. SoundEntry(n)
        BY <1>2, <3>2, <3>3 DEF SoundEntry
      <3> QED
        BY <3>2, <3>4
    <2> QED
      BY <2>1, <2>2
  <1> HIDE DEF n
  <1>6. /\ connections_' \in [Ips -> Entry \cup {NoEntry}]
        /\ TableSound'
        /\ \A other \in Ips \ {ip} : Lookup(other)' = Lookup(other)
        /\ Lookup(ip)' = IF n = NoEntry THEN FreshEntry ELSE n
    BY <1>2, <1>3, <1>4, <1>5, UpdateEntry DEF GuardInv
  <1>7. Lookup(ip).active = e.active /\ Lookup(ip)'.active = e.active - 1
    BY <1>2, <1>5, <1>6 DEF Lookup, FreshEntry
  <1>8. IsFiniteSet(open') /\ Cardinality(open') = Cardinality(open) - 1
    BY <1>1, <1>4, FS_RemoveElement DEF GuardInv
  <1>9. Cardinality(open) \in Nat
    BY FS_CardinalityType DEF GuardInv
  <1>10. TotalIsExact' /\ HardCap'
    BY <1>4, <1>8, <1>9 DEF GuardInv, TotalIsExact, HardCap
  <1>11. ActiveIsExact'
    <2> SUFFICES ASSUME NEW i \in Ips PROVE Lookup(i)'.active = Cardinality(OpenFrom(i)')
      BY DEF ActiveIsExact
    <2>1. Cardinality(OpenFrom(i)') =
             IF ip = i THEN Cardinality(OpenFrom(i)) - 1 ELSE Cardinality(OpenFrom(i))
      <3>1. OpenFrom(i)' = From(open \ {c}, i) /\ OpenFrom(i) = From(open, i)
        BY <1>4 DEF OpenFrom, From
      <3>2. IsFiniteSet(open)
        BY DEF GuardInv
      <3> QED
        BY <1>1, <3>1, <3>2, CountRemove
    <2>2. Lookup(i).active = Cardinality(OpenFrom(i))
      BY DEF GuardInv, ActiveIsExact
    <2> QED
      BY <1>6, <1>7, <2>1, <2>2
  <1>12. UseTypeOK'
    BY <1>3, <1>4, <1>6 DEF GuardInv, UseTypeOK, GuardTypeOK
  <1>13. AdmittingSound'
    BY <1>4 DEF GuardInv, AdmittingSound, UseTypeOK, GuardTypeOK
  <1> QED
    BY <1>6, <1>8, <1>10, <1>11, <1>12, <1>13 DEF GuardInv

(* cleanup() erases only entries that no open connection stands behind.     *)
LEMMA CleanupKeepsInv == GuardInv /\ RunCleanup => GuardInv'
  <1> SUFFICES ASSUME GuardInv, RunCleanup PROVE GuardInv'
    OBVIOUS
  <1> USE GuardAssumption, UseAssumption
  <1>1. /\ connections_' = [ip \in Ips |-> IF Stale(ip) THEN NoEntry ELSE connections_[ip]]
        /\ UNCHANGED <<total_connections_, max_per_ip_, now, open, admitting>>
    BY DEF RunCleanup, Cleanup
  <1>2. connections_' \in [Ips -> Entry \cup {NoEntry}]
    BY <1>1 DEF GuardInv, UseTypeOK, GuardTypeOK
  <1>3. TableSound'
    BY <1>1 DEF GuardInv, TableSound, HasEntry, SoundEntry
  <1>4. \A ip \in Ips : Lookup(ip)'.active = Lookup(ip).active
    <2> SUFFICES ASSUME NEW ip \in Ips PROVE Lookup(ip)'.active = Lookup(ip).active
      OBVIOUS
    <2>1. CASE Stale(ip)
      <3>1. Lookup(ip)'.active = 0
        BY <1>1, <2>1 DEF Lookup, HasEntry, FreshEntry
      <3>2. Lookup(ip) = connections_[ip] /\ connections_[ip].active <= 0
        BY <2>1 DEF Stale, Lookup
      <3>3. Lookup(ip).active \in Nat
        <4>1. OpenFrom(ip) = From(open, ip)
          BY DEF OpenFrom, From
        <4> QED
          BY <4>1, CountPositive DEF GuardInv, ActiveIsExact
      <3> QED
        BY <3>1, <3>2, <3>3
    <2>2. CASE ~Stale(ip)
      BY <1>1, <2>2 DEF Lookup, HasEntry
    <2> QED
      BY <2>1, <2>2
  <1>5. IsFiniteSet(open)' /\ ActiveIsExact' /\ TotalIsExact' /\ HardCap'
    BY <1>1, <1>4, SameCounts
  <1>6. UseTypeOK' /\ AdmittingSound'
    BY <1>1, <1>2 DEF GuardInv, UseTypeOK, GuardTypeOK, AdmittingSound
  <1> QED
    BY <1>3, <1>5, <1>6 DEF GuardInv

(* The invariant is inductive.                                              *)
LEMMA GuardInvStep == GuardInv /\ [UseNext]_useVars => GuardInv'
  <1> SUFFICES ASSUME GuardInv, [UseNext]_useVars PROVE GuardInv'
    OBVIOUS
  <1> USE GuardAssumption, UseAssumption
  <1>1. ASSUME NEW c \in Conns, PassGlobalCheck(c) PROVE GuardInv'
    <2>1. UNCHANGED <<connections_, total_connections_, max_per_ip_, now, open>>
          /\ admitting' = c /\ c \notin open /\ ~GlobalLimitReached
      BY <1>1 DEF PassGlobalCheck, guardVars
    <2>2. \A ip \in Ips : Lookup(ip)'.active = Lookup(ip).active
      BY <2>1 DEF Lookup, HasEntry
    <2>3. IsFiniteSet(open)' /\ ActiveIsExact' /\ TotalIsExact' /\ HardCap'
      BY <2>1, <2>2, SameCounts
    <2>4. UseTypeOK' /\ TableSound' /\ AdmittingSound'
      BY <2>1 DEF GuardInv, UseTypeOK, GuardTypeOK, TableSound, HasEntry, SoundEntry,
                  AdmittingSound, GlobalLimitReached
    <2> QED
      BY <2>3, <2>4 DEF GuardInv
  <1>2. CASE Admit
    BY <1>2, AdmitKeepsInv
  <1>3. CASE Refuse
    BY <1>3, RefuseKeepsInv
  <1>4. ASSUME NEW c \in Conns, RequestAllowed(c) PROVE GuardInv'
    BY <1>4, RequestKeepsInv
  <1>5. ASSUME NEW c \in Conns, RequestDenied(c) PROVE GuardInv'
    BY <1>5, RequestKeepsInv
  <1>6. ASSUME NEW c \in Conns, Release(c) PROVE GuardInv'
    BY <1>6, ReleaseKeepsInv
  <1>7. ASSUME NEW m \in MaxPerIpChoices, Reload(m) PROVE GuardInv'
    <2>1. UNCHANGED <<connections_, total_connections_, now, open, admitting>> /\ max_per_ip_' \in Int
      BY <1>7 DEF Reload, SetMaxPerIp
    <2>2. \A ip \in Ips : Lookup(ip)'.active = Lookup(ip).active
      BY <2>1 DEF Lookup, HasEntry
    <2>3. IsFiniteSet(open)' /\ ActiveIsExact' /\ TotalIsExact' /\ HardCap'
      BY <2>1, <2>2, SameCounts
    <2>4. UseTypeOK' /\ TableSound' /\ AdmittingSound'
      BY <2>1 DEF GuardInv, UseTypeOK, GuardTypeOK, TableSound, HasEntry, SoundEntry,
                  AdmittingSound
    <2> QED
      BY <2>3, <2>4 DEF GuardInv
  <1>8. CASE RunCleanup
    BY <1>8, CleanupKeepsInv
  <1>9. CASE Elapse
    <2>1. UNCHANGED <<connections_, total_connections_, max_per_ip_, open, admitting>>
          /\ now' = now + 1
      BY <1>9 DEF Elapse, Tick
    <2>2. \A ip \in Ips : Lookup(ip)'.active = Lookup(ip).active
      BY <2>1 DEF Lookup, HasEntry
    <2>3. IsFiniteSet(open)' /\ ActiveIsExact' /\ TotalIsExact' /\ HardCap'
      BY <2>1, <2>2, SameCounts
    <2>4. UseTypeOK' /\ AdmittingSound'
      BY <2>1 DEF GuardInv, UseTypeOK, GuardTypeOK, AdmittingSound
    <2>5. TableSound'
      <3> SUFFICES ASSUME NEW ip \in Ips, HasEntry(ip)' PROVE SoundEntry(connections_[ip])'
        BY DEF TableSound
      <3>1. HasEntry(ip) /\ connections_[ip] \in Entry /\ SoundEntry(connections_[ip])
        BY <2>1 DEF HasEntry, GuardInv, TableSound, UseTypeOK, GuardTypeOK
      <3>2. now \in Nat
        BY DEF GuardInv, UseTypeOK, GuardTypeOK
      <3>3. connections_[ip].last_refill <= now + 1
        BY <3>1, <3>2 DEF SoundEntry, Entry
      <3> QED
        BY <2>1, <3>1, <3>3 DEF SoundEntry
    <2> QED
      BY <2>3, <2>4, <2>5 DEF GuardInv
  <1>10. CASE UNCHANGED useVars
    <2>1. UNCHANGED <<connections_, total_connections_, max_per_ip_, now, open, admitting>>
      BY <1>10 DEF useVars
    <2> QED
      BY <2>1 DEF GuardInv, UseTypeOK, GuardTypeOK, TableSound, HasEntry, SoundEntry,
                  AdmittingSound, ActiveIsExact, Lookup, OpenFrom, TotalIsExact, HardCap
  <1> QED
    BY <1>1, <1>2, <1>3, <1>4, <1>5, <1>6, <1>7, <1>8, <1>9, <1>10 DEF UseNext

-----------------------------------------------------------------------------
(* In every behaviour of the guard the inductive invariant holds.           *)
THEOREM GuardInvariant == UseSpec => []GuardInv
  BY GuardInvInit, GuardInvStep, PTL DEF UseSpec

(* The variables of the guard always have their types: tokens never go      *)
(* below zero, whatever refills and charges it.                             *)
THEOREM GuardTypeCorrect == UseSpec => []UseTypeOK
  <1>1. GuardInv => UseTypeOK
    BY DEF GuardInv
  <1> QED
    BY <1>1, GuardInvariant, PTL

(* allow_connection and release_connection keep the table and the atomic    *)
(* total equal to the connections that are open.                            *)
THEOREM GuardCountsExact == UseSpec => []CountsExact
  <1>1. GuardInv => CountsExact
    BY DEF GuardInv, CountsExact
  <1> QED
    BY <1>1, GuardInvariant, PTL

(* max_total_connections is never exceeded, for any number of connections,  *)
(* although allow_connection tests it before taking the lock.               *)
THEOREM GuardHardCap == UseSpec => []HardCap
  <1>1. GuardInv => HardCap
    BY DEF GuardInv
  <1> QED
    BY <1>1, GuardInvariant, PTL

(* allow_request always finds the entry of an open connection, with its     *)
(* bucket initialised and within the burst.                                 *)
THEOREM GuardOpenHasBucket == UseSpec => []OpenHasBucket
  <1>1. GuardInv => OpenHasBucket
    <2> SUFFICES ASSUME GuardInv, NEW c \in open
                 PROVE  /\ HasEntry(IpOf[c])
                        /\ connections_[IpOf[c]].rate = Rps
                        /\ connections_[IpOf[c]].burst = Burst
                        /\ connections_[IpOf[c]].tokens <= Burst
      BY DEF OpenHasBucket
    <2> QED
      BY OpenHasEntry DEF SoundEntry
  <1> QED
    BY <1>1, GuardInvariant, PTL

-----------------------------------------------------------------------------
(* The table implements the promise: a step of the guard is a step of       *)
(* AdmissionControl or leaves open and the limit alone.  What makes an      *)
(* admission legal there is that the counts the code tests are exact, and   *)
(* that the place the global check found is still free under the lock.      *)
LEMMA GuardStepSimulates ==
    GuardInv /\ [UseNext]_useVars => [Promise!Next]_<<open, max_per_ip_>>
  <1> SUFFICES ASSUME GuardInv, [UseNext]_useVars
               PROVE  Promise!Next \/ UNCHANGED <<open, max_per_ip_>>
    OBVIOUS
  <1>1. ASSUME NEW c \in Conns, PassGlobalCheck(c) PROVE UNCHANGED <<open, max_per_ip_>>
    BY <1>1 DEF PassGlobalCheck, guardVars
  <1>2. CASE Admit
    <2>1. admitting \in Conns /\ admitting \notin open /\ total_connections_ < MaxTotal
      BY <1>2 DEF Admit, GuardInv, UseTypeOK, AdmittingSound
    <2>2. Cardinality(open) < MaxTotal
      BY <2>1 DEF GuardInv, TotalIsExact
    <2>3. Cardinality(OpenFrom(IpOf[admitting])) < max_per_ip_
      <3>1. IpOf[admitting] \in Ips
        BY <2>1, UseAssumption
      <3>2. Lookup(IpOf[admitting]).active < max_per_ip_
        BY <1>2 DEF Admit, AdmitConnection
      <3> QED
        BY <3>1, <3>2 DEF GuardInv, ActiveIsExact
    <2>4. open' = open \cup {admitting} /\ max_per_ip_' = max_per_ip_
      BY <1>2 DEF Admit, AdmitConnection
    <2>5. Promise!Admit(admitting)
      <3>1. \A S : Promise!Cardinality(S) = Cardinality(S)
        BY DEF Promise!Cardinality, Cardinality, Promise!IsFiniteSet, IsFiniteSet
      <3> QED
        BY <2>1, <2>2, <2>3, <2>4, <3>1 DEF Promise!Admit, Promise!OpenFrom, OpenFrom
    <2> QED
      BY <2>1, <2>5 DEF Promise!Next
  <1>3. CASE Refuse
    BY <1>3 DEF Refuse, RefuseConnection
  <1>4. ASSUME NEW c \in Conns, RequestAllowed(c) \/ RequestDenied(c)
        PROVE  UNCHANGED <<open, max_per_ip_>>
    BY <1>4 DEF RequestAllowed, RequestDenied, AllowRequest, DenyRequest
  <1>5. ASSUME NEW c \in Conns, Release(c) PROVE Promise!Next
    <2>1. Promise!Drop(c)
      BY <1>5 DEF Release, ReleaseConnection, Promise!Drop
    <2> QED
      BY <2>1 DEF Promise!Next
  <1>6. ASSUME NEW m \in MaxPerIpChoices, Reload(m) PROVE Promise!Next
    <2>1. Promise!SetLimit
      BY <1>6, UseAssumption DEF Reload, SetMaxPerIp, Promise!SetLimit
    <2> QED
      BY <2>1 DEF Promise!Next
  <1>7. CASE RunCleanup
    BY <1>7 DEF RunCleanup, Cleanup
  <1>8. CASE Elapse
    BY <1>8 DEF Elapse, Tick
  <1>9. CASE UNCHANGED useVars
    BY <1>9 DEF useVars
  <1> QED
    BY <1>1, <1>2, <1>3, <1>4, <1>5, <1>6, <1>7, <1>8, <1>9 DEF UseNext

(* allow_connection and release_connection do what the header promises of   *)
(* them: the table of entries, its counters and buckets, the unlocked check *)
(* and cleanup() implement a set of connections under two limits.           *)
THEOREM GuardImplementsPromise == UseSpec => ImplementsPromise
  <1>1. UseInit => Promise!Init
    BY UseAssumption DEF UseInit, GuardInit, Promise!Init
  <1> QED
    BY <1>1, GuardStepSimulates, GuardInvariant, PTL
    DEF UseSpec, ImplementsPromise, Promise!Spec

-----------------------------------------------------------------------------
(* The rate limit.  An entry that has been given a bucket: an admission     *)
(* filled it and no release or cleanup has erased it since.                 *)
Bucketed(ip) ==
    HasEntry(ip) /\ (connections_[ip].rate # 0 \/ connections_[ip].active >= 1)

(* What a bucket gave out and still holds is covered by its burst and what  *)
(* it has accrued.  This is BucketHonoured for every entry with a bucket:   *)
(* an admission may find one that it does not fill anew.                    *)
Covered(ip) ==
    /\ born[ip] <= connections_[ip].last_refill
    /\ spent[ip] + connections_[ip].tokens <=
           Burst + Rps * (connections_[ip].last_refill - born[ip])

RateInv ==
    /\ GuardInv
    /\ spent \in [Ips -> Nat] /\ born \in [Ips -> Nat]
    /\ \A ip \in Ips : Bucketed(ip) => Covered(ip)

(* Accruing from a to b and from b to c is accruing from a to c.            *)
LEMMA Accrual ==
    ASSUME NEW r \in Nat, NEW a \in Nat, NEW b \in Nat, NEW c \in Nat
    PROVE  r * (b - a) + (c - b) * r = r * (c - a)
  OBVIOUS

(* Every step of the specification with history is a step of the guard.     *)
LEMMA RateIsUse == [RateNext]_rateVars => [UseNext]_useVars
  BY DEF RateNext, rateVars, CountedRequest, CountedAdmit, Uncounted, UseNext

(* The invariant at the start.                                              *)
LEMMA RateInvInit == RateInit => RateInv
  <1> SUFFICES ASSUME RateInit PROVE RateInv
    OBVIOUS
  <1>1. GuardInv
    BY GuardInvInit DEF RateInit
  <1>2. \A ip \in Ips : ~Bucketed(ip)
    BY DEF RateInit, UseInit, GuardInit, Bucketed, HasEntry
  <1> QED
    BY <1>1, <1>2 DEF RateInv, RateInit

(* A refill gives a bucket no more than it has accrued.                     *)
LEMMA RefillCovered ==
    ASSUME RateInv, NEW ip \in Ips, HasEntry(ip), connections_[ip].active >= 1
    PROVE  /\ Refilled(connections_[ip]).tokens \in Nat
           /\ born[ip] <= now
           /\ spent[ip] + Refilled(connections_[ip]).tokens <= Burst + Rps * (now - born[ip])
  <1> DEFINE e == connections_[ip]
  <1>1. e \in Entry /\ SoundEntry(e) /\ now \in Nat
    BY DEF RateInv, GuardInv, TableSound, UseTypeOK, GuardTypeOK, HasEntry
  <1>2. Covered(ip) /\ spent[ip] \in Nat /\ born[ip] \in Nat
    BY DEF RateInv, Bucketed
  <1>3. e.rate = Rps /\ e.burst = Burst /\ e.last_refill <= now /\ e.last_refill \in Nat /\ e.tokens \in Nat
    BY <1>1 DEF SoundEntry, Entry
  <1>4. Rps \in Nat /\ Burst \in Nat
    BY GuardAssumption
  <1>5. Refilled(e).tokens = Least(Burst, e.tokens + (now - e.last_refill) * Rps)
    BY <1>1, <1>3 DEF Refilled, Entry
  <1>6. Refilled(e).tokens \in Nat
    BY <1>1, <1>3, RefilledSound DEF Entry
  <1>7. Rps * (e.last_refill - born[ip]) + (now - e.last_refill) * Rps = Rps * (now - born[ip])
    BY <1>1, <1>2, <1>3, <1>4, Accrual
  <1>8. born[ip] <= e.last_refill
        /\ spent[ip] + e.tokens <= Burst + Rps * (e.last_refill - born[ip])
    BY <1>2 DEF Covered
  <1> DEFINE gained == (now - e.last_refill) * Rps
             had == Rps * (e.last_refill - born[ip])
             have == Rps * (now - born[ip])
             left == Refilled(e).tokens
  <1>9. gained \in Int /\ had \in Int /\ have \in Int
    BY <1>1, <1>2, <1>3, <1>4
  <1>10. left <= e.tokens + gained
    <2>1. left = Least(Burst, e.tokens + gained)
      BY <1>5
    <2> HIDE DEF gained, left, e
    <2> QED
      BY <1>3, <1>4, <1>9, <2>1 DEF Least
  <1>11. born[ip] <= now
    BY <1>1, <1>2, <1>3, <1>8
  <1>12. spent[ip] + left <= Burst + have
    <2>1. had + gained = have /\ spent[ip] + e.tokens <= Burst + had /\ left \in Nat
      BY <1>6, <1>7, <1>8
    <2>2. spent[ip] \in Nat /\ e.tokens \in Nat
      BY <1>2, <1>3
    <2> HIDE DEF gained, had, have, left, e
    <2> QED
      BY <1>4, <1>9, <1>10, <2>1, <2>2
  <1> QED
    BY <1>6, <1>11, <1>12

(* An action that changes at most the entry of one address, and leaves it a *)
(* bucket that is covered or none at all, keeps the rate limit.             *)
LEMMA RateInvUpdate ==
    ASSUME RateInv, GuardInv', NEW ip \in Ips,
           \A other \in Ips \ {ip} : /\ connections_'[other] = connections_[other]
                                     /\ spent'[other] = spent[other]
                                     /\ born'[other] = born[other],
           spent' \in [Ips -> Nat], born' \in [Ips -> Nat],
           Bucketed(ip)' => Covered(ip)'
    PROVE  RateInv'
  <1>1. \A other \in Ips \ {ip} : Bucketed(other)' => Covered(other)'
    BY DEF RateInv, Bucketed, Covered, HasEntry
  <1> QED
    BY <1>1 DEF RateInv

(* An action that changes no bucket, or erases some, keeps it too.          *)
LEMMA RateInvSame ==
    ASSUME RateInv, GuardInv', UNCHANGED history,
           \A ip \in Ips : HasEntry(ip)' => connections_'[ip] = connections_[ip]
    PROVE  RateInv'
  BY DEF RateInv, Bucketed, Covered, HasEntry, history

(* A request is charged to the bucket it was refilled from.                 *)
LEMMA RequestKeepsRate ==
    ASSUME RateInv, GuardInv', NEW c \in Conns,
           CountedRequest(c) \/ (RequestDenied(c) /\ UNCHANGED history)
    PROVE  RateInv'
  <1>1. c \in open /\ GuardInv
    BY DEF CountedRequest, RequestAllowed, RequestDenied, RateInv
  <1>2. PICK ip : ip = IpOf[c]
    OBVIOUS
  <1>3. /\ ip \in Ips /\ HasEntry(ip) /\ connections_[ip] \in Entry
        /\ connections_[ip].active >= 1 /\ SoundEntry(connections_[ip]) /\ now \in Nat
    BY <1>1, <1>2, OpenHasEntry DEF GuardInv, UseTypeOK, GuardTypeOK
  <1> DEFINE r == Refilled(connections_[ip])
  <1>4. r \in Entry /\ r.last_refill = now
    BY <1>3, RefilledSound DEF SoundEntry
  <1>5. r.tokens \in Nat /\ born[ip] <= now /\ spent[ip] + r.tokens <= Burst + Rps * (now - born[ip])
    BY <1>3, RefillCovered
  <1>6. spent[ip] \in Nat /\ born[ip] \in Nat /\ DOMAIN connections_ = Ips
    BY <1>3 DEF RateInv, GuardInv, UseTypeOK, GuardTypeOK
  <1> HIDE DEF r
  <1>7. CASE CountedRequest(c)
    <2>1. /\ r.tokens >= 1
          /\ connections_' = [connections_ EXCEPT ![ip] = [r EXCEPT !.tokens = @ - 1]]
          /\ spent' = [spent EXCEPT ![ip] = @ + 1] /\ born' = born
      BY <1>2, <1>3, <1>7 DEF CountedRequest, RequestAllowed, AllowRequest, r
    <2>2. connections_'[ip].tokens = r.tokens - 1 /\ connections_'[ip].last_refill = now
      BY <1>3, <1>4, <1>6, <2>1 DEF Entry
    <2>3. spent'[ip] = spent[ip] + 1 /\ born'[ip] = born[ip]
          /\ spent' \in [Ips -> Nat] /\ born' \in [Ips -> Nat]
      BY <1>3, <2>1 DEF RateInv
    <2>4. spent'[ip] + connections_'[ip].tokens = spent[ip] + r.tokens
      BY <1>5, <1>6, <2>2, <2>3
    <2>5. Covered(ip)'
      BY <1>5, <2>2, <2>3, <2>4 DEF Covered
    <2>6. \A other \in Ips \ {ip} : /\ connections_'[other] = connections_[other]
                                    /\ spent'[other] = spent[other]
                                    /\ born'[other] = born[other]
      BY <1>6, <2>1 DEF RateInv
    <2> QED
      BY <1>3, <2>3, <2>5, <2>6, RateInvUpdate
  <1>8. CASE RequestDenied(c) /\ UNCHANGED history
    <2>1. connections_' = [connections_ EXCEPT ![ip] = r] /\ spent' = spent /\ born' = born
      BY <1>2, <1>8 DEF RequestDenied, DenyRequest, r, history
    <2>2. connections_'[ip] = r
      BY <1>3, <1>6, <2>1
    <2>3. Covered(ip)'
      BY <1>4, <1>5, <2>1, <2>2 DEF Covered
    <2>4. \A other \in Ips \ {ip} : connections_'[other] = connections_[other]
      BY <1>6, <2>1
    <2>5. spent' \in [Ips -> Nat] /\ born' \in [Ips -> Nat]
      BY <2>1 DEF RateInv
    <2> QED
      BY <1>3, <2>1, <2>3, <2>4, <2>5, RateInvUpdate
  <1> QED
    BY <1>7, <1>8

(* An admission fills a bucket anew, and then counts from zero, or finds    *)
(* one that is covered.                                                     *)
LEMMA AdmitKeepsRate ==
    ASSUME RateInv, GuardInv', CountedAdmit
    PROVE  RateInv'
  <1>1. PICK ip \in Ips : ip = IpOf[admitting]
    BY UseAssumption DEF CountedAdmit, Admit, RateInv, GuardInv, UseTypeOK
  <1> DEFINE e == Lookup(ip)
             b == WithBucket(e)
             n == [b EXCEPT !.active = e.active + 1, !.last_seen = now]
  <1>2. e \in Entry /\ now \in Nat /\ Rps \in Nat /\ Burst \in Nat
    BY <1>1, LookupSound, GuardAssumption DEF RateInv, GuardInv, UseTypeOK, GuardTypeOK
  <1>3. connections_' = [connections_ EXCEPT ![ip] = n] /\ now' = now
    BY <1>1 DEF CountedAdmit, Admit, AdmitConnection
  <1>4. connections_'[ip] = n /\ \A other \in Ips \ {ip} : connections_'[other] = connections_[other]
    BY <1>3 DEF RateInv, GuardInv, UseTypeOK, GuardTypeOK
  <1>5. n.tokens = b.tokens /\ n.last_refill = b.last_refill
    <2> HIDE DEF e
    <2>1. b \in Entry
      BY <1>2 DEF WithBucket, Entry
    <2> QED
      BY <2>1 DEF Entry
  <1> HIDE DEF n
  <1>6. CASE e.rate = 0
    <2>1. spent' = [spent EXCEPT ![ip] = 0] /\ born' = [born EXCEPT ![ip] = now]
      BY <1>1, <1>6 DEF CountedAdmit
    <2>2. b.tokens = Burst /\ b.last_refill = now
      <3> HIDE DEF e
      <3> QED
        BY <1>2, <1>6 DEF WithBucket, Entry
    <2>3. spent'[ip] = 0 /\ born'[ip] = now /\ spent' \in [Ips -> Nat] /\ born' \in [Ips -> Nat]
          /\ \A other \in Ips \ {ip} : spent'[other] = spent[other] /\ born'[other] = born[other]
      BY <1>2, <2>1 DEF RateInv
    <2>4. Rps * (now - now) = 0
      BY <1>2
    <2>5. Covered(ip)'
      BY <1>2, <1>4, <1>5, <2>2, <2>3, <2>4 DEF Covered
    <2> QED
      BY <1>4, <2>3, <2>5, RateInvUpdate
  <1>7. CASE e.rate # 0
    <2>1. spent' = spent /\ born' = born
      BY <1>1, <1>7 DEF CountedAdmit
    <2>2. HasEntry(ip) /\ e = connections_[ip] /\ b = e
      BY <1>7 DEF Lookup, FreshEntry, WithBucket
    <2>3. Covered(ip)
      BY <1>7, <2>2 DEF RateInv, Bucketed
    <2>4. Covered(ip)'
      BY <1>4, <1>5, <2>1, <2>2, <2>3 DEF Covered
    <2>5. spent' \in [Ips -> Nat] /\ born' \in [Ips -> Nat]
      BY <2>1 DEF RateInv
    <2> QED
      BY <1>4, <2>1, <2>4, <2>5, RateInvUpdate
  <1> QED
    BY <1>6, <1>7

(* The rate invariant is inductive.                                         *)
LEMMA RateInvStep == RateInv /\ [RateNext]_rateVars => RateInv'
  <1> SUFFICES ASSUME RateInv, [RateNext]_rateVars PROVE RateInv'
    OBVIOUS
  <1>0. GuardInv'
    BY RateIsUse, GuardInvStep DEF RateInv
  <1>. USE <1>0
  <1>1. ASSUME NEW c \in Conns, CountedRequest(c) PROVE RateInv'
    BY <1>1, RequestKeepsRate
  <1>2. CASE CountedAdmit
    BY <1>2, AdmitKeepsRate
  <1>3. ASSUME NEW c \in Conns, RequestDenied(c), UNCHANGED history PROVE RateInv'
    BY <1>3, RequestKeepsRate
  <1>4. ASSUME UNCHANGED history, connections_' = connections_ PROVE RateInv'
    BY <1>4, RateInvSame
  <1>5. ASSUME NEW c \in Conns, PassGlobalCheck(c) PROVE connections_' = connections_
    BY <1>5 DEF PassGlobalCheck, guardVars
  <1>6. ASSUME NEW c \in Conns, Release(c), UNCHANGED history PROVE RateInv'
    <2>1. c \in open /\ GuardInv
      BY <1>6 DEF Release, RateInv
    <2>2. PICK ip : ip = IpOf[c]
      OBVIOUS
    <2>3. ip \in Ips /\ HasEntry(ip) /\ connections_[ip] \in Entry /\ connections_[ip].active >= 1
      BY <2>1, <2>2, OpenHasEntry
    <2> DEFINE e == connections_[ip]
               n == IF e.active - 1 <= 0 THEN NoEntry ELSE [e EXCEPT !.active = @ - 1]
    <2>4. connections_' = [connections_ EXCEPT ![ip] = n]
      BY <1>6, <2>2, <2>3 DEF Release, ReleaseConnection
    <2>5. connections_'[ip] = n /\ \A other \in Ips \ {ip} : connections_'[other] = connections_[other]
      BY <2>3, <2>4 DEF RateInv, GuardInv, UseTypeOK, GuardTypeOK
    <2>6. Covered(ip)
      BY <2>3 DEF RateInv, Bucketed
    <2>7. HasEntry(ip)' => n.tokens = e.tokens /\ n.last_refill = e.last_refill
      <3>1. HasEntry(ip)' => n = [e EXCEPT !.active = @ - 1]
        BY <2>5 DEF HasEntry
      <3> HIDE DEF n
      <3> QED
        BY <2>3, <3>1 DEF Entry
    <2>8. spent' = spent /\ born' = born /\ spent' \in [Ips -> Nat] /\ born' \in [Ips -> Nat]
      BY <1>6 DEF history, RateInv
    <2> HIDE DEF n
    <2>9. Bucketed(ip)' => Covered(ip)'
      BY <2>5, <2>6, <2>7, <2>8 DEF Bucketed, Covered
    <2> QED
      BY <2>3, <2>5, <2>8, <2>9, RateInvUpdate
  <1>7. ASSUME Refuse, UNCHANGED history PROVE RateInv'
    <2>1. PICK ip \in Ips : ip = IpOf[admitting]
      BY <1>7, UseAssumption DEF Refuse, RateInv, GuardInv, UseTypeOK
    <2> DEFINE e == Lookup(ip)
               n == [e EXCEPT !.last_seen = now]
    <2>2. e \in Entry
      BY <2>1, LookupSound DEF RateInv, GuardInv
    <2>3. connections_' = [connections_ EXCEPT ![ip] = n]
      BY <1>7, <2>1 DEF Refuse, RefuseConnection
    <2>4. connections_'[ip] = n /\ \A other \in Ips \ {ip} : connections_'[other] = connections_[other]
      BY <2>3 DEF RateInv, GuardInv, UseTypeOK, GuardTypeOK
    <2>5. /\ n.active = e.active /\ n.rate = e.rate /\ n.tokens = e.tokens
          /\ n.last_refill = e.last_refill
      <3> HIDE DEF e
      <3> QED
        BY <2>2 DEF Entry
    <2> HIDE DEF n
    <2>6. Bucketed(ip)' => HasEntry(ip) /\ Bucketed(ip) /\ e = connections_[ip]
      BY <2>4, <2>5 DEF Bucketed, Lookup, FreshEntry
    <2>7. spent' = spent /\ born' = born /\ spent' \in [Ips -> Nat] /\ born' \in [Ips -> Nat]
      BY <1>7 DEF history, RateInv
    <2>8. Bucketed(ip)' => Covered(ip)'
      BY <2>4, <2>5, <2>6, <2>7 DEF RateInv, Covered
    <2> QED
      BY <2>4, <2>7, <2>8, RateInvUpdate
  <1>8. ASSUME RunCleanup, UNCHANGED history PROVE RateInv'
    <2>1. \A ip \in Ips : HasEntry(ip)' => connections_'[ip] = connections_[ip]
      BY <1>8 DEF RunCleanup, Cleanup, HasEntry
    <2> QED
      BY <1>8, <2>1, RateInvSame
  <1>9. CASE Uncounted
    <2>1. ASSUME NEW m \in MaxPerIpChoices, Reload(m) PROVE connections_' = connections_
      BY <2>1 DEF Reload, SetMaxPerIp
    <2>2. ASSUME Elapse PROVE connections_' = connections_
      BY <2>2 DEF Elapse, Tick
    <2> QED
      BY <1>3, <1>4, <1>5, <1>6, <1>7, <1>8, <1>9, <2>1, <2>2 DEF Uncounted
  <1>10. CASE UNCHANGED rateVars
    BY <1>4, <1>10 DEF rateVars, useVars
  <1> QED
    BY <1>1, <1>2, <1>9, <1>10 DEF RateNext

(* Requests stay within the burst and the rate for as long as the address   *)
(* keeps a connection open, for every rate, burst and spread of requests.   *)
THEOREM GuardBucketHonoured == RateSpec => []BucketHonoured
  <1>1. RateInv => BucketHonoured
    <2> SUFFICES ASSUME RateInv, NEW ip \in Ips, NEW c \in OpenFrom(ip)
                 PROVE  spent[ip] + connections_[ip].tokens <=
                            Burst + Rps * (connections_[ip].last_refill - born[ip])
      BY DEF BucketHonoured
    <2>1. c \in open /\ IpOf[c] = ip /\ GuardInv
      BY DEF OpenFrom, RateInv
    <2>2. Bucketed(ip)
      BY <2>1, OpenHasEntry DEF Bucketed
    <2> QED
      BY <2>2 DEF RateInv, Covered
  <1> QED
    BY <1>1, RateInvInit, RateInvStep, PTL DEF RateSpec
=============================================================================
