---------------------------- MODULE AntiBotProofs ----------------------------
(***************************************************************************)
(* Proofs about AntiBot, for any threads, addresses, browsers and          *)
(* configurations of its parts.                                            *)
(***************************************************************************)
EXTENDS AntiBot, TLAPS

States == {"idle", "ja3", "rate", "js", "pow", "issue", "served", "denied", "tarpit"}
Bucket == [tokens : 0..Burst, rate : Nat, burst : 0..Burst, last_refill : Nat]

(* A cookie is none or what a page of the server stored: its token is one   *)
(* that was handed out, its solution one a browser came to.                 *)
JsCookies == {NoCookie} \cup [ts : Nat, token : issued.tokens]
PowCookies == {NoCookie} \cup [id : Nat, bits : Bits]

Cookies == [js : JsCookies, pow : PowCookies]
Requests == [ip : Ips, jar : Jars, hash : Hashes, js : JsCookies, pow : PowCookies,
             blocked : BOOLEAN]

Shapes ==
    /\ config_ \in Configs
    /\ clock \in Nat
    /\ pc \in [Threads -> States]
    /\ issued \in [challenges : Nat, tokens : SUBSET [ip : Ips, ts : Nat]]
    /\ jar \in [Jars -> Cookies]
    /\ \A t \in Threads : pc[t] # "idle" => inq[t] \in Requests
    /\ DOMAIN inq = Threads

(* What a bucket gave out and still holds is covered by its burst and what  *)
(* it accrued; an address without a bucket is owed a full one, because      *)
(* cleanup() drops none that could not be full by then.                     *)
Accrued(k) ==
    IF k \in DOMAIN buckets_
    THEN /\ buckets_[k].rate = Rate /\ buckets_[k].burst = Burst
         /\ grants[k] + buckets_[k].tokens <= Burst + Rate * buckets_[k].last_refill
    ELSE grants[k] <= Rate * clock

LimiterSound ==
    /\ DOMAIN buckets_ \subseteq Ips
    /\ \A k \in DOMAIN buckets_ : buckets_[k] \in Bucket /\ buckets_[k].last_refill <= clock
    /\ grants \in [Ips -> Nat]
    /\ \A k \in Ips \ adapted : Accrued(k)

(* A challenge is active, or let one request through, or neither; never     *)
(* both.                                                                    *)
ChallengesSound ==
    /\ active_challenges_ \subseteq 1..issued.challenges
    /\ passes \in [1..MaxRequests -> Nat]
    /\ \A c \in 1..MaxRequests :
          /\ passes[c] <= 1
          /\ c \in active_challenges_ \/ c > issued.challenges => passes[c] = 0

(* A request that was blocked when it came is still blocked: nothing        *)
(* removes a fingerprint from the list.                                     *)
BlockingSound ==
    /\ \A t \in Threads :
          /\ pc[t] # "idle" /\ inq[t].blocked => BotFingerprint(inq[t].hash)
    /\ BlockedNotServed

AntiBotInv == Shapes /\ LimiterSound /\ ChallengesSound /\ BlockingSound

-----------------------------------------------------------------------------
(* Where the checks lead: to one that was not made yet, in their order, or  *)
(* to the end.                                                              *)
LEMMA PassedLeads ==
    ASSUME NEW t \in Threads, NEW n \in 0..4, Passed(t, n), config_ \in Configs
    PROVE  \E to \in {"ja3", "rate", "js", "pow", "served"} :
              /\ pc' = [pc EXCEPT ![t] = to]
              /\ n = 0 /\ config_.ja3 => to = "ja3"
              /\ n >= 1 => to # "ja3"
              /\ n >= 3 => to \in {"pow", "served"}
              /\ n = 4 => to = "served"
  <1> DEFINE left == {i \in (n + 1)..4 : config_[Checks[i]]}
             first == CHOOSE i \in left : \A j \in left : i <= j
             next == IF left = {} THEN "served" ELSE Checks[first]
  <1>1. pc' = [pc EXCEPT ![t] = next]
    BY DEF Passed, Goto
  <1>2. left \subseteq 1..4 /\ (\A i \in left : i > n)
    OBVIOUS
  <1>3. n = 0 /\ config_.ja3 => 1 \in left
    BY DEF Checks
  <1> HIDE DEF left
  <1>4. left # {} => \E i \in left : \A j \in left : i <= j
    <2>1. \A i \in left : i = 1 \/ i = 2 \/ i = 3 \/ i = 4
      BY <1>2
    <2>2. CASE 1 \in left
      BY <2>1, <2>2
    <2>3. CASE 1 \notin left /\ 2 \in left
      BY <2>1, <2>3
    <2>4. CASE 1 \notin left /\ 2 \notin left /\ 3 \in left
      BY <2>1, <2>4
    <2>5. CASE 1 \notin left /\ 2 \notin left /\ 3 \notin left
      BY <2>1, <2>5
    <2> QED
      BY <2>2, <2>3, <2>4, <2>5
  <1>5. left # {} => first \in left /\ \A j \in left : first <= j
    BY <1>4
  <1>6. left # {} => first \in 1..4 /\ first > n /\ (n = 0 /\ config_.ja3 => first = 1)
    <2> HIDE DEF first
    <2>1. left # {} => first \in 1..4 /\ first > n
      BY <1>2, <1>5
    <2>2. n = 0 /\ config_.ja3 => 1 \in left
      BY <1>3
    <2>3. 1 \in left => first <= 1
      BY <1>5
    <2> QED
      BY <2>1, <2>2, <2>3
  <1>7. /\ Checks[1] = "ja3" /\ Checks[2] = "rate" /\ Checks[3] = "js" /\ Checks[4] = "pow"
    BY DEF Checks
  <1>8. /\ next \in {"ja3", "rate", "js", "pow", "served"}
        /\ n = 0 /\ config_.ja3 => next = "ja3"
        /\ n >= 1 => next # "ja3"
        /\ n >= 3 => next \in {"pow", "served"}
        /\ n = 4 => next = "served"
    <2>1. CASE left = {}
      BY <1>3, <2>1
    <2>2. CASE left # {}
      <3>1. first = 1 \/ first = 2 \/ first = 3 \/ first = 4
        BY <1>6, <2>2
      <3>2. next = Checks[first]
        BY <2>2
      <3>3. first > n /\ (n = 0 /\ config_.ja3 => first = 1)
        BY <1>6, <2>2
      <3> HIDE DEF first, next
      <3>4. CASE first = 1
        BY <1>7, <3>2, <3>3, <3>4
      <3>5. CASE first = 2
        BY <1>7, <3>2, <3>3, <3>5
      <3>6. CASE first = 3
        BY <1>7, <3>2, <3>3, <3>6
      <3>7. CASE first = 4
        BY <1>7, <3>2, <3>3, <3>7
      <3> QED
        BY <3>1, <3>4, <3>5, <3>6, <3>7
    <2> QED
      BY <2>1, <2>2
  <1> HIDE DEF next
  <1> QED
    BY <1>1, <1>8

(* A solution that verify_solution() takes has all the bits asked for: the  *)
(* test of the whole nibbles is enough when no bits are left over.          *)
LEMMA SolvesIsEnough ==
    ASSUME NEW bits \in Nat, Solves(bits)
    PROVE  bits >= Difficulty
  <1>1. Difficulty \in Nat
    BY AntiBotAssumption
  <1>2. bits \div 4 >= Difficulty \div 4 /\ (Difficulty % 4 > 0 => bits >= Difficulty)
    BY DEF Solves, Nibbles
  <1> QED
    BY <1>1, <1>2

-----------------------------------------------------------------------------
(* TokenBucketLimiter.                                                      *)

(* The numbers of the configurations.                                       *)
LEMMA ConstantsTyped ==
    /\ Rate \in Nat /\ Burst \in Nat /\ Window \in Nat /\ Difficulty \in Nat
    /\ MaxRequests \in Nat /\ Burst >= 1 /\ Bits \subseteq Nat
    /\ Burst <= Rate * Window
  BY AntiBotAssumption

(* The product is monotone: more time accrues no less.                      *)
LEMMA ProductMonotone ==
    ASSUME NEW r \in Nat, NEW a \in Nat, NEW b \in Nat, a <= b
    PROVE  r * a \in Nat /\ r * b \in Nat /\ r * a <= r * b
  <1>1. PICK d \in Nat : b = a + d
    <2>1. b - a \in Nat /\ b = a + (b - a)
      OBVIOUS
    <2> QED
      BY <2>1
  <1>2. r * a \in Nat /\ r * d \in Nat
    OBVIOUS
  <1>3. r * b = r * a + r * d
    BY <1>1
  <1> QED
    BY <1>2, <1>3

(* The bucket allow() looks at: within its burst, up to date, and for an    *)
(* address nobody adapted no richer than time allows.                       *)
LEMMA FoundSound ==
    ASSUME LimiterSound, clock \in Nat, NEW k \in Ips
    PROVE  /\ Found(k) \in Bucket /\ Found(k).last_refill = clock
           /\ k \notin adapted =>
                  /\ Found(k).rate = Rate /\ Found(k).burst = Burst
                  /\ grants[k] + Found(k).tokens <= Burst + Rate * clock
  <1> USE ConstantsTyped
  <1>0. grants[k] \in Nat
    BY DEF LimiterSound
  <1>1. CASE k \in DOMAIN buckets_
    <2> DEFINE b == buckets_[k]
               gained == (clock - b.last_refill) * b.rate
               level == Least(b.burst, b.tokens + gained)
    <2>1. b \in Bucket /\ b.last_refill <= clock
      BY <1>1 DEF LimiterSound
    <2>2. clock - b.last_refill \in Nat /\ b.rate \in Nat /\ b.burst \in 0..Burst /\ b.tokens \in 0..Burst
          /\ b.last_refill \in Nat
      BY <2>1 DEF Bucket
    <2>3. gained \in Nat
      BY <2>2
    <2>4. Found(k) = [b EXCEPT !.tokens = level, !.last_refill = clock]
      BY <1>1 DEF Found, Refill
    <2>5. level \in 0..Burst /\ level <= b.tokens + gained
      <3> HIDE DEF gained, b
      <3> QED
        BY <2>2, <2>3 DEF Least
    <2>6. /\ Found(k) \in Bucket /\ Found(k).last_refill = clock /\ Found(k).tokens = level
          /\ Found(k).rate = b.rate /\ Found(k).burst = b.burst
      <3> HIDE DEF level, b
      <3> QED
        BY <2>1, <2>4, <2>5 DEF Bucket
    <2>7. ASSUME k \notin adapted
          PROVE  /\ b.rate = Rate /\ b.burst = Burst
                 /\ grants[k] + level <= Burst + Rate * clock
      <3>1. /\ b.rate = Rate /\ b.burst = Burst
            /\ grants[k] + b.tokens <= Burst + Rate * b.last_refill
        BY <1>1, <2>7 DEF LimiterSound, Accrued
      <3>2. Rate * b.last_refill + gained = Rate * clock
        BY <2>2, <3>1
      <3>3. Rate * b.last_refill \in Nat /\ Rate * clock \in Nat
        BY <2>2
      <3> QED
        <4> DEFINE had == Rate * b.last_refill
                   have == Rate * clock
        <4>1. had \in Nat /\ have \in Nat /\ had + gained = have
              /\ grants[k] + b.tokens <= Burst + had
          BY <3>1, <3>2, <3>3
        <4> HIDE DEF had, have, gained, level, b
        <4>2. grants[k] + level <= Burst + have
          BY <1>0, <2>2, <2>3, <2>5, <4>1
        <4> QED
          BY <3>1, <4>2 DEF have, b
    <2> QED
      BY <2>6, <2>7
  <1>2. CASE k \notin DOMAIN buckets_
    <2>1. Found(k) = [tokens |-> Burst, rate |-> Rate, burst |-> Burst, last_refill |-> clock]
      BY <1>2 DEF Found
    <2>2. Found(k) \in Bucket /\ Found(k).last_refill = clock /\ Found(k).tokens = Burst
          /\ Found(k).rate = Rate /\ Found(k).burst = Burst
      BY <2>1 DEF Bucket
    <2>3. k \notin adapted => grants[k] <= Rate * clock
      BY <1>2 DEF LimiterSound, Accrued
    <2>4. Rate * clock \in Nat
      OBVIOUS
    <2> QED
      BY <1>0, <2>2, <2>3, <2>4
  <1> QED
    BY <1>1, <1>2

(* Putting a sound bucket in its place keeps the limiter sound.             *)
LEMMA PutSound ==
    ASSUME LimiterSound, clock \in Nat, clock' = clock,
           NEW k \in Ips, NEW b \in Bucket, b.last_refill <= clock, PutBucket(k, b),
           adapted \subseteq adapted', grants' \in [Ips -> Nat],
           \A i \in Ips \ {k} : grants'[i] = grants[i],
           k \notin adapted' => /\ b.rate = Rate /\ b.burst = Burst
                                /\ grants'[k] + b.tokens <= Burst + Rate * b.last_refill
    PROVE  LimiterSound'
  <1>1. DOMAIN buckets_' = DOMAIN buckets_ \cup {k} /\ buckets_'[k] = b
        /\ \A i \in DOMAIN buckets_ \ {k} : buckets_'[i] = buckets_[i]
    BY DEF PutBucket
  <1>2. DOMAIN buckets_' \subseteq Ips
    BY <1>1 DEF LimiterSound
  <1>3. \A i \in DOMAIN buckets_' : buckets_'[i] \in Bucket /\ buckets_'[i].last_refill <= clock'
    BY <1>1 DEF LimiterSound
  <1>4. \A i \in Ips \ adapted' : Accrued(i)'
    <2> SUFFICES ASSUME NEW i \in Ips \ adapted' PROVE Accrued(i)'
      OBVIOUS
    <2>1. CASE i = k
      BY <1>1, <2>1 DEF Accrued
    <2>2. CASE i # k
      <3>1. Accrued(i) /\ grants'[i] = grants[i]
        BY <2>2 DEF LimiterSound
      <3> QED
        BY <1>1, <2>2, <3>1 DEF Accrued
    <2> QED
      BY <2>1, <2>2
  <1>5. Bucket' = Bucket
    BY DEF Bucket
  <1> QED
    BY <1>2, <1>3, <1>4, <1>5 DEF LimiterSound

(* No step lets an address have more than its rate.                         *)
LEMMA LimiterStep ==
    ASSUME AntiBotInv, [Next]_vars
    PROVE  LimiterSound'
  <1> USE ConstantsTyped
  <1>0. LimiterSound /\ clock \in Nat
    BY DEF AntiBotInv, Shapes
  <1>1. ASSUME UNCHANGED limiterVars, clock' = clock PROVE LimiterSound'
    BY <1>0, <1>1 DEF limiterVars, LimiterSound, Accrued, Bucket
  <1>2. ASSUME NEW t \in Threads, RateStep(t) PROVE LimiterSound'
    <2>1. pc[t] = "rate" /\ clock' = clock /\ inq[t].ip \in Ips
      BY <1>2 DEF RateStep, AntiBotInv, Shapes, Requests
    <2>2. PICK k \in Ips : k = inq[t].ip
      BY <2>1
    <2> DEFINE f == Found(k)
    <2>3. /\ f \in Bucket /\ f.last_refill = clock
          /\ k \notin adapted => /\ f.rate = Rate /\ f.burst = Burst
                                 /\ grants[k] + f.tokens <= Burst + Rate * clock
      BY <1>0, FoundSound
    <2>4. grants[k] \in Nat /\ Rate * clock \in Nat
      BY <1>0 DEF LimiterSound
    <2> HIDE DEF f
    <2>5. CASE Allow(k)
      <3> DEFINE b == [f EXCEPT !.tokens = @ - 1]
      <3>1. f.tokens >= 1 /\ PutBucket(k, b) /\ grants' = [grants EXCEPT ![k] = @ + 1] /\ adapted' = adapted
        BY <2>5 DEF Allow, f
      <3>2. /\ b \in Bucket /\ b.last_refill = clock /\ b.rate = f.rate /\ b.burst = f.burst
            /\ b.tokens = f.tokens - 1 /\ f.tokens \in 0..Burst
        BY <2>3, <3>1 DEF Bucket
      <3>3. grants' \in [Ips -> Nat] /\ grants'[k] = grants[k] + 1
            /\ \A i \in Ips \ {k} : grants'[i] = grants[i]
        BY <1>0, <3>1 DEF LimiterSound
      <3>4. grants'[k] + b.tokens = grants[k] + f.tokens
        BY <2>4, <3>2, <3>3
      <3> HIDE DEF b
      <3> QED
        BY <1>0, <2>1, <2>3, <3>1, <3>2, <3>3, <3>4, PutSound
    <2>6. CASE Reject(k)
      <3>1. PutBucket(k, f) /\ grants' = grants /\ adapted' = adapted
        BY <2>6 DEF Reject, f
      <3>2. grants' \in [Ips -> Nat]
        BY <1>0, <3>1 DEF LimiterSound
      <3> QED
        BY <1>0, <2>1, <2>3, <3>1, <3>2, PutSound
    <2> QED
      BY <1>2, <2>2, <2>5, <2>6 DEF RateStep
  <1>3. CASE Administer
    <2>1. clock' = clock
      BY <1>3 DEF Administer
    <2>2. ASSUME NEW h \in Hashes, BlockFingerprint(h) PROVE LimiterSound'
      BY <1>1, <2>1, <2>2 DEF BlockFingerprint
    <2>3. ASSUME NEW k \in Ips, SetRate(k, 0, 1) PROVE LimiterSound'
      <3> DEFINE o == buckets_[k]
                 b == [o EXCEPT !.rate = 0, !.burst = 1]
      <3>1. k \in DOMAIN buckets_ /\ PutBucket(k, b) /\ adapted' = adapted \cup {k} /\ grants' = grants
        BY <2>3 DEF SetRate
      <3>2. o \in Bucket /\ o.last_refill <= clock
        BY <1>0, <3>1 DEF LimiterSound
      <3>3. b \in Bucket /\ b.last_refill = o.last_refill
        <4> HIDE DEF o
        <4>1. 1 \in 0..Burst /\ 0 \in Nat
          OBVIOUS
        <4>2. PICK one \in 0..Burst : one = 1
          BY <4>1
        <4>3. [o EXCEPT !.rate = 0, !.burst = one] \in Bucket
          BY <3>2, <4>1 DEF Bucket
        <4>4. [o EXCEPT !.rate = 0, !.burst = one].last_refill = o.last_refill
          BY <3>2 DEF Bucket
        <4> QED
          BY <4>2, <4>3, <4>4
      <3>4. grants' \in [Ips -> Nat]
        BY <1>0, <3>1 DEF LimiterSound
      <3> HIDE DEF b, o
      <3> QED
        BY <1>0, <2>1, <3>1, <3>2, <3>3, <3>4, PutSound
    <2>4. ASSUME Cleanup PROVE LimiterSound'
      <3>1. /\ DOMAIN buckets_' = {i \in DOMAIN buckets_ : ~Idle(buckets_[i])}
            /\ \A i \in DOMAIN buckets_' : buckets_'[i] = buckets_[i]
            /\ adapted' = adapted /\ grants' = grants
        BY <2>4 DEF Cleanup
      <3>2. \A i \in Ips \ adapted' : Accrued(i)'
        <4> SUFFICES ASSUME NEW i \in Ips \ adapted' PROVE Accrued(i)'
          OBVIOUS
        <4>1. Accrued(i) /\ grants[i] \in Nat
          BY <1>0, <3>1 DEF LimiterSound
        <4>2. CASE i \in DOMAIN buckets_'
          BY <3>1, <4>1, <4>2 DEF Accrued
        <4>3. CASE i \notin DOMAIN buckets_
          BY <2>1, <3>1, <4>1, <4>3 DEF Accrued
        <4>4. CASE i \in DOMAIN buckets_ /\ i \notin DOMAIN buckets_'
          <5>1. Idle(buckets_[i])
            BY <3>1, <4>4
          <5> DEFINE last == buckets_[i].last_refill
                     kept == buckets_[i].tokens
          <5>2. last \in Nat /\ kept \in Nat
            BY <1>0, <4>4 DEF LimiterSound, Bucket
          <5>3. Window + last <= clock
            BY <1>0, <5>1, <5>2 DEF Idle
          <5>4. grants[i] + kept <= Burst + Rate * last
            BY <4>1, <4>4 DEF Accrued
          <5> HIDE DEF last, kept
          <5>5. Rate * (Window + last) <= Rate * clock
            BY <1>0, <5>2, <5>3, ProductMonotone
          <5>6. Rate * (Window + last) = Rate * Window + Rate * last
            BY <5>2
          <5>7. Rate * Window \in Nat /\ Rate * last \in Nat /\ Rate * clock \in Nat
            BY <1>0, <5>2
          <5>8. grants[i] <= Rate * clock
            <6> DEFINE w == Rate * Window
                       l == Rate * last
                       c == Rate * clock
            <6>1. /\ w \in Nat /\ l \in Nat /\ c \in Nat /\ w + l <= c /\ Burst <= w
                  /\ grants[i] + kept <= Burst + l
              BY <5>4, <5>5, <5>6, <5>7
            <6> HIDE DEF w, l, c
            <6>2. grants[i] <= c
              BY <4>1, <5>2, <6>1
            <6> QED
              BY <6>2 DEF c
          <5> QED
            BY <2>1, <3>1, <4>4, <5>8 DEF Accrued
        <4> QED
          BY <4>2, <4>3, <4>4
      <3> QED
        BY <1>0, <2>1, <3>1, <3>2 DEF LimiterSound, Bucket
    <2> QED
      BY <1>3, <2>2, <2>3, <2>4 DEF Administer
  <1>4. CASE Tick
    <2>1. clock' = clock + 1 /\ UNCHANGED <<buckets_, adapted, grants>>
      BY <1>4 DEF Tick, limiterVars
    <2>2. Rate * clock \in Nat /\ Rate * (clock + 1) \in Nat /\ Rate * clock <= Rate * (clock + 1)
      BY <1>0, ProductMonotone
    <2>3. \A i \in Ips \ adapted : Accrued(i)'
      <3> SUFFICES ASSUME NEW i \in Ips \ adapted PROVE Accrued(i)'
        OBVIOUS
      <3>1. Accrued(i) /\ grants[i] \in Nat
        BY <1>0 DEF LimiterSound
      <3> QED
        BY <2>1, <2>2, <3>1 DEF Accrued
    <2>4. \A k \in DOMAIN buckets_ : buckets_[k] \in Bucket /\ buckets_[k].last_refill <= clock + 1
      BY <1>0 DEF LimiterSound, Bucket
    <2> QED
      BY <1>0, <2>1, <2>3, <2>4 DEF LimiterSound, Bucket
  <1>5. ASSUME NEW t \in Threads, NEW ip \in Ips, NEW j \in Jars, NEW h \in Hashes, Arrive(t, ip, j, h)
        PROVE  LimiterSound'
    BY <1>1, <1>5 DEF Arrive
  <1>6. ASSUME NEW t \in Threads, Inspect(t) PROVE LimiterSound'
    BY <1>1, <1>2, <1>6 DEF Inspect, Ja3Step, JsStep, PowStep, IssueStep, Return
  <1>7. CASE UNCHANGED vars
    BY <1>1, <1>7 DEF vars, limiterVars
  <1> QED
    BY <1>3, <1>4, <1>5, <1>6, <1>7 DEF Next

-----------------------------------------------------------------------------
(* The shapes, and with them where every cookie came from.                  *)

(* Tokens are only handed out, so what was a cookie stays one.              *)
LEMMA CookiesGrow ==
    ASSUME issued.tokens \subseteq issued'.tokens
    PROVE  Cookies \subseteq Cookies' /\ Requests \subseteq Requests'
  <1>1. JsCookies \subseteq JsCookies' /\ PowCookies' = PowCookies
    BY DEF JsCookies, PowCookies
  <1> QED
    BY <1>1 DEF Cookies, Requests

(* A step of inspect() moves one thread, which was not idle, and keeps its  *)
(* request or forgets it.                                                   *)
LEMMA InspectMoves ==
    ASSUME Shapes, NEW t \in Threads, Inspect(t)
    PROVE  /\ pc[t] # "idle"
           /\ \E to \in States :
                 /\ pc' = [pc EXCEPT ![t] = to]
                 /\ inq' = inq \/ (to = "idle" /\ inq' = [inq EXCEPT ![t] = NoRequest])
           /\ config_' = config_ /\ clock' = clock /\ requests' = requests
  <1>0. config_ \in Configs
    BY DEF Shapes
  <1>1. ASSUME NEW n \in 0..4, Passed(t, n) PROVE \E to \in States : pc' = [pc EXCEPT ![t] = to]
    BY <1>0, <1>1, PassedLeads DEF States
  <1>2. ASSUME NEW to \in {"tarpit", "denied", "issue", "idle"}, Goto(t, to)
        PROVE  \E s \in States : pc' = [pc EXCEPT ![t] = s]
    BY <1>2 DEF Goto, States
  <1>3. CASE Ja3Step(t)
    BY <1>1, <1>2, <1>3 DEF Ja3Step
  <1>4. CASE RateStep(t)
    BY <1>1, <1>2, <1>4 DEF RateStep
  <1>5. CASE JsStep(t)
    BY <1>1, <1>2, <1>5 DEF JsStep
  <1>6. CASE PowStep(t)
    BY <1>1, <1>2, <1>6 DEF PowStep, PowAccepts, PowRefuses
  <1>7. CASE IssueStep(t)
    BY <1>2, <1>7 DEF IssueStep
  <1>8. CASE Return(t)
    BY <1>8 DEF Return, Goto, States
  <1> QED
    BY <1>3, <1>4, <1>5, <1>6, <1>7, <1>8 DEF Inspect

(* A step of inspect() hands out tokens and takes none back, and a browser  *)
(* stores only cookies the server made.                                     *)
LEMMA InspectIssues ==
    ASSUME Shapes, NEW t \in Threads, Inspect(t)
    PROVE  /\ issued' \in [challenges : Nat, tokens : SUBSET [ip : Ips, ts : Nat]]
           /\ issued.tokens \subseteq issued'.tokens
           /\ jar' \in [Jars -> Cookies']
  <1>0. /\ issued \in [challenges : Nat, tokens : SUBSET [ip : Ips, ts : Nat]]
        /\ jar \in [Jars -> Cookies] /\ clock \in Nat
    BY DEF Shapes
  <1>1. ASSUME UNCHANGED <<issued, jar>>
        PROVE  /\ issued' \in [challenges : Nat, tokens : SUBSET [ip : Ips, ts : Nat]]
               /\ issued.tokens \subseteq issued'.tokens
               /\ jar' \in [Jars -> Cookies']
    BY <1>0, <1>1 DEF Cookies, JsCookies, PowCookies
  <1>2. CASE JsStep(t) /\ ~UNCHANGED challengeVars
    <2>1. pc[t] = "js"
      BY <1>2 DEF JsStep
    <2>2. inq[t].ip \in Ips /\ inq[t].jar \in Jars
      BY <2>1 DEF Shapes, Requests
    <2> DEFINE token == Token(inq[t].ip, clock)
               cookie == [ts |-> clock, token |-> token]
    <2>3. /\ issued' = [issued EXCEPT !.tokens = @ \cup {token}]
          /\ jar' \in {jar, [jar EXCEPT ![inq[t].jar].js = cookie]}
      BY <1>2 DEF JsStep
    <2>4. token \in [ip : Ips, ts : Nat]
      BY <1>0, <2>2 DEF Token
    <2> HIDE DEF token
    <2>5. issued' \in [challenges : Nat, tokens : SUBSET [ip : Ips, ts : Nat]]
          /\ issued'.tokens = issued.tokens \cup {token}
      BY <1>0, <2>3, <2>4
    <2>6. cookie \in JsCookies' /\ Cookies \subseteq Cookies'
      BY <1>0, <2>5, CookiesGrow DEF JsCookies
    <2> HIDE DEF cookie
    <2>7. jar' \in [Jars -> Cookies']
      <3>1. CASE jar' = jar
        BY <1>0, <2>6, <3>1
      <3>2. CASE jar' = [jar EXCEPT ![inq[t].jar].js = cookie]
        <4>1. jar[inq[t].jar] \in Cookies'
          BY <1>0, <2>2, <2>6
        <4>2. [jar[inq[t].jar] EXCEPT !.js = cookie] \in Cookies'
          BY <2>6, <4>1 DEF Cookies
        <4> QED
          BY <1>0, <2>2, <2>6, <3>2, <4>2
      <3> QED
        BY <2>3, <3>1, <3>2
    <2> QED
      BY <2>5, <2>7
  <1>3. CASE IssueStep(t)
    <2>1. pc[t] = "issue"
      BY <1>3 DEF IssueStep
    <2>2. inq[t].jar \in Jars
      BY <2>1 DEF Shapes, Requests
    <2> DEFINE id == issued.challenges + 1
    <2>3. /\ issued' = [issued EXCEPT !.challenges = id]
          /\ jar' = jar \/ \E b \in Bits : jar' = [jar EXCEPT ![inq[t].jar].pow = [id |-> id, bits |-> b]]
      BY <1>3 DEF IssueStep
    <2>4. id \in Nat
      BY <1>0
    <2>5. issued' \in [challenges : Nat, tokens : SUBSET [ip : Ips, ts : Nat]]
          /\ issued'.tokens = issued.tokens
      BY <1>0, <2>3, <2>4
    <2>6. Cookies' = Cookies
      BY <2>5 DEF Cookies, JsCookies, PowCookies
    <2> HIDE DEF id
    <2>7. ASSUME NEW b \in Bits, jar' = [jar EXCEPT ![inq[t].jar].pow = [id |-> id, bits |-> b]]
          PROVE  jar' \in [Jars -> Cookies]
      <3>1. [id |-> id, bits |-> b] \in PowCookies
        BY <2>4 DEF PowCookies
      <3>2. jar[inq[t].jar] \in Cookies
        BY <1>0, <2>2
      <3>3. [jar[inq[t].jar] EXCEPT !.pow = [id |-> id, bits |-> b]] \in Cookies
        BY <3>1, <3>2 DEF Cookies
      <3> QED
        BY <1>0, <2>2, <2>7, <3>3
    <2> QED
      BY <1>0, <2>3, <2>5, <2>6, <2>7
  <1> QED
    BY <1>1, <1>2, <1>3
    DEF Inspect, Ja3Step, RateStep, JsStep, PowStep, PowAccepts, PowRefuses, Return, challengeVars

(* Every step keeps the shapes, and an issued token stays issued.           *)
LEMMA ShapesStep ==
    ASSUME Shapes, [Next]_vars
    PROVE  Shapes' /\ issued.tokens \subseteq issued'.tokens
  <1>1. ASSUME UNCHANGED <<config_, pc, issued, jar, inq>>, clock' \in Nat
        PROVE  Shapes' /\ issued.tokens \subseteq issued'.tokens
    BY <1>1 DEF Shapes, Cookies, Requests, JsCookies, PowCookies
  <1>2. ASSUME NEW t \in Threads, NEW ip \in Ips, NEW j \in Jars, NEW h \in Hashes, Arrive(t, ip, j, h)
        PROVE  Shapes' /\ issued.tokens \subseteq issued'.tokens
    <2> DEFINE blocked == h \in blocked_fingerprints_ \cup KnownBots
               request == [ip |-> ip, jar |-> j, hash |-> h, js |-> jar[j].js, pow |-> jar[j].pow,
                           blocked |-> blocked]
    <2>1. UNCHANGED <<config_, clock, issued, jar>> /\ inq' = [inq EXCEPT ![t] = request] /\ Passed(t, 0)
      BY <1>2 DEF Arrive, challengeVars
    <2>2. jar[j].js \in JsCookies /\ jar[j].pow \in PowCookies
      BY DEF Shapes, Cookies
    <2>3. blocked \in BOOLEAN
      OBVIOUS
    <2> HIDE DEF blocked
    <2>4. request \in Requests
      BY <2>2, <2>3 DEF Requests
    <2> HIDE DEF request
    <2>5. PICK to \in States : pc' = [pc EXCEPT ![t] = to]
      BY <2>1, PassedLeads DEF Shapes, States
    <2>6. Requests' = Requests /\ Cookies' = Cookies
      BY <2>1 DEF Requests, Cookies, JsCookies, PowCookies
    <2>7. \A u \in Threads : pc'[u] # "idle" => inq'[u] \in Requests
      BY <2>1, <2>4, <2>5 DEF Shapes
    <2>8. pc' \in [Threads -> States] /\ DOMAIN inq' = Threads
      BY <2>1, <2>5 DEF Shapes
    <2> QED
      BY <2>1, <2>6, <2>7, <2>8 DEF Shapes, States
  <1>3. ASSUME NEW t \in Threads, Inspect(t)
        PROVE  Shapes' /\ issued.tokens \subseteq issued'.tokens
    <2>1. PICK to \in States :
              /\ pc' = [pc EXCEPT ![t] = to]
              /\ inq' = inq \/ (to = "idle" /\ inq' = [inq EXCEPT ![t] = NoRequest])
      BY <1>3, InspectMoves
    <2>2. pc[t] # "idle" /\ config_' = config_ /\ clock' = clock
      BY <1>3, InspectMoves
    <2>3. /\ issued' \in [challenges : Nat, tokens : SUBSET [ip : Ips, ts : Nat]]
          /\ issued.tokens \subseteq issued'.tokens
          /\ jar' \in [Jars -> Cookies']
      BY <1>3, InspectIssues
    <2>4. Requests \subseteq Requests'
      BY <2>3, CookiesGrow
    <2>5. pc' \in [Threads -> States] /\ DOMAIN inq' = Threads
      BY <2>1 DEF Shapes
    <2>6. \A u \in Threads : pc'[u] # "idle" => inq'[u] \in Requests
      <3> SUFFICES ASSUME NEW u \in Threads, pc'[u] # "idle" PROVE inq'[u] \in Requests
        OBVIOUS
      <3>1. pc[u] # "idle" /\ inq'[u] = inq[u]
        BY <2>1, <2>2 DEF Shapes
      <3> QED
        BY <3>1 DEF Shapes
    <2> QED
      BY <2>2, <2>3, <2>4, <2>5, <2>6 DEF Shapes
  <1>4. CASE Administer
    BY <1>1, <1>4 DEF Administer, challengeVars, Shapes
  <1>5. CASE Tick
    BY <1>1, <1>5 DEF Tick, challengeVars, Shapes
  <1>6. CASE UNCHANGED vars
    BY <1>1, <1>6 DEF vars, Shapes
  <1> QED
    BY <1>2, <1>3, <1>4, <1>5, <1>6 DEF Next

-----------------------------------------------------------------------------
(* A challenge that lets a request through is spent in the same step.       *)
LEMMA ChallengesStep ==
    ASSUME AntiBotInv, [Next]_vars
    PROVE  ChallengesSound'
  <1>0. ChallengesSound /\ issued \in [challenges : Nat, tokens : SUBSET [ip : Ips, ts : Nat]]
    BY DEF AntiBotInv, Shapes
  <1>1. ASSUME active_challenges_' = active_challenges_, passes' = passes,
               issued'.challenges = issued.challenges
        PROVE  ChallengesSound'
    BY <1>0, <1>1 DEF ChallengesSound
  <1>2. ASSUME NEW t \in Threads, JsStep(t) PROVE ChallengesSound'
    <2>1. active_challenges_' = active_challenges_ /\ passes' = passes
      BY <1>2 DEF JsStep, challengeVars
    <2>2. issued' = issued \/ \E token : issued' = [issued EXCEPT !.tokens = @ \cup {token}]
      BY <1>2 DEF JsStep, challengeVars
    <2>3. issued'.challenges = issued.challenges
      BY <1>0, <2>2
    <2> QED
      BY <1>1, <2>1, <2>3
  <1>3. ASSUME NEW t \in Threads, PowStep(t) PROVE ChallengesSound'
    <2>1. CASE PowAccepts(t)
      <3>1. PICK id \in active_challenges_ : id = inq[t].pow.id
        BY <2>1 DEF PowAccepts, Solved
      <3>2. /\ active_challenges_' = active_challenges_ \ {id}
            /\ passes' = [passes EXCEPT ![id] = @ + 1] /\ issued' = issued
        BY <2>1, <3>1 DEF PowAccepts, Consume
      <3>3. passes' = [c \in 1..MaxRequests |-> IF c = id THEN 1 ELSE passes[c]]
        <4>1. passes \in [1..MaxRequests -> Nat]
          BY <1>0 DEF ChallengesSound
        <4>2. id \in 1..MaxRequests => passes[id] + 1 = 1
          BY <1>0, <3>1 DEF ChallengesSound
        <4>3. passes' = [c \in 1..MaxRequests |-> IF c = id THEN passes[id] + 1 ELSE passes[c]]
          BY <3>2, <4>1
        <4> QED
          BY <4>2, <4>3
      <3>4. passes' \in [1..MaxRequests -> Nat]
        BY <1>0, <3>3 DEF ChallengesSound
      <3>5. id <= issued.challenges
        BY <1>0, <3>1 DEF ChallengesSound
      <3>6. \A c \in 1..MaxRequests :
               passes'[c] <= 1 /\ (c \in active_challenges_' \/ c > issued'.challenges => passes'[c] = 0)
        <4> SUFFICES ASSUME NEW c \in 1..MaxRequests
                     PROVE  passes'[c] <= 1
                            /\ (c \in active_challenges_' \/ c > issued'.challenges => passes'[c] = 0)
          OBVIOUS
        <4>1. CASE c = id
          BY <1>0, <3>2, <3>3, <3>5, <4>1
        <4>2. CASE c # id
          BY <1>0, <3>2, <3>3, <4>2 DEF ChallengesSound
        <4> QED
          BY <4>1, <4>2
      <3>7. active_challenges_' \subseteq 1..issued'.challenges
        BY <1>0, <3>2 DEF ChallengesSound
      <3> QED
        BY <3>4, <3>6, <3>7 DEF ChallengesSound
    <2>2. CASE PowRefuses(t)
      BY <1>1, <2>2 DEF PowRefuses, challengeVars
    <2> QED
      BY <1>3, <2>1, <2>2 DEF PowStep
  <1>4. ASSUME NEW t \in Threads, IssueStep(t) PROVE ChallengesSound'
    <2> DEFINE id == issued.challenges + 1
    <2>1. /\ issued' = [issued EXCEPT !.challenges = id]
          /\ active_challenges_' = active_challenges_ \cup {id} /\ passes' = passes
      BY <1>4 DEF IssueStep
    <2>2. id \in Nat /\ issued'.challenges = id
      BY <1>0, <2>1
    <2>3. active_challenges_' \subseteq 1..id
      BY <1>0, <2>1 DEF ChallengesSound
    <2>4. \A c \in 1..MaxRequests : c = id \/ c > id => passes[c] = 0
      BY <1>0 DEF ChallengesSound
    <2> QED
      BY <1>0, <2>1, <2>2, <2>3, <2>4 DEF ChallengesSound
  <1>5. ASSUME UNCHANGED challengeVars PROVE ChallengesSound'
    BY <1>1, <1>5 DEF challengeVars
  <1>6. ASSUME NEW t \in Threads, Inspect(t) PROVE ChallengesSound'
    BY <1>2, <1>3, <1>4, <1>5, <1>6 DEF Inspect, Ja3Step, RateStep, Return
  <1>7. ASSUME NEW t \in Threads, NEW ip \in Ips, NEW j \in Jars, NEW h \in Hashes, Arrive(t, ip, j, h)
        PROVE  ChallengesSound'
    BY <1>5, <1>7 DEF Arrive
  <1>8. CASE Administer \/ Tick
    BY <1>5, <1>8 DEF Administer, Tick
  <1>9. CASE UNCHANGED vars
    BY <1>5, <1>9 DEF vars, challengeVars
  <1> QED
    BY <1>6, <1>7, <1>8, <1>9 DEF Next

-----------------------------------------------------------------------------
(* The list of fingerprints only grows.                                     *)
LEMMA BlockListGrows ==
    ASSUME [Next]_vars
    PROVE  blocked_fingerprints_ \subseteq blocked_fingerprints_'
  <1>1. ASSUME NEW t \in Threads, Inspect(t)
        PROVE  blocked_fingerprints_' = blocked_fingerprints_
    BY <1>1 DEF Inspect, Ja3Step, RateStep, JsStep, PowStep, IssueStep, Return
  <1>2. CASE Administer
    BY <1>2 DEF Administer, BlockFingerprint
  <1> QED
    BY <1>1, <1>2 DEF Next, Arrive, Tick, vars

(* Beyond the check of the fingerprint there is no blocked request.         *)
Beyond == {"rate", "js", "pow", "issue", "served"}

(* Every step keeps what a blocked address is owed.                         *)
LEMMA BlockingStep ==
    ASSUME AntiBotInv, [Next]_vars
    PROVE  BlockingSound'
  <1>0. /\ Shapes /\ BlockingSound /\ config_ \in Configs
        /\ blocked_fingerprints_ \subseteq blocked_fingerprints_'
    BY BlockListGrows DEF AntiBotInv, Shapes
  <1>1. \A h : BotFingerprint(h) => BotFingerprint(h)'
    BY <1>0 DEF BotFingerprint
  <1>2. ASSUME UNCHANGED <<config_, pc, inq>> PROVE BlockingSound'
    BY <1>0, <1>1, <1>2 DEF BlockingSound, BlockedNotServed
  <1>3. ASSUME NEW t \in Threads, NEW ip \in Ips, NEW j \in Jars, NEW h \in Hashes, Arrive(t, ip, j, h)
        PROVE  BlockingSound'
    <2> DEFINE blocked == h \in blocked_fingerprints_ \cup KnownBots
               request == [ip |-> ip, jar |-> j, hash |-> h, js |-> jar[j].js, pow |-> jar[j].pow,
                           blocked |-> blocked]
    <2>1. /\ UNCHANGED <<config_, blocked_fingerprints_>> /\ Passed(t, 0)
          /\ inq' = [inq EXCEPT ![t] = request]
      BY <1>3 DEF Arrive
    <2>2. PICK to \in {"ja3", "rate", "js", "pow", "served"} :
             pc' = [pc EXCEPT ![t] = to] /\ (config_.ja3 => to = "ja3")
      BY <1>0, <2>1, PassedLeads
    <2>3. inq'[t].hash = h /\ inq'[t].blocked = (h \in blocked_fingerprints_ \cup KnownBots)
          /\ \A u \in Threads \ {t} : inq'[u] = inq[u]
      BY <1>0, <2>1 DEF Shapes
    <2>4. pc'[t] = to /\ \A u \in Threads \ {t} : pc'[u] = pc[u]
      BY <1>0, <2>2 DEF Shapes
    <2>5. (inq[t].blocked => BotFingerprint(inq[t].hash))'
      <3>1. inq'[t].blocked => h \in blocked_fingerprints_ \/ h \in KnownBots
        BY <2>3
      <3> QED
        BY <2>1, <2>3, <3>1 DEF BotFingerprint
    <2>6. \A u \in Threads : (pc[u] # "idle" /\ inq[u].blocked => BotFingerprint(inq[u].hash))'
      BY <1>0, <1>1, <2>3, <2>4, <2>5 DEF BlockingSound
    <2>7. BlockedNotServed'
      BY <1>0, <2>1, <2>2, <2>3, <2>4 DEF BlockingSound, BlockedNotServed
    <2> QED
      BY <2>6, <2>7 DEF BlockingSound
  <1>4. ASSUME NEW t \in Threads, Inspect(t) PROVE BlockingSound'
    <2>1. PICK to \in States :
              /\ pc' = [pc EXCEPT ![t] = to]
              /\ inq' = inq \/ (to = "idle" /\ inq' = [inq EXCEPT ![t] = NoRequest])
      BY <1>0, <1>4, InspectMoves
    <2>2. pc[t] # "idle" /\ config_' = config_
      BY <1>0, <1>4, InspectMoves
    <2>3. pc'[t] = to /\ \A u \in Threads \ {t} : pc'[u] = pc[u] /\ inq'[u] = inq[u]
      BY <1>0, <2>1 DEF Shapes
    <2>4. to # "idle" => inq' = inq
      BY <2>1
    <2>5. \A u \in Threads : (pc[u] # "idle" /\ inq[u].blocked => BotFingerprint(inq[u].hash))'
      BY <1>0, <1>1, <2>2, <2>3, <2>4 DEF BlockingSound
    <2>6. config_.ja3 /\ to \in Beyond => ~inq[t].blocked
      <3>1. CASE Ja3Step(t)
        <4>1. CASE BotFingerprint(inq[t].hash)
          BY <2>3, <3>1, <4>1, <1>0 DEF Ja3Step, Goto, Beyond, Shapes
        <4>2. CASE ~BotFingerprint(inq[t].hash)
          BY <1>0, <2>2, <4>2 DEF BlockingSound
        <4> QED
          BY <4>1, <4>2
      <3>2. CASE pc[t] \in Beyond
        BY <1>0, <3>2 DEF BlockingSound, BlockedNotServed, Beyond
      <3>3. CASE Return(t)
        BY <1>0, <2>3, <3>3 DEF Return, Goto, Beyond, Shapes
      <3> QED
        BY <1>4, <3>1, <3>2, <3>3
        DEF Inspect, RateStep, JsStep, PowStep, IssueStep, Beyond
    <2>7. BlockedNotServed'
      BY <1>0, <2>2, <2>3, <2>4, <2>6 DEF BlockingSound, BlockedNotServed, Beyond
    <2> QED
      BY <2>5, <2>7 DEF BlockingSound
  <1>5. CASE Administer \/ Tick
    BY <1>2, <1>5 DEF Administer, Tick
  <1>6. CASE UNCHANGED vars
    BY <1>2, <1>6 DEF vars
  <1> QED
    BY <1>3, <1>4, <1>5, <1>6 DEF Next

-----------------------------------------------------------------------------
(* The invariant at the start,                                              *)
LEMMA AntiBotInit == Init => AntiBotInv
  <1> SUFFICES ASSUME Init PROVE AntiBotInv
    OBVIOUS
  <1> USE ConstantsTyped DEF Init
  <1>1. Shapes
    BY DEF Shapes, States, Cookies, JsCookies, PowCookies
  <1>2. LimiterSound
    <2>1. DOMAIN buckets_ = {} /\ clock = 0
      OBVIOUS
    <2>2. grants \in [Ips -> Nat] /\ \A k \in Ips : grants[k] = 0
      OBVIOUS
    <2>3. Rate * 0 = 0
      OBVIOUS
    <2> QED
      BY <2>1, <2>2, <2>3 DEF LimiterSound, Accrued
  <1>3. ChallengesSound
    BY DEF ChallengesSound
  <1>4. BlockingSound
    BY DEF BlockingSound, BlockedNotServed
  <1> QED
    BY <1>1, <1>2, <1>3, <1>4 DEF AntiBotInv

(* and after every step.                                                    *)
LEMMA AntiBotStep == AntiBotInv /\ [Next]_vars => AntiBotInv'
  BY ShapesStep, LimiterStep, ChallengesStep, BlockingStep DEF AntiBotInv

(* In every behaviour of the anti-bot engine its inductive invariant holds. *)
THEOREM AntiBotInvariant == Spec => []AntiBotInv
  BY AntiBotInit, AntiBotStep, PTL DEF Spec

(* The rate limit holds for every rate and burst, through refusals, refills *)
(* and cleanup(), and a fingerprint blocked before a request came is not    *)
(* served, whatever the threads do at the same time.                        *)
THEOREM AntiBotLimitsKept == Spec => []LimitsKept
  <1>1. AntiBotInv => LimitsKept
    <2> SUFFICES ASSUME AntiBotInv PROVE LimitsKept
      OBVIOUS
    <2> USE ConstantsTyped
    <2>1. TypeOK
      BY DEF AntiBotInv, Shapes, States, LimiterSound, Bucket, ChallengesSound, TypeOK
    <2>2. GrantedWithinRate
      <3> SUFFICES ASSUME NEW k \in Ips \ adapted PROVE grants[k] <= Burst + Rate * clock
        BY DEF GrantedWithinRate
      <3>1. LimiterSound /\ clock \in Nat /\ grants[k] \in Nat
        BY DEF AntiBotInv, Shapes, LimiterSound
      <3>2. /\ Found(k) \in Bucket
            /\ grants[k] + Found(k).tokens <= Burst + Rate * clock
        BY <3>1, FoundSound
      <3>3. Found(k).tokens \in Nat /\ Rate * clock \in Nat
        BY <3>1, <3>2 DEF Bucket
      <3> QED
        BY <3>1, <3>2, <3>3
    <2>3. BlockedNotServed
      BY DEF AntiBotInv, BlockingSound
    <2> QED
      BY <2>1, <2>2, <2>3 DEF LimitsKept
  <1> QED
    BY <1>1, AntiBotInvariant, PTL

(* A proof-of-work challenge lets one request through, for any number of    *)
(* threads that are shown its solution at the same time.                    *)
THEOREM AntiBotChallengeUsedOnce == Spec => []ChallengeUsedOnce
  <1>1. AntiBotInv => ChallengeUsedOnce
    BY DEF AntiBotInv, ChallengesSound, ChallengeUsedOnce
  <1> QED
    BY <1>1, AntiBotInvariant, PTL

(* A step moves a thread out of "js" or "pow" only by the step of that      *)
(* thread there.                                                            *)
LEMMA OnlyOwnStep ==
    ASSUME Shapes, [Next]_vars, NEW t \in Threads, pc[t] # "idle", pc'[t] # pc[t]
    PROVE  Inspect(t)
  <1>1. ASSUME NEW u \in Threads, u # t, Inspect(u) PROVE FALSE
    BY <1>1, InspectMoves DEF Shapes
  <1>2. ASSUME NEW u \in Threads, NEW ip \in Ips, NEW j \in Jars, NEW h \in Hashes, Arrive(u, ip, j, h)
        PROVE  FALSE
    <2>1. pc[u] = "idle" /\ Passed(u, 0)
      BY <1>2 DEF Arrive
    <2> QED
      BY <2>1 DEF Passed, Goto, Shapes
  <1> QED
    BY <1>1, <1>2 DEF Next, Administer, Tick, vars

(* Whoever passes a challenge has earned it: with a token that was handed   *)
(* out at this address and is not too old, or with all the work asked for,  *)
(* although the page's script tests whole nibbles only.                     *)
THEOREM AntiBotPassesEarned == Spec => PassesEarned
  <1>1. ASSUME AntiBotInv, [Next]_vars, NEW t \in Threads, pc[t] = "js", pc'[t] \in {"pow", "served"}
        PROVE  \E token \in issued.tokens : token.ip = inq[t].ip /\ clock - token.ts <= CookieTtl
    <2>1. Inspect(t)
      BY <1>1, OnlyOwnStep DEF AntiBotInv
    <2>2. JsStep(t)
      BY <1>1, <2>1 DEF Inspect, Ja3Step, RateStep, PowStep, IssueStep, Return
    <2>3. ~Goto(t, "denied")
      BY <1>1 DEF Goto, AntiBotInv, Shapes
    <2>4. IsVerified(inq[t].js, inq[t].ip)
      BY <2>2, <2>3 DEF JsStep
    <2>5. inq[t].js \in [ts : Nat, token : issued.tokens]
      BY <1>1, <2>4 DEF AntiBotInv, Shapes, Requests, JsCookies, IsVerified
    <2>6. inq[t].js.token \in issued.tokens
      BY <2>5
    <2>7. inq[t].js.token.ip = inq[t].ip /\ inq[t].js.token.ts = inq[t].js.ts
      BY <2>4 DEF IsVerified, Token
    <2> QED
      BY <2>4, <2>6, <2>7 DEF IsVerified
  <1>2. ASSUME AntiBotInv, [Next]_vars, NEW t \in Threads, pc[t] = "pow", pc'[t] = "served"
        PROVE  inq[t].pow.bits >= Difficulty
    <2>1. Inspect(t)
      BY <1>2, OnlyOwnStep DEF AntiBotInv
    <2>2. PowStep(t)
      BY <1>2, <2>1 DEF Inspect, Ja3Step, RateStep, JsStep, IssueStep, Return
    <2>3. ~Goto(t, "issue")
      BY <1>2 DEF Goto, AntiBotInv, Shapes
    <2>4. Solved(inq[t].pow)
      BY <2>2, <2>3 DEF PowStep, PowAccepts, PowRefuses
    <2>5. inq[t].pow \in [id : Nat, bits : Bits]
      BY <1>2, <2>4 DEF AntiBotInv, Shapes, Requests, PowCookies, Solved
    <2>6. inq[t].pow.bits \in Nat
      BY <2>5, ConstantsTyped
    <2> QED
      BY <2>4, <2>6, SolvesIsEnough DEF Solved
  <1>3. AntiBotInv /\ [Next]_vars =>
            [\A t \in Threads : pc[t] = "js" /\ pc'[t] \in {"pow", "served"} =>
                \E token \in issued.tokens : token.ip = inq[t].ip /\ clock - token.ts <= CookieTtl]_vars
    BY <1>1
  <1>4. AntiBotInv /\ [Next]_vars =>
            [\A t \in Threads : pc[t] = "pow" /\ pc'[t] = "served" => inq[t].pow.bits >= Difficulty]_vars
    BY <1>2
  <1> QED
    BY <1>3, <1>4, AntiBotInvariant, PTL DEF Spec, PassesEarned, CookieHonoured, WorkWasDone
=============================================================================
