------------------------------- MODULE AntiBot -------------------------------
(***************************************************************************)
(* AntiBotEngine::inspect() of src/anti_bot.cpp and the parts it consults: *)
(* fingerprints, token buckets, the JavaScript challenge and the proof of  *)
(* work.  Threads inspect requests at the same time; each part has a mutex *)
(* of its own, so a thread takes one step in each.  A jar is the cookies   *)
(* of one browser, which may come back from another address.  A token is   *)
(* what it is the digest of, a solution the number of leading zero bits of *)
(* its digest.  GeoIP has no database (load_database() is a stub) and      *)
(* passes every address.                                                   *)
(***************************************************************************)
EXTENDS Integers, FiniteSets

CONSTANTS
    Threads, Ips, Jars, Hashes,
    KnownBots,              \* known_bot_hashes()
    Configs,                \* the checks that are enabled, and whether to tarpit
    Rate, Burst, Window,    \* TokenBucketLimiter::Config, per tick and in ticks
    CookieTtl,              \* JsChallenge::Config::cookie_ttl
    Difficulty,             \* PowChallenge::Config::difficulty
    Bits,                   \* leading zero bits a browser may come to
    NoCookie,
    MaxTime, MaxRequests, MaxAdmin     \* bounds

VARIABLES
    config_,
    clock,
    buckets_,               \* a function on the keys that have a bucket
    adapted,                \* history: keys set_rate() was called for
    grants,                 \* history: requests allow() granted, for each key
    blocked_fingerprints_,
    active_challenges_,     \* ids of challenges
    issued,                 \* history: the number of challenges, tokens handed out
    jar,                    \* the cookies of each browser: js and pow
    pc, inq,                \* per thread: where inspect() stands, its request
    passes,                 \* history: requests that passed with each challenge
    requests, admin         \* how many there were

vars == <<config_, clock, buckets_, adapted, grants, blocked_fingerprints_, active_challenges_,
          issued, jar, pc, inq, passes, requests, admin>>

ASSUME AntiBotAssumption ==
    /\ {Rate, Burst, Window, CookieTtl, Difficulty, MaxTime, MaxRequests, MaxAdmin} \subseteq Nat
    /\ Burst > 0 /\ Bits \subseteq Nat
    /\ Configs \subseteq [ja3 : BOOLEAN, rate : BOOLEAN, js : BOOLEAN, pow : BOOLEAN, tarpit : BOOLEAN]
    /\ Rate * Window >= Burst       \* an idle bucket is full before cleanup() drops it

NoRequest == [ip |-> CHOOSE i \in Ips : TRUE, jar |-> CHOOSE j \in Jars : TRUE,
              hash |-> CHOOSE h \in Hashes : TRUE, js |-> NoCookie, pow |-> NoCookie, blocked |-> FALSE]

Init ==
    /\ config_ \in Configs
    /\ clock = 0
    /\ buckets_ = [k \in {} |-> 0] /\ adapted = {} /\ grants = [k \in Ips |-> 0]
    /\ blocked_fingerprints_ = {}
    /\ active_challenges_ = {}
    /\ issued = [challenges |-> 0, tokens |-> {}]
    /\ jar = [j \in Jars |-> [js |-> NoCookie, pow |-> NoCookie]]
    /\ pc = [t \in Threads |-> "idle"]
    /\ inq = [t \in Threads |-> NoRequest]
    /\ passes = [c \in 1..MaxRequests |-> 0]
    /\ requests = 0 /\ admin = 0

limiterVars == <<buckets_, adapted, grants>>
challengeVars == <<active_challenges_, issued, jar, passes>>
Goto(t, to) == pc' = [pc EXCEPT ![t] = to]

(* The checks in their order, and the one a request that passed the first n *)
(* of them comes to.                                                        *)
Checks == <<"ja3", "rate", "js", "pow">>
Passed(t, n) ==
    LET left == {i \in (n + 1)..4 : config_[Checks[i]]}
    IN  Goto(t, IF left = {} THEN "served" ELSE Checks[CHOOSE i \in left : \A j \in left : i <= j])

(* A request begins with the cookies its browser has, on a TLS connection.  *)
Arrive(t, ip, j, hash) ==
    /\ pc[t] = "idle" /\ requests < MaxRequests
    /\ requests' = requests + 1
    /\ inq' = [inq EXCEPT ![t] = [ip |-> ip, jar |-> j, hash |-> hash, js |-> jar[j].js, pow |-> jar[j].pow,
                                  blocked |-> hash \in blocked_fingerprints_ \cup KnownBots]]
    /\ hash \in KnownBots => config_.ja3       \* else it makes no difference
    /\ Passed(t, 0)
    /\ UNCHANGED <<config_, clock, limiterVars, blocked_fingerprints_, challengeVars, admin>>

BotFingerprint(hash) == hash \in KnownBots \/ hash \in blocked_fingerprints_

Ja3Step(t) ==
    /\ pc[t] = "ja3"
    /\ \/ ~BotFingerprint(inq[t].hash) /\ Passed(t, 1)
       \/ BotFingerprint(inq[t].hash) /\ Goto(t, IF config_.tarpit THEN "tarpit" ELSE "denied")
    /\ UNCHANGED <<config_, clock, limiterVars, blocked_fingerprints_, challengeVars, inq, requests, admin>>

-----------------------------------------------------------------------------
(* TokenBucketLimiter.                                                      *)
Least(a, b) == IF a < b THEN a ELSE b

Refill(b) == [b EXCEPT !.tokens = Least(b.burst, b.tokens + (clock - b.last_refill) * b.rate),
                       !.last_refill = clock]

(* The bucket of a key as allow() finds it: a new one is full.              *)
Found(key) ==
    IF key \in DOMAIN buckets_ THEN Refill(buckets_[key])
    ELSE [tokens |-> Burst, rate |-> Rate, burst |-> Burst, last_refill |-> clock]

PutBucket(key, b) == buckets_' = [k \in DOMAIN buckets_ \cup {key} |-> IF k = key THEN b ELSE buckets_[k]]

(* allow(): takes a token if there is one.                                  *)
Allow(key) ==
    /\ Found(key).tokens >= 1
    /\ PutBucket(key, [Found(key) EXCEPT !.tokens = @ - 1])
    /\ grants' = [grants EXCEPT ![key] = @ + 1]
    /\ UNCHANGED adapted

Reject(key) ==
    /\ Found(key).tokens < 1
    /\ PutBucket(key, Found(key))
    /\ UNCHANGED <<adapted, grants>>

RateStep(t) ==
    /\ pc[t] = "rate"
    /\ \/ Allow(inq[t].ip) /\ Passed(t, 2)
       \/ Reject(inq[t].ip) /\ Goto(t, "denied")
    /\ UNCHANGED <<config_, clock, blocked_fingerprints_, challengeVars, inq, requests, admin>>

(* Only a bucket that exists is changed.                                    *)
SetRate(key, rate, burst) ==
    /\ key \in DOMAIN buckets_
    /\ PutBucket(key, [buckets_[key] EXCEPT !.rate = rate, !.burst = burst])
    /\ adapted' = adapted \cup {key}
    /\ UNCHANGED grants

(* Fault: a bucket is dropped although it is still filling up. *)
IdleTooEarly(b) == clock >= b.last_refill

Idle(b) == clock - b.last_refill > Window

Cleanup ==
    /\ buckets_' = [k \in {i \in DOMAIN buckets_ : ~Idle(buckets_[i])} |-> buckets_[k]]
    /\ UNCHANGED <<adapted, grants>>

-----------------------------------------------------------------------------
(* JsChallenge.  The page of generate_challenge() stores the cookie, if     *)
(* its script runs.                                                         *)
Token(ip, ts) == [ip |-> ip, ts |-> ts]

IsVerified(cookie, ip) ==
    /\ cookie # NoCookie
    /\ clock - cookie.ts <= CookieTtl
    /\ cookie.token = Token(ip, cookie.ts)

JsStep(t) ==
    /\ pc[t] = "js"
    /\ \/ IsVerified(inq[t].js, inq[t].ip) /\ Passed(t, 3) /\ UNCHANGED challengeVars
       \/ /\ ~IsVerified(inq[t].js, inq[t].ip)
          /\ LET token == Token(inq[t].ip, clock) IN
             /\ issued' = [issued EXCEPT !.tokens = @ \cup {token}]
             /\ jar' \in {jar, [jar EXCEPT ![inq[t].jar].js = [ts |-> clock, token |-> token]]}
          /\ Goto(t, "denied") /\ UNCHANGED <<active_challenges_, passes>>
    /\ UNCHANGED <<config_, clock, limiterVars, blocked_fingerprints_, inq, requests, admin>>

-----------------------------------------------------------------------------
(* PowChallenge.  verify_solution() counts whole zero nibbles, then the     *)
(* bits that are left; the script of the page looks at the nibbles only.    *)
Nibbles(bits) == bits \div 4

(* What the page's script takes for a solution. *)
SolvesNibbles(bits) == Nibbles(bits) >= Nibbles(Difficulty)

Solves(bits) ==
    /\ Nibbles(bits) >= Nibbles(Difficulty)
    /\ Difficulty % 4 > 0 => bits >= Difficulty

(* Fault: a challenge that was solved stays active. *)
ConsumeNothing(id) == UNCHANGED active_challenges_

Consume(id) == active_challenges_' = active_challenges_ \ {id}

Solved(cookie) == cookie # NoCookie /\ cookie.id \in active_challenges_ /\ Solves(cookie.bits)

(* A solution is taken and the request served.                              *)
PowAccepts(t) ==
    /\ Solved(inq[t].pow)
    /\ Consume(inq[t].pow.id)
    /\ passes' = [passes EXCEPT ![inq[t].pow.id] = @ + 1]
    /\ Passed(t, 4) /\ UNCHANGED <<issued, jar>>

PowRefuses(t) ==
    /\ ~Solved(inq[t].pow)
    /\ Goto(t, "issue") /\ UNCHANGED challengeVars

PowStep(t) ==
    /\ pc[t] = "pow"
    /\ PowAccepts(t) \/ PowRefuses(t)
    /\ UNCHANGED <<config_, clock, limiterVars, blocked_fingerprints_, inq, requests, admin>>

(* generate_challenge(), and the cookie its page stores once the script has *)
(* found a digest it takes for a solution.                                  *)
IssueStep(t) ==
    /\ pc[t] = "issue"
    /\ LET id == issued.challenges + 1 IN
       /\ issued' = [issued EXCEPT !.challenges = id]
       /\ active_challenges_' = active_challenges_ \cup {id}
       /\ jar' \in {jar} \cup
             {[jar EXCEPT ![inq[t].jar].pow = [id |-> id, bits |-> b]] : b \in {x \in Bits : SolvesNibbles(x)}}
    /\ Goto(t, "denied")
    /\ UNCHANGED <<config_, clock, limiterVars, blocked_fingerprints_, passes, inq, requests, admin>>

(* The verdict is returned.                                                 *)
Return(t) ==
    /\ pc[t] \in {"served", "denied", "tarpit"}
    /\ Goto(t, "idle")
    /\ inq' = [inq EXCEPT ![t] = NoRequest]
    /\ UNCHANGED <<config_, clock, limiterVars, blocked_fingerprints_, challengeVars, requests, admin>>

Inspect(t) == Ja3Step(t) \/ RateStep(t) \/ JsStep(t) \/ PowStep(t) \/ IssueStep(t) \/ Return(t)

-----------------------------------------------------------------------------
BlockFingerprint(hash) ==
    blocked_fingerprints_' = blocked_fingerprints_ \cup {hash} /\ UNCHANGED limiterVars

(* Calls of the parts from outside, and the clock.                          *)
Administer ==
    /\ admin < MaxAdmin
    /\ admin' = admin + 1
    /\ \/ \E h \in Hashes : config_.ja3 /\ BlockFingerprint(h)
       \/ /\ config_.rate /\ UNCHANGED blocked_fingerprints_
          /\ Cleanup \/ \E key \in Ips : SetRate(key, 0, 1)
    /\ UNCHANGED <<config_, clock, challengeVars, pc, inq, requests>>

Tick ==
    /\ clock < MaxTime
    /\ clock' = clock + 1
    /\ UNCHANGED <<config_, limiterVars, blocked_fingerprints_, challengeVars, pc, inq, requests, admin>>

Next ==
    \/ \E t \in Threads, ip \in Ips, j \in Jars, hash \in Hashes : Arrive(t, ip, j, hash)
    \/ \E t \in Threads : Inspect(t)
    \/ Administer
    \/ Tick

Spec == Init /\ [][Next]_vars

-----------------------------------------------------------------------------
(* The shapes of the variables: a bucket holds 0 to burst tokens, and what  *)
(* active_challenges_ holds was issued.                                     *)
TypeOK ==
    /\ pc \in [Threads -> {"idle", "ja3", "rate", "js", "pow", "issue", "served", "denied", "tarpit"}]
    /\ DOMAIN buckets_ \subseteq Ips
    /\ \A k \in DOMAIN buckets_ : buckets_[k].tokens \in 0..Burst /\ buckets_[k].last_refill \in 0..clock
    /\ active_challenges_ \subseteq 1..issued.challenges

(* A key whose rate nobody changed is granted its burst and then Rate for   *)
(* each tick, whatever requests are refused between and however often       *)
(* cleanup() drops its bucket.                                              *)
GrantedWithinRate == \A k \in Ips \ adapted : grants[k] <= Burst + Rate * clock

(* A fingerprint that was blocked before inspect() began is not served.     *)
BlockedNotServed ==
    \A t \in Threads : config_.ja3 /\ pc[t] \in {"rate", "js", "pow", "issue", "served"} => ~inq[t].blocked

(* Neither the rate nor the block list can be got around by the order of    *)
(* requests, by cleanup() or by a second thread.                            *)
LimitsKept == TypeOK /\ GrantedWithinRate /\ BlockedNotServed

(* A cookie that lets a request through was handed out at the address the   *)
(* request comes from, and no longer ago than it lives, whatever happened   *)
(* between the challenge and the reload.                                    *)
CookieHonoured ==
    [][\A t \in Threads : pc[t] = "js" /\ pc'[t] \in {"pow", "served"} =>
          \E token \in issued.tokens : token.ip = inq[t].ip /\ clock - token.ts <= CookieTtl]_vars

(* A challenge lets one request through, even if two threads are shown its  *)
(* solution at the same time.                                               *)
ChallengeUsedOnce == \A c \in 1..MaxRequests : passes[c] <= 1

(* It does so for all of the work asked for, although the page stops its    *)
(* search at whole nibbles.                                                 *)
WorkWasDone ==
    [][\A t \in Threads : pc[t] = "pow" /\ pc'[t] = "served" =>
          inq[t].pow.bits >= Difficulty]_vars

(* Whoever passes a challenge has earned it: a cookie of its own that is    *)
(* still valid, and all of the work.                                        *)
PassesEarned == CookieHonoured /\ WorkWasDone
=============================================================================
