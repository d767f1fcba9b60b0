------------------------------ MODULE DDoSGuard ------------------------------
(***************************************************************************)
(* The class DDoSGuard of include/ddos_guard.hpp and src/ddos_guard.cpp:   *)
(* the table of per-IP entries, the global connection counter and the      *)
(* operations on them.  Every operation below runs under mutex_, so it is  *)
(* one atomic action; the only unlocked read is GlobalLimitReached, which  *)
(* allow_connection performs before it takes the lock.                     *)
(*                                                                         *)
(* Time is a clock of integer ticks and a bucket gains Rps whole tokens    *)
(* per tick, where the code keeps both as doubles.                         *)
(***************************************************************************)
EXTENDS Integers

CONSTANTS
    Ips,          \* client addresses
    NoEntry,      \* the table has no entry for an address
    MaxTotal,     \* Config::max_total_connections
    Rps,          \* Config::rate_limit_rps, tokens per tick
    Burst,        \* Config::rate_limit_burst
    StaleAfter    \* cleanup's threshold (five minutes), in ticks

VARIABLES
    connections_,        \* [Ips -> Entry \cup {NoEntry}]
    total_connections_,
    max_per_ip_,
    now                  \* std::chrono::steady_clock

guardVars == <<connections_, total_connections_, max_per_ip_, now>>

Entry == [active : Int, last_seen : Nat, tokens : Nat, rate : Nat,
          burst : Nat, last_refill : Nat]

ASSUME GuardAssumption ==
    /\ MaxTotal \in Int
    /\ Rps \in Nat
    /\ Burst \in Nat
    /\ StaleAfter \in Nat
    /\ NoEntry \notin Entry

GuardTypeOK ==
    /\ connections_ \in [Ips -> Entry \cup {NoEntry}]
    /\ total_connections_ \in Int
    /\ max_per_ip_ \in Int
    /\ now \in Nat

GuardInit(maxPerIp) ==
    /\ connections_ = [ip \in Ips |-> NoEntry]
    /\ total_connections_ = 0
    /\ max_per_ip_ = maxPerIp
    /\ now = 0

-----------------------------------------------------------------------------
(* A value-initialised IpEntry, and connections_[key] as operator[] sees it. *)
FreshEntry == [active |-> 0, last_seen |-> 0, tokens |-> 0, rate |-> 0,
               burst |-> 0, last_refill |-> 0]

HasEntry(ip) == connections_[ip] # NoEntry

Lookup(ip) == IF HasEntry(ip) THEN connections_[ip] ELSE FreshEntry

Least(a, b) == IF a <= b THEN a ELSE b

(* Faults of refill_tokens: the cap at burst forgotten; last_refill not set. *)
RefilledUncapped(e) ==
    [e EXCEPT !.tokens = @ + (now - e.last_refill) * e.rate, !.last_refill = now]
RefilledUnstamped(e) ==
    [e EXCEPT !.tokens = Least(e.burst, @ + (now - e.last_refill) * e.rate)]

(* refill_tokens: add what has accrued since last_refill, capped at burst. *)
Refilled(e) ==
    [e EXCEPT !.tokens = Least(e.burst, e.tokens + (now - e.last_refill) * e.rate),
              !.last_refill = now]

(* An entry whose rate is still 0.0 gets a full bucket. *)
WithBucket(e) ==
    IF e.rate = 0
    THEN [e EXCEPT !.tokens = Burst, !.rate = Rps, !.burst = Burst, !.last_refill = now]
    ELSE e

-----------------------------------------------------------------------------
(* Fault: one connection too many. *)
GlobalLimitPassed == total_connections_ > MaxTotal

(* allow_connection, in its two parts: the unlocked global check ...        *)
GlobalLimitReached == total_connections_ >= MaxTotal

(* Fault: <= for < in the per-IP test. *)
AdmitOneTooMany(ip) ==
    LET e == Lookup(ip) IN
    /\ e.active <= max_per_ip_
    /\ connections_' = [connections_ EXCEPT ![ip] =
           [WithBucket(e) EXCEPT !.active = e.active + 1, !.last_seen = now]]
    /\ total_connections_' = total_connections_ + 1
    /\ UNCHANGED <<max_per_ip_, now>>

(* ... then, under the lock, admission ...                                  *)
AdmitConnection(ip) ==
    LET e == Lookup(ip) IN
    /\ e.active < max_per_ip_
    /\ connections_' = [connections_ EXCEPT ![ip] =
           [WithBucket(e) EXCEPT !.active = e.active + 1, !.last_seen = now]]
    /\ total_connections_' = total_connections_ + 1
    /\ UNCHANGED <<max_per_ip_, now>>

(* ... or refusal, which still creates the entry and stamps last_seen.      *)
RefuseConnection(ip) ==
    LET e == Lookup(ip) IN
    /\ e.active >= max_per_ip_
    /\ connections_' = [connections_ EXCEPT ![ip] = [e EXCEPT !.last_seen = now]]
    /\ UNCHANGED <<total_connections_, max_per_ip_, now>>

(* Fault: a token is taken without looking whether there is one. *)
AllowRequestUnchecked(ip) ==
    /\ HasEntry(ip)
    /\ connections_' = [connections_ EXCEPT ![ip] =
           [Refilled(connections_[ip]) EXCEPT !.tokens = @ - 1]]
    /\ UNCHANGED <<total_connections_, max_per_ip_, now>>

(* allow_request returning true: no entry at all, or a token to consume.    *)
AllowRequest(ip) ==
    /\ HasEntry(ip) => Refilled(connections_[ip]).tokens >= 1
    /\ connections_' =
          IF HasEntry(ip)
          THEN [connections_ EXCEPT ![ip] =
                   [Refilled(connections_[ip]) EXCEPT !.tokens = @ - 1]]
          ELSE connections_
    /\ UNCHANGED <<total_connections_, max_per_ip_, now>>

(* allow_request returning false: the refilled bucket is empty.             *)
DenyRequest(ip) ==
    /\ HasEntry(ip)
    /\ Refilled(connections_[ip]).tokens < 1
    /\ connections_' = [connections_ EXCEPT ![ip] = Refilled(connections_[ip])]
    /\ UNCHANGED <<total_connections_, max_per_ip_, now>>

(* release_connection: the last connection of an address erases its entry.  *)
ReleaseConnection(ip) ==
    /\ IF HasEntry(ip)
       THEN /\ total_connections_' = total_connections_ - 1
            /\ connections_' = [connections_ EXCEPT ![ip] =
                  IF connections_[ip].active - 1 <= 0
                  THEN NoEntry
                  ELSE [connections_[ip] EXCEPT !.active = @ - 1]]
       ELSE UNCHANGED <<connections_, total_connections_>>
    /\ UNCHANGED <<max_per_ip_, now>>

SetMaxPerIp(max) ==
    /\ max_per_ip_' = max
    /\ UNCHANGED <<connections_, total_connections_, now>>

(* Fault: cleanup looks at the age only. *)
StaleByAge(ip) == HasEntry(ip) /\ now - connections_[ip].last_seen > StaleAfter

Stale(ip) ==
    /\ HasEntry(ip)
    /\ connections_[ip].active <= 0
    /\ now - connections_[ip].last_seen > StaleAfter

Cleanup ==
    /\ connections_' = [ip \in Ips |-> IF Stale(ip) THEN NoEntry ELSE connections_[ip]]
    /\ UNCHANGED <<total_connections_, max_per_ip_, now>>

(* The clock advances. *)
Tick ==
    /\ now' = now + 1
    /\ UNCHANGED <<connections_, total_connections_, max_per_ip_>>
=============================================================================
