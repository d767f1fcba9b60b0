---------------------------- MODULE DDoSGuardRate ----------------------------
(***************************************************************************)
(* DDoSGuardUse with a history of the requests the token bucket let        *)
(* through since the current bucket of an address was filled, so that the  *)
(* rate limit can be stated.                                               *)
(***************************************************************************)
EXTENDS DDoSGuardUse

CONSTANT MaxGranted   \* bound: requests granted from one bucket

VARIABLES
    spent,     \* requests allowed to an address since its bucket was initialised
    born       \* when that bucket was initialised

history == <<spent, born>>
rateVars == <<useVars, history>>

RateInit ==
    /\ UseInit
    /\ spent = [ip \in Ips |-> 0]
    /\ born = [ip \in Ips |-> 0]

CountedRequest(c) ==
    LET ip == IpOf[c] IN
    /\ spent[ip] < MaxGranted
    /\ RequestAllowed(c)
    /\ spent' = [spent EXCEPT ![ip] = @ + 1]
    /\ UNCHANGED born

CountedAdmit ==
    /\ Admit
    /\ LET ip == IpOf[admitting] IN
       IF Lookup(ip).rate = 0
       THEN /\ spent' = [spent EXCEPT ![ip] = 0]
            /\ born' = [born EXCEPT ![ip] = now]
       ELSE UNCHANGED <<spent, born>>

Uncounted ==
    /\ \/ \E c \in Conns : PassGlobalCheck(c) \/ RequestDenied(c) \/ Release(c)
       \/ Refuse
       \/ \E m \in MaxPerIpChoices : Reload(m)
       \/ RunCleanup
       \/ Elapse
    /\ UNCHANGED history

RateNext == (\E c \in Conns : CountedRequest(c)) \/ CountedAdmit \/ Uncounted

RateSpec == RateInit /\ [][RateNext]_rateVars

-----------------------------------------------------------------------------
(* As long as an address keeps a connection open, its requests stay within  *)
(* the burst plus rps per elapsed tick, however they are spread over its    *)
(* connections and over time: what was spent and what is left never exceeds *)
(* what the bucket has been given since it was filled.                      *)
BucketHonoured ==
    \A ip \in Ips :
        OpenFrom(ip) # {} =>
            LET e == connections_[ip] IN
            spent[ip] + e.tokens <= Burst + Rps * (e.last_refill - born[ip])
=============================================================================
