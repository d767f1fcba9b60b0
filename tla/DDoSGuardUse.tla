---------------------------- MODULE DDoSGuardUse ----------------------------
(***************************************************************************)
(* DDoSGuard together with the most general caller the server contains:    *)
(* one accepting thread (Server::event_loop is the only caller of          *)
(* allow_connection), any number of admitted connections that issue        *)
(* requests and are released once each, hot reloads, cleanup() and time.   *)
(***************************************************************************)
EXTENDS DDoSGuard, FiniteSets

CONSTANTS
    Conns, IpOf,      \* client connections and the address of each
    NoConn,
    MaxPerIpChoices,  \* values the configuration file may hold
    MaxTime           \* bound: ticks of the clock

VARIABLES
    open,         \* connections admitted and not yet released
    admitting     \* the connection between the global check and the lock

useVars == <<connections_, total_connections_, max_per_ip_, now, open, admitting>>

ASSUME UseAssumption ==
    /\ IpOf \in [Conns -> Ips]
    /\ NoConn \notin Conns
    /\ MaxPerIpChoices \subseteq Int
    /\ MaxTotal >= 0

OpenFrom(ip) == {c \in open : IpOf[c] = ip}

UseInit ==
    /\ \E m \in MaxPerIpChoices : GuardInit(m)
    /\ open = {}
    /\ admitting = NoConn

PassGlobalCheck(c) ==
    /\ admitting = NoConn
    /\ c \notin open
    /\ ~GlobalLimitReached
    /\ admitting' = c
    /\ UNCHANGED <<guardVars, open>>

Admit ==
    /\ admitting # NoConn
    /\ AdmitConnection(IpOf[admitting])
    /\ open' = open \cup {admitting}
    /\ admitting' = NoConn

Refuse ==
    /\ admitting # NoConn
    /\ RefuseConnection(IpOf[admitting])
    /\ admitting' = NoConn
    /\ UNCHANGED open

RequestAllowed(c) ==
    /\ c \in open
    /\ AllowRequest(IpOf[c])
    /\ UNCHANGED <<open, admitting>>

RequestDenied(c) ==
    /\ c \in open
    /\ DenyRequest(IpOf[c])
    /\ UNCHANGED <<open, admitting>>

Release(c) ==
    /\ c \in open
    /\ ReleaseConnection(IpOf[c])
    /\ open' = open \ {c}
    /\ UNCHANGED admitting

Reload(m) == SetMaxPerIp(m) /\ UNCHANGED <<open, admitting>>

RunCleanup == Cleanup /\ UNCHANGED <<open, admitting>>

Elapse == now < MaxTime /\ Tick /\ UNCHANGED <<open, admitting>>

UseNext ==
    \/ \E c \in Conns : PassGlobalCheck(c)
    \/ Admit
    \/ Refuse
    \/ \E c \in Conns : RequestAllowed(c)
    \/ \E c \in Conns : RequestDenied(c)
    \/ \E c \in Conns : Release(c)
    \/ \E m \in MaxPerIpChoices : Reload(m)
    \/ RunCleanup
    \/ Elapse

UseSpec == UseInit /\ [][UseNext]_useVars

-----------------------------------------------------------------------------
UseTypeOK ==
    /\ GuardTypeOK
    /\ open \in SUBSET Conns
    /\ admitting \in Conns \cup {NoConn}

(* active_connections of every entry is the number of connections of that   *)
(* address that were admitted and not yet released, whatever the order in   *)
(* which they come, ask, leave and are cleaned up.                          *)
ActiveIsExact ==
    \A ip \in Ips : Lookup(ip).active = Cardinality(OpenFrom(ip))

(* The atomic total_connections_, which is read without the lock, is the    *)
(* number of open connections.                                              *)
TotalIsExact == total_connections_ = Cardinality(open)

(* Both counts are exact, the one under the lock and the one outside it,    *)
(* whatever the order of admissions, refusals, releases and cleanup.        *)
CountsExact == ActiveIsExact /\ TotalIsExact

(* max_total_connections is a hard cap although it is tested before the     *)
(* lock is taken: the one accepting thread is the only one that adds.       *)
HardCap == Cardinality(open) <= MaxTotal

(* The branch of allow_request commented "No connection entry -- shouldn't  *)
(* happen in normal flow" is never taken: an open connection has an entry,  *)
(* and its bucket is initialised and within its burst.                      *)
OpenHasBucket ==
    \A c \in open :
        LET e == connections_[IpOf[c]] IN
        /\ HasEntry(IpOf[c])
        /\ e.rate = Rps /\ e.burst = Burst
        /\ e.tokens <= Burst

(* What the header promises: see AdmissionControl.                          *)
Promise == INSTANCE AdmissionControl WITH limit <- max_per_ip_

ImplementsPromise == Promise!Spec
=============================================================================
