-------------------------- MODULE AdmissionControl --------------------------
(***************************************************************************)
(* What include/ddos_guard.hpp promises of allow_connection ("Returns true *)
(* if connection is allowed (checks per-IP and global limits)") and of     *)
(* release_connection, with no table, counter or token bucket: a set of    *)
(* open connections and a per-IP limit that a reload may change.  A lower  *)
(* limit closes nothing; it only holds back later admissions.              *)
(***************************************************************************)
EXTENDS Integers, FiniteSets

CONSTANTS Conns, IpOf, MaxTotal

VARIABLES open, limit

OpenFrom(ip) == {c \in open : IpOf[c] = ip}

Init == open = {} /\ limit \in Int

Admit(c) ==
    /\ c \notin open
    /\ Cardinality(open) < MaxTotal
    /\ Cardinality(OpenFrom(IpOf[c])) < limit
    /\ open' = open \cup {c}
    /\ UNCHANGED limit

Drop(c) ==
    /\ c \in open
    /\ open' = open \ {c}
    /\ UNCHANGED limit

SetLimit == limit' \in Int /\ UNCHANGED open

Next == (\E c \in Conns : Admit(c) \/ Drop(c)) \/ SetLimit

Spec == Init /\ [][Next]_<<open, limit>>
=============================================================================
