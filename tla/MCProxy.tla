------------------------------- MODULE MCProxy -------------------------------
(* Instances of ReverseProxy for TLC.                                       *)
EXTENDS ReverseProxy

CONSTANTS b1, b2, get, get2, get3, post, t1, t2

(* The threads are alike; liveness is checked with one of them only.        *)
ThreadSymmetry == Permutations(Threads)

MCPtrs == <<b1, b2>>
MCOnePtr == <<b1>>
MCUncachedRoutes == [algorithm : {"round_robin", "least_connections", "ewma", "consistent_hash"},
                     cached : {FALSE}]
MCCachedRoutes == {[algorithm |-> "consistent_hash", cached |-> TRUE]}
MCRoutes == MCUncachedRoutes \cup MCCachedRoutes
MCMaxRetries == [c \in BOOLEAN |-> IF c THEN 0 ELSE 1]
MCMaxRequests == [c \in BOOLEAN |-> IF c THEN 4 ELSE 2]
MCMaxEvents == [c \in BOOLEAN |-> 2]
MCRing == <<b1, b2, b1>>
MCHashOf == [k \in Keys |-> IF k = get /\ Len(Ring) > 2 THEN 2 ELSE 0]
Plain == [status |-> 200, size |-> 1, spelled |-> TRUE, no_store |-> FALSE, private_ |-> FALSE,
          s_maxage |-> -1, max_age |-> -1]
MCResponses == {Plain, [Plain EXCEPT !.size = 2, !.s_maxage = 1, !.max_age = 3],
                [Plain EXCEPT !.private_ = TRUE], [Plain EXCEPT !.no_store = TRUE],
                [Plain EXCEPT !.no_store = TRUE, !.spelled = FALSE]}
=============================================================================
