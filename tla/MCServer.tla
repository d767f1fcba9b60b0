------------------------------- MODULE MCServer -------------------------------
(* The server with two workers and connections from two addresses.          *)
EXTENDS Server, TLC

CONSTANTS w1, w2, c1, c2, c3, a, b

MCIpOf == [c \in Conns |-> IF c = c3 THEN b ELSE a]
One == [max_per_ip |-> 1, waf_enabled |-> TRUE]
Two == [max_per_ip |-> 2, waf_enabled |-> FALSE]
OneFile == {Two}
TwoFiles == {One, Two}
Symmetry == Permutations(Workers)
=============================================================================
