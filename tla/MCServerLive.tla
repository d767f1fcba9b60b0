---------------------------- MODULE MCServerLive ----------------------------
(* Two workers and two connections from one address; accept4 may fail.      *)
EXTENDS ServerBacklog

CONSTANTS w1, w2, c1, c2, a

MCIpOf == [c \in Conns |-> a]
Two == [max_per_ip |-> 2, waf_enabled |-> FALSE]
OneFile == {Two}
=============================================================================
