------------------------------ MODULE MCAntiBot ------------------------------
(* An instance of AntiBot for TLC: the checks one by one and together.      *)
EXTENDS AntiBot

Off == [ja3 |-> FALSE, rate |-> FALSE, js |-> FALSE, pow |-> FALSE, tarpit |-> FALSE]
MCConfigs ==
    {[Off EXCEPT !.ja3 = TRUE, !.tarpit = TRUE, !.rate = TRUE], [Off EXCEPT !.ja3 = TRUE],
     [Off EXCEPT !.js = TRUE], [Off EXCEPT !.rate = TRUE, !.js = TRUE, !.pow = TRUE],
     [Off EXCEPT !.pow = TRUE]}
=============================================================================
