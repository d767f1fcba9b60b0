------------------------------- MODULE MCGuard -------------------------------
(* Two connections of one address share a bucket, a third one comes from    *)
(* another address, and the limit may be reloaded, to 0 too.                *)
EXTENDS DDoSGuardRate, TLC

CONSTANTS c1, c2, c3, a, b

MCIpOf == (c1 :> a) @@ (c2 :> a) @@ (c3 :> b)
MCMaxPerIpChoices == {0, 1, 2}
=============================================================================
