------------------------------- MODULE MCUring -------------------------------
(* An instance of IoUringLoop for TLC.                                      *)
EXTENDS IoUringLoop

(* Bounds: one accept and one zero-copy send, and one operation at most     *)
(* once an entry was left unprepared, of which the invariants do not speak. *)
Prepares(kind) == {id \in DOMAIN ops : ops[id].kind = kind}
UringBound ==
    /\ Cardinality(Prepares("accept")) <= 1 /\ Cardinality(Prepares("send_zc")) <= 1
    /\ stale => Len(ops) <= 1
=============================================================================
