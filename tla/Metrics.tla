------------------------------- MODULE Metrics -------------------------------
(***************************************************************************)
(* The counters and gauges of class Metrics that the connection path       *)
(* moves.  Each is one relaxed atomic in the code; here they are fields of *)
(* one record, and each record_* call of the code is an update of it.      *)
(* Bytes, status classes and the latency histogram are left out.           *)
(***************************************************************************)
EXTENDS Integers

VARIABLE metrics

MetricsTypeOK ==
    metrics \in [total_requests_ : Nat, total_connections_ : Nat,
                 active_connections_ : Int, blocked_ips_ : Nat,
                 waf_blocks_ : Nat, active_workers_ : Int]

MetricsInit ==
    metrics = [total_requests_ |-> 0, total_connections_ |-> 0,
               active_connections_ |-> 0, blocked_ips_ |-> 0,
               waf_blocks_ |-> 0, active_workers_ |-> 0]

RecordConnection(m) == [m EXCEPT !.total_connections_ = @ + 1,
                                 !.active_connections_ = @ + 1]
RecordDisconnection(m) == [m EXCEPT !.active_connections_ = @ - 1]
RecordRequest(m) == [m EXCEPT !.total_requests_ = @ + 1]
RecordBlockedIp(m) == [m EXCEPT !.blocked_ips_ = @ + 1]
RecordWafBlock(m) == [m EXCEPT !.waf_blocks_ = @ + 1]
RecordWorkerBusy(m) == [m EXCEPT !.active_workers_ = @ + 1]
RecordWorkerIdle(m) == [m EXCEPT !.active_workers_ = @ - 1]
=============================================================================
