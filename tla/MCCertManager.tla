--------------------------- MODULE MCCertManager ---------------------------
EXTENDS CertManager

(* Two renewal tasks (start-up and cron) and two handlers in one process.   *)
OneProcess == [renew1 |-> "p1", renew2 |-> "p1", sign1 |-> "p1", sign2 |-> "p1"]

(* ACME on a store that keeps existing values, with three failed calls and  *)
(* certificates that become due; an operator's pair, whose age plays no     *)
(* role, on a store that overwrites.                                        *)
BothStrategies ==
    {[strategy |-> "acme", keepsExisting |-> TRUE, maxTime |-> 2, maxFaults |-> 3],
     [strategy |-> "store", keepsExisting |-> FALSE, maxTime |-> 0, maxFaults |-> 0]}
=============================================================================
