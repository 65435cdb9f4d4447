------------------------------ MODULE MCFailover ------------------------------
(***************************************************************************)
(* Instances of Failover for TLC, with the constants of the code (three    *)
(* failures, 5 s to 60 s, 300 s).                                          *)
(***************************************************************************)
EXTENDS Failover

Quick == {0, 1}           \* a refused connect() answers at once
SlowTimeouts == {127}     \* connect() to a host that drops SYNs (Linux default)
AnyTime == {0, 5, 300}
NoPool == {}
===============================================================================
