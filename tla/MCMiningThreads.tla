--------------------------- MODULE MCMiningThreads ---------------------------
(***************************************************************************)
(* Instances of MiningThreads for TLC: a pool that numbers its jobs, and   *)
(* one that reuses a job id for other work.                                *)
(***************************************************************************)
EXTENDS MiningThreads

EmptyJob == [id |-> 0, work |-> 0]
NumberedJobs == {[id |-> 1, work |-> 1], [id |-> 2, work |-> 2], [id |-> 3, work |-> 3]}
ReusedIds == {[id |-> 1, work |-> 1], [id |-> 1, work |-> 2]}
===============================================================================
