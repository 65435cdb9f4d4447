------------------------------ MODULE MCMinerStop ------------------------------
(***************************************************************************)
(* Instances of MinerStop for TLC.  Three descriptors in MCMinerStop.cfg,  *)
(* for the pool's connection, the stats file, the listening socket and a   *)
(* client's connection: they are not all in use all the time, so that a    *)
(* leak shows, and sometimes none is left.  Four in the other instances,   *)
(* where each has its own.                                                 *)
(***************************************************************************)
EXTENDS MinerStop
===============================================================================
