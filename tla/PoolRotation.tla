----------------------------- MODULE PoolRotation -----------------------------
(***************************************************************************)
(* What the pool failover of Miner::stratum_thread promises, without       *)
(* timers and counters: the miner tries a pool or mines on it, and leaves  *)
(* it for the next pool, or for the primary (pool 0), only when it has     *)
(* refused Threshold handshakes since it last accepted one.                *)
(***************************************************************************)
EXTENDS Naturals

CONSTANTS NumPools, Threshold, StrikeBound

VARIABLES pool, strikes, state

vars == <<pool, strikes, state>>

Init == pool = 0 /\ strikes = 0 /\ state = "trying"

Refuse ==
  /\ state = "trying"
  /\ strikes' = IF strikes < StrikeBound THEN strikes + 1 ELSE strikes
  /\ UNCHANGED <<pool, state>>

Accept ==
  /\ state = "trying"
  /\ state' = "mining"
  /\ strikes' = 0
  /\ UNCHANGED pool

Lose ==
  /\ state = "mining"
  /\ state' = "trying"
  /\ UNCHANGED <<pool, strikes>>

Leave ==
  /\ state = "trying"
  /\ strikes >= Threshold
  /\ pool' # pool
  /\ pool' \in {0, (pool + 1) % NumPools}
  /\ strikes' = 0
  /\ UNCHANGED state

Halt ==
  /\ state = "trying"
  /\ state' = "stopped"
  /\ UNCHANGED <<pool, strikes>>

Next == Refuse \/ Accept \/ Lose \/ Leave \/ Halt

Spec == Init /\ [][Next]_vars
===============================================================================
