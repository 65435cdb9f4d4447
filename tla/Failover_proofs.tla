---------------------------- MODULE Failover_proofs ----------------------------
(***************************************************************************)
(* Failover proved for every number of pools, every set of pools that are  *)
(* up or flaky and every duration of the calls.                            *)
(***************************************************************************)
EXTENDS Failover, TLAPS

(* Every variable keeps its type: in particular m_current_pool_index stays   *)
(* an index of m_config.pools and m_current_backoff_seconds stays between    *)
(* its initial value and MAX_BACKOFF_SECONDS.                                *)
THEOREM TypeCorrect == Spec => []TypeOK
<1>1. Init => TypeOK
  BY PoolsAssumption, RetryAssumption, BackoffAssumption, BoundAssumption
  DEF Init, TypeOK, Pool
<1>2. TypeOK /\ [Next]_vars => TypeOK'
  <2> SUFFICES ASSUME TypeOK, [Next]_vars PROVE TypeOK'
    OBVIOUS
  <2> USE PoolsAssumption, RetryAssumption, BackoffAssumption, BoundAssumption
          DEF TypeOK, Pool
  <2>1. CASE Attempt
    BY <2>1 DEF Attempt
  <2>2. CASE HandshakeRefused
    BY <2>2, TimeAssumption DEF HandshakeRefused, Later, Count, Min2
  <2>3. CASE HandshakeAccepted
    BY <2>3 DEF HandshakeAccepted
  <2>4. CASE ConnectionLost
    BY <2>4, TimeAssumption DEF ConnectionLost, Later, Count, Min2
  <2>5. CASE SwitchPool
    BY <2>5 DEF SwitchPool, SwitchWith, NextPool
  <2>6. CASE KeepPool
    BY <2>6 DEF KeepPool
  <2>7. CASE GiveUp
    BY <2>7 DEF GiveUp
  <2>8. CASE Sleep
    BY <2>8 DEF Sleep, Later, Min2
  <2>9. CASE Stop
    BY <2>9 DEF Stop
  <2>10. CASE Finished \/ UNCHANGED vars
    BY <2>10 DEF Finished, vars
  <2> QED
    BY <2>1, <2>2, <2>3, <2>4, <2>5, <2>6, <2>7, <2>8, <2>9, <2>10 DEF Next, Step
<1> QED
  BY <1>1, <1>2, PTL DEF Spec

-------------------------------------------------------------------------------
(* consecutive_failures counts the refusals of the current pool, and at most *)
(* one lost connection on top of them: the count never outlives its pool.    *)
CountsThisPool ==
  /\ failures <= refused + 1
  /\ pc = "session" => failures = 0

LEMMA CountInvariant == Spec => []CountsThisPool
<1>1. Init => CountsThisPool
  BY DEF Init, CountsThisPool
<1>2. TypeOK /\ CountsThisPool /\ [Next]_vars => CountsThisPool'
  <2> SUFFICES ASSUME TypeOK, CountsThisPool, [Next]_vars PROVE CountsThisPool'
    OBVIOUS
  <2> USE BoundAssumption, FailuresAssumption DEF TypeOK, CountsThisPool
  <2>1. CASE Attempt
    BY <2>1 DEF Attempt
  <2>2. CASE HandshakeRefused
    BY <2>2 DEF HandshakeRefused, Count, Min2
  <2>3. CASE HandshakeAccepted
    BY <2>3 DEF HandshakeAccepted
  <2>4. CASE ConnectionLost
    BY <2>4 DEF ConnectionLost, Count, Min2
  <2>5. CASE SwitchPool
    BY <2>5 DEF SwitchPool, SwitchWith
  <2>6. CASE KeepPool \/ GiveUp \/ Sleep
    BY <2>6 DEF KeepPool, GiveUp, Sleep
  <2>7. CASE Stop \/ Finished \/ UNCHANGED vars
    BY <2>7 DEF Stop, Finished, vars
  <2> QED
    BY <2>1, <2>2, <2>3, <2>4, <2>5, <2>6, <2>7 DEF Next, Step
<1> QED
  BY <1>1, <1>2, TypeCorrect, PTL DEF Spec

(* Failover implements PoolRotation: the pool index moves only to the next   *)
(* pool or to the primary, and only away from a pool that refused at least   *)
(* MAX_CONSECUTIVE_FAILURES - 1 handshakes since it last accepted one.       *)
THEOREM RotationRefined == Spec => RotatesFairly
<1>1. Init => Rotation!Init
  BY DEF Init, Rotation!Init
<1>2. TypeOK /\ CountsThisPool /\ [Next]_vars => [Rotation!Next]_(Rotation!vars)
  <2> SUFFICES ASSUME TypeOK, CountsThisPool, [Next]_vars
               PROVE Rotation!Next \/ UNCHANGED Rotation!vars
    OBVIOUS
  <2> USE BoundAssumption, FailuresAssumption DEF TypeOK, CountsThisPool, Rotation!vars
  <2>1. CASE Attempt
    BY <2>1 DEF Attempt, Rotation!Next, Rotation!Halt
  <2>2. CASE HandshakeRefused
    BY <2>2 DEF HandshakeRefused, Count, Min2, Rotation!Next, Rotation!Refuse
  <2>3. CASE HandshakeAccepted
    BY <2>3 DEF HandshakeAccepted, Rotation!Next, Rotation!Accept
  <2>4. CASE ConnectionLost
    BY <2>4 DEF ConnectionLost, Rotation!Next, Rotation!Lose
  <2>5. CASE SwitchPool
    BY <2>5 DEF SwitchPool, SwitchWith, MustSwitch, NextPool, Rotation!Next, Rotation!Leave
  <2>6. CASE KeepPool \/ Sleep
    BY <2>6 DEF KeepPool, Sleep
  <2>7. CASE GiveUp
    BY <2>7 DEF GiveUp, Rotation!Next, Rotation!Halt
  <2>8. CASE Stop \/ Finished \/ UNCHANGED vars
    BY <2>8 DEF Stop, Finished, vars
  <2> QED
    BY <2>1, <2>2, <2>3, <2>4, <2>5, <2>6, <2>7, <2>8 DEF Next, Step
<1> QED
  BY <1>1, <1>2, TypeCorrect, CountInvariant, PTL DEF Spec, RotatesFairly, Rotation!Spec

-------------------------------------------------------------------------------
(* With three failures and a backup pool, the backoff is bounded by how many *)
(* failures the current pool has: it doubles once per sleep, and a third     *)
(* failure always switches, which resets it.                                 *)
Doublings(n) ==
  IF n = 0 THEN InitialBackoff
  ELSE IF n = 1 THEN 2 * InitialBackoff
  ELSE IF n = 2 THEN 4 * InitialBackoff
  ELSE 8 * InitialBackoff

BackoffFollowsFailures ==
  MaxFailures = 3 /\ NumPools > 1 =>
    /\ pc \in {"loop", "handshake", "session"} =>
         failures <= 2 /\ backoff <= Doublings(failures + 1)
    /\ pc = "handle_failure" => failures \in 1 .. 3 /\ backoff <= Doublings(failures)
    /\ pc = "sleep" => failures <= 2 /\ backoff <= Doublings(failures)

(* With a backup pool configured and three failures before a switch, no wait *)
(* between two attempts exceeds four times the initial backoff.              *)
THEOREM ShortWaits == Spec => []WaitsAreShort
<1>1. Init => BackoffFollowsFailures
  BY BackoffAssumption DEF Init, BackoffFollowsFailures, Doublings
<1>2. TypeOK /\ CountsThisPool /\ BackoffFollowsFailures /\ [Next]_vars
        => BackoffFollowsFailures'
  <2> SUFFICES ASSUME TypeOK, CountsThisPool, BackoffFollowsFailures, [Next]_vars,
                      MaxFailures = 3, NumPools > 1
               PROVE BackoffFollowsFailures'
    BY DEF BackoffFollowsFailures
  <2> USE PoolsAssumption, BackoffAssumption, BoundAssumption
          DEF TypeOK, Pool, BackoffFollowsFailures, Doublings
  <2>1. CASE Attempt
    BY <2>1 DEF Attempt
  <2>2. CASE HandshakeRefused
    BY <2>2 DEF HandshakeRefused, Count, Min2
  <2>3. CASE HandshakeAccepted
    BY <2>3 DEF HandshakeAccepted
  <2>4. CASE ConnectionLost
    BY <2>4 DEF ConnectionLost, Count, Min2, CountsThisPool
  <2>5. CASE SwitchPool
    BY <2>5 DEF SwitchPool, SwitchWith
  <2>6. CASE KeepPool
    <3>1. current # (current + 1) % NumPools
      <4>1. CASE current + 1 < NumPools
        BY <4>1
      <4>2. CASE current + 1 = NumPools
        BY <4>2
      <4> QED
        BY <4>1, <4>2
    <3>2. NextPool # current
      BY <3>1 DEF NextPool, PrimaryDue
    <3> QED
      BY <2>6, <3>2 DEF KeepPool, MustSwitch
  <2>7. CASE GiveUp
    BY <2>7 DEF GiveUp
  <2>8. CASE Sleep
    BY <2>8 DEF Sleep, Min2
  <2>9. CASE Stop \/ Finished \/ UNCHANGED vars
    BY <2>9 DEF Stop, Finished, vars
  <2> QED
    BY <2>1, <2>2, <2>3, <2>4, <2>5, <2>6, <2>7, <2>8, <2>9 DEF Next, Step
<1>3. TypeOK /\ BackoffFollowsFailures => WaitsAreShort
  BY BackoffAssumption DEF TypeOK, BackoffFollowsFailures, WaitsAreShort, Doublings
<1> QED
  BY <1>1, <1>2, <1>3, TypeCorrect, CountInvariant, PTL DEF Spec
===============================================================================
