------------------------------- MODULE Failover -------------------------------
(***************************************************************************)
(* Miner::stratum_thread (src/miner.cpp): which pool the miner tries, how  *)
(* often it fails, and how long it waits.  The stratum client is reduced   *)
(* to the outcome of each of its calls (connect, subscribe and authorize   *)
(* are one handshake here, run() ends when the connection is lost); its    *)
(* own steps are in StratumClient.                                         *)
(*                                                                         *)
(* Time is counted in seconds.  `elapsed' is now - m_last_primary_retry,   *)
(* which the code compares with PRIMARY_RETRY_INTERVAL_SECONDS only, so it *)
(* saturates there.                                                        *)
(***************************************************************************)
EXTENDS Naturals

CONSTANTS
  NumPools,             \* m_config.pools.size()
  MaxFailures,          \* MAX_CONSECUTIVE_FAILURES
  PrimaryRetryInterval, \* PRIMARY_RETRY_INTERVAL_SECONDS
  InitialBackoff,       \* m_current_backoff_seconds after a success or a switch
  MaxBackoff,           \* MAX_BACKOFF_SECONDS
  Up,                   \* the pools that accept every handshake
  Flaky,                \* the pools that accept some and refuse others
  FailTime,             \* seconds a refused handshake may take
  SessionTime,          \* seconds an accepted session may last
  FailureBound          \* bound on the failures the model counts (checking only)

ASSUME PoolsAssumption == NumPools \in Nat \ {0}
ASSUME UpAssumption == Up \cup Flaky \subseteq 0 .. NumPools - 1 /\ Up \cap Flaky = {}
ASSUME FailuresAssumption == MaxFailures \in Nat \ {0}
ASSUME RetryAssumption == PrimaryRetryInterval \in Nat
ASSUME BackoffAssumption ==
  /\ InitialBackoff \in Nat \ {0}
  /\ MaxBackoff \in Nat
  /\ InitialBackoff <= MaxBackoff
ASSUME TimeAssumption == FailTime \subseteq Nat /\ SessionTime \subseteq Nat
ASSUME BoundAssumption == FailureBound \in Nat /\ FailureBound > MaxFailures

VARIABLES
  pc,       \* where stratum_thread is
  running,  \* m_running
  current,  \* m_current_pool_index
  failures, \* consecutive_failures, a local of the thread
  backoff,  \* m_current_backoff_seconds
  elapsed,  \* seconds since m_last_primary_retry
  refused   \* history: handshakes refused since the last success or switch

vars == <<pc, running, current, failures, backoff, elapsed, refused>>

Pool == 0 .. NumPools - 1

Min2(a, b) == IF a <= b THEN a ELSE b

Later(seconds) == Min2(elapsed + seconds, PrimaryRetryInterval)

(* A counter that stops at FailureBound: past MaxFailures the code tells no  *)
(* two counts apart.                                                         *)
Count(n) == Min2(n + 1, FailureBound)

Init ==
  /\ pc = "loop"
  /\ running = TRUE
  /\ current = 0
  /\ failures = 0
  /\ backoff = InitialBackoff
  /\ elapsed = 0
  /\ refused = 0

AttemptIgnoresStop ==  \* mutant of Attempt
  /\ pc = "loop"
  /\ pc' = "handshake"
  /\ UNCHANGED <<running, current, failures, backoff, elapsed, refused>>

(* while (m_running): the next attempt, or the end of the thread. *)
Attempt ==
  /\ pc = "loop"
  /\ pc' = IF running THEN "handshake" ELSE "done"
  /\ UNCHANGED <<running, current, failures, backoff, elapsed, refused>>

(* connect, subscribe or authorize failed: goto handle_failure. *)
HandshakeRefused ==
  /\ pc = "handshake"
  /\ current \notin Up
  /\ \E t \in FailTime : elapsed' = Later(t)
  /\ pc' = "handle_failure"
  /\ failures' = Count(failures)
  /\ refused' = Count(refused)
  /\ UNCHANGED <<running, current, backoff>>

(* All three succeeded: the failure tracking is reset and run() blocks. *)
HandshakeAccepted ==
  /\ pc = "handshake"
  /\ current \in Up \cup Flaky
  /\ pc' = "session"
  /\ failures' = 0
  /\ refused' = 0
  /\ backoff' = InitialBackoff
  /\ UNCHANGED <<running, current, elapsed>>

(* run() returned: one more consecutive failure unless the miner is         *)
(* stopping, and `continue': neither handle_failure nor its sleep.          *)
ConnectionLost ==
  /\ pc = "session"
  /\ \E t \in SessionTime : elapsed' = Later(t)
  /\ pc' = "loop"
  /\ failures' = IF running THEN Count(failures) ELSE failures
  /\ UNCHANGED <<running, current, backoff, refused>>

MustSwitch == failures >= MaxFailures /\ NumPools > 1

PrimaryAlwaysDue == current # 0  \* mutant of PrimaryDue

(* The primary is due for a retry: only looked at when a backup has failed. *)
PrimaryDue == current # 0 /\ elapsed >= PrimaryRetryInterval

NextPool == IF PrimaryDue THEN 0 ELSE (current + 1) % NumPools

SwitchWith(newFailures, newBackoff) ==
  /\ pc = "handle_failure"
  /\ running
  /\ MustSwitch
  /\ NextPool # current
  /\ current' = NextPool
  /\ elapsed' = IF PrimaryDue THEN 0 ELSE elapsed
  /\ failures' = newFailures
  /\ backoff' = newBackoff
  /\ refused' = 0
  /\ pc' = "sleep"
  /\ UNCHANGED running

SwitchKeepsFailures == SwitchWith(failures, InitialBackoff)  \* mutant of SwitchPool
SwitchKeepsBackoff == SwitchWith(0, backoff)                 \* mutant of SwitchPool

(* handle_failure when another pool is chosen: both counters start again. *)
SwitchPool == SwitchWith(0, InitialBackoff)

(* handle_failure when the pool is kept. *)
KeepPool ==
  /\ pc = "handle_failure"
  /\ running
  /\ ~(MustSwitch /\ NextPool # current)
  /\ pc' = "sleep"
  /\ UNCHANGED <<running, current, failures, backoff, elapsed, refused>>

(* handle_failure after stop(): break. *)
GiveUp ==
  /\ pc = "handle_failure"
  /\ ~running
  /\ pc' = "done"
  /\ UNCHANGED <<running, current, failures, backoff, elapsed, refused>>

(* sleep_for(backoff), then the backoff doubles up to MAX_BACKOFF_SECONDS. *)
Sleep ==
  /\ pc = "sleep"
  /\ elapsed' = Later(backoff)
  /\ backoff' = Min2(2 * backoff, MaxBackoff)
  /\ pc' = "loop"
  /\ UNCHANGED <<running, current, failures, refused>>

(* Miner::stop sets m_running = false; the thread sees it at its next check. *)
Stop ==
  /\ running
  /\ running' = FALSE
  /\ UNCHANGED <<pc, current, failures, backoff, elapsed, refused>>

Step ==
  \/ Attempt
  \/ HandshakeRefused
  \/ HandshakeAccepted
  \/ ConnectionLost
  \/ SwitchPool
  \/ KeepPool
  \/ GiveUp
  \/ Sleep

Finished == pc = "done" /\ UNCHANGED vars

Next == Step \/ Stop \/ Finished

Spec == Init /\ [][Next]_vars

(* The thread is scheduled and every call of it returns, except run(): a     *)
(* session may last for ever.                                                *)
Thread == Step /\ pc # "session"
FairSpec == Spec /\ WF_vars(Thread)
(* ... and sessions end too (used where the question is what happens then). *)
LossySpec == Spec /\ WF_vars(Step)

-------------------------------------------------------------------------------
TypeOK ==
  /\ pc \in {"loop", "handshake", "handle_failure", "sleep", "session", "done"}
  /\ running \in BOOLEAN
  /\ current \in Pool
  /\ failures \in 0 .. FailureBound
  /\ backoff \in InitialBackoff .. MaxBackoff
  /\ elapsed \in 0 .. PrimaryRetryInterval
  /\ refused \in 0 .. FailureBound

(* What the rest of the program may rely on, without the timers: a pool is   *)
(* left only after it has itself refused handshake after handshake.  One of  *)
(* the MAX_CONSECUTIVE_FAILURES may be a lost connection, hence the - 1.     *)
Rotation == INSTANCE PoolRotation WITH
  pool <- current,
  strikes <- refused,
  Threshold <- MaxFailures - 1,
  StrikeBound <- FailureBound,
  state <- IF pc = "session" THEN "mining"
           ELSE IF pc = "done" THEN "stopped" ELSE "trying"

(* stratum_thread implements PoolRotation: whatever the timers do, the pool  *)
(* index moves only to the next pool or to the primary, and only away from a *)
(* pool that refused at least MAX_CONSECUTIVE_FAILURES - 1 handshakes since  *)
(* it last accepted one (the counter is shared by refusals and losses).      *)
RotatesFairly == Rotation!Spec

(* With a backup pool configured, m_current_backoff_seconds never climbs:    *)
(* the switch after three failures resets it, so no wait is longer than the  *)
(* third of the sequence (20 s), however long every pool is down.            *)
WaitsAreShort ==
  MaxFailures = 3 /\ NumPools > 1 /\ pc = "sleep" => backoff <= 4 * InitialBackoff

(* The wait slept in handle_failure is one of the steps the comments of      *)
(* m_current_backoff_seconds list: 5 -> 10 -> 20 -> 60.                      *)
DocumentedBackoff == pc = "sleep" => backoff \in {5, 10, 20, 60}

(* Every retry after a failure waits (README: exponential backoff 5s -> 60s):*)
(* each wait doubles the backoff, so an attempt that follows a failure finds *)
(* it above its initial value.                                               *)
EveryRetryWaits ==
  pc = "handshake" /\ failures > 0 => backoff > InitialBackoff

(* If some pool always accepts the handshake, the miner ends up mining, from *)
(* whatever state the failover has reached, unless it is stopped.            *)
ReachesAPool == []<>(pc = "session" \/ ~running)

(* stop() ends the thread once the call it is blocked in has returned.       *)
StopEndsTheThread == ~running ~> pc = "done"

(* README: "auto pool switching after 3 failures".  A pool that accepts      *)
(* every handshake and loses every connection is not kept for ever.          *)
FlappingPoolAbandoned == <>(current # 0 \/ ~running)

(* README: "primary pool retry every 5 min".  A miner on a backup tries the  *)
(* primary again sooner or later.                                            *)
PrimaryRetried == []<>(current = 0 \/ ~running)
===============================================================================
