---------------------------- MODULE Mining_proofs ----------------------------
(***************************************************************************)
(* What the mining threads do, proved: which nonces they hash, for every   *)
(* batch size, every width of the nonce and every number of threads (that  *)
(* threads share no nonce needs the number of threads to divide 2^32, and  *)
(* TLC shows, MCNonceShared, that it does); and what they do to the job    *)
(* they share with the stratum thread, for any set of threads and of jobs. *)
(***************************************************************************)
EXTENDS NonceRange, MiningThreads, TLAPS

(* A sum and a wrap stay within the nonce's type. *)
LEMMA PlusInRange ==
  ASSUME NEW a \in Nonces, NEW b \in Nonces
  PROVE  Plus(a, b) \in Nonces
BY RangeAssumption DEF Plus, Nonces

LEMMA ThreadIsNonce == \A t \in ThreadIds : t \in Nonces
BY RangeAssumption DEF ThreadIds, Nonces

(* Every variable keeps its type: nonces and batch ends are values of a      *)
(* uint32_t whatever is added to them.                                       *)
THEOREM NonceTypesCorrect == NonceSpec => []NoncesOK
<1>1. NonceInit => NoncesOK
  BY RangeAssumption, JobsAssumption, ThreadIsNonce DEF NonceInit, NoncesOK, Nonces
<1>2. NoncesOK /\ [NonceNext]_nonceVars => NoncesOK'
  <2> SUFFICES ASSUME NoncesOK, [NonceNext]_nonceVars PROVE NoncesOK'
    OBVIOUS
  <2> USE DEF NoncesOK
  <2>1. CASE NewJob
    BY <2>1, JobsAssumption DEF NewJob
  <2>2. ASSUME NEW t \in ThreadIds, StartBatch(t) PROVE NoncesOK'
    <3>1. FirstNonce(t) \in Nonces
      BY ThreadIsNonce DEF FirstNonce
    <3>2. Batch \in Nonces
      BY RangeAssumption DEF Nonces
    <3>3. Plus(FirstNonce(t), Batch) \in Nonces
      BY <3>1, <3>2, PlusInRange
    <3> QED
      BY <2>2, <3>1, <3>3 DEF StartBatch
  <2>3. ASSUME NEW t \in ThreadIds, HashNonce(t) PROVE NoncesOK'
    <3>1. Plus(nonce[t], N) \in Nonces
      BY PlusInRange, RangeAssumption DEF Nonces
    <3> QED
      BY <2>3, <3>1 DEF HashNonce
  <2>4. ASSUME NEW t \in ThreadIds, FinishBatch(t) PROVE NoncesOK'
    BY <2>4, ThreadIsNonce DEF FinishBatch, Wrapped
  <2>5. CASE UNCHANGED nonceVars
    BY <2>5 DEF nonceVars
  <2> QED
    BY <2>1, <2>2, <2>3, <2>4, <2>5 DEF NonceNext, NonceStep
<1> QED
  BY <1>1, <1>2, PTL DEF NonceSpec

-------------------------------------------------------------------------------
(* What a thread hashes, and what it hashes next, is its number and a        *)
(* multiple of N.                                                            *)
OnLane(t, n) == \E k \in Nat : n = t + N * k

KeepsLane(t) == OnLane(t, nonce[t]) /\ \A n \in tried[t] : OnLane(t, n)

KeepLanes == \A t \in ThreadIds : KeepsLane(t)

LEMMA Distributes ==
  ASSUME NEW k \in Int, NEW K \in Int
  PROVE  N * (k + 1 - K) = N * k + N - N * K
BY RangeAssumption

(* A multiple of N that lies above -N is not negative. *)
LEMMA NoMultipleBetween ==
  ASSUME NEW m \in Int, N * m > 0 - N
  PROVE  m \in Nat
<1>1. m < 0 => N * m =< 0 - N
  BY RangeAssumption
<1> QED
  BY <1>1, RangeAssumption

(* nonce += nonce_step stays on the lane, and the overflow of uint32_t does  *)
(* not leave it when N divides Words.                                        *)
LEMMA StepOnLane ==
  ASSUME NEW K \in Nat, Words = N * K,
         NEW t \in ThreadIds, NEW n \in Nonces, OnLane(t, n)
  PROVE  OnLane(t, Plus(n, N))
<1>1. PICK k \in Nat : n = t + N * k
  BY DEF OnLane
<1>2. CASE n + N < Words
  <2>1. Plus(n, N) = t + N * (k + 1)
    BY <1>1, <1>2, RangeAssumption DEF Plus, ThreadIds
  <2> QED
    BY <2>1 DEF OnLane
<1>3. CASE ~(n + N < Words)
  <2> DEFINE m == k + 1 - K
  <2>1. N * m = N * k + N - Words
    BY Distributes
  <2>2. N * k \in Int /\ N * m \in Int /\ t \in 0 .. N - 1
    BY RangeAssumption DEF ThreadIds
  <2>3. Plus(n, N) = t + N * m
    BY <1>1, <1>3, <2>1, <2>2, RangeAssumption DEF Plus, Nonces
  <2>4. N * m > 0 - N
    BY <1>1, <1>3, <2>1, <2>2, RangeAssumption DEF Nonces
  <2>5. m \in Nat
    BY <2>4, NoMultipleBetween
  <2> QED
    BY <2>3, <2>5 DEF OnLane
<1> QED
  BY <1>2, <1>3

(* Two lanes have no nonce in common. *)
LEMMA LanesAreDisjoint ==
  ASSUME NEW t \in ThreadIds, NEW u \in ThreadIds, NEW n, OnLane(t, n), OnLane(u, n)
  PROVE  t = u
<1>1. PICK k \in Nat : n = t + N * k
  BY DEF OnLane
<1>2. PICK j \in Nat : n = u + N * j
  BY DEF OnLane
<1>3. N * k \in Int /\ N * j \in Int /\ t \in 0 .. N - 1 /\ u \in 0 .. N - 1
  BY RangeAssumption DEF ThreadIds
<1>4. N * (k - j) = N * k - N * j /\ N * (j - k) = N * j - N * k
  BY RangeAssumption
<1>5. k - j \in Nat /\ j - k \in Nat
  <2>1. N * (k - j) > 0 - N /\ N * (j - k) > 0 - N
    BY <1>1, <1>2, <1>3, <1>4, RangeAssumption
  <2> QED
    BY <2>1, NoMultipleBetween
<1>6. k = j
  BY <1>5
<1> QED
  BY <1>1, <1>2, <1>3, <1>6

(* A lane begins at the thread's own number. *)
LEMMA LaneStart == \A t \in ThreadIds : OnLane(t, t)
<1> SUFFICES ASSUME NEW t \in ThreadIds PROVE OnLane(t, t)
  OBVIOUS
<1>1. t = t + N * 0
  BY RangeAssumption DEF ThreadIds
<1> QED
  BY <1>1 DEF OnLane

LEMMA LanesKept ==
  ASSUME NEW K \in Nat, Words = N * K
  PROVE  NoncesOK /\ KeepLanes /\ [NonceNext]_nonceVars => KeepLanes'
<1> SUFFICES ASSUME NoncesOK, KeepLanes, [NonceNext]_nonceVars, NEW u \in ThreadIds
             PROVE  KeepsLane(u)'
  BY DEF KeepLanes
<1> USE DEF NoncesOK, KeepLanes, KeepsLane
<1>1. ASSUME NEW t \in ThreadIds, StartBatch(t) PROVE KeepsLane(u)'
  <2>1. OnLane(t, FirstNonce(t))
    BY LaneStart DEF FirstNonce
  <2> QED
    BY <1>1, <2>1 DEF StartBatch
<1>2. ASSUME NEW t \in ThreadIds, HashNonce(t) PROVE KeepsLane(u)'
  <2>1. OnLane(t, Plus(nonce[t], N))
    BY StepOnLane
  <2> QED
    BY <1>2, <2>1 DEF HashNonce
<1>3. ASSUME NEW t \in ThreadIds, FinishBatch(t) PROVE KeepsLane(u)'
  <2>1. OnLane(t, Wrapped(t))
    BY LaneStart DEF Wrapped
  <2> QED
    BY <1>3, <2>1 DEF FinishBatch
<1>4. CASE NewJob \/ UNCHANGED nonceVars
  BY <1>4 DEF NewJob, nonceVars
<1> QED
  BY <1>1, <1>2, <1>3, <1>4 DEF NonceNext, NonceStep

(* With a number of threads that divides the range of the nonce (a power of  *)
(* two, for uint32_t), no nonce of a job is hashed by two threads, whatever  *)
(* the batch size and however often batch_end and the nonce overflow.        *)
THEOREM NoncesAreDisjoint ==
  ASSUME NEW K \in Nat, Words = N * K
  PROVE  NonceSpec => []NoNonceShared
<1>1. NonceInit => KeepLanes
  BY LaneStart DEF NonceInit, KeepLanes, KeepsLane
<1>2. NoncesOK /\ KeepLanes /\ [NonceNext]_nonceVars => KeepLanes'
  BY LanesKept
<1>3. KeepLanes => NoNonceShared
  BY LanesAreDisjoint DEF KeepLanes, KeepsLane, NoNonceShared
<1> QED
  BY <1>1, <1>2, <1>3, NonceTypesCorrect, PTL DEF NonceSpec
-------------------------------------------------------------------------------
(* Two nonces of a lane less than N apart are the same. *)
LEMMA SameOnLane ==
  ASSUME NEW t \in ThreadIds, NEW m \in Lane(t), NEW n \in Lane(t), m =< n, n < m + N
  PROVE  m = n
<1> DEFINE j == m \div N
           k == n \div N
<1>1. m \in Nat /\ n \in Nat /\ m % N = t /\ n % N = t /\ N \in Nat \ {0}
  BY RangeAssumption DEF Lane, Nonces
<1>2. j \in Int /\ k \in Int /\ m = N * j + t /\ n = N * k + t
  BY <1>1
<1> HIDE DEF j, k
<1>3. N * (k - j) = N * k - N * j /\ N * (j - k) = N * j - N * k
  BY <1>1, <1>2
<1>4. N * j \in Int /\ N * k \in Int
  BY <1>1, <1>2
<1>5. N * (k - j) > 0 - N /\ N * (j - k) > 0 - N
  <2>1. N * (k - j) = n - m /\ N * (j - k) = m - n
    BY <1>1, <1>2, <1>3, <1>4, RangeAssumption DEF ThreadIds
  <2> QED
    BY <1>1, <2>1
<1>6. k - j \in Nat /\ j - k \in Nat
  BY <1>2, <1>5, NoMultipleBetween
<1> QED
  BY <1>2, <1>6

(* A number of the form N * k + r has the remainder r. *)
LEMMA RemainderIs ==
  ASSUME NEW m \in Nat, NEW k \in Int, NEW r \in ThreadIds, m = N * k + r
  PROVE  m % N = r
<1> DEFINE j == m \div N
           s == m % N
<1>1. N \in Nat \ {0} /\ r \in 0 .. N - 1
  BY RangeAssumption DEF ThreadIds
<1>2. j \in Int /\ s \in 0 .. N - 1 /\ m = N * j + s
  BY <1>1
<1> HIDE DEF j, s
<1>3. N * (k - j) = N * k - N * j /\ N * (j - k) = N * j - N * k
  BY <1>1, <1>2
<1>4. N * j \in Int /\ N * k \in Int
  BY <1>1, <1>2
<1>5. N * (k - j) > 0 - N /\ N * (j - k) > 0 - N
  BY <1>1, <1>2, <1>3, <1>4
<1>6. k = j
  BY <1>2, <1>5, NoMultipleBetween
<1>7. s = r
  BY <1>1, <1>2, <1>4, <1>6
<1> QED
  BY <1>7 DEF s

(* A step of N that does not overflow stays on the lane. *)
LEMMA NextOnLane ==
  ASSUME NEW t \in ThreadIds, NEW n \in Lane(t), n + N < Words
  PROVE  n + N \in Lane(t)
<1>1. n \in Nat /\ n % N = t /\ N \in Nat \ {0}
  BY RangeAssumption DEF Lane, Nonces
<1> DEFINE k == n \div N
<1>2. k \in Int /\ n = N * k + t
  BY <1>1
<1> HIDE DEF k
<1>3. n + N = N * (k + 1) + t
  BY <1>1, <1>2 DEF ThreadIds
<1>4. (n + N) % N = t
  <2>1. n + N \in Nat /\ k + 1 \in Int
    BY <1>1, <1>2
  <2> QED
    BY <1>3, <2>1, RemainderIs
<1> QED
  BY <1>1, <1>4, RangeAssumption DEF Lane, Nonces

(* Nothing on a lane lies before the thread's own number. *)
LEMMA LaneFirst ==
  ASSUME NEW t \in ThreadIds
  PROVE  t \in Lane(t) /\ \A n \in Lane(t) : n >= t
<1>1. N \in Nat \ {0} /\ t \in Nat /\ t < N /\ t \in Nonces
  BY RangeAssumption, ThreadIsNonce DEF ThreadIds
<1>2. \A n \in Nat : n < N => n % N = n
  BY <1>1
<1>3. t \in Lane(t)
  BY <1>1, <1>2 DEF Lane
<1>4. \A n \in Lane(t) : n >= t
  <2> SUFFICES ASSUME NEW n \in Lane(t), n < t PROVE FALSE
    BY <1>1 DEF Lane, Nonces
  <2>1. n \in Nat /\ n % N = t
    BY DEF Lane, Nonces
  <2> QED
    BY <1>1, <1>2, <2>1
<1> QED
  BY <1>3, <1>4

(* The thread has hashed its lane up to where the wrap begins... *)
Swept(t) == \A n \in Lane(t) : n < Words - 1 - N => n \in tried[t]

(* ... or is on its way, with nothing left out and nothing hashed twice. *)
OnItsWay(t) ==
  /\ nonce[t] \in Lane(t)
  /\ \A n \in Lane(t) : n < nonce[t] => n \in tried[t]
  /\ \A n \in tried[t] : n < nonce[t]

Sweeping == \A t \in ThreadIds : Swept(t) \/ OnItsWay(t)

LEMMA InitSweeps == NonceInit => Sweeping
<1> SUFFICES ASSUME NonceInit, NEW t \in ThreadIds PROVE OnItsWay(t)
  BY DEF Sweeping
<1>1. nonce[t] = t /\ tried[t] = {}
  BY DEF NonceInit
<1> QED
  BY <1>1, LaneFirst DEF OnItsWay, Lane, Nonces, ThreadIds

LEMMA SweepingKept == NoncesOK /\ Sweeping /\ [NonceNext]_nonceVars => Sweeping'
<1> SUFFICES ASSUME NoncesOK, Sweeping, [NonceNext]_nonceVars, NEW u \in ThreadIds
             PROVE  Swept(u)' \/ OnItsWay(u)'
  BY DEF Sweeping
<1>1. Swept(u) \/ OnItsWay(u)
  BY DEF Sweeping
<1>2. nonce[u] \in Nat /\ Words \in Nat /\ N \in Nat /\ \A n \in Lane(u) : n \in Nat
  BY RangeAssumption DEF NoncesOK, Nonces, Lane
<1>3. ASSUME NEW t \in ThreadIds, StartBatch(t) PROVE Swept(u)' \/ OnItsWay(u)'
  <2>1. CASE t = u /\ copied[t] # job
    <3>1. nonce'[u] = u /\ tried'[u] = {}
      BY <1>3, <2>1 DEF StartBatch, FirstNonce, NoncesOK
    <3>2. \A n \in Lane(u) : ~(n < u)
      BY <1>2, LaneFirst DEF ThreadIds
    <3>3. OnItsWay(u)'
      BY <3>1, <3>2, LaneFirst DEF OnItsWay, Lane
    <3> QED
      BY <3>3
  <2>2. CASE ~(t = u /\ copied[t] # job)
    <3>1. nonce'[u] = nonce[u] /\ tried'[u] = tried[u]
      BY <1>3, <2>2 DEF StartBatch, FirstNonce, NoncesOK
    <3> QED
      BY <1>1, <3>1 DEF Swept, OnItsWay, Lane
  <2> QED
    BY <2>1, <2>2
<1>4. ASSUME NEW t \in ThreadIds, HashNonce(t) PROVE Swept(u)' \/ OnItsWay(u)'
  <2>1. CASE t # u
    <3>1. nonce'[u] = nonce[u] /\ tried'[u] = tried[u]
      BY <1>4, <2>1 DEF HashNonce, NoncesOK
    <3> QED
      BY <1>1, <3>1 DEF Swept, OnItsWay, Lane
  <2>2. CASE t = u
    <3>1. nonce'[u] = Plus(nonce[u], N) /\ tried'[u] = tried[u] \cup {nonce[u]}
      BY <1>4, <2>2 DEF HashNonce, NoncesOK
    <3>2. CASE Swept(u)
      BY <3>1, <3>2 DEF Swept, Lane
    <3>3. CASE OnItsWay(u) /\ nonce[u] + N < Words
      <4>1. nonce'[u] = nonce[u] + N
        BY <3>1, <3>3 DEF Plus
      <4>2. nonce'[u] \in Lane(u)
        BY <3>3, <4>1, NextOnLane DEF OnItsWay
      <4>3. ASSUME NEW n \in Lane(u), n < nonce'[u] PROVE n \in tried'[u]
        <5>1. CASE n < nonce[u]
          BY <3>1, <3>3, <5>1 DEF OnItsWay
        <5>2. CASE nonce[u] =< n
          BY <1>2, <3>1, <3>3, <4>1, <4>3, <5>2, SameOnLane DEF OnItsWay
        <5> QED
          BY <1>2, <5>1, <5>2
      <4>4. \A n \in tried'[u] : n < nonce'[u]
        <5> SUFFICES ASSUME NEW n \in tried'[u] PROVE n < nonce'[u]
          OBVIOUS
        <5>1. n \in Nat /\ n =< nonce[u]
          BY <1>2, <3>1, <3>3 DEF OnItsWay, NoncesOK, Nonces
        <5> QED
          BY <1>2, <4>1, <5>1, RangeAssumption
      <4>5. OnItsWay(u)'
        BY <4>2, <4>3, <4>4 DEF OnItsWay, Lane
      <4> QED
        BY <4>5
    <3>4. CASE OnItsWay(u) /\ ~(nonce[u] + N < Words)
      <4>1. \A n \in Lane(u) : n < Words - 1 - N => n < nonce[u]
        BY <1>2, <3>4
      <4> QED
        BY <3>1, <3>4, <4>1 DEF OnItsWay, Swept, Lane
    <3> QED
      BY <1>1, <3>2, <3>3, <3>4
  <2> QED
    BY <2>1, <2>2
<1>5. ASSUME NEW t \in ThreadIds, FinishBatch(t) PROVE Swept(u)' \/ OnItsWay(u)'
  <2>1. tried' = tried
    BY <1>5 DEF FinishBatch
  <2>2. CASE Swept(u)
    BY <2>1, <2>2 DEF Swept, Lane
  <2>3. CASE OnItsWay(u) /\ NearTheEnd(nonce[u])
    <3>1. \A n \in Lane(u) : n < Words - 1 - N => n < nonce[u]
      BY <1>2, <2>3 DEF NearTheEnd
    <3> QED
      BY <2>1, <2>3, <3>1 DEF OnItsWay, Swept, Lane
  <2>4. CASE OnItsWay(u) /\ ~NearTheEnd(nonce[u])
    <3>1. nonce'[u] = nonce[u]
      BY <1>5, <2>4 DEF FinishBatch, Wrapped, NoncesOK
    <3> QED
      BY <2>1, <2>4, <3>1 DEF OnItsWay, Lane
  <2> QED
    BY <1>1, <2>2, <2>3, <2>4
<1>6. CASE NewJob \/ UNCHANGED nonceVars
  BY <1>1, <1>6 DEF NewJob, nonceVars, Swept, OnItsWay, Lane
<1> QED
  BY <1>3, <1>4, <1>5, <1>6 DEF NonceNext, NonceStep

(* A thread comes back to a nonce it has hashed of a job only after all of   *)
(* its lane, up to where the wrap begins: no overflow of the nonce or of     *)
(* batch_end makes it hash a part of its lane twice and another never, also  *)
(* with a number of threads that does not divide the range of the nonce.     *)
THEOREM LanesAreSwept == NonceSpec => SweepsLane
<1>1. NoncesOK /\ Sweeping =>
        \A t \in ThreadIds : nonce[t] \in tried[t] => Swept(t)
  BY DEF Sweeping, OnItsWay, NoncesOK, Nonces
<1>2. NoncesOK /\ Sweeping =>
        [\A t \in ThreadIds :
           nonce[t] \in tried[t] /\ nonce'[t] # nonce[t] /\ batching'[t] =>
             \A n \in Lane(t) : n < Words - 1 - N => n \in tried[t]]_nonceVars
  BY <1>1 DEF Swept
<1> QED
  BY <1>2, InitSweeps, SweepingKept, NonceTypesCorrect, PTL DEF NonceSpec, SweepsLane

-------------------------------------------------------------------------------
USE DEF At, Goto, Locks, Unlocks, stopVars, jobVars, threadVars

(* The initial values have the types of TypeOK. *)
LEMMA ThreadsInitType == Init => TypeOK
<1> SUFFICES ASSUME Init PROVE TypeOK
  OBVIOUS
<1> USE DEF Init
<1>1. minerRunning \in BOOLEAN /\ notified \in BOOLEAN /\ hasJob \in BOOLEAN
  OBVIOUS
<1>2. currentJob \in Jobs \cup {NoJob} /\ jobMutex \in Threads \cup {Nobody}
  OBVIOUS
<1>3. tpc \in [Threads -> {"wait", "checked", "asleep", "batch", "found", "locked",
                          "verified", "done"}]
  OBVIOUS
<1>4. mined \in [Threads -> Jobs \cup {NoJob}]
  OBVIOUS
<1>5. found \in 0 .. MaxFound
  BY FoundAssumption
<1>6. lastShare \in [hashed : Jobs \cup {NoJob}, sent : Jobs \cup {NoJob}]
  BY DEF NoShare
<1> QED
  BY <1>1, <1>2, <1>3, <1>4, <1>5, <1>6 DEF TypeOK

(* Every variable keeps its type; a share only names jobs of the pools, or   *)
(* none.                                                                     *)
THEOREM ThreadsTypeCorrect == Spec => []TypeOK
<1>1. Init => TypeOK
  BY ThreadsInitType
<1>2. TypeOK /\ [Next]_vars => TypeOK'
  <2> SUFFICES ASSUME TypeOK, [Next]_vars PROVE TypeOK'
    OBVIOUS
  <2> USE DEF TypeOK
  <2>1. ASSUME NEW t \in Threads, CheckPredicate(t) PROVE TypeOK'
    BY <2>1 DEF CheckPredicate
  <2>2. ASSUME NEW t \in Threads, FallAsleep(t) PROVE TypeOK'
    BY <2>2 DEF FallAsleep
  <2>3. ASSUME NEW t \in Threads, TimeOut(t) PROVE TypeOK'
    BY <2>3 DEF TimeOut
  <2>4. ASSUME NEW t \in Threads, TakeJob(t) PROVE TypeOK'
    BY <2>4 DEF TakeJob, Refreshed
  <2>5. ASSUME NEW t \in Threads, Exit(t) PROVE TypeOK'
    BY <2>5 DEF Exit
  <2>6. ASSUME NEW t \in Threads, Find(t) PROVE TypeOK'
    BY <2>6, FoundAssumption DEF Find
  <2>7. ASSUME NEW t \in Threads, EndBatch(t) PROVE TypeOK'
    BY <2>7 DEF EndBatch
  <2>8. ASSUME NEW t \in Threads, LockForShare(t) PROVE TypeOK'
    BY <2>8 DEF LockForShare
  <2>9. ASSUME NEW t \in Threads, Verify(t) PROVE TypeOK'
    BY <2>9 DEF Verify
  <2>10. ASSUME NEW t \in Threads, Submit(t) PROVE TypeOK'
    BY <2>10 DEF Submit
  <2>11. ASSUME NEW t \in Threads, Discard(t) PROVE TypeOK'
    BY <2>11 DEF Discard
  <2>12. ASSUME NEW j \in Jobs, OnNewJob(j) PROVE TypeOK'
    BY <2>12 DEF OnNewJob, Awoken
  <2>13. CASE Stop
    BY <2>13 DEF Stop
  <2>14. CASE StopNotifies
    BY <2>14 DEF StopNotifies, Awoken
  <2>15. CASE Finished \/ UNCHANGED vars
    BY <2>15 DEF Finished, vars
  <2> QED
    BY <2>1, <2>2, <2>3, <2>4, <2>5, <2>6, <2>7, <2>8, <2>9, <2>10, <2>11, <2>12, <2>13,
       <2>14, <2>15 DEF Next, Thread, OwnStep
<1> QED
  BY <1>1, <1>2, PTL DEF Spec

-------------------------------------------------------------------------------
(* The lock is held by the thread in a critical section, and the test of the *)
(* job id keeps its meaning until the share is submitted.                    *)
VerifiedHolds == \A t \in Threads : tpc[t] = "verified" => SameJob(t)

JobInv == TypeOK /\ LockHeld /\ VerifiedHolds

LEMMA LockStep == JobInv /\ [Next]_vars => LockHeld'
<1> SUFFICES ASSUME JobInv, [Next]_vars PROVE LockHeld'
  OBVIOUS
<1> USE NobodyAssumption DEF JobInv, TypeOK, LockHeld
<1>1. ASSUME NEW t \in Threads, Thread(t) PROVE LockHeld'
  <2>1. CASE CheckPredicate(t)
    BY <2>1 DEF CheckPredicate
  <2>2. CASE FallAsleep(t)
    BY <2>2 DEF FallAsleep
  <2>3. CASE TimeOut(t)
    BY <2>3 DEF TimeOut
  <2>4. CASE TakeJob(t)
    BY <2>4 DEF TakeJob
  <2>5. CASE Exit(t)
    BY <2>5 DEF Exit
  <2>6. CASE Find(t)
    BY <2>6 DEF Find
  <2>7. CASE EndBatch(t)
    BY <2>7 DEF EndBatch
  <2>8. CASE LockForShare(t)
    BY <2>8 DEF LockForShare
  <2>9. CASE Verify(t)
    BY <2>9 DEF Verify
  <2>10. CASE Submit(t)
    BY <2>10 DEF Submit
  <2>11. CASE Discard(t)
    BY <2>11 DEF Discard
  <2> QED
    BY <1>1, <2>1, <2>2, <2>3, <2>4, <2>5, <2>6, <2>7, <2>8, <2>9, <2>10, <2>11 DEF Thread, OwnStep
<1>2. ASSUME NEW j \in Jobs, OnNewJob(j) PROVE LockHeld'
  BY <1>2 DEF OnNewJob, Awoken
<1>3. CASE Stop
  BY <1>3 DEF Stop
<1>4. CASE StopNotifies
  BY <1>4 DEF StopNotifies, Awoken
<1>5. CASE Finished \/ UNCHANGED vars
  BY <1>5 DEF Finished, vars
<1> QED
  BY <1>1, <1>2, <1>3, <1>4, <1>5 DEF Next

(* on_new_job needs the lock that a verified thread holds; and a thread      *)
(* changes its own copy only when it has no share in hand.                   *)
LEMMA VerifiedStep == JobInv /\ [Next]_vars => VerifiedHolds'
<1> SUFFICES ASSUME JobInv, [Next]_vars PROVE VerifiedHolds'
  OBVIOUS
<1> USE NobodyAssumption DEF JobInv, TypeOK, LockHeld, VerifiedHolds, SameJob
<1>1. ASSUME NEW t \in Threads, Thread(t) PROVE VerifiedHolds'
  <2>1. CASE TakeJob(t)
    BY <2>1 DEF TakeJob
  <2>2. CASE Verify(t)
    BY <2>2 DEF Verify
  <2>3. CASE CheckPredicate(t) \/ FallAsleep(t) \/ TimeOut(t) \/ Exit(t)
    BY <2>3 DEF CheckPredicate, FallAsleep, TimeOut, Exit
  <2>4. CASE Find(t) \/ EndBatch(t) \/ LockForShare(t)
    BY <2>4 DEF Find, EndBatch, LockForShare
  <2>5. CASE Submit(t) \/ Discard(t)
    BY <2>5 DEF Submit, Discard
  <2> QED
    BY <1>1, <2>1, <2>2, <2>3, <2>4, <2>5 DEF Thread, OwnStep
<1>2. ASSUME NEW j \in Jobs, OnNewJob(j) PROVE VerifiedHolds'
  BY <1>2 DEF OnNewJob, Awoken
<1>3. CASE Stop
  BY <1>3 DEF Stop
<1>4. CASE StopNotifies
  BY <1>4 DEF StopNotifies, Awoken
<1>5. CASE Finished \/ UNCHANGED vars
  BY <1>5 DEF Finished, vars
<1> QED
  BY <1>1, <1>2, <1>3, <1>4, <1>5 DEF Next

LEMMA JobInvHolds == Spec => []JobInv
<1>1. Init => JobInv
  BY NobodyAssumption, ThreadsInitType DEF Init, JobInv, LockHeld, VerifiedHolds
<1>2. JobInv /\ [Next]_vars => LockHeld' /\ VerifiedHolds'
  BY LockStep, VerifiedStep
<1> QED
  BY <1>1, <1>2, ThreadsTypeCorrect, PTL DEF Spec, JobInv

(* m_job_mutex is held exactly by the thread that is in a critical section.  *)
THEOREM MutexCorrect == Spec => []LockHeld
  BY JobInvHolds, PTL DEF JobInv

-------------------------------------------------------------------------------
(* If the pools never use a job id for two different jobs, every share is    *)
(* sent with the id and the time of the job it was hashed for.               *)
THEOREM SharesCoherent ==
  ASSUME \A j, k \in Jobs : j.id = k.id => j = k
  PROVE  Spec => []ShareIsOfItsJob
<1>1. Init => ShareIsOfItsJob
  BY DEF Init, ShareIsOfItsJob, NoShare
<1>2. JobInv /\ ShareIsOfItsJob /\ [Next]_vars => ShareIsOfItsJob'
  <2> SUFFICES ASSUME JobInv, ShareIsOfItsJob, [Next]_vars PROVE ShareIsOfItsJob'
    OBVIOUS
  <2> USE DEF ShareIsOfItsJob
  <2>1. ASSUME NEW t \in Threads, Submit(t) PROVE ShareIsOfItsJob'
    <3>1. currentJob.id = mined[t].id
      BY <2>1 DEF Submit, JobInv, VerifiedHolds, SameJob
    <3>2. currentJob = mined[t]
      BY <3>1, NoJobAssumption DEF JobInv, TypeOK
    <3> QED
      BY <2>1, <3>2 DEF Submit
  <2>2. ASSUME UNCHANGED lastShare PROVE ShareIsOfItsJob'
    BY <2>2
  <2>3. ASSUME NEW t \in Threads, Thread(t), ~Submit(t) PROVE UNCHANGED lastShare
    BY <2>3 DEF Thread, OwnStep, CheckPredicate, FallAsleep, TimeOut, TakeJob, Exit, Find, EndBatch,
       LockForShare, Verify, Discard
  <2>4. CASE (\E j \in Jobs : OnNewJob(j)) \/ Stop \/ StopNotifies \/ Finished \/ UNCHANGED vars
    BY <2>4, <2>2 DEF OnNewJob, Stop, StopNotifies, Finished, vars
  <2> QED
    BY <2>1, <2>2, <2>3, <2>4 DEF Next
<1> QED
  BY <1>1, <1>2, JobInvHolds, PTL DEF Spec
===============================================================================
