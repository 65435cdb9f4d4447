------------------------------ MODULE NonceRange ------------------------------
(***************************************************************************)
(* The nonces that the mining threads of Miner (src/miner.cpp) hash: every *)
(* thread starts at its own number, advances by the number of threads, and *)
(* counts in uint32_t.  The job is only a number here: the mutex, the      *)
(* waiting and the shares are in MiningThreads.                            *)
(***************************************************************************)
EXTENDS Integers

CONSTANTS
  N,       \* num_threads: the number of threads and the step of each
  Words,   \* the values of the nonce's type: 2^32 for uint32_t
  Batch,   \* batch_size
  MaxJobs  \* bound: jobs received

ASSUME RangeAssumption ==
  /\ N \in Nat \ {0}
  /\ Words \in Nat /\ N < Words
  /\ Batch \in Nat \ {0} /\ Batch < Words
ASSUME JobsAssumption == MaxJobs \in Nat \ {0}

ThreadIds == 0 .. N - 1
Nonces == 0 .. Words - 1

VARIABLES
  job,           \* the id of m_current_job
  copied,        \* the id each thread has copied
  batching,      \* the threads in the inner loop
  nonce,         \* the next nonce of each thread
  batchEnd,      \* where its batch ends
  tried          \* history: what each thread has hashed of the job it has

nonceVars == <<job, copied, batching, nonce, batchEnd, tried>>

NonceInit ==
  /\ job = 1
  /\ copied = [t \in ThreadIds |-> 0]
  /\ batching = [t \in ThreadIds |-> FALSE]
  /\ nonce = [t \in ThreadIds |-> t]
  /\ batchEnd = [t \in ThreadIds |-> 0]
  /\ tried = [t \in ThreadIds |-> {}]

(* The sum of two uint32_t. *)
Plus(a, b) == IF a + b < Words THEN a + b ELSE a + b - Words

NonceKept(t) == nonce[t]  \* mutant of FirstNonce: a new job goes on where the old one was

(* A new job starts the thread's lane again. *)
FirstNonce(t) == IF copied[t] = job THEN nonce[t] ELSE t

(* The thread has taken the lock and compared the job with its own. *)
StartBatch(t) ==
  /\ ~batching[t]
  /\ batching' = [batching EXCEPT ![t] = TRUE]
  /\ copied' = [copied EXCEPT ![t] = job]
  /\ nonce' = [nonce EXCEPT ![t] = FirstNonce(t)]
  /\ batchEnd' = [batchEnd EXCEPT ![t] = Plus(FirstNonce(t), Batch)]
  /\ tried' = [tried EXCEPT ![t] = IF copied[t] = job THEN @ ELSE {}]
  /\ UNCHANGED job

InBatch(t) == nonce[t] < batchEnd[t] /\ copied[t] = job

StepOfOne(t) ==  \* mutant of HashNonce: nonce++ instead of nonce += nonce_step
  /\ batching[t] /\ InBatch(t)
  /\ tried' = [tried EXCEPT ![t] = @ \cup {nonce[t]}]
  /\ nonce' = [nonce EXCEPT ![t] = Plus(nonce[t], 1)]
  /\ UNCHANGED <<job, copied, batching, batchEnd>>

HashNonce(t) ==
  /\ batching[t] /\ InBatch(t)
  /\ tried' = [tried EXCEPT ![t] = @ \cup {nonce[t]}]
  /\ nonce' = [nonce EXCEPT ![t] = Plus(nonce[t], N)]
  /\ UNCHANGED <<job, copied, batching, batchEnd>>

SignedLimit(n) == n >= (Words \div 2) - 1 - N  \* mutant of NearTheEnd: INT32_MAX

(* nonce >= 0xFFFFFFFF - nonce_step *)
NearTheEnd(n) == n >= Words - 1 - N

(* "Wrap nonce if needed" *)
Wrapped(t) == IF NearTheEnd(nonce[t]) THEN t ELSE nonce[t]

FinishBatch(t) ==
  /\ batching[t] /\ ~InBatch(t)
  /\ batching' = [batching EXCEPT ![t] = FALSE]
  /\ nonce' = [nonce EXCEPT ![t] = Wrapped(t)]
  /\ UNCHANGED <<job, copied, batchEnd, tried>>

(* on_new_job(), at any time *)
NewJob ==
  /\ job < MaxJobs
  /\ job' = job + 1
  /\ UNCHANGED <<copied, batching, nonce, batchEnd, tried>>

NonceStep(t) == StartBatch(t) \/ HashNonce(t) \/ FinishBatch(t)

NonceNext == NewJob \/ \E t \in ThreadIds : NonceStep(t)

NonceSpec == NonceInit /\ [][NonceNext]_nonceVars

(* Every mining thread is scheduled. *)
NonceFairSpec == NonceSpec /\ \A t \in ThreadIds : WF_nonceVars(NonceStep(t))

-------------------------------------------------------------------------------
NoncesOK ==
  /\ job \in 1 .. MaxJobs
  /\ copied \in [ThreadIds -> 0 .. MaxJobs]
  /\ batching \in [ThreadIds -> BOOLEAN]
  /\ nonce \in [ThreadIds -> Nonces]
  /\ batchEnd \in [ThreadIds -> Nonces]
  /\ tried \in [ThreadIds -> SUBSET Nonces]

(* No nonce of a job is hashed by two threads, however the batches of the    *)
(* threads interleave with new jobs.  It needs N to divide Words.            *)
NoNonceShared ==
  \A t, u \in ThreadIds :
    t # u /\ copied[t] = copied[u] => tried[t] \cap tried[u] = {}

(* What thread t may reach by steps of N. *)
Lane(t) == {n \in Nonces : n % N = t}

(* A thread hashes a nonce a second time only after it has hashed all of its *)
(* lane, up to where the wrap begins.                                        *)
SweepsLane ==
  [][\A t \in ThreadIds :
       nonce[t] \in tried[t] /\ nonce'[t] # nonce[t] /\ batching'[t] =>
         \A n \in Lane(t) : n < Words - 1 - N => n \in tried[t]]_nonceVars

(* Every thread gets to hash nonces of the current job, even one that a wrap *)
(* of batch_end had kept from hashing the job before.                        *)
JobIsHashed == \A t \in ThreadIds : []<>(copied[t] = job /\ tried[t] # {})

(* As long as it runs, a thread goes on hashing.  It does not: batch_end     *)
(* overflows before the nonce is near enough to the end to be wrapped.       *)
KeepsHashing == \A t \in ThreadIds : []<><<HashNonce(t)>>_nonceVars
===============================================================================
