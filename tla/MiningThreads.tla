---------------------------- MODULE MiningThreads ----------------------------
(***************************************************************************)
(* The mining threads of Miner (src/miner.cpp) and the job they share with *)
(* the stratum thread: m_current_job under m_job_mutex, on_new_job, the    *)
(* per-thread copy of the job, the unlocked test of the job id inside a    *)
(* batch, and the locked test before a share is submitted.                 *)
(*                                                                         *)
(* A job is a record whose field `id' is its job_id; everything else in it *)
(* (header, target, solution, ntime) is what tells two jobs apart.  The    *)
(* nonces of a batch are in NonceRange: here a batch may end, and a share  *)
(* be found, at any time.  m_current_job.job_id is read without the lock   *)
(* inside a batch: while on_new_job copies, that read may give either      *)
(* answer, which are the answers before and after the copy; a spurious     *)
(* "changed" is the end of a batch.                                        *)
(***************************************************************************)
EXTENDS Naturals, FiniteSets

CONSTANTS
  Threads,   \* 0 .. num_threads - 1
  Jobs,      \* the jobs the pools may send
  NoJob,     \* the empty job: no pool sends it
  Nobody,    \* the holder of a free mutex
  MaxFound   \* bound: shares found

ASSUME NoJobAssumption == NoJob \notin Jobs /\ \A j \in Jobs : j.id # NoJob.id
ASSUME NobodyAssumption == Nobody \notin Threads
ASSUME FoundAssumption == MaxFound \in Nat

VARIABLES
  minerRunning, \* Miner::m_running
  notified,     \* stop() has come past m_job_cv.notify_all()
  currentJob,   \* m_current_job
  hasJob,       \* m_has_job
  jobMutex,     \* the holder of m_job_mutex, Nobody when it is free
  tpc,          \* where each mining thread is
  mined,        \* the job each thread has copied: current_job_id, target, solution, ...
  found,        \* shares found so far
  lastShare     \* history: the last share submitted

stopVars == <<minerRunning, notified>>
jobVars == <<currentJob, hasJob>>
threadVars == <<jobMutex, tpc, mined, found, lastShare>>
vars == <<stopVars, jobVars, threadVars>>

NoShare == [hashed |-> NoJob, sent |-> NoJob]

Init ==
  /\ minerRunning = TRUE
  /\ notified = FALSE
  /\ currentJob = NoJob
  /\ hasJob = FALSE
  /\ jobMutex = Nobody
  /\ tpc = [t \in Threads |-> "wait"]
  /\ mined = [t \in Threads |-> NoJob]
  /\ found = 0
  /\ lastShare = NoShare

SameJob(t) == currentJob.id = mined[t].id

At(t, label) == tpc[t] = label
Goto(t, label) == tpc' = [tpc EXCEPT ![t] = label]

Locks(t) == jobMutex = Nobody /\ jobMutex' = t
Unlocks(t) == jobMutex' = Nobody

-------------------------------------------------------------------------------
(* Waiting for a job: m_job_cv.wait_for(lock, 100 ms, has job or stopped) *)

(* The predicate is false: the thread holds the lock and is about to wait.   *)
CheckPredicate(t) ==
  /\ At(t, "wait")
  /\ ~hasJob /\ minerRunning
  /\ Locks(t)
  /\ Goto(t, "checked")
  /\ UNCHANGED <<stopVars, jobVars, mined, found, lastShare>>

(* Releasing the lock and waiting are one step; but stop() does not take the *)
(* lock, so its notify_all may have come between the check and the wait.     *)
FallAsleep(t) ==
  /\ At(t, "checked")
  /\ Unlocks(t)
  /\ Goto(t, "asleep")
  /\ UNCHANGED <<stopVars, jobVars, mined, found, lastShare>>

NoTimeout(t) ==  \* mutant of TimeOut: wait() instead of wait_for()
  /\ At(t, "asleep")
  /\ UNCHANGED vars

(* 100 ms have passed. *)
TimeOut(t) ==
  /\ At(t, "asleep")
  /\ Goto(t, "wait")
  /\ UNCHANGED <<stopVars, jobVars, jobMutex, mined, found, lastShare>>

(* m_job_cv.notify_all() *)
Awoken == [t \in Threads |-> IF tpc[t] = "asleep" THEN "wait" ELSE tpc[t]]

FirstJobKept(t) ==  \* mutant of Refreshed
  IF mined[t] = NoJob THEN currentJob ELSE mined[t]

(* What a thread works on after looking at m_current_job: a copy of it when  *)
(* the job id differs from the one it has, else what it has.                 *)
Refreshed(t) == IF SameJob(t) THEN mined[t] ELSE currentJob

(* The wait ends with the lock and a job. *)
TakeJob(t) ==
  /\ At(t, "wait")
  /\ jobMutex = Nobody
  /\ minerRunning
  /\ hasJob
  /\ mined' = [mined EXCEPT ![t] = Refreshed(t)]
  /\ Goto(t, "batch")
  /\ UNCHANGED <<stopVars, jobVars, jobMutex, found, lastShare>>

(* The wait ends and the miner is no longer running: the thread returns. *)
Exit(t) ==
  /\ At(t, "wait")
  /\ jobMutex = Nobody
  /\ ~minerRunning
  /\ Goto(t, "done")
  /\ UNCHANGED <<stopVars, jobVars, jobMutex, mined, found, lastShare>>

-------------------------------------------------------------------------------
(* A batch *)

(* A hash meets the target of the copied job. *)
Find(t) ==
  /\ At(t, "batch")
  /\ minerRunning
  /\ hasJob
  /\ SameJob(t)
  /\ found < MaxFound
  /\ found' = found + 1
  /\ Goto(t, "found")
  /\ UNCHANGED <<stopVars, jobVars, jobMutex, mined, lastShare>>

(* The inner loop ends: nonces exhausted, stop, no job, or another job id. *)
EndBatch(t) ==
  /\ At(t, "batch")
  /\ Goto(t, "wait")
  /\ UNCHANGED <<stopVars, jobVars, jobMutex, mined, found, lastShare>>

ShareWithoutLock(t) ==  \* mutant of LockForShare
  /\ At(t, "found")
  /\ jobMutex = Nobody
  /\ Goto(t, "locked")
  /\ UNCHANGED <<stopVars, jobVars, jobMutex, mined, found, lastShare>>

LockForShare(t) ==
  /\ At(t, "found")
  /\ Locks(t)
  /\ Goto(t, "locked")
  /\ UNCHANGED <<stopVars, jobVars, mined, found, lastShare>>

(* "Verify job hasn't changed before submitting" *)
Verify(t) ==
  /\ At(t, "locked")
  /\ SameJob(t)
  /\ Goto(t, "verified")
  /\ UNCHANGED <<stopVars, jobVars, jobMutex, mined, found, lastShare>>

(* submit_share(m_current_job, nonce, current_solution), under the lock: the *)
(* id and the time of the current job, the solution of the copied one.       *)
Submit(t) ==
  /\ At(t, "verified")
  /\ lastShare' = [hashed |-> mined[t], sent |-> currentJob]
  /\ Unlocks(t)
  /\ Goto(t, "batch")
  /\ UNCHANGED <<stopVars, jobVars, mined, found>>

(* "Job changed, share is stale - don't submit" *)
Discard(t) ==
  /\ At(t, "locked")
  /\ ~SameJob(t)
  /\ Unlocks(t)
  /\ Goto(t, "batch")
  /\ UNCHANGED <<stopVars, jobVars, mined, found, lastShare>>

-------------------------------------------------------------------------------
(* The other threads *)

(* on_new_job(), on the stratum thread. *)
OnNewJob(j) ==
  /\ jobMutex = Nobody
  /\ currentJob' = j
  /\ hasJob' = TRUE
  /\ tpc' = Awoken
  /\ UNCHANGED <<stopVars, jobMutex, mined, found, lastShare>>

(* stop(), the part the mining threads see: m_running = false, then          *)
(* m_has_job = false and notify_all(), none of it under m_job_mutex.         *)
Stop ==
  /\ minerRunning
  /\ minerRunning' = FALSE
  /\ UNCHANGED <<notified, jobVars, threadVars>>

StopNotifies ==
  /\ ~minerRunning
  /\ ~notified
  /\ notified' = TRUE
  /\ hasJob' = FALSE
  /\ tpc' = Awoken
  /\ UNCHANGED <<minerRunning, currentJob, jobMutex, mined, found, lastShare>>

(* Everything a thread does by itself; Submit also calls the stratum client. *)
OwnStep(t) ==
  \/ CheckPredicate(t)
  \/ FallAsleep(t)
  \/ TimeOut(t)
  \/ TakeJob(t)
  \/ Exit(t)
  \/ Find(t)
  \/ EndBatch(t)
  \/ LockForShare(t)
  \/ Verify(t)
  \/ Discard(t)

Thread(t) == OwnStep(t) \/ Submit(t)

Finished == (\A t \in Threads : tpc[t] = "done") /\ UNCHANGED vars

Next ==
  \/ \E t \in Threads : Thread(t)
  \/ \E j \in Jobs : OnNewJob(j)
  \/ Stop
  \/ StopNotifies
  \/ Finished

Spec == Init /\ [][Next]_vars

(* Each thread is scheduled (no fairness of the mutex is needed), and a      *)
(* batch ends, having a last nonce (NonceRange says when it has not).        *)
FairSpec ==
  /\ Spec
  /\ WF_vars(StopNotifies)
  /\ \A t \in Threads : WF_vars(Thread(t)) /\ WF_vars(EndBatch(t))

-------------------------------------------------------------------------------
TypeOK ==
  /\ minerRunning \in BOOLEAN
  /\ notified \in BOOLEAN
  /\ currentJob \in Jobs \cup {NoJob}
  /\ hasJob \in BOOLEAN
  /\ jobMutex \in Threads \cup {Nobody}
  /\ tpc \in [Threads -> {"wait", "checked", "asleep", "batch", "found", "locked",
                          "verified", "done"}]
  /\ mined \in [Threads -> Jobs \cup {NoJob}]
  /\ found \in 0 .. MaxFound
  /\ lastShare \in [hashed : Jobs \cup {NoJob}, sent : Jobs \cup {NoJob}]

(* The threads in a critical section are the holders of m_job_mutex: one at  *)
(* most, and the mutex is never left locked.                                 *)
LockHeld ==
  \A t \in Threads : tpc[t] \in {"checked", "locked", "verified"} <=> jobMutex = t

(* A share is sent with the id and the time of the job it was hashed for,    *)
(* although on_new_job may run at any moment between the hash and the lock.  *)
ShareIsOfItsJob == lastShare.sent = lastShare.hashed

(* Every thread ends up on the job the miner has last received, unless the   *)
(* miner stops.                                                              *)
ThreadsFollow ==
  \A t \in Threads, j \in Jobs :
    <>[](currentJob = j) => <>(mined[t] = j \/ ~minerRunning)

(* stop() is followed by the end of every mining thread, whatever it was     *)
(* doing, even if its notification is missed or a job arrives after it.      *)
StopEndsThreads == \A t \in Threads : ~minerRunning ~> tpc[t] = "done"
===============================================================================
