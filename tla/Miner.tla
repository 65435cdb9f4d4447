-------------------------------- MODULE Miner --------------------------------
(***************************************************************************)
(* The stratum client and the mining threads together (src/miner.cpp,      *)
(* src/stratum/stratum_client.cpp).  The job callback is on_new_job, which *)
(* takes m_job_mutex on the stratum thread; a share is sent by the mining  *)
(* thread that found it, which holds m_job_mutex while it does.  What      *)
(* StratumClient leaves to its environment (when shares are submitted, and *)
(* for which job) and what MiningThreads leaves to its own (which jobs     *)
(* arrive) is here what the other one does.                                *)
(***************************************************************************)
EXTENDS StratumClient

CONSTANTS Threads, Nobody

VARIABLES minerRunning, notified, hasJob, jobMutex, tpc, mined, found, lastShare

miningVars == <<minerRunning, notified, hasJob, jobMutex, tpc, mined, found, lastShare>>
minerVars == <<vars, miningVars>>

Mining == INSTANCE MiningThreads WITH currentJob <- job, Jobs <- {}, MaxFound <- MaxShares

MinerInit == Init /\ Mining!Init

(* A step of the stratum thread or of the pool.  One that hands out a job    *)
(* runs on_new_job, and waits for m_job_mutex as long as a mining thread     *)
(* holds it; m_current_job and m_has_job outlive the connection.             *)
StratumStep ==
  /\ Thread \/ ConnectFails \/ Pool
  /\ IF delivered' > delivered
     THEN Mining!OnNewJob(job')
     ELSE UNCHANGED miningVars

MiningStep(t) ==
  \/ Mining!OwnStep(t) /\ UNCHANGED vars
  \/ Mining!Submit(t) /\ SubmitShare(mined[t])

MinerNext == StratumStep \/ \E t \in Threads : MiningStep(t)

MinerSpec == MinerInit /\ [][MinerNext]_minerVars

(* The stratum thread and the mining threads are scheduled, batches end, and *)
(* nothing is assumed of the pool.                                           *)
MinerFairSpec ==
  /\ MinerSpec
  /\ WF_minerVars(StratumStep /\ Thread)
  /\ \A t \in Threads :
       /\ WF_minerVars(MiningStep(t))
       /\ WF_minerVars(Mining!EndBatch(t) /\ UNCHANGED vars)

-------------------------------------------------------------------------------
(* Jobs arrive during the handshake, and threads send shares of them before  *)
(* authorize() has its answer; shares of an earlier connection's job go out  *)
(* at any moment (see SharesGoHome), and their answers may be taken for      *)
(* those of the handshake.  Still no share of a job of this connection       *)
(* overtakes a request of the handshake, and each carries the extranonce its *)
(* nonce was hashed with, as long as the pool does not change it meanwhile.  *)
SharesInTime ==
  \A i \in 1 .. Len(outbox) :
    outbox[i].kind = "submit" /\ outbox[i].job.from = session =>
      /\ pc \notin {"connected", "subscribing", "subscribed"}
      /\ \A k \in i .. Len(outbox) : outbox[k].kind = "submit"
      /\ outbox[i].xn = outbox[i].job.xn

(* The threads end up on the last job the client received, whichever         *)
(* connection it came from.                                                  *)
ThreadsSettle == []<>(\A t \in Threads : mined[t] = job)

(* "Job changed, share is stale - don't submit": a share goes to the         *)
(* connection that sent its job.                                             *)
SharesGoHome ==
  \A i \in 1 .. Len(outbox) : outbox[i].kind = "submit" => outbox[i].job.from = session

(* A share of this connection's job carries the extranonce the pool has      *)
(* given this connection.                                                    *)
SharesCarryExtranonce ==
  \A i \in 1 .. Len(outbox) :
    outbox[i].kind = "submit" /\ outbox[i].job.from = session => outbox[i].xn = pool.xn
===============================================================================
