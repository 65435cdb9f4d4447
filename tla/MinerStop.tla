------------------------------- MODULE MinerStop -------------------------------
(***************************************************************************)
(* Miner::stop() with everything it has to stop (src/miner.cpp:109-148):   *)
(* the API server first, then the stratum thread of Shutdown, the stats    *)
(* thread and the mining threads.  They share the descriptors of the       *)
(* process and m_job_mutex: a mining thread sends its share with the mutex *)
(* held, on_new_job(), the stats thread and the API's callback take it.    *)
(***************************************************************************)
EXTENDS Shutdown

VARIABLES
  apiRunning, listener, listening, client, server, api,  \* see ApiServer
  miner   \* a mining thread: "mining"; "found" a share; "blocked" in send() with
          \* m_job_mutex held; "woken" from it; or "done"

Api == INSTANCE ApiServer

apiVars == <<apiRunning, listener, listening, client, server, api>>
stopVars == <<vars, apiVars, miner>>

StopInit == Init /\ Api!Init /\ miner = "mining"

MinerStates == {"mining", "found", "blocked", "woken", "done"}

MutexFree == miner \notin {"blocked", "woken"}

-------------------------------------------------------------------------------
(* A mining thread *)

(* m_running is tested before the hash is computed, and not after. *)
FindShare ==
  /\ miner = "mining"
  /\ minerRunning
  /\ miner' = "found"

(* A share is sent with m_job_mutex held, if the client is connected and has *)
(* a connection to send on; a full socket makes the thread wait.             *)
SendShare ==
  /\ miner = "found"
  /\ connected /\ OpenOn(socket, "pool") /\ up
  /\ miner' = "blocked"

(* It is for another job, or send_message() fails. *)
DropShare ==
  /\ miner = "found"
  /\ miner' = "mining"

PoolReads ==
  /\ miner = "blocked"
  /\ miner' = "mining"

(* send() fails once the connection has been shut down or reset. *)
SendFails ==
  /\ miner = "woken"
  /\ miner' = "mining"

MinerEnds ==
  /\ miner = "mining"
  /\ ~minerRunning
  /\ miner' = "done"

(* Who is blocked in send() when the connection ends is woken. *)
WakesSender ==
  miner' = IF miner = "blocked" /\ ~up' THEN "woken" ELSE miner

-------------------------------------------------------------------------------
NeedsMutex ==
  \/ At("stratum", "deliver") /\ pc'["stratum"] # "deliver"
  \/ At("stratum", "early") /\ pc'["stratum"] # "early"
  \/ stats = "awake" /\ stats' # "awake"

(* The steps of Shutdown, as far as the other threads let them happen:       *)
(* Miner::stop() clears m_running only when m_api_server.stop() is back.     *)
ClientStep(A) ==
  /\ A
  /\ NeedsMutex => MutexFree
  /\ WakesSender
  /\ UNCHANGED apiVars

StopsAtOnce ==  \* mutant of StopAfterApi: the API server is stopped by nobody
  ClientStep(StopMiner)

StopAfterApi ==
  /\ api = "stopped"
  /\ ClientStep(StopMiner)

JoinAll == miner = "done" /\ ClientStep(Join)

ApiStep(A) == A /\ UNCHANGED <<flags, socket, up, foreignClose, pc, after, others, miner>>

(* get_api_stats_json() *)
ReadStats == MutexFree /\ ApiStep(Api!ReadStats)

StopApi == At("stopper", "idle") /\ ApiStep(Api!StopServer)

(* Miner::start() and Miner::stop() *)
CallerStep ==
  \/ ApiStep(Api!StartStep)
  \/ ApiStep(Api!StopStep)
  \/ StopAfterApi
  \/ ClientStep(Closing("stopper") \/ StopClient \/ DisconnectClient)
  \/ JoinAll

MiningStep == DropShare \/ SendFails \/ MinerEnds

StopNext ==
  \/ ClientStep(StratumStep)
  \/ ClientStep(PoolAnswers)
  \/ CallerStep
  \/ ClientStep(StatsStep)
  \/ ClientStep(PoolCloses)
  \/ ApiStep(Api!ServerStep)
  \/ ApiStep(Api!Clients)
  \/ ReadStats
  \/ StopApi
  \/ (FindShare \/ SendShare \/ MiningStep \/ PoolReads) /\ UNCHANGED <<vars, apiVars>>
  \/ At("stopper", "joined") /\ UNCHANGED stopVars

StopSpec == StopInit /\ [][StopNext]_stopVars

(* Every thread is scheduled, and start() and stop() go on once begun; the   *)
(* pool owes no answer and no reading, a client no request.  Who waits for   *)
(* m_job_mutex gets it if it is free again and again: the mining threads     *)
(* that might take it before him hash many nonces between two shares.        *)
StopFairSpec ==
  /\ StopSpec
  /\ WF_stopVars(ClientStep(StratumStep))
  /\ SF_stopVars(ClientStep(Deliver))
  /\ WF_stopVars(CallerStep)
  /\ WF_stopVars(ClientStep(StatsStep))
  /\ SF_stopVars(ClientStep(OpenStats \/ NoStats))
  /\ WF_stopVars(ApiStep(Api!ServerStep))
  /\ SF_stopVars(ReadStats)
  /\ WF_stopVars(MiningStep /\ UNCHANGED <<vars, apiVars>>)

-------------------------------------------------------------------------------
TypesOK ==
  /\ TypeOK
  /\ Api!TypeOK
  /\ miner \in MinerStates

ApiKeepsItsFiles == Api!KeepsItsFiles

ApiClosesItsFiles == Api!ClosesItsFiles

(* m_api_server.stop() returns, wherever the server thread is, unless it     *)
(* waits for a client that neither asks nor leaves, or for m_job_mutex and   *)
(* so for a pool that does not read the share a mining thread sends it.      *)
ApiServerStops ==
  \/ <>[](server = "receive")
  \/ <>[](server = "stats" /\ miner = "blocked")
  \/ api = "shutdown" ~> api = "stopped"

(* "Stop API server" comes first in Miner::stop() and must not keep it from  *)
(* the rest: m_running is cleared, and so mining ends, however the clients   *)
(* of the API and the pool behave.                                           *)
StopClearsRunning == api = "shutdown" ~> ~minerRunning

-------------------------------------------------------------------------------
(* The inductive invariant, in parts. *)

(* The stratum thread may have a connection: from socket() until it has      *)
(* reset m_socket.                                                           *)
InSession ==
  \/ pc["stratum"] \in {"connecting", "refused", "clearRefused", "established",
                        "subscribe", "subscription", "authorize", "authorization",
                        "early", "await", "run", "serve", "receive", "blocked", "deliver"}
  \/ pc["stratum"] \in {"test", "shutdown", "close", "clear"} /\ after # "open"

(* Miner::stop() gets to the client when the API server is gone, and with it *)
(* its descriptors.                                                          *)
StopsInOrder ==
  /\ pc["stopper"] # "idle" => api = "stopped" /\ ~minerRunning
  /\ api \in {"off", "bind", "failed"} => server = "none"
  /\ api = "stopped" => server \in {"none", "done"}
  /\ pc["stopper"] = "joined" => pc["stratum"] = "exit"

(* The only descriptor of a pool connection is m_socket, which is reset when *)
(* there is none left.  connect() has nothing to close.                      *)
SocketKnown ==
  /\ Open("pool") \subseteq {socket}
  /\ ~InSession => socket = NoFd
  /\ pc["stratum"] \in {"clear", "clearRefused"} => Open("pool") = {}
  /\ pc["stopper"] = "clear" => Open("pool") = {}
  /\ after = "open" => pc["stratum"] \notin {"shutdown", "close", "clear"}

(* stop() holds a socket only while the thread that made it is in its last   *)
(* session: m_running is FALSE, and so it makes no other.                    *)
LastSession ==
  pc["stopper"] \in {"shutdown", "close", "clear"} =>
    InSession \/ pc["stratum"] \in {"loop", "failure", "exit"}

(* Until then whoever closes a descriptor closes his own. *)
ClosesOwn ==
  pc["stopper"] = "idle" =>
    /\ InSession /\ pc["stratum"] \notin {"clear", "clearRefused"} => OpenOn(socket, "pool")
    /\ stats = "writing" => OpenOn(statsFd, "file")

ApiOwns ==
  /\ IF api \in {"bind", "on", "shutdown", "close"}
     THEN listener \in Fds /\ Open("listener") = {listener}
     ELSE Open("listener") = {}
  /\ IF server \in {"receive", "stats", "close"}
     THEN client \in Fds /\ Open("client") = {client}
     ELSE Open("client") = {}

IInv ==
  /\ TypesOK
  /\ StopsInOrder
  /\ SocketKnown
  /\ LastSession
  /\ ClosesOwn
  /\ ApiOwns
===============================================================================
