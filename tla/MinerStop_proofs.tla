--------------------------- MODULE MinerStop_proofs ---------------------------
(***************************************************************************)
(* MinerStop proved for any number of descriptors: whatever the order of   *)
(* the closes, the tests and the resets, no pool connection is lost or     *)
(* doubled, and nobody closes a descriptor of the API server.              *)
(*                                                                         *)
(* The argument is IInv: m_socket is the only number of a pool connection, *)
(* and stop() comes to the client when m_running is FALSE, so that the     *)
(* stratum thread makes no other connection while stop() closes this one,  *)
(* and when the API server's descriptors are closed, so that a close that  *)
(* comes twice cannot be the close of one of them.                         *)
(***************************************************************************)
EXTENDS MinerStop, TLAPS

LEMMA InitHolds == StopInit => IInv
<1> SUFFICES ASSUME StopInit PROVE IInv
  OBVIOUS
<1> USE FdAssumption DEF StopInit, Init, Api!Init
<1>1. TypesOK
  BY DEF TypesOK, TypeOK, Api!TypeOK, Fds, Api!Fds, Uses, Labels, Closers, MinerStates
<1>2. Open("pool") = {} /\ Open("listener") = {} /\ Open("client") = {}
  BY DEF Open
<1>3. pc["stratum"] = "loop" /\ pc["stopper"] = "idle"
  BY DEF Closers
<1> QED
  BY <1>1, <1>2, <1>3 DEF IInv, StopsInOrder, SocketKnown, LastSession, ClosesOwn, ApiOwns,
     InSession

-------------------------------------------------------------------------------
(* socket() is called outside a session, when no connection is left, and     *)
(* when stop() is not at one: it makes the only one.                         *)
LEMMA OpenSocketKeeps ==
  ASSUME IInv,
         OpenSocket,
         UNCHANGED apiVars,
         miner' \in MinerStates
  PROVE  IInv'
<1> USE DEF IInv, Closers, apiVars, At, Goto, flags, others
<1>1. PICK f \in Fds : Opened(f, "pool") /\ socket' = f
  BY DEF OpenSocket
<1>2. /\ pc["stratum"] = "open"
      /\ pc'["stratum"] = "connecting"
      /\ pc'["stopper"] = pc["stopper"]
      /\ UNCHANGED <<minerRunning, stats, statsFd, foreignClose, after>>
  BY DEF OpenSocket, TypesOK, TypeOK
<1>3. ~InSession /\ InSession'
  BY <1>2 DEF InSession
<1>4. fds[f] = "free" /\ fds' = [fds EXCEPT ![f] = "pool"] /\ fds \in [Fds -> Uses]
  BY <1>1 DEF Opened, IsNewFd, TypesOK, TypeOK
<1>5. socket = NoFd /\ Open("pool") = {}
  BY <1>3, FdAssumption DEF SocketKnown, Open, Fds
<1>6. /\ Open("pool")' = {f}
      /\ Open("listener")' = Open("listener")
      /\ Open("client")' = Open("client")
  BY <1>4, <1>5 DEF Open
<1>7. pc["stopper"] \notin {"shutdown", "close", "clear"}
  BY <1>2, <1>3 DEF LastSession
<1>8. TypesOK'
  <2>1. pc' \in [Closers -> Labels]
    BY DEF OpenSocket, TypesOK, TypeOK, Labels
  <2>2. fds' \in [Fds -> Uses]
    BY <1>4 DEF Uses
  <2>3. connected' \in BOOLEAN /\ up' \in BOOLEAN
    BY DEF OpenSocket
  <2> QED
    BY <1>1, <1>2, <2>1, <2>2, <2>3 DEF OpenSocket, TypesOK, TypeOK, Api!TypeOK, Fds, Api!Fds
<1>9. StopsInOrder'
  BY <1>2 DEF StopsInOrder
<1>10. SocketKnown'
  BY <1>1, <1>2, <1>3, <1>6, <1>7 DEF SocketKnown
<1>11. LastSession'
  BY <1>3 DEF LastSession
<1>12. ClosesOwn'
  BY <1>1, <1>2, <1>3, <1>4, FdAssumption DEF ClosesOwn, OpenOn, Fds
<1>13. ApiOwns'
  BY <1>6 DEF ApiOwns
<1> QED
  BY <1>8, <1>9, <1>10, <1>11, <1>12, <1>13

(* The steps of the stratum thread.  Disconnect() begins in a session and    *)
(* stays in it; what leaves it has closed the socket and reset m_socket.     *)
LEMMA StratumKeeps ==
  ASSUME IInv,
         StratumStep \/ PoolAnswers,
         UNCHANGED apiVars,
         miner' \in MinerStates
  PROVE  IInv'
<1> USE FdAssumption DEF IInv, TypesOK, TypeOK, Api!TypeOK, StopsInOrder, SocketKnown,
     LastSession, ClosesOwn, ApiOwns, InSession, Open, OpenOn, Fds, Uses, Labels,
     Closers, Api!Fds, flags, others, files, apiVars, At, Goto
<1>1. CASE TestSocket("stratum")
  BY <1>1 DEF TestSocket, Return
<1>2. CASE ShutdownSocket("stratum")
  BY <1>2 DEF ShutdownSocket
<1>3. CASE CloseSocket("stratum")
  BY <1>3 DEF CloseSocket, CloseCurrent, Closed
<1>4. CASE ClearSocket("stratum")
  BY <1>4 DEF ClearSocket, Return
<1>5. CASE Loop
  BY <1>5 DEF Loop
<1>6. CASE Connect
  BY <1>6 DEF Connect
<1>7. CASE OpenSocket
  BY <1>7, OpenSocketKeeps
<1>8. CASE OpenFails
  <2>1. connected' \in BOOLEAN
    BY <1>8 DEF OpenFails
  <2> QED
    BY <1>8, <2>1 DEF OpenFails
<1>9. CASE ConnectSucceeds
  BY <1>9 DEF ConnectSucceeds
<1>10. CASE ConnectRefused
  BY <1>10 DEF ConnectRefused
<1>11. CASE CloseRefused
  BY <1>11 DEF CloseRefused, CloseCurrent, Closed
<1>12. CASE ClearRefused
  BY <1>12 DEF ClearRefused
<1>13. CASE Established
  BY <1>13 DEF Established
<1>14. CASE Request
  BY <1>14 DEF Request
<1>15. CASE RequestFails
  <2>1. clientRunning' \in BOOLEAN /\ connected' \in BOOLEAN
    BY <1>15 DEF RequestFails, Disconnect
  <2> QED
    BY <1>15, <2>1 DEF RequestFails, Disconnect
<1>16. CASE Subscribed
  BY <1>16 DEF Subscribed
<1>17. CASE Run
  BY <1>17 DEF Run
<1>18. CASE Serve
  BY <1>18 DEF Serve
<1>19. CASE ServeEnds
  <2>1. clientRunning' \in BOOLEAN /\ connected' \in BOOLEAN
    BY <1>19 DEF ServeEnds, Disconnect
  <2> QED
    BY <1>19, <2>1 DEF ServeEnds, Disconnect
<1>20. CASE Receive
  BY <1>20 DEF Receive
<1>21. CASE ReceiveFails
  <2>1. clientRunning' \in BOOLEAN /\ connected' \in BOOLEAN
    BY <1>21 DEF ReceiveFails, Disconnect
  <2> QED
    BY <1>21, <2>1 DEF ReceiveFails, Disconnect
<1>22. CASE Deliver
  BY <1>22 DEF Deliver
<1>23. CASE EndOfFile
  <2>1. clientRunning' \in BOOLEAN /\ connected' \in BOOLEAN
    BY <1>23 DEF EndOfFile, Disconnect
  <2> QED
    BY <1>23, <2>1 DEF EndOfFile, Disconnect
<1>24. CASE HandleFailure
  BY <1>24 DEF HandleFailure
<1>25. CASE Wake
  BY <1>25 DEF Wake
<1>26. CASE Authorized
  BY <1>26 DEF Authorized
<1>27. CASE Refused
  <2>1. clientRunning' \in BOOLEAN /\ connected' \in BOOLEAN
    BY <1>27 DEF Refused, Disconnect
  <2> QED
    BY <1>27, <2>1 DEF Refused, Disconnect
<1>28. CASE Data
  BY <1>28 DEF Data
<1> QED
  BY <1>1, <1>2, <1>3, <1>4, <1>5, <1>6, <1>7, <1>8, <1>9, <1>10, <1>11,
     <1>12, <1>13, <1>14, <1>15, <1>16, <1>17, <1>18, <1>19, <1>20, <1>21,
     <1>22, <1>23, <1>24, <1>25, <1>26, <1>27, <1>28 DEF StratumStep,
     PoolAnswers, Closing

(* The steps of Miner::stop(), once the API server is gone. *)
LEMMA StopperKeeps ==
  ASSUME IInv,
         \/ Closing("stopper") \/ StopClient \/ DisconnectClient \/ Join
         \/ StopMiner /\ api = "stopped",
         UNCHANGED apiVars,
         miner' \in MinerStates
  PROVE  IInv'
<1> USE FdAssumption DEF IInv, TypesOK, TypeOK, Api!TypeOK, StopsInOrder, SocketKnown,
     LastSession, ClosesOwn, ApiOwns, InSession, Open, OpenOn, Fds, Uses, Labels,
     Closers, Api!Fds, flags, others, files, apiVars, At, Goto
<1>1. CASE TestSocket("stopper")
  BY <1>1 DEF TestSocket, Return
<1>2. CASE ShutdownSocket("stopper")
  BY <1>2 DEF ShutdownSocket
<1>3. CASE CloseSocket("stopper")
  BY <1>3 DEF CloseSocket, CloseCurrent, Closed
<1>4. CASE ClearSocket("stopper")
  BY <1>4 DEF ClearSocket, Return
<1>5. CASE StopClient
  <2>1. clientRunning' \in BOOLEAN
    BY <1>5 DEF StopClient
  <2> QED
    BY <1>5, <2>1 DEF StopClient
<1>6. CASE DisconnectClient
  <2>1. clientRunning' \in BOOLEAN /\ connected' \in BOOLEAN
    BY <1>6 DEF DisconnectClient
  <2> QED
    BY <1>6, <2>1 DEF DisconnectClient
<1>7. CASE Join
  BY <1>7 DEF Join
<1>8. CASE StopMiner /\ api = "stopped"
  <2>1. minerRunning' \in BOOLEAN
    BY <1>8 DEF StopMiner
  <2> QED
    BY <1>8, <2>1 DEF StopMiner
<1> QED
  BY <1>1, <1>2, <1>3, <1>4, <1>5, <1>6, <1>7, <1>8 DEF Closing

(* The stats thread, which may close a pool connection that has its number,  *)
(* and the pool.                                                             *)
LEMMA StatsKeeps ==
  ASSUME IInv,
         StatsStep \/ PoolCloses,
         UNCHANGED apiVars,
         miner' \in MinerStates
  PROVE  IInv'
<1> USE FdAssumption DEF IInv, TypesOK, TypeOK, Api!TypeOK, StopsInOrder, SocketKnown,
     LastSession, ClosesOwn, ApiOwns, InSession, Open, OpenOn, Fds, Uses, Labels,
     Closers, Api!Fds, flags, others, files, apiVars, At, Goto
<1>1. CASE StatsWakes
  BY <1>1 DEF StatsWakes
<1>2. CASE OpenStats
  BY <1>2 DEF OpenStats, Opened, IsNewFd
<1>3. CASE NoStats
  BY <1>3 DEF NoStats
<1>4. CASE CloseStats
  BY <1>4 DEF CloseStats, Closed
<1>5. CASE PoolCloses
  <2>1. up' \in BOOLEAN
    BY <1>5 DEF PoolCloses
  <2> QED
    BY <1>5, <2>1 DEF PoolCloses
<1> QED
  BY <1>1, <1>2, <1>3, <1>4, <1>5 DEF StatsStep

-------------------------------------------------------------------------------
(* The steps of the API server and of its callers. *)
LEMMA ApiKeeps ==
  ASSUME IInv,
         \/ Api!StartStep \/ Api!StopStep \/ Api!ServerStep \/ Api!Clients \/ Api!ReadStats
         \/ At("stopper", "idle") /\ Api!StopServer,
         UNCHANGED <<flags, socket, up, foreignClose, pc, after, others, miner>>
  PROVE  IInv'
<1> USE FdAssumption DEF IInv, TypesOK, TypeOK, Api!TypeOK, StopsInOrder, SocketKnown,
     LastSession, ClosesOwn, ApiOwns, InSession, Open, OpenOn, Fds, Uses, Labels,
     Closers, Api!Fds, flags, others, Api!Server, Api!Caller
<1>1. CASE Api!NotStarted
  BY <1>1 DEF Api!NotStarted
<1>2. CASE Api!CreateListener
  BY <1>2 DEF Api!CreateListener, Api!Opened, Api!IsNewFd
<1>3. CASE Api!BindFails
  BY <1>3 DEF Api!BindFails, Api!Closed
<1>4. CASE Api!Listen
  BY <1>4 DEF Api!Listen
<1>5. CASE Api!ShutdownListener
  <2>1. listening' \in BOOLEAN
    BY <1>5 DEF Api!ShutdownListener
  <2> QED
    BY <1>5, <2>1 DEF Api!ShutdownListener
<1>6. CASE Api!CloseListener
  BY <1>6 DEF Api!CloseListener, Api!Closed
<1>7. CASE Api!ClearListener
  BY <1>7 DEF Api!ClearListener
<1>8. CASE Api!JoinServer
  BY <1>8 DEF Api!JoinServer
<1>9. CASE Api!Loop
  BY <1>9 DEF Api!Loop
<1>10. CASE Api!Accept
  BY <1>10 DEF Api!Accept
<1>11. CASE Api!AcceptFails
  BY <1>11 DEF Api!AcceptFails
<1>12. CASE Api!AcceptWoken
  BY <1>12 DEF Api!AcceptWoken
<1>13. CASE Api!CloseClient
  BY <1>13 DEF Api!CloseClient, Api!Closed
<1>14. CASE Api!AcceptClient
  BY <1>14 DEF Api!AcceptClient, Api!Opened, Api!IsNewFd
<1>15. CASE Api!AcceptAborted
  BY <1>15 DEF Api!AcceptAborted
<1>16. CASE Api!ClientAsks
  BY <1>16 DEF Api!ClientAsks
<1>17. CASE Api!ClientLeaves
  BY <1>17 DEF Api!ClientLeaves
<1>18. CASE Api!ReadStats
  BY <1>18 DEF Api!ReadStats
<1>19. CASE At("stopper", "idle") /\ Api!StopServer
  <2>1. apiRunning' \in BOOLEAN
    BY <1>19 DEF Api!StopServer, At
  <2> QED
    BY <1>19, <2>1 DEF Api!StopServer, At
<1> QED
  BY <1>1, <1>2, <1>3, <1>4, <1>5, <1>6, <1>7, <1>8, <1>9, <1>10, <1>11,
     <1>12, <1>13, <1>14, <1>15, <1>16, <1>17, <1>18, <1>19 DEF
     Api!StartStep, Api!StopStep, Api!ServerStep, Api!Clients

-------------------------------------------------------------------------------
(* The steps of the mining thread, and steps that change nothing. *)
LEMMA MinerKeeps ==
  ASSUME IInv,
         miner' \in MinerStates,
         UNCHANGED <<vars, apiVars>>
  PROVE  IInv'
BY DEF IInv, TypesOK, TypeOK, Api!TypeOK, StopsInOrder, SocketKnown, LastSession, ClosesOwn,
   ApiOwns, InSession, Open, OpenOn, Fds, Api!Fds, vars, flags, files, others, apiVars

(* Whatever wakes the mining thread leaves it somewhere it may be. *)
LEMMA ClientStepKeeps ==
  ASSUME TypesOK, WakesSender
  PROVE  miner' \in MinerStates
BY DEF TypesOK, WakesSender, MinerStates

LEMMA NextKeeps == IInv /\ [StopNext]_stopVars => IInv'
<1> SUFFICES ASSUME IInv, [StopNext]_stopVars PROVE IInv'
  OBVIOUS
<1> USE DEF ClientStep, ApiStep
<1>0. TypesOK
  BY DEF IInv
<1>1. CASE ClientStep(StratumStep) \/ ClientStep(PoolAnswers)
  BY <1>0, <1>1, ClientStepKeeps, StratumKeeps
<1>2. CASE CallerStep
  <2>1. CASE ApiStep(Api!StartStep) \/ ApiStep(Api!StopStep)
    BY <2>1, ApiKeeps
  <2>2. CASE StopAfterApi
    BY <1>0, <2>2, ClientStepKeeps, StopperKeeps DEF StopAfterApi
  <2>3. CASE ClientStep(Closing("stopper") \/ StopClient \/ DisconnectClient)
    BY <1>0, <2>3, ClientStepKeeps, StopperKeeps
  <2>4. CASE JoinAll
    BY <1>0, <2>4, ClientStepKeeps, StopperKeeps DEF JoinAll
  <2> QED
    BY <1>2, <2>1, <2>2, <2>3, <2>4 DEF CallerStep
<1>3. CASE ClientStep(StatsStep) \/ ClientStep(PoolCloses)
  BY <1>0, <1>3, ClientStepKeeps, StatsKeeps
<1>4. CASE ApiStep(Api!ServerStep) \/ ApiStep(Api!Clients)
  BY <1>4, ApiKeeps
<1>5. CASE ReadStats \/ StopApi
  BY <1>5, ApiKeeps DEF ReadStats, StopApi
<1>6. CASE (FindShare \/ SendShare \/ MiningStep \/ PoolReads) /\ UNCHANGED <<vars, apiVars>>
  <2>1. miner' \in MinerStates
    BY <1>6 DEF FindShare, SendShare, MiningStep, PoolReads, DropShare, SendFails, MinerEnds,
       MinerStates
  <2> QED
    BY <1>6, <2>1, MinerKeeps
<1>7. CASE UNCHANGED stopVars
  <2>1. UNCHANGED <<vars, apiVars>> /\ miner' = miner
    BY <1>7 DEF stopVars
  <2> QED
    BY <1>0, <2>1, MinerKeeps DEF TypesOK
<1> QED
  BY <1>1, <1>2, <1>3, <1>4, <1>5, <1>6, <1>7 DEF StopNext

LEMMA Invariant == StopSpec => []IInv
BY InitHolds, NextKeeps, PTL DEF StopSpec

-------------------------------------------------------------------------------
(* Every variable of Miner::stop(), of the threads it ends and of the API    *)
(* server keeps its type.                                                    *)
THEOREM TypesCorrect == StopSpec => []TypesOK
<1>1. IInv => TypesOK
  BY DEF IInv
<1> QED
  BY Invariant, <1>1, PTL

(* Two threads that close and reset m_socket as they like never leave two    *)
(* pool connections open, for any number of descriptors.                     *)
THEOREM ConnectionsUnique == StopSpec => []OneConnection
<1>1. IInv => OneConnection
  BY DEF IInv, SocketKnown, OneConnection
<1> QED
  BY Invariant, <1>1, PTL

(* When stop() has returned the last connection is closed. *)
THEOREM AllIsClosed == StopSpec => []NothingLeftOpen
<1>1. IInv => NothingLeftOpen
  BY FdAssumption DEF IInv, StopsInOrder, SocketKnown, InSession, NothingLeftOpen, At, Open, Fds
<1> QED
  BY Invariant, <1>1, PTL

(* Nobody closes the API server's descriptors under it. *)
THEOREM ApiFilesKept == StopSpec => []ApiKeepsItsFiles
<1>1. IInv => ApiKeepsItsFiles
  BY FdAssumption DEF IInv, ApiOwns, ApiKeepsItsFiles, Api!KeepsItsFiles, Api!Serving,
     Api!OpenOn, Open, Fds
<1> QED
  BY Invariant, <1>1, PTL

(* The API server leaves no descriptor open, not a client's and not its own. *)
THEOREM ApiFilesClosed == StopSpec => []ApiClosesItsFiles
<1>1. IInv => ApiClosesItsFiles
  BY DEF IInv, TypesOK, Api!TypeOK, ApiOwns, ApiClosesItsFiles, Api!ClosesItsFiles,
     Api!Serving, Api!Open, Api!Fds, Open, Fds
<1> QED
  BY Invariant, <1>1, PTL
===============================================================================
