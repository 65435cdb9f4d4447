------------------------------- MODULE Shutdown -------------------------------
(***************************************************************************)
(* How the miner stops: Miner::stop() (src/miner.cpp) closes the client's  *)
(* socket under the stratum thread and joins it, while that thread may be  *)
(* anywhere between connect() and disconnect() (stratum_client.cpp).       *)
(*                                                                         *)
(* m_socket is a plain int that both threads read and write without a      *)
(* lock: every statement that does is a step, and reads it anew.  The file *)
(* descriptors are the process's, so a number that is closed is given to   *)
(* the next file opened; the stats thread opens and closes one.  MinerStop *)
(* puts these actions together with the API server's.  What the messages   *)
(* say is in StratumClient, the choice of pools and the waiting in         *)
(* Failover, the mining threads in MiningThreads.                          *)
(***************************************************************************)
EXTENDS Descriptors

Closers == {"stratum", "stopper"}  \* the threads that call disconnect()

VARIABLES
  minerRunning,   \* Miner::m_running
  clientRunning,  \* StratumClient::m_running
  connected,      \* StratumClient::m_connected
  socket,         \* StratumClient::m_socket
  up,             \* the last connection made is established and not shut down
  pc,             \* where the two threads are
  after,          \* where disconnect() returns to in the stratum thread
  stats,          \* where the stats thread is
  statsFd,        \* the descriptor of its file, NoFd if it has none
  foreignClose    \* history: a thread has closed a descriptor that was not its own

flags == <<minerRunning, clientRunning, connected>>
files == <<socket, fds, up, foreignClose>>
others == <<stats, statsFd>>
vars == <<flags, files, pc, after, others>>

Init ==
  /\ minerRunning = TRUE
  /\ clientRunning = FALSE
  /\ connected = FALSE
  /\ socket = NoFd
  /\ fds = [f \in Fds |-> "free"]
  /\ up = FALSE
  /\ pc = [p \in Closers |-> IF p = "stratum" THEN "loop" ELSE "idle"]
  /\ after = "loop"
  /\ stats = "asleep"
  /\ statsFd = NoFd
  /\ foreignClose = FALSE

At(p, label) == pc[p] = label
Goto(p, label) == pc' = [pc EXCEPT ![p] = label]

-------------------------------------------------------------------------------
(* if (m_socket >= 0) { shutdown(m_socket); close(m_socket); m_socket = -1; } *)

Return(p) == Goto(p, IF p = "stratum" THEN after ELSE "join")

TestSocket(p) ==
  /\ At(p, "test")
  /\ IF socket # NoFd THEN Goto(p, "shutdown") ELSE Return(p)
  /\ UNCHANGED <<flags, files, after, others>>

NoShutdown(p) ==  \* mutant of ShutdownSocket: close() alone
  /\ At(p, "shutdown")
  /\ Goto(p, "close")
  /\ UNCHANGED <<flags, files, after, others>>

ShutdownSocket(p) ==
  /\ At(p, "shutdown")
  /\ up' = (up /\ ~OpenOn(socket, "pool"))
  /\ Goto(p, "close")
  /\ UNCHANGED <<flags, socket, fds, foreignClose, after, others>>

(* close(m_socket), of whatever the number stands for by now. *)
CloseCurrent ==
  /\ Closed(socket)
  /\ foreignClose' = (foreignClose \/ \E use \in Uses \ {"free", "pool"} : OpenOn(socket, use))

CloseSocket(p) ==
  /\ At(p, "close")
  /\ CloseCurrent
  /\ Goto(p, "clear")
  /\ UNCHANGED <<flags, socket, up, after, others>>

ClearSocket(p) ==
  /\ At(p, "clear")
  /\ socket' = NoFd
  /\ Return(p)
  /\ UNCHANGED <<flags, fds, up, foreignClose, after, others>>

Closing(p) == TestSocket(p) \/ ShutdownSocket(p) \/ CloseSocket(p) \/ ClearSocket(p)

-------------------------------------------------------------------------------
(* The stratum thread *)

(* while (m_running) *)
Loop ==
  /\ At("stratum", "loop")
  /\ Goto("stratum", IF minerRunning THEN "connect" ELSE "exit")
  /\ UNCHANGED <<flags, files, after, others>>

(* connect() first closes the socket there may still be. *)
Connect ==
  /\ At("stratum", "connect")
  /\ after' = "open"
  /\ Goto("stratum", "test")
  /\ UNCHANGED <<flags, files, others>>

(* m_connected = false; getaddrinfo(); socket() *)
OpenSocket ==
  /\ At("stratum", "open")
  /\ connected' = FALSE
  /\ \E f \in Fds : Opened(f, "pool") /\ socket' = f
  /\ up' = FALSE
  /\ Goto("stratum", "connecting")
  /\ UNCHANGED <<minerRunning, clientRunning, foreignClose, after, others>>

(* getaddrinfo() or socket() fails. *)
OpenFails ==
  /\ At("stratum", "open")
  /\ connected' = FALSE
  /\ Goto("stratum", "failure")
  /\ UNCHANGED <<minerRunning, clientRunning, files, after, others>>

ConnectSucceeds ==
  /\ At("stratum", "connecting")
  /\ OpenOn(socket, "pool")
  /\ up' = TRUE
  /\ Goto("stratum", "established")
  /\ UNCHANGED <<flags, socket, fds, foreignClose, after, others>>

ConnectRefused ==
  /\ At("stratum", "connecting")
  /\ Goto("stratum", "refused")
  /\ UNCHANGED <<flags, files, after, others>>

RefusedForgotten ==  \* mutant of CloseRefused: the failed connect() leaks its socket
  /\ At("stratum", "refused")
  /\ Goto("stratum", "clearRefused")
  /\ UNCHANGED <<flags, files, after, others>>

CloseRefused ==
  /\ At("stratum", "refused")
  /\ CloseCurrent
  /\ Goto("stratum", "clearRefused")
  /\ UNCHANGED <<flags, socket, up, after, others>>

ClearRefused ==
  /\ At("stratum", "clearRefused")
  /\ socket' = NoFd
  /\ Goto("stratum", "failure")
  /\ UNCHANGED <<flags, fds, up, foreignClose, after, others>>

Established ==
  /\ At("stratum", "established")
  /\ connected' = TRUE
  /\ Goto("stratum", "subscribe")
  /\ UNCHANGED <<minerRunning, clientRunning, files, after, others>>

(* disconnect(), up to the socket; it returns to ret. *)
Disconnect(ret) ==
  /\ clientRunning' = FALSE
  /\ connected' = FALSE
  /\ after' = ret
  /\ Goto("stratum", "test")
  /\ UNCHANGED <<minerRunning, files, others>>

(* subscribe() and authorize() send, and block in recv() for the answer. *)
CanSend == connected /\ OpenOn(socket, "pool")

Request ==
  /\ CanSend
  /\ \/ At("stratum", "subscribe") /\ Goto("stratum", "subscription")
     \/ At("stratum", "authorize") /\ Goto("stratum", "authorization")
  /\ UNCHANGED <<flags, files, after, others>>

RequestFails ==
  /\ pc["stratum"] \in {"subscribe", "authorize"}
  /\ ~CanSend
  /\ Disconnect("failure")

(* Any line will do for subscribe(). *)
Subscribed ==
  /\ At("stratum", "subscription")
  /\ up
  /\ Goto("stratum", "authorize")
  /\ UNCHANGED <<flags, files, after, others>>

Authorized ==
  /\ At("stratum", "authorization")
  /\ up
  /\ Goto("stratum", "run")
  /\ UNCHANGED <<flags, files, after, others>>

(* An empty line; for authorize() also a refusal, or a tenth line in vain. *)
Refused ==
  /\ pc["stratum"] \in {"subscription", "authorization"}
  /\ up
  /\ Disconnect("failure")

(* run(): m_running = true, whatever stop() has set it to. *)
Run ==
  /\ At("stratum", "run")
  /\ clientRunning' = TRUE
  /\ Goto("stratum", "serve")
  /\ UNCHANGED <<minerRunning, connected, files, after, others>>

(* The conditions of the loops of run() and, in authorize(), receive_line(). *)
Serve ==
  /\ connected
  /\ \/ At("stratum", "serve") /\ clientRunning /\ Goto("stratum", "receive")
     \/ At("stratum", "await") /\ Goto("stratum", "authorization")
  /\ UNCHANGED <<flags, files, after, others>>

ServeEnds ==
  \/ At("stratum", "serve") /\ ~(clientRunning /\ connected) /\ Disconnect("loop")
  \/ At("stratum", "await") /\ ~connected /\ Disconnect("failure")

(* recv(m_socket) blocks on the connection, or fails at once. *)
Receive ==
  /\ At("stratum", "receive")
  /\ OpenOn(socket, "pool")
  /\ Goto("stratum", "blocked")
  /\ UNCHANGED <<flags, files, after, others>>

ReceiveFails ==
  /\ At("stratum", "receive")
  /\ ~OpenOn(socket, "pool")
  /\ Disconnect("loop")

(* A line in run(), or a notification before the answer to authorize(), with *)
(* a job for on_new_job() or with none.                                      *)
Data ==
  /\ up
  /\ \/ /\ At("stratum", "blocked")
        /\ Goto("stratum", "serve") \/ Goto("stratum", "deliver")
     \/ /\ At("stratum", "authorization")
        /\ Goto("stratum", "await") \/ Goto("stratum", "early")
  /\ UNCHANGED <<flags, files, after, others>>

(* on_new_job(), which needs m_job_mutex. *)
Deliver ==
  /\ \/ At("stratum", "deliver") /\ Goto("stratum", "serve")
     \/ At("stratum", "early") /\ Goto("stratum", "await")
  /\ UNCHANGED <<flags, files, after, others>>

(* mutant of EndOfFile: stratum_thread() does not "always clean up" *)
NoCleanUp ==
  /\ pc["stratum"] \in {"subscription", "authorization", "blocked"}
  /\ ~up
  /\ connected' = FALSE
  /\ Goto("stratum", IF At("stratum", "blocked") THEN "loop" ELSE "failure")
  /\ UNCHANGED <<minerRunning, clientRunning, files, after, others>>

EndOfFile ==
  /\ ~up
  /\ \/ pc["stratum"] \in {"subscription", "authorization"} /\ Disconnect("failure")
     \/ At("stratum", "blocked") /\ Disconnect("loop")

(* handle_failure: give up, or sleep for the backoff. *)
HandleFailure ==
  /\ At("stratum", "failure")
  /\ Goto("stratum", IF minerRunning THEN "sleep" ELSE "exit")
  /\ UNCHANGED <<flags, files, after, others>>

Wake ==
  /\ At("stratum", "sleep")
  /\ Goto("stratum", "loop")
  /\ UNCHANGED <<flags, files, after, others>>

(* What the thread does by itself, and what it waits for the pool to do. *)
StratumStep ==
  \/ Closing("stratum")
  \/ Loop
  \/ Connect
  \/ OpenSocket
  \/ OpenFails
  \/ ConnectSucceeds
  \/ ConnectRefused
  \/ CloseRefused
  \/ ClearRefused
  \/ Established
  \/ Request
  \/ RequestFails
  \/ Run
  \/ Serve
  \/ ServeEnds
  \/ Receive
  \/ ReceiveFails
  \/ Deliver
  \/ EndOfFile
  \/ HandleFailure
  \/ Wake

PoolAnswers == Subscribed \/ Authorized \/ Refused \/ Data

-------------------------------------------------------------------------------
(* The thread that calls Miner::stop(), after m_api_server.stop(), which     *)
(* MinerStop has.                                                            *)

(* m_running = false *)
StopMiner ==
  /\ At("stopper", "idle")
  /\ minerRunning' = FALSE
  /\ Goto("stopper", "stop")
  /\ UNCHANGED <<clientRunning, connected, files, after, others>>

(* m_stratum.stop() *)
StopClient ==
  /\ At("stopper", "stop")
  /\ clientRunning' = FALSE
  /\ Goto("stopper", "disconnect")
  /\ UNCHANGED <<minerRunning, connected, files, after, others>>

(* m_stratum.disconnect(), up to the socket *)
DisconnectClient ==
  /\ At("stopper", "disconnect")
  /\ clientRunning' = FALSE
  /\ connected' = FALSE
  /\ Goto("stopper", "test")
  /\ UNCHANGED <<minerRunning, files, after, others>>

Join ==
  /\ At("stopper", "join")
  /\ At("stratum", "exit")
  /\ stats = "done"
  /\ Goto("stopper", "joined")
  /\ UNCHANGED <<flags, files, after, others>>

StopperStep == Closing("stopper") \/ StopClient \/ DisconnectClient \/ Join

-------------------------------------------------------------------------------
(* The stats thread and the pool *)

(* The end of the sleep, and the test of m_running behind it. *)
StatsWakes ==
  /\ stats = "asleep"
  /\ stats' = IF minerRunning THEN "awake" ELSE "done"
  /\ UNCHANGED <<flags, files, pc, after, statsFd>>

OpenStats ==
  /\ stats = "awake"
  /\ \E f \in Fds : Opened(f, "file") /\ statsFd' = f
  /\ stats' = "writing"
  /\ UNCHANGED <<flags, socket, up, foreignClose, pc, after>>

(* open() fails: there is no free descriptor, or no directory. *)
NoStats ==
  /\ stats = "awake"
  /\ stats' = "asleep"
  /\ UNCHANGED <<flags, files, pc, after, statsFd>>

CloseStats ==
  /\ stats = "writing"
  /\ Closed(statsFd)
  /\ foreignClose' = (foreignClose \/ ~OpenOn(statsFd, "file"))
  /\ statsFd' = NoFd
  /\ stats' = "asleep"
  /\ UNCHANGED <<flags, socket, up, pc, after>>

StatsStep == StatsWakes \/ OpenStats \/ NoStats \/ CloseStats

PoolCloses ==
  /\ up
  /\ up' = FALSE
  /\ UNCHANGED <<flags, socket, fds, foreignClose, pc, after, others>>

-------------------------------------------------------------------------------
Labels == {"loop", "connect", "open", "connecting", "refused", "clearRefused",
           "established", "subscribe", "subscription", "authorize", "authorization",
           "early", "await", "run", "serve", "receive", "blocked", "deliver", "failure",
           "sleep", "exit", "test", "shutdown", "close", "clear",
           "idle", "stop", "disconnect", "join", "joined"}

TypeOK ==
  /\ minerRunning \in BOOLEAN
  /\ clientRunning \in BOOLEAN
  /\ connected \in BOOLEAN
  /\ socket \in Fds \cup {NoFd}
  /\ fds \in [Fds -> Uses]
  /\ up \in BOOLEAN
  /\ pc \in [Closers -> Labels]
  /\ pc["stopper"] \in {"idle", "stop", "disconnect", "test", "shutdown", "close",
                        "clear", "join", "joined"}
  /\ after \in {"loop", "open", "failure"}
  /\ stats \in {"asleep", "awake", "writing", "done"}
  /\ statsFd \in Fds \cup {NoFd}
  /\ foreignClose \in BOOLEAN

(* "Safety: ensure any existing socket is closed before creating new one":   *)
(* the two threads together never leave two pool connections open, in        *)
(* whatever order their tests, closes and resets of m_socket interleave.     *)
OneConnection == \A f, g \in Open("pool") : f = g

(* When stop() has returned, no connection is left behind. *)
NothingLeftOpen ==
  At("stopper", "joined") => socket = NoFd /\ Open("pool") = {}

(* Between the test of m_running in stratum_thread's loop and the end of     *)
(* connect().                                                                *)
InConnect ==
  \/ pc["stratum"] \in {"connect", "open", "connecting", "refused", "clearRefused",
                        "established"}
  \/ pc["stratum"] \in {"test", "shutdown", "close", "clear"} /\ after = "open"

(* stop() returns ("Stop mining"): the stratum thread is woken from whatever *)
(* it waits for and ends, even if the pool never sends another byte.  It     *)
(* does not when connect() has not yet made its socket as stop() looks.      *)
StopReturns == At("stopper", "stop") ~> At("stopper", "joined")

(* Outside connect() it does: blocked in recv() of the handshake or of run(),*)
(* sleeping, failing, or closing the socket at the same time.                *)
StopOutsideConnect ==
  At("stopper", "stop") /\ ~InConnect ~> At("stopper", "joined")

(* "Always clean up socket after run() returns": what is closed is the       *)
(* client's socket, not a file that has got its number.                      *)
OwnDescriptorsOnly == ~foreignClose
===============================================================================
