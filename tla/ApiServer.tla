------------------------------- MODULE ApiServer -------------------------------
(***************************************************************************)
(* The HTTP server of the miner (include/utils/api_server.hpp): start(),   *)
(* which Miner::start() calls, the thread that accepts and answers one     *)
(* client at a time, and stop(), which closes the listening socket under   *)
(* that thread and joins it.                                               *)
(*                                                                         *)
(* m_socket is a plain int here too: the server thread reads it for each   *)
(* accept(), stop() resets it.  accept() holds on to the socket it was     *)
(* called on; that the socket is shut down before it is closed is what     *)
(* wakes it.                                                               *)
(***************************************************************************)
EXTENDS Descriptors

VARIABLES
  apiRunning,  \* ApiServer::m_running
  listener,    \* ApiServer::m_socket
  listening,   \* the socket made by start() accepts connections
  client,      \* the connection handle_client() serves
  server,      \* where server_thread() is
  api          \* where the callers of start() and stop() are

apiVars == <<apiRunning, listener, listening, client, server, api>>

Init ==
  /\ apiRunning = FALSE
  /\ listener = NoFd
  /\ listening = FALSE
  /\ client = NoFd
  /\ server = "none"
  /\ api = "off"

Server(from, to) == server = from /\ server' = to
Caller(from, to) == api = from /\ api' = to

-------------------------------------------------------------------------------
(* start() *)

(* The server is disabled, or there is no socket for it. *)
NotStarted ==
  /\ Caller("off", "failed")
  /\ UNCHANGED <<apiRunning, listener, listening, client, server, fds>>

CreateListener ==
  /\ Caller("off", "bind")
  /\ \E f \in Fds : Opened(f, "listener") /\ listener' = f
  /\ UNCHANGED <<apiRunning, listening, client, server>>

(* bind() or listen() fails: the port is taken. *)
BindFails ==
  /\ Caller("bind", "failed")
  /\ Closed(listener)
  /\ listener' = NoFd
  /\ UNCHANGED <<apiRunning, listening, client, server>>

Listen ==
  /\ Caller("bind", "on")
  /\ listening' = TRUE
  /\ apiRunning' = TRUE
  /\ server' = "loop"
  /\ UNCHANGED <<listener, client, fds>>

StartStep == NotStarted \/ CreateListener \/ BindFails \/ Listen

-------------------------------------------------------------------------------
(* server_thread() and handle_client() *)

(* while (m_running) *)
Loop ==
  /\ Server("loop", IF apiRunning THEN "accept" ELSE "done")
  /\ UNCHANGED <<apiRunning, listener, listening, client, api, fds>>

(* accept(m_socket) waits for a client ... *)
Accept ==
  /\ Server("accept", "waiting")
  /\ OpenOn(listener, "listener")
  /\ UNCHANGED <<apiRunning, listener, listening, client, api, fds>>

(* ... or fails at once, the number being -1, closed or somebody else's;     *)
(* "Error, but keep trying", as long as the server runs.                     *)
AcceptFails ==
  /\ Server("accept", "loop")
  /\ ~OpenOn(listener, "listener")
  /\ UNCHANGED <<apiRunning, listener, listening, client, api, fds>>

AcceptClient ==
  /\ Server("waiting", "receive")
  /\ listening
  /\ \E f \in Fds : Opened(f, "client") /\ client' = f
  /\ UNCHANGED <<apiRunning, listener, listening, api>>

AcceptWoken ==
  /\ Server("waiting", "loop")
  /\ ~listening
  /\ UNCHANGED <<apiRunning, listener, listening, client, api, fds>>

(* The client is gone again, or no descriptor is left for it. *)
AcceptAborted ==
  /\ Server("waiting", "loop")
  /\ listening
  /\ UNCHANGED <<apiRunning, listener, listening, client, api, fds>>

(* A request for the statistics, or for something else, which is answered. *)
ClientAsks ==
  /\ Server("receive", "stats") \/ Server("receive", "close")
  /\ UNCHANGED <<apiRunning, listener, listening, client, api, fds>>

ClientForgotten ==  \* mutant of ClientLeaves: it returns without the close()
  /\ Server("receive", "loop")
  /\ client' = NoFd
  /\ UNCHANGED <<apiRunning, listener, listening, api, fds>>

(* if (n <= 0) return; *)
ClientLeaves ==
  /\ Server("receive", "close")
  /\ UNCHANGED <<apiRunning, listener, listening, client, api, fds>>

(* m_stats_callback(), and the answer with what it returns *)
ReadStats ==
  /\ Server("stats", "close")
  /\ UNCHANGED <<apiRunning, listener, listening, client, api, fds>>

CloseClient ==
  /\ Server("close", "loop")
  /\ Closed(client)
  /\ client' = NoFd
  /\ UNCHANGED <<apiRunning, listener, listening, api>>

(* What the thread does by itself; ReadStats needs the job's mutex.          *)
ServerStep ==
  \/ Loop
  \/ Accept
  \/ AcceptFails
  \/ AcceptWoken
  \/ CloseClient

Clients == AcceptClient \/ AcceptAborted \/ ClientAsks \/ ClientLeaves

-------------------------------------------------------------------------------
(* stop() *)

StopServer ==
  /\ \/ Caller("on", "shutdown") /\ apiRunning
     \/ Caller("failed", "stopped") /\ ~apiRunning
  /\ apiRunning' = FALSE
  /\ UNCHANGED <<listener, listening, client, server, fds>>

NoShutdown ==  \* mutant of ShutdownListener: close() alone
  /\ Caller("shutdown", "close")
  /\ UNCHANGED <<apiRunning, listener, listening, client, server, fds>>

ShutdownListener ==
  /\ Caller("shutdown", "close")
  /\ listening' = FALSE
  /\ UNCHANGED <<apiRunning, listener, client, server, fds>>

CloseListener ==
  /\ Caller("close", "clear")
  /\ Closed(listener)
  /\ UNCHANGED <<apiRunning, listener, listening, client, server>>

ClearListener ==
  /\ Caller("clear", "join")
  /\ listener' = NoFd
  /\ UNCHANGED <<apiRunning, listening, client, server, fds>>

JoinServer ==
  /\ Caller("join", "stopped")
  /\ server = "done"
  /\ UNCHANGED <<apiRunning, listener, listening, client, server, fds>>

StopStep == ShutdownListener \/ CloseListener \/ ClearListener \/ JoinServer

-------------------------------------------------------------------------------
TypeOK ==
  /\ apiRunning \in BOOLEAN
  /\ listener \in Fds \cup {NoFd}
  /\ listening \in BOOLEAN
  /\ client \in Fds \cup {NoFd}
  /\ server \in {"none", "loop", "accept", "waiting", "receive", "stats", "close",
                 "done"}
  /\ api \in {"off", "bind", "failed", "on", "shutdown", "close", "clear", "join",
              "stopped"}

Serving == server \in {"receive", "stats", "close"}

(* The server's descriptors are its own from the moment it opens them until  *)
(* it closes them, though other threads open and close theirs all the time   *)
(* and disconnect() may close a number twice: Miner::stop() has stopped the  *)
(* server before it closes anything else.                                    *)
KeepsItsFiles ==
  /\ api \in {"bind", "on", "shutdown", "close"} => OpenOn(listener, "listener")
  /\ Serving => OpenOn(client, "client")

(* No connection outlives the handling of its client, however that ends, and *)
(* the listening socket goes with the server.                                *)
ClosesItsFiles ==
  /\ ~Serving => Open("client") = {}
  /\ api \in {"off", "failed", "clear", "join", "stopped"} => Open("listener") = {}
===============================================================================
