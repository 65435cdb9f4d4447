----------------------------- MODULE Descriptors -----------------------------
(***************************************************************************)
(* The file descriptors of the process, which its threads share: a number  *)
(* that one of them closes is the next one the kernel gives to another.    *)
(***************************************************************************)
EXTENDS Naturals

CONSTANTS
  MaxFd,  \* bound: file descriptors
  NoFd    \* -1

ASSUME FdAssumption == MaxFd \in Nat \ {0, 1, 2} /\ NoFd \notin Nat

VARIABLE fds  \* what each descriptor of the process is open on

Fds == 1 .. MaxFd

(* A connection to the pool, the file of the stats thread, the socket the    *)
(* API server listens on and the connection of one of its clients.           *)
Uses == {"free", "pool", "file", "listener", "client"}

(* The kernel gives out the lowest free descriptor. *)
IsNewFd(f) == fds[f] = "free" /\ \A g \in 1 .. f - 1 : fds[g] # "free"

Opened(f, use) == IsNewFd(f) /\ fds' = [fds EXCEPT ![f] = use]

Closed(f) == fds' = [g \in Fds |-> IF g = f THEN "free" ELSE fds[g]]

OpenOn(f, use) == f # NoFd /\ fds[f] = use

Open(use) == {f \in Fds : fds[f] = use}
===============================================================================
