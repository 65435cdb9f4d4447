------------------------------- MODULE MCMiner -------------------------------
(***************************************************************************)
(* Instances of Miner for TLC.                                             *)
(***************************************************************************)
EXTENDS Miner

CONSTANTS p1, p2, t1, t2

TwoPools == {p1, p2}
OnlyP1 == {p1}
None == {}
Refused == {"error"}
TwoThreads == {t1, t2}
===============================================================================
