--------------------------- MODULE MCStratumClient ---------------------------
(***************************************************************************)
(* Instances of StratumClient for TLC.                                     *)
(***************************************************************************)
EXTENDS StratumClient

CONSTANTS p1, p2

TwoPools == {p1, p2}
OnlyP1 == {p1}
None == {}
Refused == {"error"}
===============================================================================
