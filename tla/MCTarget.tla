------------------------------- MODULE MCTarget -------------------------------
(***************************************************************************)
(* Instances of Target for TLC: four digits of base 3, so 81 hashes, with  *)
(* difficulty 1 at 24: its first digit is zero, as in the code, and        *)
(* difficulties below 8/27 do not fit.                                     *)
(***************************************************************************)
EXTENDS Target

MCTargets == {0, 1, 5, 23, 46, 80}
MCDifficulties == {<<0, 1>>, <<-1, 1>>, <<1, 1>>, <<2, 1>>, <<7, 2>>, <<30, 1>>, <<1, 2>>, <<1, 5>>}
MCLeftovers == {[k \in Index |-> 2], [k \in Index |-> k % 2]}
===============================================================================
