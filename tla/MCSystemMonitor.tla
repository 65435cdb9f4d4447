--------------------------- MODULE MCSystemMonitor ---------------------------
(***************************************************************************)
(* Instances of SystemMonitor for TLC.  The counter starts anywhere, so    *)
(* that it wraps at any moment, but not twice: a CPU that draws 200 W      *)
(* takes twenty minutes for the usual range of 262 kJ.                     *)
(***************************************************************************)
EXTENDS SystemMonitor, TLC

Interchangeable == Permutations(Readers)
===============================================================================
