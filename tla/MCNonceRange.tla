----------------------------- MODULE MCNonceRange -----------------------------
(***************************************************************************)
(* Instances of NonceRange for TLC: a nonce of 3 or 4 bits stands for the  *)
(* 32 bits of the code, so that batches reach its end.                     *)
(***************************************************************************)
EXTENDS NonceRange
===============================================================================
