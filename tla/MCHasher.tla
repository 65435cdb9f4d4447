------------------------------- MODULE MCHasher -------------------------------
(***************************************************************************)
(* Instances of Hasher for TLC: blocks of 8 bytes, and so few entries of   *)
(* the key that the rounds of a hash take the same one again and again.    *)
(***************************************************************************)
EXTENDS Hasher

CONSTANTS e1, e2, w1, w2

TwoEntries == {e1, e2}
TwoWords == {w1, w2}

Text(from, length) == [n \in 1 .. length |-> Byte(from + n)]

(* Less than a block, whole blocks, blocks and a rest, and nothing at all. *)
SomeMessages == {<<>>, Text(10, 5), Text(20, 16), Text(40, 9)}

TwoBlocks == {Text(60, 11), Text(60, 19)}

TwoSpaces == {Text(80, 3), Text(90, 3)}
===============================================================================
