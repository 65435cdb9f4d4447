--------------------------------- MODULE Hasher ---------------------------------
(***************************************************************************)
(* What a Hasher hashes (src/crypto/verus_hash.cpp).  hash_raw() digests a *)
(* message a block at a time, in two buffers that change places and that   *)
(* the next message finds as this one leaves them; hash_half() and         *)
(* hash_with_nonce() do the same for a block of a job, all but the nonce   *)
(* once per job and the nonce's part once per nonce.  The key both need is *)
(* in HasherKey.                                                           *)
(*                                                                         *)
(* A buffer is a digest, of which haraka512() replaces all the bytes, and  *)
(* a block of bytes.  A byte is <<number, origin>>: a number of the input  *)
(* if the origin is <<>>, else that byte of a digest.  The digests are the *)
(* terms that make them, so that different inputs give different ones.     *)
(***************************************************************************)
EXTENDS HasherKey, Sequences

CONSTANTS
  Block,        \* bytes digested at a time (32)
  Messages,     \* what hash() and hash_raw() are called for
  JobBlocks,    \* the blocks of the jobs (1487 bytes)
  NonceSpaces   \* what hash_with_nonce() puts at their end (15 bytes)

Half == Block \div 2
Index == 0 .. Block - 1

Input == Seq(Nat \X {<<>>})  \* bytes that are given, not computed

ASSUME BlockAssumption == Block \in Nat \ {0} /\ Half > 0 /\ Half % 2 = 0
ASSUME MessageAssumption == Messages \subseteq Input
ASSUME JobAssumption ==
  /\ \A b \in JobBlocks : b \in Input /\ Len(b) % Block = Half - 1
  /\ \A n \in NonceSpaces : n \in Input /\ Len(n) = Half - 1

VARIABLES
  stream,       \* m_buf1, m_buf2, m_curBuf, m_curPos
  last,         \* history: the last message hashed, and what it came to
  block,        \* the block of the job
  intermediate, \* what hash_half() has made of it
  nonceSpace,   \* the nonce space of the last hash_with_nonce()
  curBuf        \* its buffer

job == <<block, intermediate, nonceSpace, curBuf>>
hasherVars == <<vars, stream, last, job>>

Byte(number) == <<number, <<>>>>
NoDigest == <<>>
Blank == [low |-> NoDigest, high |-> [k \in Index |-> Byte(0)]]

(* What the memory of a buffer held before. *)
Garbage == [low |-> <<NoDigest, NoDigest>>, high |-> [k \in Index |-> Byte(99)]]

ByteOf(digest, k) == IF digest = NoDigest THEN Byte(0) ELSE <<k, digest>>

Haraka512(b) == <<b.low, b.high>>

(* CLHash of a buffer, with the key that genNewCLKey() makes of its digest. *)
ClHash(b) == <<b.low, b.high, NoDigest>>

-------------------------------------------------------------------------------
(* reset(), write(), fillExtra() and finalize2b() *)

ResetButPosition(s) ==  \* mutant of Reset: m_curPos stays
  [s EXCEPT !.buf[1] = Blank, !.cur = 1]

(* m_buf2 stays as it is. *)
Reset(s) == [s EXCEPT !.buf[1] = Blank, !.cur = 1, !.pos = 0]

Current(s) == s.buf[s.cur]

(* The n bytes of data after the first `from' ones. *)
Put(s, data, from, n) ==
  [s EXCEPT !.buf[s.cur].high =
     [k \in Index |-> IF k - s.pos \in 0 .. n - 1 THEN data[from + k - s.pos + 1] ELSE @[k]]]

(* haraka512(m_result, m_curBuf), and the buffers change places. *)
Digest(s) ==
  [s EXCEPT !.buf[3 - s.cur].low = Haraka512(Current(s)), !.cur = 3 - s.cur, !.pos = 0]

(* How many bytes of data the first n blocks have taken. *)
Taken(s, n) == IF n = 0 THEN 0 ELSE n * Block - s.pos

(* The buffers after each block that data fills. *)
Digesting(s, data) ==
  LET after[n \in 0 .. (s.pos + Len(data)) \div Block] ==
        IF n = 0 THEN s
        ELSE Digest(Put(after[n - 1], data, Taken(s, n - 1), Taken(s, n) - Taken(s, n - 1)))
  IN  after

Write(s, data) ==
  LET n == (s.pos + Len(data)) \div Block
      rest == Len(data) - Taken(s, n)
  IN  [Put(Digesting(s, data)[n], data, Taken(s, n), rest) EXCEPT !.pos = @ + rest]

(* The rest of the block gets the first n bytes of a digest, over and over. *)
FillExtra(b, pos, digest, n) ==
  [b EXCEPT !.high = [k \in Index |-> IF k < pos THEN @[k] ELSE ByteOf(digest, (k - pos) % n)]]

(* fillExtra() of the buffer's own digest, CLHash, fillExtra64() of that: *)
(* what haraka512_keyed() makes the hash of.                              *)
Finalized(s) ==
  LET filled == FillExtra(Current(s), s.pos, Current(s).low, Half)
  IN  [s EXCEPT !.buf[s.cur] = FillExtra(filled, s.pos, ClHash(filled), Half \div 2)]

HashedRaw(s, data) == Finalized(Write(Reset(s), data))

-------------------------------------------------------------------------------
(* hash_half() and hash_with_nonce() *)

Fresh == [buf |-> <<Blank, Garbage>>, cur |-> 1, pos |-> 0]

(* "FillExtra - exactly as in ccminer": from byte 47 on, for 1487 bytes. *)
HashHalf(data) ==
  LET b == Current(Write(Fresh, data))
  IN  FillExtra(b, Half - 1, b.low, Half)

(* The bytes of a digest turned by one (shuf1, shuf2), with its first byte *)
(* before them, behind the nonce space.                                    *)
WithExtra(b, nonces, digest, n) ==
  [b EXCEPT !.high =
     [k \in Index |-> IF k < Half - 1 THEN nonces[k]
                      ELSE IF k = Half - 1 THEN ByteOf(digest, 0)
                      ELSE ByteOf(digest, (k - Half + 1) % n)]]

NotTurned(half, space) ==  \* mutant of WithNonce: the digest's bytes as they come
  [half EXCEPT !.high =
     [k \in Index |-> IF k < Half - 1 THEN space[k + 1] ELSE ByteOf(half.low, (k - Half) % Half)]]

WithNonce(half, space) ==
  WithExtra(half, [k \in Index |-> IF k < Half - 1 THEN space[k + 1] ELSE Byte(0)], half.low, Half)

WithClHash(b) == WithExtra(b, b.high, ClHash(b), Half \div 2)

-------------------------------------------------------------------------------
HasherInit ==
  /\ Init
  /\ stream = Fresh
  /\ last = <<>>
  /\ block \in JobBlocks
  /\ intermediate = HashHalf(block)
  /\ nonceSpace = <<>>
  /\ curBuf = Blank

(* hash_half() and prepare_key(), for a new job *)
NewJob ==
  /\ PrepareKey
  /\ block' \in JobBlocks
  /\ intermediate' = HashHalf(block')
  /\ nonceSpace' = <<>>
  /\ curBuf' = Blank
  /\ UNCHANGED <<stream, last>>

HashWithNonce ==
  /\ HashUnprepared \/ CopyKey \/ StartRestore
  /\ nonceSpace' \in NonceSpaces
  /\ curBuf' = WithNonce(intermediate, nonceSpace')
  /\ UNCHANGED <<stream, last, block, intermediate>>

KeyStep == (Restore \/ StartRounds \/ HashRound) /\ UNCHANGED <<stream, last, job>>

HashDone ==
  /\ EndHash
  /\ curBuf' = WithClHash(curBuf)
  /\ UNCHANGED <<stream, last, block, intermediate, nonceSpace>>

HashMessage ==
  /\ HashRaw
  /\ \E m \in Messages :
       /\ stream' = HashedRaw(stream, m)
       /\ last' = <<m, Current(stream')>>
  /\ UNCHANGED job

HasherNext == NewJob \/ HashWithNonce \/ KeyStep \/ HashDone \/ HashMessage

HasherSpec == HasherInit /\ [][HasherNext]_hasherVars

-------------------------------------------------------------------------------
(* The reference: the whole blocks of a message digested one after the       *)
(* other, the rest of it filled with the digest, and with CLHash's result.   *)
Digests(m) ==
  LET digest[d \in 0 .. Len(m) \div Block] ==
        IF d = 0 THEN NoDigest
        ELSE <<digest[d - 1], [k \in Index |-> m[(d - 1) * Block + k + 1]]>>
  IN  digest

Reference(m) ==
  LET n == Len(m) \div Block
      rest == Len(m) % Block
      filled(source, q) ==
        [low |-> Digests(m)[n],
         high |-> [k \in Index |-> IF k < rest THEN m[n * Block + k + 1]
                                   ELSE ByteOf(source, (k - rest) % q)]]
  IN  filled(ClHash(filled(Digests(m)[n], Half)), Half \div 2)

(* A Hasher that is used again, for longer, shorter and empty messages,      *)
(* hashes each of them as a new one would: nothing of a message before is    *)
(* left in the buffer that is hashed, though reset() clears one of the two.  *)
ReuseIsSafe == last # <<>> => last[2] = Reference(last[1])

(* The two stages come to the hash of the job's block with the nonce space   *)
(* at its end ("This exactly matches ccminer"), for any job and nonce: what  *)
(* is computed once per job holds nothing of the nonce, and the shuffles     *)
(* fill as fillExtra() does.  With StartsPristine the hashes agree.          *)
TwoStagesAgree ==
  pc = "idle" /\ nonceSpace # <<>> =>
    curBuf = Reference(SubSeq(block, 1, Len(block) - Half + 1) \o nonceSpace)
===============================================================================
