-------------------------------- MODULE Target --------------------------------
(***************************************************************************)
(* From what a pool announces to the bytes a hash is compared with         *)
(* (src/utils/hex_utils.cpp, the handlers and calculate_target() of        *)
(* src/stratum/stratum_client.cpp).  A target of Len bytes is a function   *)
(* from byte index to byte; the code has Base = 256, Len = 32, Shift = 26. *)
(* A difficulty is a fraction <<n, d>>; dividing by it rounds down, where  *)
(* the code's doubles round to 53 bits first.                              *)
(***************************************************************************)
EXTENDS Integers, FiniteSetsExt

CONSTANTS
  Base, Len,     \* values of a byte, bytes of a target
  Shift,         \* zero bytes below the two of difficulty 1
  Targets,       \* numbers a pool announces as targets
  Difficulties,  \* fractions it announces as difficulties
  Leftovers      \* byte strings the stack may hold

Index == 0 .. Len - 1
Bytes == [Index -> 0 .. Base - 1]

(* Base^k *)
Power[k \in Nat] == IF k = 0 THEN 1 ELSE Base * Power[k - 1]

ASSUME SizeAssumption == Base \in Nat \ {0, 1} /\ Len \in Nat \ {0} /\ Shift \in Nat
ASSUME AnnouncedAssumption ==
  /\ Targets \subseteq 0 .. Power[Len] - 1
  /\ Difficulties \subseteq Int \X (Nat \ {0})
  /\ Leftovers \subseteq Bytes

VARIABLES
  difficulty,     \* m_difficulty
  hasPoolTarget,  \* m_has_pool_target
  poolTarget,     \* m_pool_target
  asked,          \* history: the last announcement of a target, as a number
  job             \* the last job: its target, and what asked was for it

vars == <<difficulty, hasPoolTarget, poolTarget, asked, job>>

NoTarget == -1  \* asked: the pool never announced a target
Unread == -2    \* asked: its last target is not hexadecimal

Zeros == [k \in Index |-> 0]

Init ==
  /\ difficulty = <<1, 1>>
  /\ hasPoolTarget = FALSE
  /\ poolTarget = Zeros
  /\ asked = NoTarget
  /\ job = [target |-> Zeros, asked |-> Unread, difficulty |-> <<1, 1>>]

-------------------------------------------------------------------------------
(* The number Base^2 - 1 followed by Shift bytes: the target of difficulty 1. *)
BaseTarget == (Power[2] - 1) * Power[Shift]

Quotient(diff) == (BaseTarget * diff[2]) \div diff[1]

(* What is left of a number when n bytes have been taken off its end. *)
Remaining(v) ==
  LET rest[n \in 0 .. Len] == IF n = 0 THEN v ELSE rest[n - 1] \div Base
  IN  rest

(* A number with its last byte at index Len - 1, as hexadecimal is read. *)
BigEndian(v) == [k \in Index |-> Remaining(v)[Len - 1 - k] % Base]

Reversed(b) == [k \in Index |-> b[Len - 1 - k]]

(* The number a hash is, of its first n bytes: the last of them counts most. *)
Sums(hash) ==
  LET sum[n \in 0 .. Len] == IF n = 0 THEN 0 ELSE sum[n - 1] + hash[n - 1] * Power[n - 1]
  IN  sum

HashValue(hash) == Sums(hash)[Len]

LastByteLost ==  \* mutant of DifficultyToTarget: the division comes first
  BigEndian(Quotient(difficulty) \div Base)

(* difficulty_to_target(); no difficulty of a job is zero or less. *)
DifficultyToTarget == BigEndian(Quotient(difficulty))

-------------------------------------------------------------------------------
SetAnyDifficulty ==  \* mutant of SetDifficulty: zero and less count too
  \E diff \in Difficulties :
    /\ difficulty' = diff
    /\ UNCHANGED <<hasPoolTarget, poolTarget, asked, job>>

(* mining.set_difficulty: the last positive one counts. *)
SetDifficulty ==
  \E diff \in Difficulties :
    /\ difficulty' = IF diff[1] > 0 THEN diff ELSE difficulty
    /\ UNCHANGED <<hasPoolTarget, poolTarget, asked, job>>

(* The bytes b as hexadecimal gave them, kept with the last one first. *)
TakePoolTarget(b) ==
  /\ poolTarget' = Reversed(b)
  /\ hasPoolTarget' = TRUE

(* mining.set_target; m_difficulty follows, infinite for a target of zero. *)
SetTarget ==
  \E t \in Targets :
    /\ TakePoolTarget(BigEndian(t))
    /\ difficulty' = <<BaseTarget, t>>
    /\ asked' = t
    /\ UNCHANGED job

(* mining.set_target with Len * 2 characters one of which is no hexadecimal *)
(* digit: what hex_to_bytes() returns is not looked at, and target_be holds *)
(* what the stack held, the bytes before that digit overwritten.            *)
SetUnreadTarget ==
  \E t \in Targets, left \in Leftovers, n \in Index :
    LET b == [k \in Index |-> IF k < n THEN BigEndian(t)[k] ELSE left[k]] IN
      /\ TakePoolTarget(b)
      /\ difficulty' = <<BaseTarget, HashValue(Reversed(b))>>
      /\ asked' = Unread
      /\ UNCHANGED job

(* calculate_target(): the pool's target if there ever was one. *)
CalculateTarget == IF hasPoolTarget THEN poolTarget ELSE DifficultyToTarget

(* parse_job() *)
NewJob ==
  /\ job' = [target |-> CalculateTarget, asked |-> asked, difficulty |-> difficulty]
  /\ UNCHANGED <<difficulty, hasPoolTarget, poolTarget, asked>>

Next == SetDifficulty \/ SetTarget \/ SetUnreadTarget \/ NewJob

Spec == Init /\ [][Next]_vars

-------------------------------------------------------------------------------
Differing(hash, target) == {k \in Index : hash[k] # target[k]}

MeetsTargetFromFirst(hash, target) ==  \* mutant of MeetsTarget: index 0 decides
  LET d == Differing(hash, target) IN d = {} \/ hash[Min(d)] < target[Min(d)]

(* meets_target(): the last byte that differs decides. *)
MeetsTarget(hash, target) ==
  LET d == Differing(hash, target) IN d = {} \/ hash[Max(d)] < target[Max(d)]

(* A hash counts as a share for exactly the numbers up to v. *)
SharesUpTo(v) ==
  \A hash \in Bytes : MeetsTarget(hash, job.target) <=> HashValue(hash) <= v

TypeOK ==
  /\ difficulty \in (Nat \ {0}) \X Nat
  /\ hasPoolTarget \in BOOLEAN
  /\ poolTarget \in Bytes
  /\ asked \in Targets \union {NoTarget, Unread}
  /\ job \in [target : Bytes, asked : Targets \union {NoTarget, Unread},
              difficulty : (Nat \ {0}) \X Nat]

(* A job made after mining.set_target gives the shares the pool asked for: a *)
(* hash is submitted (miner.cpp:503) exactly if, as a number, it is no       *)
(* larger than the target announced last, whatever difficulties were         *)
(* announced before it or since.                                             *)
TargetSharesFound == job.asked \in Targets => SharesUpTo(job.asked)

(* difficulty_to_target() writes base / difficulty with its last byte at     *)
(* index Len - 1, as its comment says, and loses what does not fit.          *)
DifficultyWritten ==
  job.asked = NoTarget =>
    HashValue(Reversed(job.target)) = Quotient(job.difficulty) % Power[Len]

(* A job made for a pool that announces difficulties gives the shares the    *)
(* pool asked for: hash <= base / difficulty (hex_utils.hpp, "hash <=        *)
(* target").                                                                 *)
DifficultySharesFound == job.asked = NoTarget => SharesUpTo(Quotient(job.difficulty))
===============================================================================
