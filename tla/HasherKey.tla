------------------------------- MODULE HasherKey -------------------------------
(***************************************************************************)
(* The CLHash key of a mining thread's Hasher (src/crypto/verus_hash.cpp,  *)
(* src/crypto/verus_clhash_v2.c).  The key is made once per job; each hash *)
(* overwrites two of its entries in every round and notes what they held,  *)
(* and the next hash begins by putting them back, the last round first.    *)
(* What a round computes is any value; which entries it takes, any two,    *)
(* the same one twice included.                                            *)
(*                                                                         *)
(* Everything here belongs to one thread; rounds are steps so that the     *)
(* order of the entries can be spoken of.                                  *)
(***************************************************************************)
EXTENDS Naturals

CONSTANTS
  Entries,  \* the entries a round may take: 0 .. keyMask
  Words,    \* what an entry may hold: 128-bit words
  Rounds,   \* rounds of a hash (32)
  Legacy    \* TRUE iff hash_raw() is called between the hashes of a job too

ASSUME RoundsAssumption == Rounds \in Nat \ {0}
ASSUME LegacyAssumption == Legacy \in BOOLEAN

Key == [Entries -> Words]
Round == 0 .. Rounds - 1

VARIABLES
  pc,        \* "idle" between hashes, "restore", "round"
  i,         \* rounds undone still to come, or the next round
  key,       \* m_cachedKey
  pristine,  \* m_pristineKey
  prepared,  \* m_keyPrepared
  first,     \* m_firstHashAfterPrepare
  fixRand,   \* m_fixRand, m_fixRandEx: the entries each round has taken
  fixRandEx,
  pRand,     \* m_pRand, m_pRandEx: what they held
  pRandEx,
  jobKey     \* history: the key of the job, as generated

fix == <<fixRand, fixRandEx, pRand, pRandEx>>
vars == <<pc, i, key, pristine, prepared, first, fix, jobKey>>

(* Allocated buffers hold anything; the constructor clears the arrays. *)
Init ==
  /\ pc = "idle"
  /\ i = 0
  /\ key \in Key
  /\ pristine = key
  /\ prepared = FALSE
  /\ first = TRUE
  /\ \E e \in Entries, w \in Words :
       /\ fixRand = [r \in Round |-> e]
       /\ fixRandEx = [r \in Round |-> e]
       /\ pRand = [r \in Round |-> w]
       /\ pRandEx = [r \in Round |-> w]
  /\ jobKey = key

-------------------------------------------------------------------------------
(* genNewCLKey(), for a job whose intermediate state gives k, and the copy. *)
GenerateKey(k) ==
  /\ key' = k
  /\ pristine' = k
  /\ jobKey' = k
  /\ prepared' = TRUE

(* prepare_key(), for a new job *)
PrepareKey ==
  /\ pc = "idle"
  /\ \E k \in Key : GenerateKey(k)
  /\ first' = TRUE
  /\ UNCHANGED <<pc, i, fix>>

(* hash_with_nonce() before any prepare_key(): it prepares the key itself, *)
(* and the full copy follows.                                              *)
HashUnprepared ==
  /\ pc = "idle"
  /\ ~prepared
  /\ \E k \in Key : GenerateKey(k)
  /\ first' = FALSE
  /\ pc' = "round"
  /\ i' = 0
  /\ UNCHANGED fix

(* The first hash after prepare_key(): the whole key is copied. *)
CopyKey ==
  /\ pc = "idle"
  /\ prepared /\ first
  /\ key' = pristine
  /\ first' = FALSE
  /\ pc' = "round"
  /\ i' = 0
  /\ UNCHANGED <<pristine, prepared, fix, jobKey>>

(* Any other hash: for (int i = 31; i >= 0; i--) *)
StartRestore ==
  /\ pc = "idle"
  /\ prepared /\ ~first
  /\ pc' = "restore"
  /\ i' = Rounds
  /\ UNCHANGED <<key, pristine, prepared, first, fix, jobKey>>

Undo(k, r) == [[k EXCEPT ![fixRandEx[r]] = pRandEx[r]] EXCEPT ![fixRand[r]] = pRand[r]]

RestoreForwards ==  \* mutant of Restore: the first round is undone first
  /\ pc = "restore"
  /\ i > 0
  /\ key' = Undo(key, Rounds - i)
  /\ i' = i - 1
  /\ UNCHANGED <<pc, pristine, prepared, first, fix, jobKey>>

Restore ==
  /\ pc = "restore"
  /\ i > 0
  /\ key' = Undo(key, i - 1)
  /\ i' = i - 1
  /\ UNCHANGED <<pc, pristine, prepared, first, fix, jobKey>>

StartRounds ==
  /\ pc = "restore"
  /\ i = 0
  /\ pc' = "round"
  /\ UNCHANGED <<i, key, pristine, prepared, first, fix, jobKey>>

(* One round of verusclhashv2_2_full(): prand and prandex are taken from the *)
(* key, noted, and overwritten.                                              *)
HashRound ==
  /\ pc = "round"
  /\ i < Rounds
  /\ \E r, x \in Entries, v, w \in Words :
       /\ fixRand' = [fixRand EXCEPT ![i] = r]
       /\ fixRandEx' = [fixRandEx EXCEPT ![i] = x]
       /\ pRand' = [pRand EXCEPT ![i] = key[r]]
       /\ pRandEx' = [pRandEx EXCEPT ![i] = key[x]]
       /\ key' = [[key EXCEPT ![r] = v] EXCEPT ![x] = w]
  /\ i' = i + 1
  /\ UNCHANGED <<pc, pristine, prepared, first, jobKey>>

(* The hash is done; the key stays as the rounds have left it. *)
EndHash ==
  /\ pc = "round"
  /\ i = Rounds
  /\ pc' = "idle"
  /\ i' = 0
  /\ UNCHANGED <<key, pristine, prepared, first, fix, jobKey>>

(* finalize2b(), by hash(), hash_raw() or verus_hash_v2_2(): the key is the  *)
(* thread's, whichever Hasher uses it, and it is generated anew and modified.*)
(* No harm before the first hash of a job, which copies the key.             *)
HashRaw ==
  /\ Legacy \/ first
  /\ pc = "idle"
  /\ key' \in Key
  /\ UNCHANGED <<pc, i, pristine, prepared, first, fix, jobKey>>

Next ==
  \/ PrepareKey
  \/ HashUnprepared
  \/ CopyKey
  \/ StartRestore
  \/ Restore
  \/ StartRounds
  \/ HashRound
  \/ EndHash
  \/ HashRaw

Spec == Init /\ [][Next]_vars

-------------------------------------------------------------------------------
TypeOK ==
  /\ pc \in {"idle", "restore", "round"}
  /\ i \in 0 .. Rounds
  /\ key \in Key
  /\ pristine \in Key
  /\ prepared \in BOOLEAN
  /\ first \in BOOLEAN
  /\ fixRand \in [Round -> Entries]
  /\ fixRandEx \in [Round -> Entries]
  /\ pRand \in [Round -> Words]
  /\ pRandEx \in [Round -> Words]
  /\ jobKey \in Key

(* Every hash of a job starts from the job's key, whichever entries the      *)
(* hashes before it have taken, once, twice, or in another job: "restores    *)
(* only 64 modified entries" is as good as the full copy.                    *)
StartsPristine == pc = "round" /\ i = 0 => key = jobKey

(* The entries noted in rounds 0 .. n - 1 lead from the key back to the      *)
(* job's: there are keys h[0], ..., h[n], from the job's to the present one, *)
(* each of which is the next one with its round undone.                      *)
LeadsBack(n) ==
  \E h \in [0 .. Rounds -> Key] :
    /\ h[0] = jobKey
    /\ h[n] = key
    /\ \A r \in Round : r < n => h[r] = Undo(h[r + 1], r)

(* The inductive invariant: what a hash may count on is that the entries     *)
(* noted are exactly those that lead back.                                   *)
IInv ==
  /\ TypeOK
  /\ prepared => pristine = jobKey
  /\ pc # "idle" => prepared /\ ~first
  /\ pc = "idle" /\ prepared /\ ~first => LeadsBack(Rounds)
  /\ pc # "idle" => LeadsBack(i)
===============================================================================
