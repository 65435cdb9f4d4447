----------------------------- MODULE Hasher_proofs -----------------------------
(***************************************************************************)
(* HasherKey proved for every key size, word and number of rounds, when    *)
(* hash_raw() stays away from the hashes of a job; and Hasher for every    *)
(* size of a block, every message, job and nonce.                          *)
(***************************************************************************)
EXTENDS Hasher, SequenceTheorems, WellFoundedInduction, TLAPS

(* Undoing a round gives back the key the round began with: it is enough     *)
(* that both entries were noted before either was overwritten.               *)
LEMMA RoundIsUndone ==
  ASSUME NEW k \in Key, NEW r \in Entries, NEW x \in Entries, NEW v \in Words, NEW w \in Words
  PROVE  /\ [[k EXCEPT ![r] = v] EXCEPT ![x] = w] \in Key
         /\ k = [[[[k EXCEPT ![r] = v] EXCEPT ![x] = w]
                    EXCEPT ![x] = k[x]] EXCEPT ![r] = k[r]]
BY DEF Key

(* Every variable keeps its type. *)
LEMMA InitType == Init => TypeOK
<1> SUFFICES ASSUME Init PROVE TypeOK
  OBVIOUS
<1>1. PICK e \in Entries, w \in Words :
        /\ fixRand = [r \in Round |-> e]
        /\ fixRandEx = [r \in Round |-> e]
        /\ pRand = [r \in Round |-> w]
        /\ pRandEx = [r \in Round |-> w]
  BY DEF Init
<1>2. /\ fixRand \in [Round -> Entries]
      /\ fixRandEx \in [Round -> Entries]
      /\ pRand \in [Round -> Words]
      /\ pRandEx \in [Round -> Words]
  BY <1>1
<1>3. 0 \in 0 .. Rounds
  BY RoundsAssumption
<1> QED
  BY <1>2, <1>3 DEF Init, TypeOK

LEMMA NextType == TypeOK /\ [Next]_vars => TypeOK'
<1> SUFFICES ASSUME TypeOK, [Next]_vars PROVE TypeOK'
  OBVIOUS
<1> USE DEF TypeOK
<1>0. 0 \in 0 .. Rounds /\ Rounds \in 0 .. Rounds
  BY RoundsAssumption
<1>1. CASE PrepareKey
  BY <1>1 DEF PrepareKey, GenerateKey, fix
<1>2. CASE HashUnprepared
  <2>1. PICK k \in Key : GenerateKey(k)
    BY <1>2 DEF HashUnprepared
  <2>2. /\ pc' = "round" /\ i' = 0 /\ first' = FALSE
        /\ UNCHANGED <<fixRand, fixRandEx, pRand, pRandEx>>
    BY <1>2 DEF HashUnprepared, fix
  <2> QED
    BY <1>0, <2>1, <2>2 DEF GenerateKey
<1>3. CASE CopyKey
  BY <1>0, <1>3 DEF CopyKey, fix
<1>4. CASE StartRestore
  BY <1>0, <1>4 DEF StartRestore, fix
<1>5. CASE Restore
  <2>1. i - 1 \in Round /\ i - 1 \in 0 .. Rounds
    BY <1>5, RoundsAssumption DEF Restore, Round
  <2>2. Undo(key, i - 1) \in Key
    BY <2>1 DEF Undo, Key
  <2> QED
    BY <1>5, <2>1, <2>2 DEF Restore, fix
<1>6. CASE StartRounds
  BY <1>6 DEF StartRounds, fix
<1>7. CASE HashRound
  <2>1. PICK r \in Entries, x \in Entries, v \in Words, w \in Words :
          /\ fixRand' = [fixRand EXCEPT ![i] = r]
          /\ fixRandEx' = [fixRandEx EXCEPT ![i] = x]
          /\ pRand' = [pRand EXCEPT ![i] = key[r]]
          /\ pRandEx' = [pRandEx EXCEPT ![i] = key[x]]
          /\ key' = [[key EXCEPT ![r] = v] EXCEPT ![x] = w]
    BY <1>7 DEF HashRound
  <2>2. key' \in Key
    BY <2>1, RoundIsUndone
  <2>3. key[r] \in Words /\ key[x] \in Words
    BY DEF Key
  <2>4. i + 1 \in 0 .. Rounds
    BY <1>7, RoundsAssumption DEF HashRound
  <2> QED
    BY <1>7, <2>1, <2>2, <2>3, <2>4 DEF HashRound
<1>8. CASE EndHash
  BY <1>0, <1>8 DEF EndHash, fix
<1>9. CASE HashRaw
  BY <1>9 DEF HashRaw, fix
<1>10. CASE UNCHANGED vars
  BY <1>10 DEF vars, fix
<1> QED
  BY <1>1, <1>2, <1>3, <1>4, <1>5, <1>6, <1>7, <1>8, <1>9, <1>10 DEF Next

(* Every variable keeps its type: in particular the indices noted are always *)
(* entries of the key, so that what is restored is the key.                  *)
THEOREM TypeCorrect == Spec => []TypeOK
BY InitType, NextType, PTL DEF Spec

-------------------------------------------------------------------------------
(* No round is to undo in a key that has just been copied. *)
LEMMA KeyIsJobKeyNext ==
  ASSUME TypeOK', key' = jobKey', i' = 0 PROVE LeadsBack(i)'
<1>1. PICK h : h = [n \in 0 .. Rounds |-> jobKey']
  OBVIOUS
<1>2. h \in [0 .. Rounds -> Key] /\ h[0] = jobKey'
  BY <1>1, RoundsAssumption DEF TypeOK
<1>3. \A r \in Round : ~(r < 0)
  BY RoundsAssumption DEF Round
<1> QED
  BY <1>2, <1>3 DEF LeadsBack

(* One more round is noted. *)
LEMMA RoundLeadsBack ==
  ASSUME TypeOK, HashRound, LeadsBack(i) PROVE LeadsBack(i)'
<1> USE RoundsAssumption DEF TypeOK
<1>1. PICK h \in [0 .. Rounds -> Key] :
        /\ h[0] = jobKey
        /\ h[i] = key
        /\ \A r \in Round : r < i => h[r] = Undo(h[r + 1], r)
  BY DEF LeadsBack
<1>2. PICK r \in Entries, x \in Entries, v \in Words, w \in Words :
        /\ fixRand' = [fixRand EXCEPT ![i] = r]
        /\ fixRandEx' = [fixRandEx EXCEPT ![i] = x]
        /\ pRand' = [pRand EXCEPT ![i] = key[r]]
        /\ pRandEx' = [pRandEx EXCEPT ![i] = key[x]]
        /\ key' = [[key EXCEPT ![r] = v] EXCEPT ![x] = w]
  BY DEF HashRound
<1>3. i \in Round /\ i + 1 \in 0 .. Rounds /\ i' = i + 1 /\ jobKey' = jobKey
  BY DEF HashRound, Round
<1>4. key' \in Key /\ key = [[key' EXCEPT ![x] = key[x]] EXCEPT ![r] = key[r]]
  <2>1. key \in Key
    OBVIOUS
  <2>2. /\ [[key EXCEPT ![r] = v] EXCEPT ![x] = w] \in Key
        /\ key = [[[[key EXCEPT ![r] = v] EXCEPT ![x] = w]
                     EXCEPT ![x] = key[x]] EXCEPT ![r] = key[r]]
    BY <2>1, RoundIsUndone
  <2>3. key' = [[key EXCEPT ![r] = v] EXCEPT ![x] = w]
    BY <1>2
  <2> QED
    BY <2>2, <2>3
<1>5. PICK g : g = [h EXCEPT ![i + 1] = key']
  OBVIOUS
<1>6. g \in [0 .. Rounds -> Key] /\ g[0] = jobKey' /\ g[i + 1] = key' /\ g[i] = key
  BY <1>1, <1>3, <1>4, <1>5 DEF Round
<1>7. ASSUME NEW s \in Round, s < i + 1 PROVE g[s] = Undo(g[s + 1], s)'
  <2>1. CASE s = i
    <3>1. /\ fixRand'[i] = r /\ fixRandEx'[i] = x
          /\ pRand'[i] = key[r] /\ pRandEx'[i] = key[x]
      BY <1>2, <1>3
    <3>2. Undo(g[s + 1], s)' = [[key' EXCEPT ![x] = key[x]] EXCEPT ![r] = key[r]]
      BY <2>1, <3>1, <1>6 DEF Undo
    <3> QED
      BY <2>1, <3>2, <1>4, <1>6
  <2>2. CASE s < i
    <3>1. /\ fixRand'[s] = fixRand[s] /\ fixRandEx'[s] = fixRandEx[s]
          /\ pRand'[s] = pRand[s] /\ pRandEx'[s] = pRandEx[s]
      BY <2>2, <1>2, <1>3
    <3>2. g[s] = h[s] /\ g[s + 1] = h[s + 1]
      BY <2>2, <1>1, <1>3, <1>5 DEF Round
    <3>3. h[s] = Undo(h[s + 1], s)
      BY <1>1, <2>2
    <3> QED
      BY <3>1, <3>2, <3>3 DEF Undo
  <2> QED
    <3>1. s = i \/ s < i
      BY <1>3, <1>7 DEF Round
    <3> QED
      BY <3>1, <2>1, <2>2
<1>8. \A s \in Round : s < i + 1 => g[s] = Undo(g[s + 1], s)'
  BY <1>7
<1> QED
  BY <1>3, <1>6, <1>8 DEF LeadsBack

(* One round less is to undo. *)
LEMMA RestoreLeadsBack ==
  ASSUME TypeOK, Restore, LeadsBack(i) PROVE LeadsBack(i)'
<1> USE RoundsAssumption DEF TypeOK
<1>1. PICK h \in [0 .. Rounds -> Key] :
        /\ h[0] = jobKey
        /\ h[i] = key
        /\ \A r \in Round : r < i => h[r] = Undo(h[r + 1], r)
  BY DEF LeadsBack
<1>2. i - 1 \in Round /\ i - 1 < i /\ (i - 1) + 1 = i
  BY DEF Restore, Round
<1>3. key' = h[i - 1]
  BY <1>1, <1>2 DEF Restore
<1>4. UNCHANGED <<fix, jobKey>> /\ i' = i - 1
  BY DEF Restore
<1>5. \A r \in Round : r < i - 1 => h[r] = Undo(h[r + 1], r)'
  <2> SUFFICES ASSUME NEW r \in Round, r < i - 1 PROVE h[r] = Undo(h[r + 1], r)'
    OBVIOUS
  <2>1. h[r] = Undo(h[r + 1], r)
    BY <1>1 DEF Round
  <2> QED
    BY <2>1, <1>4 DEF Undo, fix
<1> QED
  <2>1. h[i - 1] = key' /\ h[0] = jobKey'
    BY <1>1, <1>3, <1>4
  <2>2. \A r \in Round : r < i - 1 => h[r] = Undo(h[r + 1], r)'
    BY <1>5
  <2> QED
    BY <1>1, <1>4, <2>1, <2>2 DEF LeadsBack

(* What the actions that touch neither the key nor the notes leave alone. *)
LEMMA LeadsBackKept ==
  ASSUME NEW n, LeadsBack(n), UNCHANGED <<key, fix, jobKey>> PROVE LeadsBack(n)'
BY DEF LeadsBack, Undo, fix

-------------------------------------------------------------------------------
LEMMA InitIInv == Init => IInv
BY InitType DEF Init, IInv

(* Each action keeps the chain of noted rounds, makes it longer or shorter   *)
(* by one, or copies the whole key and needs none.                           *)
LEMMA NextIInv == ~Legacy /\ IInv /\ [Next]_vars => IInv'
<1> SUFFICES ASSUME ~Legacy, IInv, [Next]_vars PROVE IInv'
  OBVIOUS
<1>t. TypeOK /\ TypeOK'
  BY NextType DEF IInv
<1>1. CASE PrepareKey
  BY <1>t, <1>1 DEF PrepareKey, GenerateKey, IInv
<1>2. CASE HashUnprepared
  <2>1. PICK k \in Key : GenerateKey(k)
    BY <1>2 DEF HashUnprepared
  <2>2. key' = jobKey' /\ pristine' = jobKey' /\ prepared' /\ ~first' /\ i' = 0 /\ pc' = "round"
    BY <1>2, <2>1 DEF HashUnprepared, GenerateKey
  <2>3. LeadsBack(i)'
    BY <1>t, <2>2, KeyIsJobKeyNext
  <2> QED
    BY <1>t, <2>2, <2>3 DEF IInv
<1>3. CASE CopyKey
  <2>1. key' = jobKey' /\ pristine' = jobKey' /\ prepared' /\ ~first' /\ i' = 0 /\ pc' = "round"
    BY <1>t, <1>3 DEF CopyKey, IInv, TypeOK
  <2>2. LeadsBack(i)'
    BY <1>t, <2>1, KeyIsJobKeyNext
  <2> QED
    BY <1>t, <2>1, <2>2 DEF IInv
<1>4. CASE StartRestore
  <2>1. LeadsBack(Rounds)'
    BY <1>4, LeadsBackKept DEF StartRestore, IInv
  <2>2. LeadsBack(i)'
    BY <1>4, <2>1 DEF StartRestore, LeadsBack
  <2> QED
    BY <1>t, <1>4, <2>2 DEF StartRestore, IInv
<1>5. CASE Restore
  <2>1. LeadsBack(i)'
    BY <1>t, <1>5, RestoreLeadsBack DEF IInv, Restore
  <2> QED
    BY <1>t, <1>5, <2>1 DEF Restore, IInv
<1>6. CASE StartRounds
  <2>1. LeadsBack(i)'
    BY <1>6, LeadsBackKept DEF StartRounds, IInv, LeadsBack
  <2> QED
    BY <1>t, <1>6, <2>1 DEF StartRounds, IInv
<1>7. CASE HashRound
  <2>1. LeadsBack(i)'
    BY <1>t, <1>7, RoundLeadsBack DEF IInv, HashRound
  <2> QED
    BY <1>t, <1>7, <2>1 DEF HashRound, IInv
<1>8. CASE EndHash
  <2>1. LeadsBack(Rounds)
    BY <1>8 DEF EndHash, IInv
  <2>2. LeadsBack(Rounds)'
    BY <1>8, <2>1, LeadsBackKept DEF EndHash
  <2> QED
    BY <1>t, <1>8, <2>2 DEF EndHash, IInv
<1>9. CASE HashRaw
  BY <1>t, <1>9 DEF HashRaw, IInv
<1>10. CASE UNCHANGED vars
  <2>1. \A n : LeadsBack(n) => LeadsBack(n)'
    BY <1>10, LeadsBackKept DEF vars
  <2> QED
    BY <1>t, <1>10, <2>1 DEF vars, IInv, LeadsBack
<1> QED
  BY <1>1, <1>2, <1>3, <1>4, <1>5, <1>6, <1>7, <1>8, <1>9, <1>10 DEF Next

(* Every hash of a job starts from the key of the job: restoring the noted   *)
(* entries, the last round first, is as good as copying the whole key, for   *)
(* any choice of entries in any round, and across changes of the job.        *)
THEOREM HashesStartPristine == ~Legacy => (Spec => []StartsPristine)
<1>1. IInv => StartsPristine
  BY DEF IInv, StartsPristine, LeadsBack
<1> SUFFICES ASSUME ~Legacy PROVE Spec => []StartsPristine
  OBVIOUS
<1>2. IInv /\ [Next]_vars => IInv'
  BY NextIInv
<1> QED
  BY <1>1, <1>2, InitIInv, PTL DEF Spec

-------------------------------------------------------------------------------
(* A set of naturals that is not empty has a least element. *)
LEMMA LeastOfSet ==
  ASSUME NEW T, T \subseteq Nat, T # {}
  PROVE  \E n \in T : \A m \in T : n =< m
<1>1. PICK n \in T : \A m \in T : ~(<<m, n>> \in OpToRel(<, Nat))
  BY NatLessThanWellFounded, WFMin
<1>2. \A m \in T : ~(m < n)
  BY <1>1 DEF OpToRel
<1> QED
  BY <1>2

(* ... so that a set with 0 and the successor of each of its elements has all. *)
LEMMA SetInduction ==
  ASSUME NEW T, 0 \in T, \A n \in Nat : n \in T => n + 1 \in T
  PROVE  Nat \subseteq T
<1> SUFFICES ASSUME Nat \ T # {} PROVE FALSE
  OBVIOUS
<1>1. PICK n \in Nat \ T : \A m \in Nat \ T : n =< m
  BY LeastOfSet
<1>2. n - 1 \in Nat /\ n - 1 \in T
  BY <1>1
<1> QED
  BY <1>1, <1>2

(* Two buffers whose digests are in D and whose bytes are in H. *)
Streams(D, H) ==
  [buf : [1 .. 2 -> [low : D, high : [Index -> H]]], cur : 1 .. 2, pos : 0 .. Block - 1]

IsStream(s) == \E D, H : s \in Streams(D, H)

LEMMA IndexIs == Index \subseteq Nat /\ 0 \in Index /\ \A k \in Index : k < Block
BY BlockAssumption DEF Index

(* A block begins with the n bytes of data after the first `from' ones. *)
BeginsWith(high, n, data, from) == \A k \in Index : k < n => high[k] = data[from + k + 1]

(* memcpy() to the start of the current block leaves everything else alone. *)
LEMMA PutIs ==
  ASSUME NEW s, IsStream(s), s.pos = 0, NEW data, NEW from \in Nat, NEW n \in Nat
  PROVE  LET p == Put(s, data, from, n) IN
         /\ IsStream(p)
         /\ p.cur = s.cur /\ p.pos = 0 /\ Current(p).low = Current(s).low
         /\ BeginsWith(Current(p).high, n, data, from)
<1>1. PICK D, H : s \in Streams(D, H)
  BY DEF IsStream
<1> DEFINE byte(k) == IF k - s.pos \in 0 .. n - 1 THEN data[from + k - s.pos + 1]
                      ELSE s.buf[s.cur].high[k]
           high == [k \in Index |-> byte(k)]
           G == H \union {byte(k) : k \in Index}
           p == Put(s, data, from, n)
<1>2. s.buf[s.cur] \in [low : D, high : [Index -> H]] /\ s.cur \in 1 .. 2
  BY <1>1 DEF Streams
<1>3. p = [s EXCEPT !.buf[s.cur].high = high]
  BY DEF Put
<1>4. high \in [Index -> G] /\ \A k \in Index : high[k] = byte(k)
  OBVIOUS
<1>5. H \subseteq G
  OBVIOUS
<1> HIDE DEF high, G, byte
<1> DEFINE b == [s.buf[s.cur] EXCEPT !.high = high]
           c == [s.buf EXCEPT ![s.cur] = b]
<1>6. b \in [low : D, high : [Index -> G]] /\ b.low = s.buf[s.cur].low /\ b.high = high
  BY <1>2, <1>4
<1>7. p = [s EXCEPT !.buf = c]
  BY <1>3
<1> HIDE DEF p, b
<1>8. c \in [1 .. 2 -> [low : D, high : [Index -> G]]] /\ c[s.cur] = b
  <2>1. s.buf \in [1 .. 2 -> [low : D, high : [Index -> H]]]
    BY <1>1 DEF Streams
  <2>2. [low : D, high : [Index -> H]] \subseteq [low : D, high : [Index -> G]]
    BY <1>5
  <2>3. s.buf \in [1 .. 2 -> [low : D, high : [Index -> G]]]
    BY <2>1, <2>2
  <2> QED
    BY <1>2, <1>6, <2>3
<1> HIDE DEF c
<1>9. p \in Streams(D, G) /\ p.buf = c /\ p.cur = s.cur /\ p.pos = s.pos
  BY <1>1, <1>7, <1>8 DEF Streams
<1>10. IsStream(p)
  BY <1>9 DEF IsStream
<1>11. \A k \in Index : k < n => byte(k) = data[from + k + 1]
  <2> SUFFICES ASSUME NEW k \in Index, k < n PROVE byte(k) = data[from + k + 1]
    OBVIOUS
  <2>1. k \in Nat /\ k - s.pos = k /\ k - s.pos \in 0 .. n - 1
    BY IndexIs
  <2>2. from + k - s.pos + 1 = from + k + 1
    BY <2>1
  <2> QED
    BY <2>1, <2>2 DEF byte
<1>12. BeginsWith(Current(p).high, n, data, from)
  BY <1>4, <1>6, <1>8, <1>9, <1>11 DEF Current, BeginsWith
<1> QED
  BY <1>6, <1>8, <1>9, <1>10, <1>12 DEF Current, p

(* haraka512() replaces a digest, and the buffers change places. *)
LEMMA DigestIs ==
  ASSUME NEW s, IsStream(s)
  PROVE  LET d == Digest(s) IN
         /\ IsStream(d)
         /\ d.pos = 0 /\ Current(d).low = <<Current(s).low, Current(s).high>>
<1>1. PICK D, H : s \in Streams(D, H)
  BY DEF IsStream
<1> DEFINE r == 3 - s.cur
           low == Haraka512(Current(s))
           E == D \union {low}
           d == Digest(s)
<1>2. s.cur \in 1 .. 2 /\ r \in 1 .. 2
  BY <1>1 DEF Streams
<1>3. d = [[[s EXCEPT !.buf[r].low = low] EXCEPT !.cur = r] EXCEPT !.pos = 0]
  BY DEF Digest
<1>4. low \in E /\ D \subseteq E
  OBVIOUS
<1> HIDE DEF r, low, E
<1> DEFINE b == [s.buf[r] EXCEPT !.low = low]
           c == [s.buf EXCEPT ![r] = b]
<1>5. b \in [low : E, high : [Index -> H]] /\ b.low = low
  <2>1. s.buf[r] \in [low : D, high : [Index -> H]]
    BY <1>1, <1>2 DEF Streams
  <2> QED
    BY <1>4, <2>1
<1>6. d = [[[s EXCEPT !.buf = c] EXCEPT !.cur = r] EXCEPT !.pos = 0]
  BY <1>3
<1> HIDE DEF b, d
<1>7. c \in [1 .. 2 -> [low : E, high : [Index -> H]]] /\ c[r] = b
  <2>1. s.buf \in [1 .. 2 -> [low : D, high : [Index -> H]]]
    BY <1>1 DEF Streams
  <2>2. [low : D, high : [Index -> H]] \subseteq [low : E, high : [Index -> H]]
    BY <1>4
  <2>3. s.buf \in [1 .. 2 -> [low : E, high : [Index -> H]]]
    BY <2>1, <2>2
  <2> QED
    BY <1>2, <1>5, <2>3
<1> HIDE DEF c
<1>8. 0 \in 0 .. Block - 1
  BY BlockAssumption
<1>9. d \in Streams(E, H) /\ d.buf = c /\ d.cur = r /\ d.pos = 0
  BY <1>1, <1>2, <1>6, <1>7, <1>8 DEF Streams
<1>10. IsStream(d)
  BY <1>9 DEF IsStream
<1> QED
  BY <1>5, <1>7, <1>9, <1>10 DEF Current, d, low, Haraka512

LEMMA FillExtraIs ==
  ASSUME NEW D, NEW H, NEW b \in [low : D, high : [Index -> H]], NEW pos, NEW digest, NEW n
  PROVE  FillExtra(b, pos, digest, n) =
           [low |-> b.low,
            high |-> [k \in Index |-> IF k < pos THEN b.high[k] ELSE ByteOf(digest, (k - pos) % n)]]
<1> DEFINE high == [k \in Index |-> IF k < pos THEN b.high[k] ELSE ByteOf(digest, (k - pos) % n)]
<1>1. FillExtra(b, pos, digest, n) = [b EXCEPT !.high = high]
  BY DEF FillExtra
<1> HIDE DEF high
<1>2. [b EXCEPT !.high = high] = [low |-> b.low, high |-> high]
  OBVIOUS
<1> QED
  BY <1>1, <1>2 DEF high

-------------------------------------------------------------------------------
(* The digests of the blocks of a message, one after the other. *)
LEMMA DigestsAre ==
  ASSUME NEW m \in Input
  PROVE  /\ Digests(m)[0] = NoDigest
         /\ \A d \in Nat : d < Len(m) \div Block =>
              Digests(m)[d + 1] = <<Digests(m)[d], [k \in Index |-> m[d * Block + k + 1]]>>
<1> DEFINE N == Len(m) \div Block
           text(d) == [k \in Index |-> m[d * Block + k + 1]]
           Chain(f, j) == f = [d \in 0 .. j |-> IF d = 0 THEN NoDigest ELSE <<f[d - 1], text(d - 1)>>]
           T == {j \in Nat : \E f : Chain(f, j)}
<1>0. Len(m) \in Nat
  BY LenProperties DEF Input
<1>1. N \in Nat
  BY <1>0, BlockAssumption
<1> HIDE DEF text, N
<1>2. 0 \in T
  <2>1. Chain([d \in 0 .. 0 |-> NoDigest], 0)
    OBVIOUS
  <2> HIDE DEF Chain
  <2> QED
    BY <2>1
<1>3. ASSUME NEW j \in Nat, j \in T PROVE j + 1 \in T
  <2>1. PICK f : Chain(f, j)
    BY <1>3
  <2> DEFINE g == [d \in 0 .. j + 1 |-> IF d = j + 1 THEN <<f[j], text(j)>> ELSE f[d]]
  <2>2. \A d \in 0 .. j + 1 : g[d] = IF d = 0 THEN NoDigest ELSE <<g[d - 1], text(d - 1)>>
    <3> SUFFICES ASSUME NEW d \in 0 .. j + 1
                 PROVE  g[d] = IF d = 0 THEN NoDigest ELSE <<g[d - 1], text(d - 1)>>
      OBVIOUS
    <3>1. CASE d = j + 1
      <4>1. d # 0 /\ d - 1 = j /\ d - 1 \in 0 .. j + 1 /\ d - 1 # j + 1
        BY <3>1
      <4>2. g[d] = <<f[j], text(j)>> /\ g[d - 1] = f[j]
        BY <3>1, <4>1
      <4> QED
        BY <4>1, <4>2
    <3>2. CASE d = 0
      BY <2>1, <3>2
    <3>3. CASE d # 0 /\ d # j + 1
      <4>1. d \in 0 .. j /\ d - 1 \in 0 .. j + 1 /\ d - 1 # j + 1
        BY <3>3
      <4>2. g[d] = f[d] /\ g[d - 1] = f[d - 1]
        BY <3>3, <4>1
      <4>3. f[d] = <<f[d - 1], text(d - 1)>>
        BY <2>1, <3>3, <4>1
      <4> QED
        BY <3>3, <4>2, <4>3
    <3> QED
      BY <3>1, <3>2, <3>3
  <2>3. Chain(g, j + 1)
    BY <2>2
  <2> HIDE DEF Chain, g
  <2> QED
    BY <2>3
<1>4. Nat \subseteq T
  <2> HIDE DEF T
  <2> QED
    BY <1>2, <1>3, SetInduction
<1>5. Digests(m) = CHOOSE f : Chain(f, N)
  BY DEF Digests, text, N
<1>6. Chain(Digests(m), N)
  <2> HIDE DEF Chain
  <2>1. \E f : Chain(f, N)
    BY <1>1, <1>4
  <2> QED
    BY <1>5, <2>1
<1> DEFINE f == Digests(m)
<1>7. \A d \in 0 .. N : f[d] = IF d = 0 THEN NoDigest ELSE <<f[d - 1], text(d - 1)>>
  BY <1>6
<1> HIDE DEF f, Chain
<1>8. f[0] = NoDigest
  <2>1. 0 \in 0 .. N
    BY <1>1
  <2> HIDE DEF N
  <2> QED
    BY <1>7, <2>1
<1>9. \A d \in Nat : d < N => f[d + 1] = <<f[d], text(d)>>
  <2> SUFFICES ASSUME NEW d \in Nat, d < N PROVE f[d + 1] = <<f[d], text(d)>>
    OBVIOUS
  <2>1. d + 1 \in 0 .. N /\ d + 1 # 0 /\ (d + 1) - 1 = d
    BY <1>1
  <2> QED
    BY <1>7, <2>1
<1> QED
  BY <1>8, <1>9 DEF f, text, N

(* What write() does to an empty block, a block of data at a time. *)
LEMMA DigestingIs ==
  ASSUME NEW s, s.pos = 0, NEW data \in Input
  PROVE  /\ Digesting(s, data)[0] = s
         /\ \A n \in Nat : n < Len(data) \div Block =>
              Digesting(s, data)[n + 1] = Digest(Put(Digesting(s, data)[n], data, n * Block, Block))
<1> DEFINE N == (s.pos + Len(data)) \div Block
           after(a, n) == Digest(Put(a, data, Taken(s, n - 1), Taken(s, n) - Taken(s, n - 1)))
           Chain(f, j) == f = [n \in 0 .. j |-> IF n = 0 THEN s ELSE after(f[n - 1], n)]
           T == {j \in Nat : \E f : Chain(f, j)}
<1>0. Len(data) \in Nat
  BY LenProperties DEF Input
<1>1. N \in Nat /\ N = Len(data) \div Block
  BY <1>0, BlockAssumption
<1> HIDE DEF after, N
<1>2. 0 \in T
  <2>1. Chain([n \in 0 .. 0 |-> s], 0)
    OBVIOUS
  <2> HIDE DEF Chain
  <2> QED
    BY <2>1
<1>3. ASSUME NEW j \in Nat, j \in T PROVE j + 1 \in T
  <2>1. PICK f : Chain(f, j)
    BY <1>3
  <2> DEFINE g == [n \in 0 .. j + 1 |-> IF n = j + 1 THEN after(f[j], n) ELSE f[n]]
  <2>2. \A n \in 0 .. j + 1 : g[n] = IF n = 0 THEN s ELSE after(g[n - 1], n)
    <3> SUFFICES ASSUME NEW n \in 0 .. j + 1
                 PROVE  g[n] = IF n = 0 THEN s ELSE after(g[n - 1], n)
      OBVIOUS
    <3>1. CASE n = j + 1
      <4>1. n # 0 /\ n - 1 = j /\ n - 1 \in 0 .. j + 1 /\ n - 1 # j + 1
        BY <3>1
      <4>2. g[n] = after(f[j], n) /\ g[n - 1] = f[j]
        BY <3>1, <4>1
      <4> QED
        BY <4>1, <4>2
    <3>2. CASE n = 0
      BY <2>1, <3>2
    <3>3. CASE n # 0 /\ n # j + 1
      <4>1. n \in 0 .. j /\ n - 1 \in 0 .. j + 1 /\ n - 1 # j + 1
        BY <3>3
      <4>2. g[n] = f[n] /\ g[n - 1] = f[n - 1]
        BY <3>3, <4>1
      <4>3. f[n] = after(f[n - 1], n)
        BY <2>1, <3>3, <4>1
      <4> QED
        BY <3>3, <4>2, <4>3
    <3> QED
      BY <3>1, <3>2, <3>3
  <2>3. Chain(g, j + 1)
    BY <2>2
  <2> HIDE DEF Chain, g
  <2> QED
    BY <2>3
<1>4. Nat \subseteq T
  <2> HIDE DEF T
  <2> QED
    BY <1>2, <1>3, SetInduction
<1> DEFINE f == Digesting(s, data)
<1>5. f = CHOOSE g : Chain(g, N)
  BY DEF Digesting, after, N
<1>6. Chain(f, N)
  <2> HIDE DEF Chain, f
  <2>1. \E g : Chain(g, N)
    BY <1>1, <1>4
  <2> QED
    BY <1>5, <2>1
<1> HIDE DEF f
<1>7. \A n \in 0 .. N : f[n] = IF n = 0 THEN s ELSE after(f[n - 1], n)
  BY <1>6
<1> HIDE DEF Chain
<1>8. f[0] = s
  BY <1>1, <1>7
<1>9. \A n \in Nat : n < N => f[n + 1] = Digest(Put(f[n], data, n * Block, Block))
  <2> SUFFICES ASSUME NEW n \in Nat, n < N
               PROVE  f[n + 1] = Digest(Put(f[n], data, n * Block, Block))
    OBVIOUS
  <2>1. n + 1 \in 0 .. N /\ n + 1 # 0 /\ (n + 1) - 1 = n
    BY <1>1
  <2>2. f[n + 1] = after(f[n], n + 1)
    BY <1>7, <2>1
  <2>3. Block \in Nat
    BY BlockAssumption
  <2>4. Taken(s, n) = n * Block
    BY <2>3 DEF Taken
  <2>5. Taken(s, n + 1) = (n + 1) * Block
    BY <2>1, <2>3 DEF Taken
  <2>6. (n + 1) * Block - n * Block = Block
    BY <2>3
  <2> QED
    BY <2>1, <2>2, <2>4, <2>5, <2>6 DEF after
<1> QED
  BY <1>1, <1>8, <1>9 DEF f

(* After each block the current digest is that of the blocks so far, whatever *)
(* the buffers held.                                                          *)
LEMMA DigestingHolds ==
  ASSUME NEW s, IsStream(s), s.pos = 0, Current(s).low = NoDigest, NEW data \in Input
  PROVE  \A n \in Nat : n =< Len(data) \div Block =>
           LET a == Digesting(s, data)[n] IN
           IsStream(a) /\ a.pos = 0 /\ Current(a).low = Digests(data)[n]
<1> DEFINE N == Len(data) \div Block
           f == Digesting(s, data)
           g == Digests(data)
           Holds(n) == IsStream(f[n]) /\ f[n].pos = 0 /\ Current(f[n]).low = g[n]
           T == {n \in Nat : n =< N => Holds(n)}
<1>1. /\ f[0] = s
      /\ \A n \in Nat : n < N => f[n + 1] = Digest(Put(f[n], data, n * Block, Block))
  BY DigestingIs
<1>2. /\ g[0] = NoDigest
      /\ \A n \in Nat : n < N => g[n + 1] = <<g[n], [k \in Index |-> data[n * Block + k + 1]]>>
  BY DigestsAre
<1>3. N \in Nat /\ Block \in Nat \ {0}
  <2>1. Len(data) \in Nat
    BY LenProperties DEF Input
  <2> QED
    BY <2>1, BlockAssumption
<1> HIDE DEF f, g, N
<1>4. 0 \in T
  BY <1>1, <1>2
<1>5. ASSUME NEW n \in Nat, n \in T PROVE n + 1 \in T
  <2> SUFFICES ASSUME n + 1 =< N PROVE Holds(n + 1)
    OBVIOUS
  <2>1. n < N /\ IsStream(f[n]) /\ f[n].pos = 0 /\ Current(f[n]).low = g[n]
    BY <1>3, <1>5
  <2> DEFINE p == Put(f[n], data, n * Block, Block)
  <2>2. n * Block \in Nat
    BY <1>3
  <2>3. IsStream(p) /\ Current(p).low = g[n] /\ BeginsWith(Current(p).high, Block, data, n * Block)
    BY <1>3, <2>1, <2>2, PutIs
  <2>4. f[n + 1] = Digest(p)
    BY <1>1, <2>1
  <2> HIDE DEF p
  <2>5. \A k \in Index : Current(p).high[k] = data[n * Block + k + 1]
    BY <2>3, IndexIs DEF BeginsWith
  <2>6. Current(p).high = [k \in Index |-> data[n * Block + k + 1]]
    <3>1. PICK D, H : p \in Streams(D, H)
      BY <2>3 DEF IsStream
    <3>2. Current(p).high \in [Index -> H]
      BY <3>1 DEF Streams, Current
    <3> QED
      BY <2>5, <3>2
  <2>7. IsStream(Digest(p)) /\ Digest(p).pos = 0
        /\ Current(Digest(p)).low = <<Current(p).low, Current(p).high>>
    BY <2>3, DigestIs
  <2>8. g[n + 1] = <<g[n], [k \in Index |-> data[n * Block + k + 1]]>>
    BY <1>2, <2>1
  <2> QED
    BY <2>3, <2>4, <2>6, <2>7, <2>8
<1> HIDE DEF T
<1>6. Nat \subseteq T
  BY <1>4, <1>5, SetInduction
<1> QED
  BY <1>6 DEF T, N, f, g

(* A message in an empty block: the digest of its whole blocks, and the rest *)
(* of it at the start of the block.                                          *)
LEMMA WriteIs ==
  ASSUME NEW s, IsStream(s), s.pos = 0, Current(s).low = NoDigest, NEW data \in Input
  PROVE  LET w == Write(s, data)
             n == Len(data) \div Block
             rest == Len(data) % Block
         IN  /\ IsStream(w) /\ w.pos = rest
             /\ Current(w).low = Digests(data)[n]
             /\ BeginsWith(Current(w).high, rest, data, n * Block)
<1> DEFINE n == Len(data) \div Block
           rest == Len(data) % Block
           a == Digesting(s, data)[n]
           p == Put(a, data, n * Block, rest)
           w == Write(s, data)
<1>1. Len(data) \in Nat /\ Block \in Nat \ {0}
  BY LenProperties, BlockAssumption DEF Input
<1>2. n \in Nat /\ rest \in Nat /\ rest < Block /\ Len(data) = n * Block + rest
  BY <1>1
<1>3. (s.pos + Len(data)) \div Block = n
  BY <1>1
<1>4. IsStream(a) /\ a.pos = 0 /\ Current(a).low = Digests(data)[n]
  BY <1>2, DigestingHolds
<1> HIDE DEF n, rest, a
<1>5. Taken(s, n) = n * Block
  BY <1>1, <1>2 DEF Taken
<1>6. Len(data) - Taken(s, n) = rest /\ n * Block \in Nat
  BY <1>1, <1>2, <1>5
<1>7. w = [p EXCEPT !.pos = @ + rest]
  BY <1>3, <1>5, <1>6 DEF Write, a
<1>8. /\ IsStream(p) /\ p.cur = a.cur /\ p.pos = 0 /\ Current(p).low = Digests(data)[n]
      /\ BeginsWith(Current(p).high, rest, data, n * Block)
  BY <1>2, <1>4, <1>6, PutIs
<1> HIDE DEF p, w
<1>9. PICK D, H : p \in Streams(D, H)
  BY <1>8 DEF IsStream
<1>10. w = [p EXCEPT !.pos = rest]
  BY <1>2, <1>7, <1>8
<1>11. w \in Streams(D, H) /\ w.buf = p.buf /\ w.cur = p.cur /\ w.pos = rest
  <2>1. rest \in 0 .. Block - 1
    BY <1>1, <1>2
  <2> QED
    BY <1>9, <1>10, <2>1 DEF Streams
<1>12. Current(w) = Current(p)
  BY <1>11 DEF Current
<1>13. IsStream(w)
  BY <1>11 DEF IsStream
<1> QED
  BY <1>8, <1>11, <1>12, <1>13 DEF n, rest, w

(* reset() leaves a buffer with an older message, but not the current one. *)
LEMMA ResetIs ==
  ASSUME NEW s, IsStream(s)
  PROVE  IsStream(Reset(s)) /\ Reset(s).pos = 0 /\ Current(Reset(s)).low = NoDigest
<1>1. PICK D, H : s \in Streams(D, H)
  BY DEF IsStream
<1> DEFINE E == D \union {NoDigest}
           G == H \union {Byte(0)}
           c == [s.buf EXCEPT ![1] = Blank]
           r == Reset(s)
<1>2. Blank \in [low : E, high : [Index -> G]] /\ Blank.low = NoDigest
  BY DEF Blank
<1>3. c \in [1 .. 2 -> [low : E, high : [Index -> G]]] /\ c[1] = Blank
  <2>1. s.buf \in [1 .. 2 -> [low : D, high : [Index -> H]]]
    BY <1>1 DEF Streams
  <2>2. [low : D, high : [Index -> H]] \subseteq [low : E, high : [Index -> G]]
    OBVIOUS
  <2>3. s.buf \in [1 .. 2 -> [low : E, high : [Index -> G]]]
    BY <2>1, <2>2
  <2> HIDE DEF E, G
  <2> QED
    BY <1>2, <2>3
<1>4. r = [[[s EXCEPT !.buf = c] EXCEPT !.cur = 1] EXCEPT !.pos = 0]
  BY DEF Reset
<1>5. 0 \in 0 .. Block - 1
  BY BlockAssumption
<1> HIDE DEF c, r, E, G
<1>6. r \in Streams(E, G) /\ r.buf = c /\ r.cur = 1 /\ r.pos = 0
  <2>1. 1 \in 1 .. 2
    OBVIOUS
  <2>2. s = [buf |-> s.buf, cur |-> s.cur, pos |-> s.pos]
    BY <1>1 DEF Streams
  <2>3. r = [buf |-> c, cur |-> 1, pos |-> 0]
    BY <1>4, <2>2
  <2> QED
    BY <1>3, <1>5, <2>1, <2>3 DEF Streams
<1>7. IsStream(r)
  BY <1>6 DEF IsStream
<1> QED
  BY <1>2, <1>3, <1>6, <1>7 DEF Current, r

LEMMA FreshIs == IsStream(Fresh) /\ Fresh.pos = 0 /\ Current(Fresh).low = NoDigest
<1> DEFINE D == {NoDigest, <<NoDigest, NoDigest>>}
           H == {Byte(0), Byte(99)}
<1>1. Blank \in [low : D, high : [Index -> H]] /\ Garbage \in [low : D, high : [Index -> H]]
  BY DEF Blank, Garbage
<1>2. 0 \in 0 .. Block - 1
  BY BlockAssumption
<1>3. Fresh \in Streams(D, H)
  <2> HIDE DEF D, H
  <2> QED
    BY <1>1, <1>2 DEF Fresh, Streams
<1>4. Current(Fresh) = Blank /\ Blank.low = NoDigest
  BY DEF Fresh, Current, Blank
<1> QED
  BY <1>3, <1>4 DEF IsStream, Fresh

(* The block of a message that ends with the first `rest' bytes of high. *)
Ended(low, high, rest) ==
  LET filled(source, q) ==
        [low |-> low,
         high |-> [k \in Index |-> IF k < rest THEN high[k] ELSE ByteOf(source, (k - rest) % q)]]
  IN  filled(ClHash(filled(low, Half)), Half \div 2)

LEMMA EndedIsReference ==
  ASSUME NEW m \in Input, NEW high,
         BeginsWith(high, Len(m) % Block, m, (Len(m) \div Block) * Block)
  PROVE  Ended(Digests(m)[Len(m) \div Block], high, Len(m) % Block) = Reference(m)
<1> DEFINE n == Len(m) \div Block
           rest == Len(m) % Block
           low == Digests(m)[n]
           mine(source, q) ==
             [low |-> low,
              high |-> [k \in Index |-> IF k < rest THEN high[k] ELSE ByteOf(source, (k - rest) % q)]]
           theirs(source, q) ==
             [low |-> low,
              high |-> [k \in Index |-> IF k < rest THEN m[n * Block + k + 1]
                                        ELSE ByteOf(source, (k - rest) % q)]]
<1>1. \A source, q : mine(source, q) = theirs(source, q)
  <2> SUFFICES ASSUME NEW source, NEW q PROVE mine(source, q) = theirs(source, q)
    OBVIOUS
  <2>1. \A k \in Index : k < rest => high[k] = m[n * Block + k + 1]
    BY DEF BeginsWith
  <2> HIDE DEF n, rest, low
  <2>2. [k \in Index |-> IF k < rest THEN high[k] ELSE ByteOf(source, (k - rest) % q)]
          = [k \in Index |-> IF k < rest THEN m[n * Block + k + 1] ELSE ByteOf(source, (k - rest) % q)]
    BY <2>1
  <2> QED
    BY <2>2
<1>2. Ended(low, high, rest) = mine(ClHash(mine(low, Half)), Half \div 2)
  BY DEF Ended
<1>3. Reference(m) = theirs(ClHash(theirs(low, Half)), Half \div 2)
  BY DEF Reference
<1> HIDE DEF mine, theirs, n, rest, low
<1>4. mine(ClHash(mine(low, Half)), Half \div 2) = theirs(ClHash(theirs(low, Half)), Half \div 2)
  BY <1>1
<1> QED
  BY <1>2, <1>3, <1>4 DEF n, rest, low

LEMMA FinalizedIs ==
  ASSUME NEW s, IsStream(s)
  PROVE  LET e == Finalized(s) IN
         IsStream(e) /\ Current(e) = Ended(Current(s).low, Current(s).high, s.pos)
<1>1. PICK D, H : s \in Streams(D, H)
  BY DEF IsStream
<1> DEFINE b == Current(s)
           filled == FillExtra(b, s.pos, b.low, Half)
           end == FillExtra(filled, s.pos, ClHash(filled), Half \div 2)
           e == Finalized(s)
           byte(k) == ByteOf(b.low, (k - s.pos) % Half)
           last0(k) == ByteOf(ClHash(filled), (k - s.pos) % (Half \div 2))
           G == H \union {byte(k) : k \in Index} \union {last0(k) : k \in Index}
<1>2. b \in [low : D, high : [Index -> H]] /\ s.cur \in 1 .. 2
  BY <1>1 DEF Streams, Current
<1>3. filled = [low |-> b.low,
                high |-> [k \in Index |-> IF k < s.pos THEN b.high[k] ELSE byte(k)]]
  BY <1>2, FillExtraIs
<1> HIDE DEF b, filled
<1>4. filled \in [low : D, high : [Index -> G]]
  <2>1. \A k \in Index : (IF k < s.pos THEN b.high[k] ELSE byte(k)) \in G
    BY <1>2
  <2> HIDE DEF G, byte
  <2> QED
    BY <1>2, <1>3, <2>1
<1>5. end = [low |-> filled.low,
             high |-> [k \in Index |-> IF k < s.pos THEN filled.high[k] ELSE last0(k)]]
  <2> HIDE DEF G
  <2> QED
    BY <1>4, FillExtraIs
<1> HIDE DEF end
<1>6. end \in [low : D, high : [Index -> G]]
  <2>1. \A k \in Index : last0(k) \in G
    OBVIOUS
  <2> HIDE DEF G, last0
  <2>2. \A k \in Index : (IF k < s.pos THEN filled.high[k] ELSE last0(k)) \in G
    BY <1>4, <2>1
  <2> QED
    BY <1>4, <1>5, <2>2
<1>7. end = [low |-> b.low,
             high |-> [k \in Index |-> IF k < s.pos THEN b.high[k] ELSE last0(k)]]
  <2>1. filled.low = b.low /\ \A k \in Index : k < s.pos => filled.high[k] = b.high[k]
    BY <1>3
  <2> HIDE DEF last0
  <2>2. [k \in Index |-> IF k < s.pos THEN filled.high[k] ELSE last0(k)]
          = [k \in Index |-> IF k < s.pos THEN b.high[k] ELSE last0(k)]
    BY <2>1
  <2> QED
    BY <1>5, <2>1, <2>2
<1>8. end = Ended(b.low, b.high, s.pos)
  BY <1>3, <1>7 DEF Ended
<1>9. e = [s EXCEPT !.buf[s.cur] = end]
  BY DEF Finalized, end, filled, b
<1> DEFINE c == [s.buf EXCEPT ![s.cur] = end]
<1>10. e = [s EXCEPT !.buf = c]
  BY <1>9
<1>11. c \in [1 .. 2 -> [low : D, high : [Index -> G]]] /\ c[s.cur] = end
  <2>1. s.buf \in [1 .. 2 -> [low : D, high : [Index -> H]]]
    BY <1>1 DEF Streams
  <2>2. H \subseteq G
    OBVIOUS
  <2> HIDE DEF G
  <2>3. [low : D, high : [Index -> H]] \subseteq [low : D, high : [Index -> G]]
    BY <2>2
  <2>4. s.buf \in [1 .. 2 -> [low : D, high : [Index -> G]]]
    BY <2>1, <2>3
  <2> QED
    BY <1>2, <1>6, <2>4
<1> HIDE DEF c, e, G
<1>12. e \in Streams(D, G) /\ e.buf = c /\ e.cur = s.cur
  BY <1>1, <1>10, <1>11 DEF Streams
<1>13. IsStream(e)
  BY <1>12 DEF IsStream
<1>14. Current(e) = end
  BY <1>11, <1>12 DEF Current
<1> QED
  BY <1>8, <1>13, <1>14 DEF e, b

(* hash_raw() hashes as the reference, whatever the Hasher has hashed before. *)
LEMMA HashedRawIs ==
  ASSUME NEW s, IsStream(s), NEW m \in Input
  PROVE  IsStream(HashedRaw(s, m)) /\ Current(HashedRaw(s, m)) = Reference(m)
<1> DEFINE r == Reset(s)
           w == Write(r, m)
<1>1. IsStream(r) /\ r.pos = 0 /\ Current(r).low = NoDigest
  BY ResetIs
<1> HIDE DEF r
<1>2. /\ IsStream(w) /\ w.pos = Len(m) % Block
      /\ Current(w).low = Digests(m)[Len(m) \div Block]
      /\ BeginsWith(Current(w).high, Len(m) % Block, m, (Len(m) \div Block) * Block)
  BY <1>1, WriteIs
<1> HIDE DEF w
<1>3. IsStream(Finalized(w)) /\ Current(Finalized(w)) = Ended(Current(w).low, Current(w).high, w.pos)
  BY <1>2, FinalizedIs
<1>4. Ended(Current(w).low, Current(w).high, w.pos) = Reference(m)
  BY <1>2, EndedIsReference
<1>5. HashedRaw(s, m) = Finalized(w)
  BY DEF HashedRaw, w, r
<1> QED
  BY <1>3, <1>4, <1>5

-------------------------------------------------------------------------------
(* The digests depend on the whole blocks only. *)
LEMMA DigestsAgree ==
  ASSUME NEW b \in Input, NEW m \in Input, Len(m) \div Block = Len(b) \div Block,
         \A p \in 1 .. (Len(b) \div Block) * Block : m[p] = b[p]
  PROVE  Digests(m)[Len(b) \div Block] = Digests(b)[Len(b) \div Block]
<1> DEFINE N == Len(b) \div Block
           f == Digests(b)
           g == Digests(m)
           T == {d \in Nat : d =< N => f[d] = g[d]}
<1>1. /\ f[0] = NoDigest
      /\ \A d \in Nat : d < N => f[d + 1] = <<f[d], [k \in Index |-> b[d * Block + k + 1]]>>
  BY DigestsAre
<1>2. /\ g[0] = NoDigest
      /\ \A d \in Nat : d < N => g[d + 1] = <<g[d], [k \in Index |-> m[d * Block + k + 1]]>>
  BY DigestsAre
<1>3. N \in Nat /\ Block \in Nat \ {0}
  <2>1. Len(b) \in Nat
    BY LenProperties DEF Input
  <2> QED
    BY <2>1, BlockAssumption
<1>4. \A p \in 1 .. N * Block : m[p] = b[p]
  OBVIOUS
<1> HIDE DEF f, g, N
<1>5. 0 \in T
  BY <1>1, <1>2
<1>6. ASSUME NEW d \in Nat, d \in T PROVE d + 1 \in T
  <2> SUFFICES ASSUME d + 1 =< N PROVE f[d + 1] = g[d + 1]
    OBVIOUS
  <2>1. d < N /\ f[d] = g[d]
    BY <1>3, <1>6
  <2>2. \A k \in Index : d * Block + k + 1 \in 1 .. N * Block
    <3> SUFFICES ASSUME NEW k \in Index PROVE d * Block + k + 1 \in 1 .. N * Block
      OBVIOUS
    <3>1. k \in Nat /\ k < Block
      BY IndexIs
    <3>2. (d + 1) * Block =< N * Block
      BY <1>3
    <3>3. (d + 1) * Block = d * Block + Block /\ d * Block \in Nat /\ N * Block \in Nat
      BY <1>3
    <3> QED
      BY <1>3, <3>1, <3>2, <3>3
  <2>3. [k \in Index |-> b[d * Block + k + 1]] = [k \in Index |-> m[d * Block + k + 1]]
    BY <1>4, <2>2
  <2> QED
    BY <1>1, <1>2, <2>1, <2>3
<1> HIDE DEF T
<1>7. Nat \subseteq T
  BY <1>5, <1>6, SetInduction
<1>8. f[N] = g[N]
  BY <1>3, <1>7 DEF T
<1> QED
  BY <1>8 DEF f, g, N

(* The block of a job with other nonces at its end. *)
WithSpace(b, space) == SubSeq(b, 1, Len(b) - Half + 1) \o space

LEMMA WithSpaceIs ==
  ASSUME NEW b \in JobBlocks, NEW space \in NonceSpaces
  PROVE  /\ WithSpace(b, space) \in Input /\ b \in Input
         /\ Len(WithSpace(b, space)) = Len(b)
         /\ Len(b) % Block = Half - 1
         /\ \A p \in 1 .. (Len(b) \div Block) * Block : WithSpace(b, space)[p] = b[p]
         /\ \A k \in Nat : k < Half - 1 =>
              WithSpace(b, space)[(Len(b) \div Block) * Block + k + 1] = space[k + 1]
<1> DEFINE N == Len(b) \div Block
           S == Nat \X {<<>>}
           o == Len(b) - Half + 1
           t == SubSeq(b, 1, o)
           m == t \o space
<1>1. b \in Seq(S) /\ space \in Seq(S) /\ Len(b) % Block = Half - 1 /\ Len(space) = Half - 1
  BY JobAssumption DEF Input
<1> HIDE DEF S
<1>2. Len(b) \in Nat /\ Half \in Nat /\ Half > 0 /\ Block \in Nat \ {0}
  BY <1>1, LenProperties, BlockAssumption DEF Half
<1>3. N \in Nat /\ Len(b) = N * Block + (Len(b) % Block) /\ N * Block \in Nat
  BY <1>2
<1> HIDE DEF N
<1>4. o = N * Block /\ o \in Nat /\ o =< Len(b)
  BY <1>1, <1>2, <1>3
<1>5. t \in Seq(S) /\ Len(t) = o /\ \A p \in 1 .. o : t[p] = b[p]
  <2>1. CASE o = 0
    <3>1. t = <<>>
      BY <2>1
    <3> QED
      BY <2>1, <3>1
  <2>2. CASE o # 0
    <3> HIDE DEF o
    <3>1. /\ SubSeq(b, 1, o) \in Seq(S)
          /\ Len(SubSeq(b, 1, o)) = o
          /\ \A p \in 1 .. o : SubSeq(b, 1, o)[p] = b[p]
      BY <1>1, <1>2, <1>4, <2>2
    <3> QED
      BY <3>1
  <2> QED
    BY <2>1, <2>2
<1> HIDE DEF t, o
<1>6. m \in Seq(S) /\ Len(m) = o + (Half - 1)
      /\ \A p \in 1 .. o + (Half - 1) : m[p] = IF p =< o THEN t[p] ELSE space[p - o]
  <2>1. /\ t \o space \in Seq(S)
        /\ Len(t \o space) = Len(t) + Len(space)
        /\ \A p \in 1 .. Len(t) + Len(space) :
             (t \o space)[p] = IF p =< Len(t) THEN t[p] ELSE space[p - Len(t)]
    BY <1>1, <1>5, ConcatProperties
  <2> QED
    BY <1>1, <1>5, <2>1
<1>7. m = WithSpace(b, space)
  BY DEF WithSpace, t, o
<1> HIDE DEF m
<1>8. Len(m) = Len(b)
  BY <1>1, <1>2, <1>3, <1>4, <1>6
<1>9. \A p \in 1 .. N * Block : m[p] = b[p]
  BY <1>2, <1>4, <1>5, <1>6
<1>10. \A k \in Nat : k < Half - 1 => m[N * Block + k + 1] = space[k + 1]
  <2> SUFFICES ASSUME NEW k \in Nat, k < Half - 1 PROVE m[N * Block + k + 1] = space[k + 1]
    OBVIOUS
  <2>1. PICK q \in Nat : q = o + k + 1
    BY <1>4
  <2>2. q \in 1 .. o + (Half - 1) /\ ~(q =< o) /\ q - o = k + 1
    BY <1>2, <1>4, <2>1
  <2>3. m[q] = space[q - o]
    BY <1>6, <2>2
  <2> QED
    BY <1>4, <2>1, <2>2, <2>3
<1>11. m \in Input /\ b \in Input
  BY <1>1, <1>6 DEF Input, S
<1> QED
  BY <1>1, <1>7, <1>8, <1>9, <1>10, <1>11 DEF N

(* The shuffles fill as fillExtra() does. *)
LEMMA WithExtraIs ==
  ASSUME NEW low, NEW high, NEW nonces, NEW digest, NEW n \in Nat \ {0}
  PROVE  WithExtra([low |-> low, high |-> high], nonces, digest, n)
           = [low |-> low,
              high |-> [k \in Index |-> IF k < Half - 1 THEN nonces[k]
                                        ELSE ByteOf(digest, (k - (Half - 1)) % n)]]
<1> DEFINE theirs(k) == IF k < Half - 1 THEN nonces[k]
                        ELSE IF k = Half - 1 THEN ByteOf(digest, 0)
                        ELSE ByteOf(digest, (k - Half + 1) % n)
           mine(k) == IF k < Half - 1 THEN nonces[k] ELSE ByteOf(digest, (k - (Half - 1)) % n)
           new == [k \in Index |-> theirs(k)]
<1>1. Half \in Nat
  BY BlockAssumption DEF Half
<1>2. 0 % n = 0
  OBVIOUS
<1>3. \A k \in Index : theirs(k) = mine(k)
  <2> SUFFICES ASSUME NEW k \in Index PROVE theirs(k) = mine(k)
    OBVIOUS
  <2>1. k \in Nat
    BY IndexIs
  <2>2. k - Half + 1 = k - (Half - 1)
    BY <1>1, <2>1
  <2>3. CASE k = Half - 1
    <3>1. k - (Half - 1) = 0 /\ ~(k < Half - 1)
      BY <1>1, <2>1, <2>3
    <3> QED
      BY <1>2, <2>3, <3>1
  <2>4. CASE k # Half - 1
    BY <2>2, <2>4
  <2> QED
    BY <2>3, <2>4
<1>4. WithExtra([low |-> low, high |-> high], nonces, digest, n)
        = [[low |-> low, high |-> high] EXCEPT !.high = new]
  BY DEF WithExtra
<1> HIDE DEF theirs, mine
<1>5. new = [k \in Index |-> mine(k)]
  BY <1>3
<1> HIDE DEF new
<1>6. [[low |-> low, high |-> high] EXCEPT !.high = new] = [low |-> low, high |-> new]
  OBVIOUS
<1> QED
  BY <1>4, <1>5, <1>6 DEF mine

(* The two stages of the miner's hash make the hash of the whole block. *)
LEMMA StagesAgree ==
  ASSUME NEW b \in JobBlocks, NEW space \in NonceSpaces
  PROVE  WithClHash(WithNonce(HashHalf(b), space)) = Reference(WithSpace(b, space))
<1> DEFINE m == WithSpace(b, space)
           N == Len(b) \div Block
           c == Current(Write(Fresh, b))
           h == HashHalf(b)
           rest == Half - 1
           l == Digests(b)[N]
           own == [k \in Index |-> IF k < Half - 1 THEN space[k + 1] ELSE Byte(0)]
           filled(source, q) ==
             [low |-> l,
              high |-> [k \in Index |-> IF k < rest THEN own[k] ELSE ByteOf(source, (k - rest) % q)]]
           x == WithNonce(h, space)
           y == WithClHash(x)
<1>1. /\ m \in Input /\ b \in Input /\ Len(m) = Len(b) /\ Len(b) % Block = rest
      /\ \A p \in 1 .. N * Block : m[p] = b[p]
      /\ \A k \in Nat : k < Half - 1 => m[N * Block + k + 1] = space[k + 1]
  BY WithSpaceIs
<1>2. Half \in Nat \ {0} /\ Half \div 2 \in Nat \ {0}
  BY BlockAssumption DEF Half
<1>3. IsStream(Write(Fresh, b)) /\ c.low = l
  BY <1>1, FreshIs, WriteIs
<1>4. PICK D, H : c \in [low : D, high : [Index -> H]]
  <2>1. PICK D, H : Write(Fresh, b) \in Streams(D, H)
    BY <1>3 DEF IsStream
  <2> QED
    BY <2>1 DEF Streams, Current
<1>5. h = FillExtra(c, rest, c.low, Half)
  BY DEF HashHalf
<1> HIDE DEF m, N, c, h, l, x, y
<1>6. PICK high : h = [low |-> l, high |-> high]
  BY <1>3, <1>4, <1>5, FillExtraIs
<1>7. x = filled(l, Half)
  <2>1. x = WithExtra([low |-> l, high |-> high], own, l, Half)
    BY <1>6 DEF WithNonce, x
  <2> HIDE DEF own
  <2> QED
    BY <1>2, <2>1, WithExtraIs
<1>8. y = filled(ClHash(x), Half \div 2)
  <2>1. y = WithExtra(x, x.high, ClHash(x), Half \div 2)
    BY DEF WithClHash, y
  <2> HIDE DEF own
  <2>2. x = [low |-> l, high |-> x.high]
    BY <1>7
  <2>3. \A k \in Index : k < rest => x.high[k] = own[k]
    BY <1>7
  <2>4. y = [low |-> l,
             high |-> [k \in Index |-> IF k < Half - 1 THEN x.high[k]
                                       ELSE ByteOf(ClHash(x), (k - (Half - 1)) % (Half \div 2))]]
    <3>1. PICK g : g = x.high
      OBVIOUS
    <3>2. PICK d : d = ClHash(x)
      OBVIOUS
    <3>3. y = WithExtra([low |-> l, high |-> g], g, d, Half \div 2)
      BY <2>1, <2>2, <3>1, <3>2
    <3>4. y = [low |-> l,
               high |-> [k \in Index |-> IF k < Half - 1 THEN g[k]
                                         ELSE ByteOf(d, (k - (Half - 1)) % (Half \div 2))]]
      BY <1>2, <3>3, WithExtraIs
    <3> QED
      BY <3>1, <3>2, <3>4
  <2>5. [k \in Index |-> IF k < Half - 1 THEN x.high[k]
                         ELSE ByteOf(ClHash(x), (k - (Half - 1)) % (Half \div 2))]
          = [k \in Index |-> IF k < rest THEN own[k]
                             ELSE ByteOf(ClHash(x), (k - rest) % (Half \div 2))]
    BY <2>3
  <2> QED
    BY <2>4, <2>5
<1>9. y = Ended(l, own, rest)
  BY <1>7, <1>8 DEF Ended
<1>10. Digests(m)[N] = l
  BY <1>1, DigestsAgree DEF N, l
<1>11. BeginsWith(own, rest, m, N * Block)
  BY <1>1, IndexIs DEF BeginsWith
<1>12. Ended(Digests(m)[Len(m) \div Block], own, Len(m) % Block) = Reference(m)
  <2> HIDE DEF own
  <2> QED
    BY <1>1, <1>11, EndedIsReference DEF N
<1>13. y = Reference(m)
  BY <1>1, <1>9, <1>10, <1>12 DEF N
<1> QED
  BY <1>13 DEF m, y, x, h

-------------------------------------------------------------------------------
(* The buffers that hash_raw() leaves, and what the stages have made of the  *)
(* job and the nonce so far.                                                 *)
Staged ==
  /\ block \in JobBlocks
  /\ intermediate = HashHalf(block)
  /\ nonceSpace # <<>> =>
       /\ nonceSpace \in NonceSpaces
       /\ curBuf = IF pc = "idle" THEN WithClHash(WithNonce(intermediate, nonceSpace))
                   ELSE WithNonce(intermediate, nonceSpace)

HasherInv == IsStream(stream) /\ ReuseIsSafe /\ Staged

LEMMA HasherInitInv == HasherInit => HasherInv
BY FreshIs DEF HasherInit, HasherInv, ReuseIsSafe, Staged

LEMMA HasherNextInv == HasherInv /\ [HasherNext]_hasherVars => HasherInv'
<1> SUFFICES ASSUME HasherInv, [HasherNext]_hasherVars PROVE HasherInv'
  OBVIOUS
<1> USE DEF HasherInv
<1>1. CASE NewJob
  BY <1>1 DEF NewJob, ReuseIsSafe, Staged
<1>2. CASE HashWithNonce
  <2>1. pc' # "idle"
    BY <1>2 DEF HashWithNonce, HashUnprepared, CopyKey, StartRestore
  <2>2. Staged'
    BY <1>2, <2>1 DEF HashWithNonce, Staged
  <2> QED
    BY <1>2, <2>2 DEF HashWithNonce, ReuseIsSafe
<1>3. CASE KeyStep
  <2>1. pc # "idle" /\ pc' # "idle"
    BY <1>3 DEF KeyStep, Restore, StartRounds, HashRound
  <2> QED
    BY <1>3, <2>1 DEF KeyStep, job, Staged, ReuseIsSafe
<1>4. CASE HashDone
  <2>1. pc # "idle" /\ pc' = "idle"
    BY <1>4 DEF HashDone, EndHash
  <2> QED
    BY <1>4, <2>1 DEF HashDone, Staged, ReuseIsSafe
<1>5. CASE HashMessage
  <2>1. PICK m \in Messages : stream' = HashedRaw(stream, m) /\ last' = <<m, Current(stream')>>
    BY <1>5 DEF HashMessage
  <2>2. m \in Input
    BY <2>1, MessageAssumption
  <2>3. IsStream(stream') /\ Current(stream') = Reference(m)
    BY <2>1, <2>2, HashedRawIs
  <2>4. ReuseIsSafe'
    BY <2>1, <2>3 DEF ReuseIsSafe
  <2>5. Staged'
    BY <1>5 DEF HashMessage, HashRaw, job, Staged
  <2> QED
    BY <2>3, <2>4, <2>5
<1>6. CASE UNCHANGED hasherVars
  BY <1>6 DEF hasherVars, vars, job, Staged, ReuseIsSafe
<1> QED
  BY <1>1, <1>2, <1>3, <1>4, <1>5, <1>6 DEF HasherNext

(* A Hasher that has hashed messages of any lengths hashes the next one as a *)
(* new one would, for any size of a block: by induction on the blocks of the *)
(* message, what the other buffer held is overwritten or digested.           *)
THEOREM ReuseStaysSafe == HasherSpec => []ReuseIsSafe
<1>1. HasherInv => ReuseIsSafe
  BY DEF HasherInv
<1> QED
  BY <1>1, HasherInitInv, HasherNextInv, PTL DEF HasherSpec

(* hash_half() and hash_with_nonce() come to the hash of the whole block,    *)
(* for any block of a job, of any number of bytes, and any nonce space.      *)
THEOREM StagesMakeTheHash == HasherSpec => []TwoStagesAgree
<1>1. HasherInv => TwoStagesAgree
  BY StagesAgree DEF HasherInv, Staged, TwoStagesAgree, WithSpace
<1> QED
  BY <1>1, HasherInitInv, HasherNextInv, PTL DEF HasherSpec

(* Every step of a Hasher is one of its key, or leaves the key alone: so its *)
(* hashes start from the key of the job, as HasherKey's do.                  *)
THEOREM HasherKeepsItsKey == HasherSpec => Spec
<1>1. HasherInit => Init
  BY DEF HasherInit
<1>2. [HasherNext]_hasherVars => [Next]_vars
  BY DEF HasherNext, hasherVars, NewJob, HashWithNonce, KeyStep, HashDone, HashMessage, Next
<1> QED
  BY <1>1, <1>2, PTL DEF HasherSpec, Spec

(* What is proved of the key alone is so of the Hasher with its data, the    *)
(* messages of hash_raw() included: every hash_with_nonce() starts from the  *)
(* key of its job.                                                           *)
THEOREM HasherStartsPristine == ~Legacy => (HasherSpec => []StartsPristine)
<1>1. ~Legacy => (Spec => []StartsPristine)
  BY HashesStartPristine
<1> QED
  BY <1>1, HasherKeepsItsKey, PTL
================================================================================
