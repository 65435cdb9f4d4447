----------------------------- MODULE Miner_proofs -----------------------------
(***************************************************************************)
(* The stratum client, alone (StratumClient) and with the mining threads   *)
(* (Miner), proved for any pools, any number of sessions, jobs, lines and  *)
(* threads.                                                                *)
(***************************************************************************)
EXTENDS Miner, FiniteSetTheorems, SequenceTheorems, TLAPS

-------------------------------------------------------------------------------
(* Sequences *)

LEMMA TailOfStream ==
  ASSUME NEW S, NEW b \in Seq(S), NEW w \in Seq(S), b # <<>>
  PROVE  /\ b \o w \in Seq(S) /\ b \o w # <<>> /\ Head(b) = (b \o w)[1] /\ Head(b) \in S
         /\ Tail(b) \in Seq(S)
         /\ Tail(b) \o w = Tail(b \o w)
<1>1. /\ b \o w \in Seq(S) /\ Len(b \o w) = Len(b) + Len(w) /\ Len(b) \in Nat \ {0}
      /\ Tail(b) \in Seq(S) /\ Len(Tail(b)) = Len(b) - 1
      /\ \A i \in 1 .. Len(b) - 1 : Tail(b)[i] = b[i + 1]
      /\ Head(b) = b[1] /\ b[1] \in S
  OBVIOUS
<1>2. (b \o w)[1] = b[1]
  BY <1>1
<1>3. /\ Tail(b) \o w \in Seq(S) /\ Tail(b \o w) \in Seq(S)
      /\ Len(Tail(b) \o w) = Len(Tail(b \o w))
  BY <1>1
<1>4. \A i \in 1 .. Len(Tail(b) \o w) : (Tail(b) \o w)[i] = Tail(b \o w)[i]
  BY <1>1
<1> QED
  BY <1>1, <1>2, <1>3, <1>4, SeqEqual

LEMMA SplitStream ==
  ASSUME NEW S, NEW w \in Seq(S), NEW k \in 1 .. Len(w)
  PROVE  /\ SubSeq(w, 1, k) \in Seq(S) /\ SubSeq(w, k + 1, Len(w)) \in Seq(S)
         /\ SubSeq(w, 1, k) \o SubSeq(w, k + 1, Len(w)) = w
  OBVIOUS

LEMMA AppendToStream ==
  ASSUME NEW S, NEW b \in Seq(S), NEW w \in Seq(S), NEW x \in S
  PROVE  b \o Append(w, x) = Append(b \o w, x)
  OBVIOUS

-------------------------------------------------------------------------------
(* The notifications in a stream, numbered from d + 1 on. *)

Notified(s, i) == s[i].kind = "notify"

(* They come in their order, with none left out. *)
InOrder(s, d) ==
  \A i \in 1 .. Len(s) : Notified(s, i) =>
    /\ s[i].n > d
    /\ \A n \in d + 1 .. s[i].n - 1 : \E j \in 1 .. i - 1 : Notified(s, j) /\ s[j].n = n
    /\ \A j \in 1 .. i - 1 : Notified(s, j) => s[j].n < s[i].n

(* None is beyond those sent, or all of these are there. *)
Sent(s, m) == \A i \in 1 .. Len(s) : Notified(s, i) => s[i].n =< m
Complete(s, d, m) == \A n \in d + 1 .. m : \E i \in 1 .. Len(s) : Notified(s, i) /\ s[i].n = n

Numbered(S) == \A x \in S : x.kind = "notify" => x.n \in Nat

LEMMA FirstIsNext ==
  ASSUME NEW S, Numbered(S), NEW s \in Seq(S), s # <<>>, NEW d \in Nat,
         InOrder(s, d), Notified(s, 1)
  PROVE  s[1].n = d + 1
<1>1. 1 \in 1 .. Len(s) /\ s[1] \in S
  OBVIOUS
<1>2. s[1].n \in Nat /\ s[1].n > d
  BY <1>1 DEF Numbered, Notified, InOrder
<1>3. \A n \in d + 1 .. s[1].n - 1 : FALSE
  BY <1>1 DEF InOrder
<1> QED
  BY <1>2, <1>3

LEMMA OtherTaken ==
  ASSUME NEW S, Numbered(S), NEW s \in Seq(S), s # <<>>, NEW d \in Nat, NEW m \in Nat,
         InOrder(s, d), ~Notified(s, 1)
  PROVE  /\ InOrder(Tail(s), d)
         /\ Sent(s, m) => Sent(Tail(s), m)
         /\ Complete(s, d, m) => Complete(Tail(s), d, m)
<1>1. /\ Len(Tail(s)) = Len(s) - 1 /\ Len(s) \in Nat \ {0}
      /\ \A i \in 1 .. Len(s) - 1 : Tail(s)[i] = s[i + 1]
  OBVIOUS
<1>2. InOrder(Tail(s), d)
  <2> SUFFICES ASSUME NEW i \in 1 .. Len(s) - 1, Notified(Tail(s), i)
               PROVE  /\ Tail(s)[i].n > d
                      /\ \A n \in d + 1 .. Tail(s)[i].n - 1 :
                           \E j \in 1 .. i - 1 : Notified(Tail(s), j) /\ Tail(s)[j].n = n
                      /\ \A j \in 1 .. i - 1 : Notified(Tail(s), j) => Tail(s)[j].n < Tail(s)[i].n
    BY <1>1 DEF InOrder
  <2>1. Tail(s)[i] = s[i + 1] /\ i + 1 \in 1 .. Len(s) /\ Notified(s, i + 1)
    BY <1>1 DEF Notified
  <2>2. ASSUME NEW n \in d + 1 .. Tail(s)[i].n - 1
        PROVE  \E j \in 1 .. i - 1 : Notified(Tail(s), j) /\ Tail(s)[j].n = n
    <3>1. PICK j \in 1 .. i + 1 - 1 : Notified(s, j) /\ s[j].n = n
      BY <2>1 DEF InOrder
    <3>2. j # 1
      BY <3>1
    <3>3. j - 1 \in 1 .. i - 1 /\ Tail(s)[j - 1] = s[j]
      BY <1>1, <3>1, <3>2
    <3> QED
      BY <3>1, <3>3 DEF Notified
  <2>3. ASSUME NEW j \in 1 .. i - 1, Notified(Tail(s), j)
        PROVE  Tail(s)[j].n < Tail(s)[i].n
    <3>1. Tail(s)[j] = s[j + 1] /\ j + 1 \in 1 .. i + 1 - 1
      BY <1>1
    <3> QED
      BY <2>1, <2>3, <3>1 DEF InOrder, Notified
  <2> QED
    BY <2>1, <2>2, <2>3 DEF InOrder
<1>3. Sent(s, m) => Sent(Tail(s), m)
  BY <1>1 DEF Sent, Notified
<1>4. ASSUME Complete(s, d, m), NEW n \in d + 1 .. m
      PROVE  \E i \in 1 .. Len(Tail(s)) : Notified(Tail(s), i) /\ Tail(s)[i].n = n
  <2>1. PICK i \in 1 .. Len(s) : Notified(s, i) /\ s[i].n = n
    BY <1>4 DEF Complete
  <2>2. i - 1 \in 1 .. Len(Tail(s)) /\ Tail(s)[i - 1] = s[i]
    BY <1>1, <2>1
  <2> QED
    BY <2>1, <2>2 DEF Notified
<1> QED
  BY <1>2, <1>3, <1>4 DEF Complete

LEMMA NextTaken ==
  ASSUME NEW S, Numbered(S), NEW s \in Seq(S), s # <<>>, NEW d \in Nat, NEW m \in Nat,
         InOrder(s, d), Notified(s, 1)
  PROVE  /\ InOrder(Tail(s), d + 1)
         /\ Sent(s, m) => Sent(Tail(s), m)
         /\ Complete(s, d, m) => Complete(Tail(s), d + 1, m)
<1>1. /\ Len(Tail(s)) = Len(s) - 1 /\ Len(s) \in Nat \ {0}
      /\ \A i \in 1 .. Len(s) - 1 : Tail(s)[i] = s[i + 1]
      /\ \A i \in 1 .. Len(s) : s[i] \in S
  OBVIOUS
<1>2. s[1].n = d + 1
  BY FirstIsNext
<1>3. InOrder(Tail(s), d + 1)
  <2> SUFFICES ASSUME NEW i \in 1 .. Len(s) - 1, Notified(Tail(s), i)
               PROVE  /\ Tail(s)[i].n > d + 1
                      /\ \A n \in d + 1 + 1 .. Tail(s)[i].n - 1 :
                           \E j \in 1 .. i - 1 : Notified(Tail(s), j) /\ Tail(s)[j].n = n
                      /\ \A j \in 1 .. i - 1 : Notified(Tail(s), j) => Tail(s)[j].n < Tail(s)[i].n
    BY <1>1 DEF InOrder
  <2>1. /\ Tail(s)[i] = s[i + 1] /\ i + 1 \in 1 .. Len(s) /\ Notified(s, i + 1)
        /\ s[i + 1].n \in Nat
    BY <1>1 DEF Notified, Numbered
  <2>2. s[1].n < s[i + 1].n
    BY <1>1, <2>1 DEF InOrder
  <2>3. ASSUME NEW n \in d + 1 + 1 .. Tail(s)[i].n - 1
        PROVE  \E j \in 1 .. i - 1 : Notified(Tail(s), j) /\ Tail(s)[j].n = n
    <3>1. PICK j \in 1 .. i + 1 - 1 : Notified(s, j) /\ s[j].n = n
      BY <2>1 DEF InOrder
    <3>2. j # 1
      BY <1>2, <3>1
    <3>3. j - 1 \in 1 .. i - 1 /\ Tail(s)[j - 1] = s[j]
      BY <1>1, <3>1, <3>2
    <3> QED
      BY <3>1, <3>3 DEF Notified
  <2>4. ASSUME NEW j \in 1 .. i - 1, Notified(Tail(s), j)
        PROVE  Tail(s)[j].n < Tail(s)[i].n
    <3>1. Tail(s)[j] = s[j + 1] /\ j + 1 \in 1 .. i + 1 - 1
      BY <1>1
    <3> QED
      BY <2>1, <2>4, <3>1 DEF InOrder, Notified
  <2> QED
    BY <1>2, <2>1, <2>2, <2>3, <2>4
<1>4. Sent(s, m) => Sent(Tail(s), m)
  BY <1>1 DEF Sent, Notified
<1>5. ASSUME Complete(s, d, m), NEW n \in d + 1 + 1 .. m
      PROVE  \E i \in 1 .. Len(Tail(s)) : Notified(Tail(s), i) /\ Tail(s)[i].n = n
  <2>1. PICK i \in 1 .. Len(s) : Notified(s, i) /\ s[i].n = n
    BY <1>5 DEF Complete
  <2>2. i # 1
    BY <1>2, <2>1
  <2>3. i - 1 \in 1 .. Len(Tail(s)) /\ Tail(s)[i - 1] = s[i]
    BY <1>1, <2>1, <2>2
  <2> QED
    BY <2>1, <2>3 DEF Notified
<1> QED
  BY <1>3, <1>4, <1>5 DEF Complete

LEMMA OtherSent ==
  ASSUME NEW S, NEW s \in Seq(S), NEW x \in S, NEW d \in Nat, NEW m \in Nat,
         InOrder(s, d), Sent(s, m), x.kind # "notify"
  PROVE  /\ InOrder(Append(s, x), d)
         /\ Sent(Append(s, x), m)
         /\ Complete(s, d, m) => Complete(Append(s, x), d, m)
<1>1. /\ Len(Append(s, x)) = Len(s) + 1 /\ Len(s) \in Nat
      /\ \A i \in 1 .. Len(s) : Append(s, x)[i] = s[i]
      /\ Append(s, x)[Len(s) + 1] = x
  OBVIOUS
<1>2. \A i \in 1 .. Len(s) + 1 : Notified(Append(s, x), i) => i \in 1 .. Len(s) /\ Notified(s, i)
  BY <1>1 DEF Notified
<1> DEFINE t == Append(s, x)
<1>3. \A i \in 1 .. Len(s) : t[i] = s[i] /\ (Notified(t, i) <=> Notified(s, i))
  BY <1>1 DEF Notified
<1>4. Len(t) = Len(s) + 1
  BY <1>1
<1> HIDE DEF t
<1>5. ASSUME NEW i \in 1 .. Len(t), Notified(t, i)
      PROVE  /\ t[i].n > d
             /\ \A n \in d + 1 .. t[i].n - 1 : \E j \in 1 .. i - 1 : Notified(t, j) /\ t[j].n = n
             /\ \A j \in 1 .. i - 1 : Notified(t, j) => t[j].n < t[i].n
  <2>1. i \in 1 .. Len(s) /\ Notified(s, i) /\ t[i] = s[i]
    BY <1>2, <1>3, <1>4, <1>5 DEF t
  <2>2. \A j \in 1 .. i - 1 : j \in 1 .. Len(s) /\ t[j] = s[j] /\ (Notified(t, j) <=> Notified(s, j))
    BY <1>1, <1>3, <2>1
  <2> QED
    BY <2>1, <2>2 DEF InOrder
<1>6. Sent(t, m)
  BY <1>2, <1>3, <1>4 DEF Sent, t
<1>7. ASSUME Complete(s, d, m), NEW n \in d + 1 .. m
      PROVE  \E i \in 1 .. Len(t) : Notified(t, i) /\ t[i].n = n
  <2>1. PICK i \in 1 .. Len(s) : Notified(s, i) /\ s[i].n = n
    BY <1>7 DEF Complete
  <2> QED
    BY <1>1, <1>3, <1>4, <2>1
<1> QED
  BY <1>5, <1>6, <1>7 DEF InOrder, Complete, t

LEMMA NextSent ==
  ASSUME NEW S, Numbered(S), NEW s \in Seq(S), NEW x \in S, NEW d \in Nat, NEW m \in Nat, d =< m,
         InOrder(s, d), Sent(s, m), Complete(s, d, m), x.kind = "notify", x.n = m + 1
  PROVE  /\ InOrder(Append(s, x), d)
         /\ Sent(Append(s, x), m + 1)
         /\ Complete(Append(s, x), d, m + 1)
<1>1. /\ Len(Append(s, x)) = Len(s) + 1 /\ Len(s) \in Nat
      /\ \A i \in 1 .. Len(s) : Append(s, x)[i] = s[i]
      /\ Append(s, x)[Len(s) + 1] = x
      /\ \A i \in 1 .. Len(s) : s[i] \in S
  OBVIOUS
<1> DEFINE t == Append(s, x)
<1>2. \A i \in 1 .. Len(s) : t[i] = s[i] /\ (Notified(t, i) <=> Notified(s, i))
  BY <1>1 DEF Notified
<1>3. Notified(t, Len(s) + 1) /\ t[Len(s) + 1].n = m + 1
  BY <1>1 DEF Notified
<1>4. \A i \in 1 .. Len(s) : Notified(t, i) => t[i].n \in Nat /\ t[i].n =< m
  BY <1>1, <1>2 DEF Numbered, Sent, Notified
<1>5. Len(t) = Len(s) + 1
  BY <1>1
<1> HIDE DEF t
<1>6. InOrder(t, d)
  <2> SUFFICES ASSUME NEW i \in 1 .. Len(s) + 1, Notified(t, i)
               PROVE  /\ t[i].n > d
                      /\ \A n \in d + 1 .. t[i].n - 1 : \E j \in 1 .. i - 1 : Notified(t, j) /\ t[j].n = n
                      /\ \A j \in 1 .. i - 1 : Notified(t, j) => t[j].n < t[i].n
    BY <1>5 DEF InOrder
  <2>1. CASE i = Len(s) + 1
    <3>1. t[i].n = m + 1 /\ i - 1 = Len(s)
      BY <1>1, <1>3, <2>1
    <3>2. ASSUME NEW n \in d + 1 .. m
          PROVE  \E j \in 1 .. Len(s) : Notified(t, j) /\ t[j].n = n
      <4>1. PICK j \in 1 .. Len(s) : Notified(s, j) /\ s[j].n = n
        BY DEF Complete
      <4> QED
        BY <1>2, <4>1
    <3>3. \A j \in 1 .. Len(s) : Notified(t, j) => t[j].n < m + 1
      BY <1>4
    <3> QED
      BY <3>1, <3>2, <3>3
  <2>2. CASE i \in 1 .. Len(s)
    <3>1. t[i] = s[i] /\ Notified(s, i)
      BY <1>2, <2>2
    <3>2. \A j \in 1 .. i - 1 : t[j] = s[j] /\ (Notified(t, j) <=> Notified(s, j))
      BY <1>1, <1>2, <2>2
    <3>3. /\ s[i].n > d
          /\ \A n \in d + 1 .. s[i].n - 1 : \E j \in 1 .. i - 1 : Notified(s, j) /\ s[j].n = n
          /\ \A j \in 1 .. i - 1 : Notified(s, j) => s[j].n < s[i].n
      BY <2>2, <3>1 DEF InOrder
    <3>4. \A n \in d + 1 .. t[i].n - 1 : \E j \in 1 .. i - 1 : Notified(t, j) /\ t[j].n = n
      <4> SUFFICES ASSUME NEW n \in d + 1 .. s[i].n - 1
                   PROVE  \E j \in 1 .. i - 1 : Notified(t, j) /\ t[j].n = n
        BY <3>1
      <4>1. PICK j \in 1 .. i - 1 : Notified(s, j) /\ s[j].n = n
        BY <3>3
      <4> QED
        BY <3>2, <4>1
    <3>5. \A j \in 1 .. i - 1 : Notified(t, j) => t[j].n < t[i].n
      BY <3>1, <3>2, <3>3
    <3> QED
      BY <3>1, <3>3, <3>4, <3>5
  <2> QED
    BY <1>1, <2>1, <2>2
<1>7. Sent(t, m + 1)
  BY <1>1, <1>3, <1>4, <1>5 DEF Sent
<1>8. Complete(t, d, m + 1)
  <2> SUFFICES ASSUME NEW n \in d + 1 .. m + 1
               PROVE  \E i \in 1 .. Len(s) + 1 : Notified(t, i) /\ t[i].n = n
    BY <1>5 DEF Complete
  <2>1. CASE n = m + 1
    BY <1>1, <1>3, <2>1
  <2>2. CASE n \in d + 1 .. m
    BY <1>1, <1>2, <2>2 DEF Complete
  <2> QED
    BY <2>1, <2>2
<1> QED
  BY <1>6, <1>7, <1>8 DEF t

(* What a reset leaves is the beginning of the stream. *)
LEMMA RestLost ==
  ASSUME NEW S, NEW b \in Seq(S), NEW w \in Seq(S), NEW d \in Nat, NEW m \in Nat,
         InOrder(b \o w, d), Sent(b \o w, m)
  PROVE  InOrder(b, d) /\ Sent(b, m)
<1>1. /\ Len(b \o w) = Len(b) + Len(w) /\ Len(b) \in Nat /\ Len(w) \in Nat
      /\ \A i \in 1 .. Len(b) : (b \o w)[i] = b[i]
  OBVIOUS
<1>2. \A i \in 1 .. Len(b) : i \in 1 .. Len(b \o w) /\ (Notified(b, i) <=> Notified(b \o w, i))
  BY <1>1 DEF Notified
<1>3. Sent(b, m)
  BY <1>1, <1>2 DEF Sent
<1>4. ASSUME NEW i \in 1 .. Len(b), Notified(b, i)
      PROVE  /\ b[i].n > d
             /\ \A n \in d + 1 .. b[i].n - 1 : \E j \in 1 .. i - 1 : Notified(b, j) /\ b[j].n = n
             /\ \A j \in 1 .. i - 1 : Notified(b, j) => b[j].n < b[i].n
  <2>1. i \in 1 .. Len(b \o w) /\ Notified(b \o w, i) /\ (b \o w)[i] = b[i]
    BY <1>1, <1>2, <1>4
  <2>2. \A j \in 1 .. i - 1 : (b \o w)[j] = b[j] /\ (Notified(b, j) <=> Notified(b \o w, j))
    BY <1>1, <1>2
  <2> QED
    BY <2>1, <2>2 DEF InOrder
<1> QED
  BY <1>3, <1>4 DEF InOrder

-------------------------------------------------------------------------------
(* What the announcements in a stream make of a value *)

(* The announcements of kinds K change a value, which field f carries: after *)
(* the first n lines of s the value is v, if it was start before them.       *)
InForce(s, n, K, f, start, v) ==
  \/ v = start /\ \A j \in 1 .. n : s[j].kind \notin K
  \/ \E j \in 1 .. n : /\ s[j].kind \in K /\ s[j][f] = v
                       /\ \A k \in j + 1 .. n : s[k].kind \notin K

(* Each job names the value in force when it was sent.                       *)
Carried(s, K, f, start) ==
  \A i \in 1 .. Len(s) : Notified(s, i) => InForce(s, i - 1, K, f, start, s[i][f])

(* The value once x is taken. *)
Announced(x, K, f, start) == IF x.kind \in K THEN x[f] ELSE start

LEMMA SameForce ==
  ASSUME NEW s, NEW t, NEW n \in Nat, NEW K, NEW f, NEW start, NEW v,
         \A j \in 1 .. n : t[j] = s[j], InForce(s, n, K, f, start, v)
  PROVE  InForce(t, n, K, f, start, v)
<1>1. \A j \in 1 .. n : \A k \in j + 1 .. n : k \in 1 .. n
  OBVIOUS
<1> QED
  BY <1>1 DEF InForce

LEMMA ForceTaken ==
  ASSUME NEW s, NEW t, NEW n \in Nat, NEW K, NEW f, NEW start, NEW v,
         \A j \in 1 .. n : t[j] = s[j + 1], InForce(s, n + 1, K, f, start, v)
  PROVE  InForce(t, n, K, f, Announced(s[1], K, f, start), v)
<1>1. \A j \in 1 .. n : j + 1 \in 1 .. n + 1 /\ t[j].kind = s[j + 1].kind
  OBVIOUS
<1>2. CASE v = start /\ \A j \in 1 .. n + 1 : s[j].kind \notin K
  <2>1. s[1].kind \notin K
    BY <1>2
  <2>2. \A j \in 1 .. n : t[j].kind \notin K
    BY <1>1, <1>2
  <2> QED
    BY <1>2, <2>1, <2>2 DEF InForce, Announced
<1>3. ASSUME NEW j \in 1 .. n + 1, s[j].kind \in K, s[j][f] = v,
             \A k \in j + 1 .. n + 1 : s[k].kind \notin K
      PROVE  InForce(t, n, K, f, Announced(s[1], K, f, start), v)
  <2>1. CASE j = 1
    <3>1. \A k \in 1 .. n : k + 1 \in j + 1 .. n + 1
      BY <2>1
    <3>2. \A k \in 1 .. n : t[k].kind \notin K
      BY <1>1, <1>3, <3>1
    <3> QED
      BY <1>3, <2>1, <3>2 DEF InForce, Announced
  <2>2. CASE j # 1
    <3>1. j - 1 \in 1 .. n /\ t[j - 1] = s[j]
      BY <2>2
    <3>2. \A k \in (j - 1) + 1 .. n : k + 1 \in j + 1 .. n + 1 /\ t[k] = s[k + 1]
      BY <3>1
    <3>3. \A k \in (j - 1) + 1 .. n : t[k].kind \notin K
      BY <1>3, <3>2
    <3> QED
      BY <1>3, <3>1, <3>3 DEF InForce
  <2> QED
    BY <2>1, <2>2
<1> QED
  BY <1>2, <1>3 DEF InForce

LEMMA CarriedTaken ==
  ASSUME NEW s, NEW t, NEW K, NEW f, NEW start, Len(t) \in Nat, Len(s) = Len(t) + 1,
         \A j \in 1 .. Len(t) : t[j] = s[j + 1], Carried(s, K, f, start)
  PROVE  /\ Carried(t, K, f, Announced(s[1], K, f, start))
         /\ Notified(s, 1) => s[1][f] = start
<1>1. ASSUME NEW i \in 1 .. Len(t), Notified(t, i)
      PROVE  InForce(t, i - 1, K, f, Announced(s[1], K, f, start), t[i][f])
  <2>1. i + 1 \in 1 .. Len(s) /\ t[i] = s[i + 1] /\ i - 1 \in Nat /\ (i + 1) - 1 = (i - 1) + 1
    OBVIOUS
  <2>2. InForce(s, (i - 1) + 1, K, f, start, t[i][f])
    BY <1>1, <2>1 DEF Carried, Notified
  <2>3. \A j \in 1 .. i - 1 : t[j] = s[j + 1]
    BY <2>1
  <2> QED
    BY <2>1, <2>2, <2>3, ForceTaken
<1>2. ASSUME Notified(s, 1) PROVE s[1][f] = start
  <2>1. 1 \in 1 .. Len(s) /\ 1 - 1 = 0
    OBVIOUS
  <2>2. InForce(s, 0, K, f, start, s[1][f])
    BY <1>2, <2>1 DEF Carried
  <2> QED
    BY <2>2 DEF InForce
<1> QED
  BY <1>1, <1>2 DEF Carried

LEMMA CarriedKept ==
  ASSUME NEW s, NEW t, NEW K, NEW f, NEW start, Len(t) \in Nat, Len(s) \in Nat, Len(t) =< Len(s),
         \A j \in 1 .. Len(t) : t[j] = s[j], Carried(s, K, f, start)
  PROVE  Carried(t, K, f, start)
<1>1. ASSUME NEW i \in 1 .. Len(t), Notified(t, i)
      PROVE  InForce(t, i - 1, K, f, start, t[i][f])
  <2>1. i \in 1 .. Len(s) /\ i - 1 \in Nat /\ t[i] = s[i]
    OBVIOUS
  <2>2. InForce(s, i - 1, K, f, start, t[i][f])
    BY <1>1, <2>1 DEF Carried, Notified
  <2>3. \A j \in 1 .. i - 1 : t[j] = s[j]
    BY <2>1
  <2> QED
    BY <2>1, <2>2, <2>3, SameForce
<1> QED
  BY <1>1 DEF Carried

LEMMA CarriedSent ==
  ASSUME NEW s, NEW t, NEW x, NEW K, NEW f, NEW start,
         Len(s) \in Nat, Len(t) = Len(s) + 1, t[Len(s) + 1] = x,
         \A j \in 1 .. Len(s) : t[j] = s[j], Carried(s, K, f, start),
         x.kind = "notify" => InForce(s, Len(s), K, f, start, x[f])
  PROVE  /\ Carried(t, K, f, start)
         /\ x.kind \in K => InForce(t, Len(t), K, f, start, x[f])
         /\ x.kind \notin K =>
              \A v : InForce(s, Len(s), K, f, start, v) => InForce(t, Len(t), K, f, start, v)
<1>1. ASSUME NEW i \in 1 .. Len(t), Notified(t, i)
      PROVE  InForce(t, i - 1, K, f, start, t[i][f])
  <2>1. CASE i = Len(s) + 1
    <3>1. i - 1 = Len(s)
      BY <2>1
    <3>2. InForce(s, i - 1, K, f, start, t[i][f])
      BY <1>1, <2>1, <3>1 DEF Notified
    <3> QED
      BY <3>1, <3>2, SameForce
  <2>2. CASE i \in 1 .. Len(s)
    <3>1. i - 1 \in Nat /\ t[i] = s[i]
      BY <2>2
    <3>2. InForce(s, i - 1, K, f, start, t[i][f])
      BY <1>1, <2>2, <3>1 DEF Carried, Notified
    <3>3. \A j \in 1 .. i - 1 : t[j] = s[j]
      BY <2>2
    <3> QED
      BY <3>1, <3>2, <3>3, SameForce
  <2> QED
    BY <2>1, <2>2
<1>2. ASSUME x.kind \in K PROVE InForce(t, Len(t), K, f, start, x[f])
  <2>1. Len(t) \in 1 .. Len(t) /\ \A k \in Len(t) + 1 .. Len(t) : FALSE
    OBVIOUS
  <2> QED
    BY <1>2, <2>1 DEF InForce
<1>3. ASSUME x.kind \notin K, NEW v, InForce(s, Len(s), K, f, start, v)
      PROVE  InForce(t, Len(t), K, f, start, v)
  <2>1. \A k \in 1 .. Len(t) : k \in 1 .. Len(s) \/ t[k].kind \notin K
    BY <1>3
  <2>2. CASE v = start /\ \A j \in 1 .. Len(s) : s[j].kind \notin K
    BY <2>1, <2>2 DEF InForce
  <2>3. ASSUME NEW j \in 1 .. Len(s), s[j].kind \in K, s[j][f] = v,
               \A k \in j + 1 .. Len(s) : s[k].kind \notin K
        PROVE  InForce(t, Len(t), K, f, start, v)
    <3>1. j \in 1 .. Len(t) /\ t[j] = s[j]
      OBVIOUS
    <3>2. \A k \in j + 1 .. Len(t) : k \in j + 1 .. Len(s) \/ k = Len(s) + 1
      OBVIOUS
    <3>3. \A k \in j + 1 .. Len(s) : t[k] = s[k]
      OBVIOUS
    <3>4. \A k \in j + 1 .. Len(t) : t[k].kind \notin K
      BY <1>3, <2>3, <3>2, <3>3
    <3> QED
      BY <2>3, <3>1, <3>4 DEF InForce
  <2> QED
    BY <1>3, <2>2, <2>3 DEF InForce
<1> QED
  BY <1>1, <1>2, <1>3 DEF Carried

-------------------------------------------------------------------------------
(* Counting *)

(* How many of the lines of s are of A. *)
Places(s, A) == {i \in 1 .. Len(s) : s[i] \in A}
Count(s, A) == Cardinality(Places(s, A))

LEMMA CountIsNat ==
  ASSUME NEW s, NEW A, Len(s) \in Nat PROVE IsFiniteSet(Places(s, A)) /\ Count(s, A) \in Nat
<1>1. Places(s, A) \in SUBSET Nat /\ \A i \in Places(s, A) : i =< Len(s)
  BY DEF Places
<1>2. IsFiniteSet(Places(s, A))
  BY <1>1, FS_BoundedSetOfNaturals
<1> QED
  BY <1>2, FS_CardinalityType DEF Count

LEMMA CountTaken ==
  ASSUME NEW s, NEW t, NEW A, Len(t) \in Nat, Len(s) = Len(t) + 1,
         \A i \in 1 .. Len(t) : t[i] = s[i + 1]
  PROVE  Count(t, A) + (IF s[1] \in A THEN 1 ELSE 0) =< Count(s, A)
<1> DEFINE P == Places(s, A) \ {1}
           f == [i \in Places(t, A) |-> i + 1]
<1>1. IsFiniteSet(Places(s, A)) /\ Count(s, A) \in Nat /\ Count(t, A) \in Nat
  BY CountIsNat
<1>2. IsFiniteSet(P) /\ Cardinality(P) = IF s[1] \in A THEN Count(s, A) - 1 ELSE Count(s, A)
  <2>1. 1 \in Places(s, A) <=> s[1] \in A
    BY DEF Places
  <2> QED
    BY <1>1, <2>1, FS_RemoveElement DEF Count
<1>3. f \in Injection(Places(t, A), P)
  <2>1. \A i \in Places(t, A) : i \in Nat /\ i + 1 \in P
    BY DEF Places
  <2> QED
    BY <2>1 DEF Injection, IsInjective
<1>4. Count(t, A) =< Cardinality(P)
  BY <1>2, <1>3, FS_Injection DEF Count
<1> QED
  BY <1>1, <1>2, <1>4

LEMMA CountKept ==
  ASSUME NEW s, NEW t, NEW A, Len(s) \in Nat, Len(t) \in Nat, Len(t) =< Len(s),
         \A i \in 1 .. Len(t) : t[i] = s[i]
  PROVE  Count(t, A) =< Count(s, A)
<1>1. Places(t, A) \in SUBSET Places(s, A)
  BY DEF Places
<1> QED
  BY <1>1, CountIsNat, FS_Subset DEF Count

LEMMA CountSent ==
  ASSUME NEW s, NEW t, NEW x, NEW A, Len(s) \in Nat, Len(t) = Len(s) + 1, t[Len(s) + 1] = x,
         \A i \in 1 .. Len(s) : t[i] = s[i]
  PROVE  Count(t, A) = IF x \in A THEN Count(s, A) + 1 ELSE Count(s, A)
<1>1. Len(s) + 1 \notin Places(s, A) /\ Len(t) = Len(s) + 1
  BY DEF Places
<1>2. CASE x \in A
  <2>1. Places(t, A) = Places(s, A) \cup {Len(s) + 1}
    BY <1>2 DEF Places
  <2> QED
    BY <1>1, <1>2, <2>1, CountIsNat, FS_AddElement DEF Count
<1>3. CASE x \notin A
  <2>1. Places(t, A) = Places(s, A)
    BY <1>3 DEF Places
  <2> QED
    BY <1>3, <2>1 DEF Count
<1> QED
  BY <1>2, <1>3

-------------------------------------------------------------------------------
(* The invariant *)

(* How the pools announce levels. *)
LevelKinds == {IF p \in TargetPools THEN "set_target" ELSE "set_difficulty" : p \in Pools}

(* The lines of session f. *)
LinesOf(f) ==
  [kind : {"response"}, to : {"authorize"}, verdict : AuthVerdicts, from : {f}]
    \cup [kind : {"response"}, to : {"submit"}, verdict : {"true"} \cup ShareRefusals, from : {f}]
    \cup [kind : {"response"}, to : {"subscribe"}, verdict : {"array"},
         xn : {[from |-> f, form |-> "answer"]}, from : {f}]
    \cup [kind : {"notify"}, id : Nat, n : Nat, xn : Extranonces, level : Nat, from : {f}]
    \cup [kind : LevelKinds, level : Nat \ {0}, from : {f}]
    \cup [kind : {"set_extranonce"}, xn : [from : {f}, form : XnForms], from : {f}]
    \cup [kind : {"blank", "malformed", "overlong"}, from : {f}]

Jobs ==
  [id : Nat, n : Nat, from : Nat, xn : Extranonces, level : Nat, poolXn : Extranonces,
   poolLevel : Nat]

Requests ==
  [kind : {"subscribe", "authorize"}] \cup [kind : {"submit"}, job : Jobs, xn : Extranonces]

PoolStates ==
  [name : Pools \cup {"none"}, open : BOOLEAN, subscribed : BOOLEAN,
   verdict : {"none"} \cup AuthVerdicts, xn : Extranonces, level : Nat, levels : Nat, sent : 0 .. MaxJobs]

Typed ==
  /\ TypeOK
  /\ recvBuffer \in Seq(LinesOf(session))
  /\ wire \in Seq(LinesOf(session))
  /\ outbox \in Seq(Requests)
  /\ pool \in PoolStates
  /\ job \in Jobs

(* A call is made on a connection; nothing is open between two of them.      *)
OnConnection ==
  /\ pc \notin {"idle", "disconnect"} => connected /\ pool.name \in Pools
  /\ pc = "authorizing" => attempts < MaxAuthLines
  /\ pc = "idle" => recvBuffer = <<>> /\ wire = <<>> /\ outbox = <<>> /\ ~pool.open
  /\ pool.open => session > 0 /\ pool.name \in Pools

(* The jobs not yet handed over follow those that were.                      *)
JobsFollow ==
  connected =>
    /\ InOrder(Stream, delivered)
    /\ Sent(Stream, pool.sent)
    /\ delivered =< pool.sent
    /\ pool.open => Complete(Stream, delivered, pool.sent)

(* The line subscribe() waits for is a response: the pool sends nothing      *)
(* before it has answered.                                                   *)
ResponseFirst ==
  pc \in {"connected", "subscribing"} =>
    /\ Stream = <<>> => ~pool.subscribed \/ ~pool.open
    /\ Stream # <<>> => Stream[1].kind = "response"

Inv == Typed /\ OnConnection /\ JobsFollow /\ ResponseFirst

-------------------------------------------------------------------------------
(* Lines *)

LEMMA LineFields ==
  ASSUME NEW f \in Nat, NEW x \in LinesOf(f)
  PROVE  /\ x.from = f
         /\ x.kind \in {"response", "notify", "set_target", "set_difficulty", "set_extranonce",
                        "blank", "malformed", "overlong"}
         /\ x.kind = "notify" =>
              x.id \in Nat /\ x.n \in Nat /\ x.xn \in Extranonces /\ x.level \in Nat
         /\ x.kind \in {"set_target", "set_difficulty"} =>
              x.kind \in LevelKinds /\ x.level \in Nat \ {0}
         /\ x.kind = "set_extranonce" => x.xn \in [from : {f}, form : XnForms]
  BY DEF LinesOf, LevelKinds

LEMMA ResponseFields ==
  ASSUME NEW f \in Nat, NEW x \in LinesOf(f), x.kind = "response"
  PROVE  /\ x.verdict \in Verdict \cup {"array"}
         /\ x.to \in {"subscribe", "authorize", "submit"}
         /\ x.to = "subscribe" =>
              x.verdict = "array" /\ x.xn = [from |-> f, form |-> "answer"]
         /\ x.to = "authorize" => x.verdict \in AuthVerdicts
         /\ x.to = "submit" => x.verdict \in {"true"} \cup ShareRefusals
  BY VerdictAssumption DEF LinesOf, LevelKinds, Verdict

LEMMA XnField ==
  ASSUME Typed, NEW x \in LinesOf(session),
         x.kind = "set_extranonce" \/ (x.kind = "response" /\ x.to = "subscribe")
  PROVE  x.xn \in Extranonces
<1>1. session \in 0 .. MaxSessions /\ session \in Nat
  BY CountAssumption DEF Typed, TypeOK
<1>2. x.xn = [from |-> session, form |-> "answer"] \/ x.xn \in [from : {session}, form : XnForms]
  BY <1>1, LineFields, ResponseFields
<1> QED
  BY <1>1, <1>2 DEF Extranonces

LEMMA LinesNumbered == ASSUME NEW f \in Nat PROVE Numbered(LinesOf(f))
  BY LineFields DEF Numbered

LEMMA LinesSent ==
  ASSUME Typed, session > 0, pool.name \in Pools
  PROVE  /\ \A v \in AuthVerdicts : Response("authorize", v) \in LinesOf(session)
         /\ \A v \in {"true"} \cup ShareRefusals : Response("submit", v) \in LinesOf(session)
         /\ SubscribeResponse(Xn("answer")) \in LinesOf(session)
         /\ \A n \in Nat : Notify(n) \in LinesOf(session)
         /\ \A n \in Nat \ {0} : SetLevel(n) \in LinesOf(session)
         /\ \A form \in XnForms : SetExtranonce(Xn(form)) \in LinesOf(session)
         /\ \A kind \in Noise : NoiseLine(kind) \in LinesOf(session)
<1>1. session \in Nat /\ pool.xn \in Extranonces /\ pool.level \in Nat
  BY CountAssumption DEF Typed, TypeOK, PoolStates
<1>2. /\ \A v \in AuthVerdicts : Response("authorize", v) \in LinesOf(session)
      /\ \A v \in {"true"} \cup ShareRefusals : Response("submit", v) \in LinesOf(session)
  BY DEF Response, LinesOf
<1>3. SubscribeResponse(Xn("answer")) \in LinesOf(session)
  BY <1>1 DEF SubscribeResponse, LinesOf, Xn
<1>4. ASSUME NEW n \in Nat PROVE Notify(n) \in LinesOf(session)
  <2>1. (session - 1) * MaxJobs + n \in Nat
    BY <1>1, CountAssumption
  <2>2. JobId(n) \in Nat
    BY <2>1 DEF JobId
  <2> QED
    BY <1>1, <2>2 DEF Notify, LinesOf
<1>5. \A n \in Nat \ {0} : SetLevel(n) \in LinesOf(session)
  BY DEF SetLevel, LinesOf, LevelKinds
<1>6. \A form \in XnForms : SetExtranonce(Xn(form)) \in LinesOf(session)
  BY DEF SetExtranonce, LinesOf, Xn
<1>7. \A kind \in Noise : NoiseLine(kind) \in LinesOf(session)
  BY FormAssumption DEF NoiseLine, LinesOf
<1> QED
  BY <1>2, <1>3, <1>4, <1>5, <1>6, <1>7

(* The line a call takes is the first of the stream; a job is the next one.  *)
LEMMA LineTaken ==
  ASSUME Inv, TakeLine, wire' = wire
  PROVE  /\ Line \in LinesOf(session) /\ Line = Stream[1] /\ Stream # <<>>
         /\ recvBuffer' \in Seq(LinesOf(session))
         /\ Stream \in Seq(LinesOf(session))
         /\ Stream' = Tail(Stream)
         /\ Line.kind = "notify" =>
              /\ Line.n = delivered + 1 /\ delivered + 1 =< pool.sent
              /\ InOrder(Stream', delivered + 1)
              /\ Sent(Stream', pool.sent)
              /\ pool.open => Complete(Stream', delivered + 1, pool.sent)
         /\ Line.kind # "notify" =>
              /\ InOrder(Stream', delivered)
              /\ Sent(Stream', pool.sent)
              /\ pool.open => Complete(Stream', delivered, pool.sent)
<1> DEFINE L == LinesOf(session)
<1>1. /\ recvBuffer \in Seq(L) /\ wire \in Seq(L) /\ recvBuffer # <<>> /\ connected
      /\ session \in Nat /\ delivered \in Nat /\ pool.sent \in Nat
  BY CountAssumption DEF Inv, Typed, TypeOK, TakeLine, Receiving, PoolStates
<1>2. Numbered(L)
  BY <1>1, LinesNumbered
<1> HIDE DEF L
<1>3. /\ Stream \in Seq(L) /\ Stream # <<>> /\ Line = Stream[1] /\ Line \in L
      /\ Tail(recvBuffer) \in Seq(L) /\ Tail(recvBuffer) \o wire = Tail(Stream)
  BY <1>1, TailOfStream DEF Stream, Line
<1>4. recvBuffer' = Tail(recvBuffer) /\ Stream' = Tail(Stream)
  BY <1>3 DEF TakeLine, Stream
<1>5. /\ InOrder(Stream, delivered) /\ Sent(Stream, pool.sent)
      /\ pool.open => Complete(Stream, delivered, pool.sent)
  BY <1>1 DEF Inv, JobsFollow
<1>6. CASE Line.kind = "notify"
  <2>1. Notified(Stream, 1)
    BY <1>3, <1>6 DEF Notified
  <2>2. Stream[1].n = delivered + 1
    BY <1>1, <1>2, <1>3, <1>5, <2>1, FirstIsNext
  <2>3. 1 \in 1 .. Len(Stream)
    BY <1>3
  <2>4. delivered + 1 =< pool.sent
    BY <1>5, <2>1, <2>2, <2>3 DEF Sent
  <2>5. /\ InOrder(Tail(Stream), delivered + 1) /\ Sent(Tail(Stream), pool.sent)
        /\ pool.open => Complete(Tail(Stream), delivered + 1, pool.sent)
    BY <1>1, <1>2, <1>3, <1>5, <2>1, NextTaken
  <2> QED
    BY <1>3, <1>4, <1>6, <2>2, <2>4, <2>5 DEF L
<1>7. CASE Line.kind # "notify"
  <2>1. ~Notified(Stream, 1)
    BY <1>3, <1>7 DEF Notified
  <2>2. /\ InOrder(Tail(Stream), delivered) /\ Sent(Tail(Stream), pool.sent)
        /\ pool.open => Complete(Tail(Stream), delivered, pool.sent)
    BY <1>1, <1>2, <1>3, <1>5, <2>1, OtherTaken
  <2> QED
    BY <1>3, <1>4, <1>7, <2>2 DEF L
<1> QED
  BY <1>6, <1>7

(* What the pool sends comes after the stream: a job is the next one.        *)
LEMMA LineAdded ==
  ASSUME Inv, NEW x \in LinesOf(session), wire' = Append(wire, x), recvBuffer' = recvBuffer
  PROVE  /\ wire' \in Seq(LinesOf(session))
         /\ Stream \in Seq(LinesOf(session))
         /\ Stream' = Append(Stream, x)
         /\ connected /\ pool.open /\ x.kind = "notify" /\ x.n = pool.sent + 1 =>
              /\ InOrder(Stream', delivered)
              /\ Sent(Stream', pool.sent + 1)
              /\ Complete(Stream', delivered, pool.sent + 1)
         /\ connected /\ pool.open /\ x.kind # "notify" =>
              /\ InOrder(Stream', delivered)
              /\ Sent(Stream', pool.sent)
              /\ Complete(Stream', delivered, pool.sent)
<1> DEFINE L == LinesOf(session)
<1>1. /\ recvBuffer \in Seq(L) /\ wire \in Seq(L)
      /\ session \in Nat /\ delivered \in Nat /\ pool.sent \in Nat
  BY CountAssumption DEF Inv, Typed, TypeOK, PoolStates
<1>2. Numbered(L) /\ x \in L
  BY <1>1, LinesNumbered
<1> HIDE DEF L
<1>3. Stream \in Seq(L) /\ Append(wire, x) \in Seq(L)
  BY <1>1, <1>2 DEF Stream
<1>4. recvBuffer \o Append(wire, x) = Append(Stream, x)
  BY <1>1, <1>2, AppendToStream DEF Stream
<1>5. Stream' = Append(Stream, x)
  BY <1>4 DEF Stream
<1>6. ASSUME connected, pool.open
      PROVE  /\ InOrder(Stream, delivered) /\ Sent(Stream, pool.sent) /\ delivered =< pool.sent
             /\ Complete(Stream, delivered, pool.sent)
  BY <1>6 DEF Inv, JobsFollow
<1>7. ASSUME connected, pool.open, x.kind = "notify", x.n = pool.sent + 1
      PROVE  /\ InOrder(Stream', delivered)
             /\ Sent(Stream', pool.sent + 1)
             /\ Complete(Stream', delivered, pool.sent + 1)
  BY <1>1, <1>2, <1>3, <1>5, <1>6, <1>7, NextSent
<1>8. ASSUME connected, pool.open, x.kind # "notify"
      PROVE  /\ InOrder(Stream', delivered)
             /\ Sent(Stream', pool.sent)
             /\ Complete(Stream', delivered, pool.sent)
  BY <1>1, <1>2, <1>3, <1>5, <1>6, <1>8, OtherSent
<1> QED
  BY <1>3, <1>5, <1>7, <1>8 DEF L

(* Handling a notification gives the callback a job at most.                 *)
LEMMA NotificationHandled ==
  ASSUME Typed, Line \in LinesOf(session), HandleNotification,
         Line.kind = "notify" => delivered + 1 =< pool.sent
  PROVE  /\ extranonce1' \in Extranonces /\ difficulty' \in Nat /\ poolTarget' \in Nat
         /\ job' \in Jobs /\ job'.from \in 0 .. session
         /\ delivered' \in 0 .. MaxJobs
         /\ delivered' = IF Line.kind = "notify" THEN delivered + 1 ELSE delivered
<1>1. /\ session \in 0 .. MaxSessions /\ session \in Nat
      /\ extranonce1 \in Extranonces /\ difficulty \in Nat /\ poolTarget \in Nat
      /\ delivered \in 0 .. MaxJobs /\ pool.sent \in 0 .. MaxJobs /\ MaxJobs \in Nat
      /\ job \in Jobs /\ job.from \in 0 .. session
  BY CountAssumption DEF Typed, TypeOK, PoolStates
<1>2. JobLevel \in Nat
  BY <1>1 DEF JobLevel
<1>3. CASE Line.kind = "notify"
  <2>1. job' = BuiltJob /\ delivered' = delivered + 1 /\ UNCHANGED learned
    BY <1>3 DEF HandleNotification
  <2>2. BuiltJob \in Jobs /\ BuiltJob.from = session
    BY <1>1, <1>2, <1>3, LineFields DEF BuiltJob, Jobs
  <2> QED
    BY <1>1, <1>3, <2>1, <2>2 DEF learned
<1>4. CASE Line.kind # "notify"
  <2>1. UNCHANGED jobs
    BY <1>4 DEF HandleNotification, jobs
  <2>2. extranonce1' \in Extranonces /\ difficulty' \in Nat /\ poolTarget' \in Nat
    BY <1>1, <1>4, LineFields, XnField DEF HandleNotification, ReceivedTarget, learned
  <2> QED
    BY <1>1, <1>4, <2>1, <2>2 DEF jobs
<1> QED
  BY <1>3, <1>4

(* A step that leaves the stream, the jobs and the pool alone.               *)
LEMMA StreamKept ==
  ASSUME Inv, UNCHANGED <<recvBuffer, wire, delivered, pool>>, connected' => connected,
         pc' \in {"connected", "subscribing"} => pc \in {"connected", "subscribing"}
  PROVE  JobsFollow' /\ ResponseFirst'
<1>1. Stream' = Stream
  BY DEF Stream
<1>2. JobsFollow'
  BY <1>1 DEF Inv, JobsFollow
<1> QED
  BY <1>1, <1>2 DEF Inv, ResponseFirst

-------------------------------------------------------------------------------
(* The steps *)

LEMMA NoXnTyped == NoXn \in Extranonces
  BY CountAssumption DEF NoXn, Extranonces

LEMMA InitHolds == Init => Inv
<1> SUFFICES ASSUME Init PROVE Inv
  OBVIOUS
<1>1. Stream = <<>>
  BY DEF Init, Stream
<1>2. TypeOK
  <2>0. NoXn \in Extranonces
    BY NoXnTyped
  <2>1. connected \in BOOLEAN /\ running \in BOOLEAN /\ pc = "idle"
    BY DEF Init
  <2>2. job.from = 0
    BY DEF Init, NoJob
  <2>3. /\ results \in [accepted : Nat, rejected : Nat]
        /\ verdicts \in [accepted : Nat, refused : Nat]
    BY DEF Init
  <2> QED
    BY <2>0, <2>1, <2>2, <2>3, CountAssumption DEF Init, TypeOK, NoTarget
<1>3. pool \in PoolStates /\ job \in Jobs
  BY CountAssumption, NoXnTyped DEF Init, PoolStates, Closed, Jobs, NoJob
<1>4. Typed
  BY <1>2, <1>3 DEF Typed, Init
<1> QED
  BY <1>1, <1>4 DEF Inv, OnConnection, JobsFollow, ResponseFirst, Init, Closed

LEMMA ConnectKeeps == ASSUME Inv, NEW p \in Pools, Connect(p) PROVE Inv'
<1>1. session' \in 1 .. MaxSessions /\ session' = session + 1 /\ session \in Nat
  <2>1. session \in 0 .. MaxSessions /\ MaxSessions \in Nat
    BY CountAssumption DEF Inv, Typed, TypeOK
  <2> QED
    BY <2>1 DEF Connect
<1>2. recvBuffer' = <<>> /\ wire' = <<>> /\ outbox' = <<>>
  BY DEF Connect, ClearedBuffer
<1>3. Stream' = <<>>
  BY <1>2 DEF Stream
<1>4. /\ pool' \in PoolStates /\ pool'.sent = 0 /\ pool'.open /\ ~pool'.subscribed
      /\ pool'.name \in Pools
  <2>1. pool' = [name |-> p, open |-> TRUE, subscribed |-> FALSE, verdict |-> "none",
                 xn |-> NoXn, level |-> 0, levels |-> 0, sent |-> 0]
    BY DEF Connect, Closed
  <2>2. 0 \in 0 .. MaxJobs
    BY CountAssumption
  <2> QED
    BY <2>1, <2>2, NoXnTyped DEF PoolStates
<1>5. TypeOK'
  <2>1. connected' \in BOOLEAN /\ running' \in BOOLEAN /\ pc' = "connected" /\ socket' = session'
    BY DEF Connect, Inv, Typed, TypeOK
  <2>2. /\ UNCHANGED <<learned, submitted, verdicts, attempts, job, results>>
        /\ delivered' = 0 /\ overtaken' = {}
    BY DEF Connect
  <2>3. job'.from \in 0 .. session'
    BY <1>1, <2>2 DEF Inv, Typed, TypeOK
  <2> QED
    BY <1>1, <2>1, <2>2, <2>3, CountAssumption DEF Inv, Typed, TypeOK, learned
<1>6. Typed'
  BY <1>2, <1>4, <1>5 DEF Typed, Inv, Connect
<1>7. InOrder(<<>>, 0) /\ Sent(<<>>, 0) /\ Complete(<<>>, 0, 0)
  BY DEF InOrder, Sent, Complete
<1>8. JobsFollow'
  BY <1>3, <1>4, <1>7 DEF JobsFollow, Connect
<1>9. OnConnection'
  BY <1>1, <1>4 DEF OnConnection, Connect
<1> QED
  BY <1>3, <1>4, <1>6, <1>8, <1>9 DEF Inv, ResponseFirst

LEMMA DisconnectKeeps == ASSUME Inv, Disconnect \/ ConnectFails PROVE Inv'
<1>1. /\ pc' = "idle" /\ ~connected' /\ recvBuffer' = <<>> /\ wire' = <<>> /\ outbox' = <<>>
      /\ socket' = 0 /\ session' = session /\ pool' \in PoolStates /\ ~pool'.open
  <2>1. CASE Disconnect
    BY <2>1, CountAssumption, NoXnTyped
    DEF Disconnect, DisconnectLeaving, ClearedBuffer, PoolStates, Closed
  <2>2. CASE ConnectFails
    BY <2>2 DEF ConnectFails, ClearedBuffer, net, Inv, Typed, OnConnection
  <2> QED
    BY <2>1, <2>2
<1>2. UNCHANGED <<learned, jobs, shares, attempts, results>> /\ running' \in BOOLEAN
  <2>1. CASE Disconnect
    BY <2>1 DEF Disconnect, DisconnectLeaving
  <2>2. CASE ConnectFails
    BY <2>2 DEF ConnectFails, Inv, Typed, TypeOK
  <2> QED
    BY <2>1, <2>2
<1>3. TypeOK'
  <2>1. connected' \in BOOLEAN
    BY DEF Disconnect, DisconnectLeaving, ConnectFails
  <2> QED
    BY <1>1, <1>2, <2>1 DEF Inv, Typed, TypeOK, learned, jobs, shares
<1>4. Typed'
  BY <1>1, <1>2, <1>3 DEF Inv, Typed, jobs
<1> QED
  BY <1>1, <1>4 DEF Inv, OnConnection, JobsFollow, ResponseFirst

LEMMA RecvKeeps == ASSUME Inv, Recv PROVE Inv'
<1>1. PICK k \in 1 .. Len(wire) :
        recvBuffer' = SubSeq(wire, 1, k) /\ wire' = SubSeq(wire, k + 1, Len(wire))
  BY DEF Recv
<1>2. wire \in Seq(LinesOf(session)) /\ recvBuffer = <<>>
  BY DEF Recv, Inv, Typed
<1>3. /\ recvBuffer' \in Seq(LinesOf(session)) /\ wire' \in Seq(LinesOf(session))
      /\ recvBuffer' \o wire' = wire
  BY <1>1, <1>2, SplitStream
<1>4. Stream' = Stream
  BY <1>2, <1>3 DEF Stream
<1>5. TypeOK'
  BY DEF Recv, Inv, Typed, TypeOK, conn, learned, jobs, shares
<1>6. Typed'
  BY <1>3, <1>5 DEF Recv, Inv, Typed, jobs
<1>7. OnConnection'
  BY DEF Recv, Receiving, Inv, OnConnection, conn
<1>8. JobsFollow' /\ ResponseFirst'
  BY <1>4 DEF Recv, Inv, JobsFollow, ResponseFirst, conn, jobs
<1> QED
  BY <1>6, <1>7, <1>8 DEF Inv

LEMMA RecvFailsKeeps == ASSUME Inv, RecvFails PROVE Inv'
<1>1. TypeOK'
  BY DEF RecvFails, Inv, Typed, TypeOK, learned, jobs, net, shares
<1>2. Typed'
  BY <1>1 DEF RecvFails, Inv, Typed, jobs, net
<1> QED
  BY <1>2 DEF RecvFails, Inv, OnConnection, JobsFollow, ResponseFirst, net

LEMMA EmptyLineKeeps == ASSUME Inv, EmptyLine PROVE Inv'
<1>1. /\ pc' = "disconnect" /\ UNCHANGED <<learned, jobs, net, shares, socket, running, attempts, results>>
  BY DEF EmptyLine
<1>2. CASE ~connected' /\ recvBuffer' = <<>>
  <2>1. TypeOK'
    <3>1. connected' \in BOOLEAN
      BY DEF EmptyLine, Inv, Typed, TypeOK
    <3> QED
      BY <1>1, <1>2, <3>1 DEF Inv, Typed, TypeOK, learned, jobs, net, shares
  <2>2. Typed'
    BY <1>1, <1>2, <2>1 DEF Inv, Typed, jobs, net
  <2> QED
    BY <1>1, <1>2, <2>2 DEF Inv, OnConnection, JobsFollow, ResponseFirst, net
<1>3. CASE Line.kind = "blank" /\ TakeLine /\ connected' \in BOOLEAN /\ (connected' => connected)
  <2>1. wire' = wire /\ pool' = pool /\ delivered' = delivered /\ session' = session
    BY <1>1 DEF net, jobs
  <2>2. /\ recvBuffer' \in Seq(LinesOf(session)) /\ InOrder(Stream', delivered)
        /\ Sent(Stream', pool.sent)
        /\ pool.open => Complete(Stream', delivered, pool.sent)
    BY <1>3, <2>1, LineTaken
  <2>3. TypeOK'
    BY <1>1, <1>3 DEF Inv, Typed, TypeOK, learned, jobs, net, shares
  <2>4. Typed'
    BY <1>1, <2>2, <2>3 DEF Inv, Typed, jobs, net
  <2>5. JobsFollow'
    BY <1>3, <2>1, <2>2 DEF Inv, JobsFollow
  <2> QED
    BY <1>1, <2>1, <2>4, <2>5 DEF Inv, OnConnection, ResponseFirst
<1>4. ASSUME Line.kind = "overlong" PROVE ~connected' /\ recvBuffer' = <<>>
  BY <1>4 DEF EmptyLine, ClearedBuffer
<1>5. ASSUME Line.kind = "blank"
      PROVE  TakeLine /\ connected' \in BOOLEAN /\ (connected' => connected)
  <2>1. connected' = (connected /\ pc # "running") /\ connected \in BOOLEAN
    BY <1>5 DEF EmptyLine, Inv, Typed, TypeOK
  <2>2. TakeLine
    BY <1>5 DEF EmptyLine, TakeLine
  <2> QED
    BY <2>1, <2>2
<1>6. Line.kind = "overlong" \/ Line.kind = "blank"
  BY DEF EmptyLine
<1> QED
  BY <1>2, <1>3, <1>4, <1>5, <1>6

(* The steps that only move the calling thread.                              *)
LEMMA CallKeeps ==
  ASSUME Inv, UNCHANGED <<recvBuffer, wire, jobs, learned, shares, results, session, pool, socket>>,
         connected' = connected, running' \in BOOLEAN, attempts' \in 0 .. MaxAuthLines,
         outbox' \in Seq(Requests),
         pc' \in {"subscribing", "subscribed", "authorizing", "run", "loop", "running",
                  "disconnect"},
         pc' = "subscribing" => pc \in {"connected", "subscribing"},
         pc' # "disconnect" => connected /\ pool.name \in Pools,
         pc' = "authorizing" => attempts' < MaxAuthLines
  PROVE  Inv'
<1>1. TypeOK'
  BY DEF Inv, Typed, TypeOK, jobs, learned, shares
<1>2. Typed'
  BY <1>1 DEF Inv, Typed, jobs
<1>3. JobsFollow' /\ ResponseFirst'
  <2>1. pc' \in {"connected", "subscribing"} => pc \in {"connected", "subscribing"}
    OBVIOUS
  <2> QED
    BY <2>1, StreamKept DEF jobs
<1>4. OnConnection'
  BY DEF Inv, OnConnection
<1> QED
  BY <1>2, <1>3, <1>4 DEF Inv

LEMMA SubscribeKeeps == ASSUME Inv, Subscribe PROVE Inv'
<1>1. outbox' \in Seq(Requests)
  <2>1. [kind |-> "subscribe"] \in Requests
    BY DEF Requests
  <2> QED
    BY <2>1 DEF Subscribe, Send, Inv, Typed
<1>2. /\ pc' \in {"subscribing", "disconnect"} /\ pc = "connected" /\ attempts' = attempts
      /\ UNCHANGED <<recvBuffer, wire, jobs, learned, shares, results, session, pool>>
      /\ UNCHANGED <<socket, connected, running>>
  BY DEF Subscribe, conn
<1>3. /\ connected /\ pool.name \in Pools /\ running \in BOOLEAN
      /\ attempts \in 0 .. MaxAuthLines
  BY <1>2 DEF Inv, OnConnection, Typed, TypeOK
<1> QED
  BY <1>1, <1>2, <1>3, CallKeeps

LEMMA AuthorizeKeeps == ASSUME Inv, Authorize PROVE Inv'
<1>1. outbox' \in Seq(Requests)
  <2>1. [kind |-> "authorize"] \in Requests
    BY DEF Requests
  <2> QED
    BY <2>1 DEF Authorize, Send, Inv, Typed
<1>2. /\ pc' \in {"authorizing", "disconnect"} /\ pc = "subscribed" /\ attempts' = 0
      /\ UNCHANGED <<recvBuffer, wire, jobs, learned, shares, results, session, pool>>
      /\ UNCHANGED <<socket, connected, running>>
  BY DEF Authorize, conn
<1>3. connected /\ pool.name \in Pools /\ running \in BOOLEAN
  BY <1>2 DEF Inv, OnConnection, Typed, TypeOK
<1>4. 0 \in 0 .. MaxAuthLines /\ 0 < MaxAuthLines
  BY CountAssumption
<1> QED
  BY <1>1, <1>2, <1>3, <1>4, CallKeeps

LEMMA RunStarts == ASSUME Inv, Run \/ RunLoop PROVE Inv'
<1>1. /\ pc' \in {"loop", "running", "disconnect"} /\ pc \in {"run", "loop"}
      /\ attempts' = attempts
      /\ UNCHANGED <<recvBuffer, wire, jobs, learned, shares, results, session, pool, outbox>>
      /\ UNCHANGED <<socket, connected>>
  BY DEF Run, RunLoop, conn, net
<1>2. running' \in BOOLEAN
  <2>1. CASE Run
    BY <2>1 DEF Run
  <2>2. CASE RunLoop
    BY <2>2 DEF RunLoop, conn, Inv, Typed, TypeOK
  <2> QED
    BY <2>1, <2>2
<1>3. /\ connected /\ pool.name \in Pools /\ attempts \in 0 .. MaxAuthLines
      /\ outbox \in Seq(Requests)
  BY <1>1 DEF Inv, OnConnection, Typed, TypeOK
<1> QED
  BY <1>1, <1>2, <1>3, CallKeeps

LEMMA StopKeeps == ASSUME Inv, Stop PROVE Inv'
<1>1. running' \in BOOLEAN
  BY DEF Stop
<1>2. /\ UNCHANGED <<learned, jobs, net, shares, pc, socket, connected, recvBuffer, attempts, results>>
  BY DEF Stop
<1>3. TypeOK'
  BY <1>1, <1>2 DEF Inv, Typed, TypeOK, learned, jobs, net, shares
<1>4. Typed'
  BY <1>2, <1>3 DEF Inv, Typed, jobs, net
<1>5. JobsFollow' /\ ResponseFirst'
  BY <1>2, StreamKept DEF jobs, net
<1>6. OnConnection'
  BY <1>2 DEF Inv, OnConnection, net
<1> QED
  BY <1>4, <1>5, <1>6 DEF Inv

LEMMA SubmitShareKeeps == ASSUME Inv, NEW j \in Jobs, SubmitShare(j) PROVE Inv'
<1>1. /\ UNCHANGED <<pc, conn, recvBuffer, learned, attempts, jobs, results, session, pool, wire, verdicts>>
      /\ submitted < MaxShares /\ submitted' = submitted + 1
  BY DEF SubmitShare
<1>2. [kind |-> "submit", job |-> j, xn |-> extranonce1] \in Requests
  BY DEF Inv, Typed, TypeOK, Requests
<1>3. outbox' \in Seq(Requests)
  <2>1. outbox \in Seq(Requests)
    BY DEF Inv, Typed
  <2>2. outbox' \in {outbox, Append(outbox, [kind |-> "submit", job |-> j, xn |-> extranonce1])}
    BY DEF SubmitShare, Send
  <2> QED
    BY <1>2, <2>1, <2>2
<1>4. submitted' \in 0 .. MaxShares
  BY <1>1, CountAssumption DEF Inv, Typed, TypeOK
<1>5. TypeOK'
  <2>1. overtaken' \subseteq {"subscribe", "authorize"}
    BY DEF SubmitShare, Inv, Typed, TypeOK
  <2> QED
    BY <1>1, <1>4, <2>1 DEF Inv, Typed, TypeOK, conn, learned, jobs
<1>6. Typed'
  BY <1>1, <1>3, <1>5 DEF Inv, Typed, jobs
<1>7. JobsFollow' /\ ResponseFirst'
  BY <1>1, StreamKept DEF jobs, conn
<1>8. OnConnection'
  <2>1. pc = "idle" => ~pool.open
    BY DEF Inv, OnConnection
  <2>2. pc = "idle" => outbox' = outbox
    BY <2>1 DEF SubmitShare, Send
  <2> QED
    BY <1>1, <2>2 DEF Inv, OnConnection, conn
<1> QED
  BY <1>6, <1>7, <1>8 DEF Inv

(* The steps that take a line, in authorize() and in run().                  *)
LEMMA TakenKeeps ==
  ASSUME Inv, TakeLine, UNCHANGED <<conn, net, shares>>,
         \/ HandleNotification /\ IsNotification
         \/ UNCHANGED <<jobs, learned>> /\ IsResponse
         \/ UNCHANGED <<jobs, difficulty, poolTarget>> /\ extranonce1' \in Extranonces /\ pc = "subscribing",
         attempts' \in 0 .. MaxAuthLines,
         results' \in [accepted : Nat, rejected : Nat],
         pc' \in {"subscribed", "authorizing", "run", "loop", "running", "disconnect"},
         pc' = "authorizing" => attempts' < MaxAuthLines
  PROVE  Inv'
<1>1. /\ wire' = wire /\ session' = session /\ pool' = pool /\ outbox' = outbox
      /\ connected' = connected
      /\ connected /\ pool.name \in Pools
  BY DEF net, conn, TakeLine, Receiving, Inv, OnConnection
<1>2. /\ Line \in LinesOf(session) /\ Line = Stream[1] /\ Stream # <<>>
      /\ recvBuffer' \in Seq(LinesOf(session))
      /\ Stream' = Tail(Stream)
      /\ Line.kind = "notify" =>
           /\ Line.n = delivered + 1 /\ delivered + 1 =< pool.sent
           /\ InOrder(Stream', delivered + 1)
           /\ Sent(Stream', pool.sent)
           /\ pool.open => Complete(Stream', delivered + 1, pool.sent)
      /\ Line.kind # "notify" =>
           /\ InOrder(Stream', delivered)
           /\ Sent(Stream', pool.sent)
           /\ pool.open => Complete(Stream', delivered, pool.sent)
  BY <1>1, LineTaken
<1>3. /\ extranonce1' \in Extranonces /\ difficulty' \in Nat /\ poolTarget' \in Nat
      /\ job' \in Jobs /\ job'.from \in 0 .. session
      /\ delivered' \in 0 .. MaxJobs
      /\ delivered' = IF Line.kind = "notify" THEN delivered + 1 ELSE delivered
  <2>1. CASE HandleNotification
    BY <1>2, <2>1, NotificationHandled DEF Inv
  <2>2. CASE UNCHANGED <<jobs, learned>> /\ IsResponse
    BY <2>2 DEF Inv, Typed, TypeOK, jobs, learned, IsResponse
  <2>3. CASE UNCHANGED <<jobs, difficulty, poolTarget>> /\ extranonce1' \in Extranonces /\ pc = "subscribing"
    <3>1. Line.kind = "response"
      BY <1>2, <2>3 DEF Inv, ResponseFirst
    <3> QED
      BY <2>3, <3>1 DEF Inv, Typed, TypeOK, jobs
  <2> QED
    BY <2>1, <2>2, <2>3
<1>4. TypeOK'
  BY <1>1, <1>3 DEF Inv, Typed, TypeOK, conn, net, shares
<1>5. Typed'
  BY <1>1, <1>2, <1>3, <1>4 DEF Inv, Typed
<1>6. JobsFollow'
  BY <1>1, <1>2, <1>3 DEF Inv, JobsFollow
<1>7. OnConnection' /\ ResponseFirst'
  BY <1>1 DEF Inv, OnConnection, ResponseFirst
<1> QED
  BY <1>5, <1>6, <1>7 DEF Inv

LEMMA SubscribeLineKeeps == ASSUME Inv, SubscribeLine PROVE Inv'
<1>1. /\ TakeLine /\ UNCHANGED <<conn, net, shares>> /\ UNCHANGED <<jobs, difficulty, poolTarget>>
      /\ pc = "subscribing" /\ pc' = "subscribed"
      /\ attempts' = attempts /\ results' = results
  BY DEF SubscribeLine
<1>2. Line \in LinesOf(session) /\ session \in 0 .. MaxSessions /\ extranonce1 \in Extranonces
  <2>1. wire' = wire
    BY <1>1 DEF net
  <2> QED
    BY <1>1, <2>1, LineTaken, CountAssumption DEF Inv, Typed, TypeOK
<1>3. extranonce1' \in Extranonces
  BY <1>2, XnField DEF SubscribeLine, ExtranonceIn, Inv
<1>4. attempts' \in 0 .. MaxAuthLines /\ results' \in [accepted : Nat, rejected : Nat]
  BY <1>1 DEF Inv, Typed, TypeOK
<1> QED
  BY <1>1, <1>3, <1>4, TakenKeeps

LEMMA AuthorizeLineKeeps ==
  ASSUME Inv, AuthorizeNotification \/ AuthorizeResponse PROVE Inv'
<1>1. /\ TakeLine /\ UNCHANGED <<conn, net, shares, results>> /\ pc = "authorizing"
      /\ attempts' = attempts + 1
      /\ \/ HandleNotification /\ IsNotification
         \/ UNCHANGED <<jobs, learned>> /\ IsResponse
  BY DEF AuthorizeNotification, AuthorizeResponse
<1>2. attempts < MaxAuthLines /\ attempts \in 0 .. MaxAuthLines /\ MaxAuthLines \in Nat
  BY <1>1, CountAssumption DEF Inv, OnConnection, Typed, TypeOK
<1>3. attempts' \in 0 .. MaxAuthLines /\ results' \in [accepted : Nat, rejected : Nat]
  BY <1>1, <1>2 DEF Inv, Typed, TypeOK
<1>4. /\ pc' \in {"authorizing", "run", "disconnect"}
      /\ pc' = "authorizing" => attempts' < MaxAuthLines
  <2>1. CASE AuthorizeNotification
    BY <2>1 DEF AuthorizeNotification
  <2>2. CASE AuthorizeResponse
    <3>1. pc' = "authorizing" => attempts' # MaxAuthLines
      BY <2>2 DEF AuthorizeResponse
    <3>2. pc' \in {"authorizing", "run", "disconnect"}
      BY <2>2 DEF AuthorizeResponse
    <3> QED
      BY <1>2, <1>3, <3>1, <3>2
  <2> QED
    BY <2>1, <2>2
<1> QED
  BY <1>1, <1>3, <1>4, TakenKeeps

LEMMA RunLineKeeps == ASSUME Inv, RunNotification \/ RunResponse PROVE Inv'
<1>1. /\ TakeLine /\ UNCHANGED <<conn, net, shares>> /\ attempts' = attempts /\ pc' = "loop"
      /\ \/ HandleNotification /\ IsNotification
         \/ UNCHANGED <<jobs, learned>> /\ IsResponse
  BY DEF RunNotification, RunResponse
<1>2. attempts' \in 0 .. MaxAuthLines
  BY <1>1 DEF Inv, Typed, TypeOK
<1>3. results' \in [accepted : Nat, rejected : Nat]
  <2>1. results \in [accepted : Nat, rejected : Nat]
    BY DEF Inv, Typed, TypeOK
  <2>2. CASE RunNotification
    BY <2>1, <2>2 DEF RunNotification
  <2>3. CASE RunResponse
    BY <2>1, <2>3 DEF RunResponse, HandleResponse
  <2> QED
    BY <2>2, <2>3
<1> QED
  BY <1>1, <1>2, <1>3, TakenKeeps

(* The pool sends one line; a job is the next of its session.                *)
LEMMA PoolSendsKeeps ==
  ASSUME Inv, pool.open, NEW x \in LinesOf(session), wire' = Append(wire, x), UNCHANGED client,
         outbox' \in Seq(Requests), pool' \in PoolStates, pool'.open, pool'.name = pool.name,
         verdicts' \in [accepted : Nat, refused : Nat],
         \/ x.kind = "notify" /\ x.n = pool.sent + 1 /\ pool'.sent = pool.sent + 1
         \/ x.kind # "notify" /\ pool'.sent = pool.sent,
         x.kind = "response" \/ pool.subscribed
  PROVE  Inv'
<1>1. /\ UNCHANGED <<pc, recvBuffer, attempts, results, session, submitted, overtaken>>
      /\ UNCHANGED <<socket, connected, running, extranonce1, difficulty, poolTarget, job, delivered>>
  BY DEF client, conn, learned, jobs
<1>2. /\ wire' \in Seq(LinesOf(session)) /\ Stream \in Seq(LinesOf(session))
      /\ Stream' = Append(Stream, x)
      /\ connected /\ pool.open /\ x.kind = "notify" /\ x.n = pool.sent + 1 =>
           /\ InOrder(Stream', delivered)
           /\ Sent(Stream', pool.sent + 1)
           /\ Complete(Stream', delivered, pool.sent + 1)
      /\ connected /\ pool.open /\ x.kind # "notify" =>
           /\ InOrder(Stream', delivered)
           /\ Sent(Stream', pool.sent)
           /\ Complete(Stream', delivered, pool.sent)
  BY <1>1, LineAdded
<1>3. TypeOK'
  BY <1>1 DEF Inv, Typed, TypeOK
<1>4. Typed'
  BY <1>1, <1>2, <1>3 DEF Inv, Typed
<1>5. JobsFollow'
  <2>1. connected => delivered =< pool.sent
    BY DEF Inv, JobsFollow
  <2>2. pool.sent \in Nat /\ delivered \in Nat
    BY CountAssumption DEF Inv, Typed, TypeOK, PoolStates
  <2>3. connected => delivered =< pool'.sent
    BY <2>1, <2>2
  <2> QED
    BY <1>1, <1>2, <2>3 DEF JobsFollow
<1>6. ResponseFirst'
  <2> SUFFICES ASSUME pc \in {"connected", "subscribing"} PROVE Stream'[1].kind = "response"
    <3>1. Stream' # <<>>
      BY <1>2
    <3> QED
      BY <1>1, <3>1 DEF ResponseFirst
  <2>1. CASE Stream = <<>>
    <3>1. Stream'[1] = x
      BY <1>2, <2>1
    <3> QED
      BY <2>1, <3>1 DEF Inv, ResponseFirst
  <2>2. CASE Stream # <<>>
    <3>1. Stream'[1] = Stream[1]
      BY <1>2, <2>2
    <3> QED
      BY <2>2, <3>1 DEF Inv, ResponseFirst
  <2> QED
    BY <2>1, <2>2
<1>7. OnConnection'
  BY <1>1 DEF Inv, OnConnection
<1> QED
  BY <1>4, <1>5, <1>6, <1>7 DEF Inv

LEMMA PoolAnswersKeeps == ASSUME Inv, PoolAnswers PROVE Inv'
<1> DEFINE request == Head(outbox)
<1>1. /\ pool.open /\ outbox # <<>> /\ outbox' = Tail(outbox) /\ UNCHANGED client
  BY DEF PoolAnswers
<1>2. /\ outbox' \in Seq(Requests) /\ session > 0 /\ session \in Nat /\ pool.name \in Pools
      /\ pool \in PoolStates /\ verdicts \in [accepted : Nat, refused : Nat]
      /\ session \in 0 .. MaxSessions
  BY <1>1, CountAssumption DEF Inv, Typed, TypeOK, OnConnection
<1>3. /\ \A v \in AuthVerdicts : Response("authorize", v) \in LinesOf(session)
      /\ \A v \in {"true"} \cup ShareRefusals : Response("submit", v) \in LinesOf(session)
      /\ SubscribeResponse(Xn("answer")) \in LinesOf(session)
  BY <1>2, LinesSent DEF Inv
<1>4. CASE /\ pool' = [pool EXCEPT !.subscribed = TRUE, !.xn = Xn("answer")]
           /\ wire' = Append(wire, SubscribeResponse(Xn("answer")))
           /\ UNCHANGED verdicts
  <2>1. SubscribeResponse(Xn("answer")).kind = "response"
    BY DEF SubscribeResponse
  <2>2. pool' \in PoolStates /\ pool'.open /\ pool'.sent = pool.sent /\ pool'.name = pool.name
    <3>1. Xn("answer") \in Extranonces
      BY <1>2 DEF Xn, Extranonces
    <3> QED
      BY <1>1, <1>2, <1>4, <3>1 DEF PoolStates
  <2> QED
    BY <1>1, <1>2, <1>3, <1>4, <2>1, <2>2, PoolSendsKeeps
<1>5. CASE /\ \E v \in AuthVerdicts : /\ pool' = [pool EXCEPT !.verdict = v]
                                      /\ wire' = Append(wire, Response("authorize", v))
           /\ UNCHANGED verdicts
  <2>1. PICK v \in AuthVerdicts : /\ pool' = [pool EXCEPT !.verdict = v]
                                  /\ wire' = Append(wire, Response("authorize", v))
    BY <1>5
  <2>2. Response("authorize", v).kind = "response" /\ v \in Verdict
    BY VerdictAssumption DEF Response
  <2>4. pool' \in PoolStates /\ pool'.open /\ pool'.sent = pool.sent /\ pool'.name = pool.name
    BY <1>1, <1>2, <2>1 DEF PoolStates
  <2> QED
    BY <1>1, <1>2, <1>3, <1>5, <2>1, <2>2, <2>4, PoolSendsKeeps
<1>6. CASE AnswerShare(request) /\ UNCHANGED pool
  <2>1. PICK v \in {"true"} \cup ShareRefusals : wire' = Append(wire, Response("submit", v))
    BY <1>6 DEF AnswerShare
  <2>2. Response("submit", v).kind = "response"
    BY DEF Response
  <2>3. verdicts' \in [accepted : Nat, refused : Nat]
    BY <1>2, <1>6 DEF AnswerShare
  <2>4. pool' \in PoolStates /\ pool'.open /\ pool'.sent = pool.sent /\ pool'.name = pool.name
    BY <1>1, <1>2, <1>6
  <2> QED
    BY <1>1, <1>2, <1>3, <2>1, <2>2, <2>3, <2>4, PoolSendsKeeps
<1> QED
  BY <1>4, <1>5, <1>6 DEF PoolAnswers

LEMMA PoolAnnouncesKeeps ==
  ASSUME Inv, PoolNotifies \/ PoolSetsLevel \/ PoolSetsExtranonce \/ PoolSendsNoise PROVE Inv'
<1>1. pool.open /\ pool.subscribed /\ UNCHANGED <<client, outbox, verdicts>>
  BY DEF PoolNotifies, PoolSetsLevel, PoolSetsExtranonce, PoolSendsNoise
<1>2. /\ outbox' \in Seq(Requests) /\ session > 0 /\ session \in Nat /\ pool.name \in Pools
      /\ pool \in PoolStates /\ verdicts' \in [accepted : Nat, refused : Nat]
      /\ session \in 0 .. MaxSessions
  BY <1>1, CountAssumption DEF Inv, Typed, TypeOK, OnConnection
<1>3. /\ \A n \in Nat : Notify(n) \in LinesOf(session)
      /\ \A n \in Nat \ {0} : SetLevel(n) \in LinesOf(session)
      /\ \A form \in XnForms : SetExtranonce(Xn(form)) \in LinesOf(session)
      /\ \A kind \in Noise : NoiseLine(kind) \in LinesOf(session)
  BY <1>2, LinesSent DEF Inv
<1>4. CASE PoolNotifies
  <2>1. /\ pool.sent < MaxJobs /\ pool' = [pool EXCEPT !.sent = pool.sent + 1]
        /\ wire' = Append(wire, Notify(pool.sent + 1))
    BY <1>4 DEF PoolNotifies
  <2>2. pool.sent \in Nat /\ pool.sent + 1 \in 0 .. MaxJobs
    BY <1>2, <2>1, CountAssumption DEF PoolStates
  <2>3. pool' \in PoolStates /\ pool'.open /\ pool'.sent = pool.sent + 1 /\ pool'.name = pool.name
    BY <1>1, <1>2, <2>1, <2>2 DEF PoolStates
  <2>4. Notify(pool.sent + 1).kind = "notify" /\ Notify(pool.sent + 1).n = pool.sent + 1
    BY DEF Notify
  <2>5. Notify(pool.sent + 1) \in LinesOf(session)
    BY <1>3, <2>2
  <2> QED
    BY <1>1, <1>2, <2>1, <2>3, <2>4, <2>5, PoolSendsKeeps
<1>5. CASE PoolSetsLevel
  <2>1. PICK level : /\ level = (session - 1) * MaxLevels + pool.levels + 1
                     /\ pool' = [pool EXCEPT !.level = level, !.levels = pool.levels + 1]
                     /\ wire' = Append(wire, SetLevel(level))
    BY <1>5 DEF PoolSetsLevel
  <2>2. pool.levels \in Nat /\ (session - 1) * MaxLevels \in Nat
    BY <1>2, CountAssumption DEF PoolStates
  <2>3. level \in Nat \ {0}
    BY <2>1, <2>2
  <2>4. pool' \in PoolStates /\ pool'.open /\ pool'.sent = pool.sent /\ pool'.name = pool.name
    <3>1. pool' = [pool EXCEPT !.level = level, !.levels = pool.levels + 1]
      BY <2>1
    <3>2. pool.levels + 1 \in Nat
      BY <2>2
    <3> QED
      BY <1>1, <1>2, <2>3, <3>1, <3>2 DEF PoolStates
  <2>5. SetLevel(level).kind # "notify" /\ SetLevel(level) \in LinesOf(session)
    BY <1>3, <2>3 DEF SetLevel
  <2> QED
    BY <1>1, <1>2, <2>1, <2>4, <2>5, PoolSendsKeeps
<1>6. CASE PoolSetsExtranonce
  <2>1. PICK form \in XnForms : /\ pool' = [pool EXCEPT !.xn = Xn(form)]
                                /\ wire' = Append(wire, SetExtranonce(Xn(form)))
    BY <1>6 DEF PoolSetsExtranonce
  <2>2. Xn(form) \in Extranonces
    BY <1>2 DEF Xn, Extranonces
  <2>3. pool' \in PoolStates /\ pool'.open /\ pool'.sent = pool.sent /\ pool'.name = pool.name
    BY <1>1, <1>2, <2>1, <2>2 DEF PoolStates
  <2>4. /\ SetExtranonce(Xn(form)).kind # "notify"
        /\ SetExtranonce(Xn(form)) \in LinesOf(session)
    BY <1>3 DEF SetExtranonce
  <2> QED
    BY <1>1, <1>2, <2>1, <2>3, <2>4, PoolSendsKeeps
<1>7. CASE PoolSendsNoise
  <2>1. PICK kind \in Noise : wire' = Append(wire, NoiseLine(kind)) /\ pool' = pool
    BY <1>7 DEF PoolSendsNoise
  <2>2. NoiseLine(kind).kind # "notify" /\ NoiseLine(kind) \in LinesOf(session)
    BY <1>3, <2>1, FormAssumption DEF NoiseLine
  <2> QED
    BY <1>1, <1>2, <2>1, <2>2, PoolSendsKeeps
<1> QED
  BY <1>4, <1>5, <1>6, <1>7

LEMMA PoolClosesKeeps == ASSUME Inv, PoolCloses PROVE Inv'
<1>1. /\ pool' = [pool EXCEPT !.open = FALSE] /\ wire' \in {wire, <<>>} /\ outbox' = <<>>
      /\ UNCHANGED <<client, verdicts>>
  BY DEF PoolCloses
<1>2. /\ UNCHANGED <<pc, recvBuffer, attempts, results, session, submitted, verdicts, overtaken>>
      /\ UNCHANGED <<socket, connected, running, extranonce1, difficulty, poolTarget, job, delivered>>
  BY <1>1 DEF client, conn, learned, jobs
<1>3. /\ recvBuffer \in Seq(LinesOf(session)) /\ wire \in Seq(LinesOf(session))
      /\ pool \in PoolStates /\ pool.sent \in Nat /\ delivered \in Nat
  BY CountAssumption DEF Inv, Typed, TypeOK, PoolStates
<1>4. pool' \in PoolStates /\ ~pool'.open /\ pool'.sent = pool.sent /\ pool'.name = pool.name
  BY <1>1, <1>3 DEF PoolStates
<1>5. TypeOK'
  BY <1>2 DEF Inv, Typed, TypeOK
<1>6. Typed'
  <2>1. wire' \in Seq(LinesOf(session)) /\ outbox' \in Seq(Requests)
    <3>1. <<>> \in Seq(LinesOf(session)) /\ <<>> \in Seq(Requests)
      OBVIOUS
    <3> QED
      BY <1>1, <1>3, <3>1
  <2> QED
    BY <1>2, <1>4, <1>5, <2>1 DEF Inv, Typed
<1>7. CASE wire' = wire
  <2>1. Stream' = Stream
    BY <1>2, <1>7 DEF Stream
  <2>2. JobsFollow' /\ ResponseFirst'
    BY <1>2, <1>4, <2>1 DEF Inv, JobsFollow, ResponseFirst
  <2> QED
    BY <1>1, <1>2, <1>4, <1>6, <1>7, <2>2 DEF Inv, OnConnection
<1>8. CASE wire' = <<>>
  <2>1. Stream' = recvBuffer
    BY <1>2, <1>3, <1>8 DEF Stream
  <2>2. connected => InOrder(recvBuffer, delivered) /\ Sent(recvBuffer, pool.sent)
    BY <1>3, RestLost DEF Inv, JobsFollow, Stream
  <2>3. JobsFollow'
    BY <1>2, <1>4, <2>1, <2>2 DEF Inv, JobsFollow
  <2>4. recvBuffer # <<>> => Stream # <<>> /\ Stream[1] = recvBuffer[1]
    BY <1>3 DEF Stream
  <2>5. ResponseFirst'
    BY <1>2, <1>4, <2>1, <2>4 DEF Inv, ResponseFirst
  <2> QED
    BY <1>1, <1>2, <1>4, <1>6, <1>8, <2>3, <2>5 DEF Inv, OnConnection
<1> QED
  BY <1>1, <1>7, <1>8

LEMMA ThreadKeeps == ASSUME Inv, Thread PROVE Inv'
<1>1. CASE Handshake
  BY <1>1, ConnectKeeps, SubscribeKeeps, SubscribeLineKeeps, AuthorizeKeeps, AuthorizeLineKeeps
  DEF Handshake
<1>2. CASE Recv \/ RecvFails \/ EmptyLine \/ Disconnect
  BY <1>2, RecvKeeps, RecvFailsKeeps, EmptyLineKeeps, DisconnectKeeps
<1>3. CASE Run \/ RunLoop \/ RunNotification \/ RunResponse
  BY <1>3, RunStarts, RunLineKeeps
<1> QED
  BY <1>1, <1>2, <1>3 DEF Thread

LEMMA PoolKeeps == ASSUME Inv, Pool PROVE Inv'
  BY PoolAnswersKeeps, PoolAnnouncesKeeps, PoolClosesKeeps DEF Pool

LEMMA VarsKept ==
  ASSUME UNCHANGED vars
  PROVE  /\ UNCHANGED <<pc, recvBuffer, attempts, results, session, pool, wire, outbox>>
         /\ UNCHANGED <<submitted, verdicts, overtaken, job, delivered, extranonce1, difficulty, poolTarget>>
         /\ UNCHANGED <<socket, connected, running>>
         /\ Stream' = Stream
  BY DEF vars, conn, learned, jobs, net, shares, Stream

LEMMA StutterKeeps == ASSUME Inv, UNCHANGED vars PROVE Inv'
<1>1. TypeOK'
  <2>1. /\ UNCHANGED <<pc, attempts, results, session, submitted, verdicts, overtaken, job>>
        /\ UNCHANGED <<delivered, extranonce1, difficulty, poolTarget, socket, connected, running>>
    BY VarsKept
  <2> QED
    BY <2>1 DEF Inv, Typed, TypeOK
<1>2. Typed'
  BY <1>1, VarsKept DEF Inv, Typed
<1>3. JobsFollow' /\ ResponseFirst'
  BY VarsKept, StreamKept
<1>4. OnConnection'
  BY VarsKept DEF Inv, OnConnection
<1> QED
  BY <1>2, <1>3, <1>4 DEF Inv

LEMMA NextKeeps == ASSUME Inv, [Next]_vars PROVE Inv'
<1>1. CASE MinerSubmits
  <2>1. job \in Jobs
    BY DEF Inv, Typed
  <2> QED
    BY <1>1, <2>1, SubmitShareKeeps DEF MinerSubmits
<1> QED
  BY <1>1, ThreadKeeps, DisconnectKeeps, StopKeeps, PoolKeeps, StutterKeeps DEF Next

LEMMA Invariant == Spec => []Inv
  BY InitHolds, NextKeeps, PTL DEF Spec

-------------------------------------------------------------------------------
(* Every variable of the client and of the pool keeps its type: in           *)
(* particular authorize() never counts a line too many.                      *)
THEOREM TypesCorrect == Spec => []TypeOK
<1>1. Inv => TypeOK
  BY DEF Inv, Typed
<1> QED
  BY <1>1, Invariant, PTL

LEMMA NothingLost == Inv => NoJobLost
<1>1. ASSUME Inv, connected, pool.open
      PROVE  /\ {Stream[i].n : i \in Pending} = delivered + 1 .. pool.sent
             /\ \A i, j \in Pending : i < j => Stream[i].n < Stream[j].n
  <2>1. /\ InOrder(Stream, delivered) /\ Sent(Stream, pool.sent)
        /\ Complete(Stream, delivered, pool.sent)
    BY <1>1 DEF Inv, JobsFollow
  <2>2. /\ Stream \in Seq(LinesOf(session)) /\ session \in Nat
        /\ delivered \in Nat /\ pool.sent \in Nat
    BY <1>1, CountAssumption DEF Inv, Typed, TypeOK, PoolStates, Stream
  <2>3. \A i \in Pending : Stream[i].n \in Nat /\ i \in 1 .. Len(Stream) /\ Notified(Stream, i)
    BY <2>2, LineFields DEF Pending, Notified
  <2>4. ASSUME NEW i \in Pending PROVE Stream[i].n \in delivered + 1 .. pool.sent
    BY <2>1, <2>2, <2>3, <2>4 DEF InOrder, Sent
  <2>5. ASSUME NEW n \in delivered + 1 .. pool.sent PROVE \E i \in Pending : Stream[i].n = n
    BY <2>1, <2>5 DEF Complete, Pending, Notified
  <2>6. ASSUME NEW i \in Pending, NEW j \in Pending, i < j PROVE Stream[i].n < Stream[j].n
    <3>1. i \in 1 .. j - 1
      BY <2>2, <2>3, <2>6
    <3> QED
      BY <2>1, <2>3, <3>1 DEF InOrder
  <2> QED
    BY <2>4, <2>5, <2>6
<1> QED
  BY <1>1 DEF NoJobLost

(* While the connection lasts, the jobs still on their way are exactly those *)
(* the pool has sent and the callback has not had, in their order:           *)
(* subscribe() and authorize(), which read the same stream, lose none.       *)
THEOREM NoJobIsLost == Spec => []NoJobLost
  BY NothingLost, Invariant, PTL

(* Every job given to the job callback is of the session that is open and    *)
(* is the one after the last, whatever an earlier connection had buffered.   *)
THEOREM JobsComeInOrder == Spec => JobsInOrder
<1>1. ASSUME Inv, [Next]_vars, delivered' > delivered
      PROVE  job'.from = session /\ job'.n = delivered + 1
  <2>1. delivered \in Nat /\ session \in Nat
    BY <1>1, CountAssumption DEF Inv, Typed, TypeOK
  <2>2. delivered' # delivered /\ delivered' # 0
    <3>1. delivered' \in 0 .. MaxJobs
      BY <1>1, NextKeeps DEF Inv, Typed, TypeOK
    <3> QED
      BY <1>1, <2>1, <3>1, CountAssumption
  <2>3. AuthorizeNotification \/ RunNotification
    BY <1>1, <2>2
    DEF Next, Thread, Handshake, Connect, Subscribe, SubscribeLine, Authorize, AuthorizeResponse,
        Recv, RecvFails, EmptyLine, Run, RunLoop, RunResponse, Disconnect, DisconnectLeaving,
        ConnectFails, Stop, MinerSubmits, SubmitShare, Pool, PoolAnswers, PoolNotifies,
        PoolSetsLevel, PoolSetsExtranonce, PoolSendsNoise, PoolCloses, client, jobs, vars
  <2>4. TakeLine /\ HandleNotification /\ wire' = wire
    BY <2>3 DEF AuthorizeNotification, RunNotification, net
  <2>5. /\ Line \in LinesOf(session)
        /\ Line.kind = "notify" => Line.n = delivered + 1
    BY <1>1, <2>4, LineTaken
  <2>6. job' = BuiltJob /\ Line.kind = "notify"
    BY <2>2, <2>4 DEF HandleNotification, jobs
  <2> QED
    BY <2>1, <2>5, <2>6, LineFields DEF BuiltJob
<1>2. Inv /\ [Next]_vars => [delivered' > delivered =>
                               job'.from = session /\ job'.n = delivered + 1]_vars
  BY <1>1
<1> QED
  BY <1>2, Invariant, PTL DEF Spec, JobsInOrder

-------------------------------------------------------------------------------
(* The steps by what they do to the stream and to the requests               *)

InSession == pc \notin {"idle", "disconnect"}
Early == pc \in {"connected", "subscribing"}

(* The session ends.                                                         *)
Leaves ==
  /\ pc' \in {"idle", "disconnect"}
  /\ UNCHANGED <<learned, job, results, verdicts, session, overtaken>>
  /\ connected' => connected /\ pool' = pool

(* No line is taken and none is sent: nothing happens to the requests, one   *)
(* of the handshake goes out, or a share.                                    *)
Silent ==
  /\ Stream' = Stream
  /\ UNCHANGED <<learned, job, pool, session, results, verdicts, connected>>
Still ==
  /\ Silent
  /\ UNCHANGED <<outbox, submitted, overtaken>>
  /\ pc' = pc \/ (pc \in {"run", "loop"} /\ pc' \in {"loop", "running"})
Asks(before, kind, after) ==
  /\ Silent
  /\ UNCHANGED <<submitted, overtaken>>
  /\ pc = before /\ pc' = after
  /\ outbox' = IF pool.open THEN Append(outbox, [kind |-> kind]) ELSE outbox
Submits == \E j \in Jobs : SubmitShare(j)
Quiet ==
  /\ Silent
  /\ overtaken \subseteq overtaken'
  /\ InSession' => InSession
  /\ Early' <=> Early

(* A notification, or a response, is taken after subscribe().                *)
Takes ==
  /\ TakeLine
  /\ UNCHANGED <<wire, outbox, pool, session, verdicts, submitted, overtaken, connected>>
  /\ \/ pc = "authorizing" /\ pc' \in {"authorizing", "run", "disconnect"}
     \/ pc = "running" /\ pc' = "loop"
Told == Takes /\ IsNotification /\ HandleNotification /\ results' = results /\ pc' # "run"
Heard ==
  /\ Takes
  /\ IsResponse
  /\ UNCHANGED <<learned, job>>
  /\ \/ /\ pc = "authorizing" /\ results' = results
        /\ pc' = "run" => Grants(Line.verdict)
        /\ pc' = "authorizing" => ~Grants(Line.verdict) /\ Line.verdict # "error"
     \/ pc = "running" /\ HandleResponse

Announces == PoolNotifies \/ PoolSetsLevel \/ PoolSetsExtranonce \/ PoolSendsNoise

Steps ==
  \/ \E p \in Pools : Connect(p)
  \/ SubscribeLine
  \/ Asks("connected", "subscribe", "subscribing")
  \/ Asks("subscribed", "authorize", "authorizing")
  \/ Leaves \/ Still \/ Submits \/ Told \/ Heard
  \/ PoolAnswers \/ Announces \/ PoolCloses

LEMMA Stuttering == ASSUME Inv, UNCHANGED vars PROVE Still
  BY VarsKept DEF Still, Silent, learned

LEMMA Asking ==
  ASSUME Inv, Subscribe \/ Authorize
  PROVE  \/ Asks("connected", "subscribe", "subscribing")
         \/ Asks("subscribed", "authorize", "authorizing")
<1>1. CanSend
  BY DEF Subscribe, Authorize, Inv, OnConnection, Typed, TypeOK, CanSend
<1>2. /\ UNCHANGED <<learned, job, results, verdicts, recvBuffer, wire, pool, session>>
      /\ UNCHANGED <<submitted, overtaken, connected>>
  BY DEF Subscribe, Authorize, conn, jobs, shares
<1>3. Silent
  BY <1>2 DEF Silent, Stream
<1> QED
  BY <1>1, <1>2, <1>3 DEF Subscribe, Authorize, Send, Asks

LEMMA Calling ==
  ASSUME Inv, Thread
  PROVE  \/ \E p \in Pools : Connect(p)
         \/ SubscribeLine
         \/ Asks("connected", "subscribe", "subscribing")
         \/ Asks("subscribed", "authorize", "authorizing")
         \/ Leaves \/ Still \/ Told \/ Heard
<1>1. CASE AuthorizeNotification
  BY <1>1 DEF AuthorizeNotification, Told, Takes, net, shares, conn
<1>2. CASE AuthorizeResponse
  BY <1>2 DEF AuthorizeResponse, Heard, Takes, net, shares, jobs, conn
<1>3. CASE Recv
  <2>1. PICK k \in 1 .. Len(wire) :
          recvBuffer' = SubSeq(wire, 1, k) /\ wire' = SubSeq(wire, k + 1, Len(wire))
    BY <1>3 DEF Recv
  <2>2. wire \in Seq(LinesOf(session)) /\ recvBuffer = <<>>
    BY <1>3 DEF Recv, Inv, Typed
  <2>3. recvBuffer' \o wire' = wire
    BY <2>1, <2>2, SplitStream
  <2>4. Stream' = Stream
    BY <2>2, <2>3 DEF Stream
  <2> QED
    BY <1>3, <2>4 DEF Recv, Still, Silent, jobs, shares, conn
<1>4. CASE RecvFails \/ EmptyLine
  <2>1. connected \in BOOLEAN
    BY DEF Inv, Typed, TypeOK
  <2> QED
    BY <1>4, <2>1 DEF RecvFails, EmptyLine, Receiving, Leaves, jobs, shares, net
<1>5. CASE Disconnect
  BY <1>5 DEF Disconnect, DisconnectLeaving, Leaves, jobs, shares
<1>6. CASE Run
  BY <1>6 DEF Run, Still, Silent, Stream, jobs, shares, net
<1>7. CASE RunLoop
  BY <1>7 DEF RunLoop, Leaves, Still, Silent, Stream, jobs, shares, net, conn
<1>8. CASE RunNotification
  BY <1>8 DEF RunNotification, Told, Takes, net, shares, conn
<1>9. CASE RunResponse
  BY <1>9 DEF RunResponse, Heard, Takes, net, shares, jobs, conn
<1> QED
  BY <1>1, <1>2, <1>3, <1>4, <1>5, <1>6, <1>7, <1>8, <1>9, Asking DEF Thread, Handshake

LEMMA AloneSteps == ASSUME Inv, Thread \/ ConnectFails \/ Pool PROVE Steps
<1>1. CASE ConnectFails
  BY <1>1 DEF ConnectFails, Leaves, Steps, jobs, shares, net
<1>2. CASE Pool
  BY <1>2 DEF Pool, Announces, Steps
<1> QED
  BY <1>1, <1>2, Calling DEF Steps

LEMMA StepKinds == ASSUME Inv, [Next]_vars PROVE Steps
<1>1. CASE Stop
  BY <1>1 DEF Stop, Still, Silent, Stream, Steps, jobs, net, shares
<1>2. CASE MinerSubmits
  BY <1>2 DEF MinerSubmits, Submits, Steps, Inv, Typed
<1> QED
  BY <1>1, <1>2, AloneSteps, Stuttering DEF Next, Steps

(* A share that is sent goes behind the requests before it.                  *)
LEMMA Submitting ==
  ASSUME Inv, Submits
  PROVE  /\ Silent /\ pc' = pc /\ overtaken \subseteq overtaken'
         /\ submitted' > 0 /\ submitted' \in Nat
         /\ \/ outbox' = outbox
            \/ /\ pool.open
               /\ \E r \in Requests : r.kind = "submit" /\ outbox' = Append(outbox, r)
               /\ pc = "connected" => "subscribe" \in overtaken'
               /\ pc \in {"connected", "subscribing", "subscribed"} => "authorize" \in overtaken'
<1>1. PICK j \in Jobs : SubmitShare(j)
  BY DEF Submits
<1>2. /\ UNCHANGED <<pc, learned, job, pool, session, results, verdicts, connected>>
      /\ UNCHANGED <<recvBuffer, wire>> /\ submitted' = submitted + 1
      /\ overtaken \subseteq overtaken'
  BY <1>1 DEF SubmitShare, conn, jobs
<1>3. Silent
  BY <1>2 DEF Silent, Stream
<1>4. submitted' > 0 /\ submitted' \in Nat
  BY <1>2, CountAssumption DEF Inv, Typed, TypeOK
<1>5. ASSUME outbox' # outbox
      PROVE  /\ pool.open
             /\ \E r \in Requests : r.kind = "submit" /\ outbox' = Append(outbox, r)
             /\ pc = "connected" => "subscribe" \in overtaken'
             /\ pc \in {"connected", "subscribing", "subscribed"} => "authorize" \in overtaken'
  <2>1. [kind |-> "submit", job |-> j, xn |-> extranonce1] \in Requests
    BY DEF Inv, Typed, TypeOK, Requests
  <2>2. pool.open /\ outbox' = Append(outbox, [kind |-> "submit", job |-> j, xn |-> extranonce1])
    BY <1>1, <1>5 DEF SubmitShare, Send
  <2>3. /\ pc = "connected" => "subscribe" \in overtaken'
        /\ pc \in {"connected", "subscribing", "subscribed"} => "authorize" \in overtaken'
    BY <1>1, <1>5 DEF SubmitShare
  <2> QED
    BY <2>1, <2>2, <2>3
<1> QED
  BY <1>2, <1>3, <1>4, <1>5

LEMMA Quietly ==
  ASSUME Inv,
         \/ Still \/ Submits
         \/ Asks("connected", "subscribe", "subscribing")
         \/ Asks("subscribed", "authorize", "authorizing")
  PROVE  Quiet
  BY Submitting DEF Still, Asks, Quiet, InSession, Early

LEMMA Requested ==
  ASSUME Inv, NEW r \in Requests, outbox' = Append(outbox, r)
  PROVE  /\ Len(outbox') = Len(outbox) + 1 /\ Len(outbox) \in Nat /\ outbox' # <<>>
         /\ \A i \in 1 .. Len(outbox) : outbox'[i] = outbox[i]
         /\ outbox'[Len(outbox) + 1] = r
         /\ outbox # <<>> => Len(outbox) > 0 /\ outbox'[1] = outbox[1]
<1>1. outbox \in Seq(Requests)
  BY DEF Inv, Typed
<1> QED
  BY <1>1

LEMMA RequestTaken ==
  ASSUME Inv, outbox # <<>>, outbox' = Tail(outbox)
  PROVE  /\ Head(outbox) = outbox[1] /\ 1 \in 1 .. Len(outbox) /\ Len(outbox) \in Nat
         /\ Len(outbox) = Len(outbox') + 1 /\ Len(outbox') \in Nat
         /\ \A i \in 1 .. Len(outbox') : outbox'[i] = outbox[i + 1]
<1>1. outbox \in Seq(Requests)
  BY DEF Inv, Typed
<1> QED
  BY <1>1

(* The answers of the pool.                                                  *)
LEMMA Answering ==
  ASSUME Inv, PoolAnswers
  PROVE  /\ UNCHANGED <<pc, recvBuffer, learned, job, session, results>>
         /\ UNCHANGED <<connected, submitted, overtaken>>
         /\ pool'.level = pool.level /\ pool'.levels = pool.levels
         /\ pool'.open /\ pool.open /\ pool'.name = pool.name
         /\ outbox # <<>> /\ outbox' = Tail(outbox)
         /\ \E x \in LinesOf(session) :
              /\ wire' = Append(wire, x) /\ x.kind = "response" /\ x.to = Head(outbox).kind
              /\ \/ /\ x.to = "subscribe"
                    /\ pool'.xn = Xn("answer") /\ pool'.verdict = pool.verdict
                    /\ verdicts' = verdicts
                 \/ /\ x.to = "authorize"
                    /\ pool'.xn = pool.xn /\ pool'.subscribed = pool.subscribed
                    /\ pool'.verdict = x.verdict
                    /\ verdicts' = verdicts
                 \/ /\ x.to = "submit" /\ pool' = pool
                    /\ \/ verdicts' = [verdicts EXCEPT !.accepted = @ + 1]
                       \/ verdicts' = [verdicts EXCEPT !.refused = @ + 1]
<1> DEFINE request == Head(outbox)
<1>1. pool.open /\ UNCHANGED client /\ outbox # <<>> /\ outbox' = Tail(outbox)
  BY DEF PoolAnswers
<1>2. /\ UNCHANGED <<pc, recvBuffer, learned, job, session, results>>
      /\ UNCHANGED <<connected, submitted, overtaken>>
  BY <1>1 DEF client, jobs, conn
<1>3. session > 0 /\ pool.name \in Pools /\ pool \in PoolStates
  BY <1>1 DEF Inv, Typed, OnConnection
<1>4. /\ \A v \in AuthVerdicts : Response("authorize", v) \in LinesOf(session)
      /\ \A v \in {"true"} \cup ShareRefusals : Response("submit", v) \in LinesOf(session)
      /\ SubscribeResponse(Xn("answer")) \in LinesOf(session)
  BY <1>3, LinesSent DEF Inv
<1>5. CASE /\ request.kind = "subscribe"
           /\ pool' = [pool EXCEPT !.subscribed = TRUE, !.xn = Xn("answer")]
           /\ wire' = Append(wire, SubscribeResponse(Xn("answer")))
           /\ UNCHANGED verdicts
  <2>1. /\ SubscribeResponse(Xn("answer")).kind = "response"
        /\ SubscribeResponse(Xn("answer")).to = "subscribe"
    BY DEF SubscribeResponse
  <2>2. /\ pool'.level = pool.level /\ pool'.levels = pool.levels /\ pool'.open
        /\ pool'.name = pool.name /\ pool'.verdict = pool.verdict /\ pool'.xn = Xn("answer")
    BY <1>1, <1>3, <1>5 DEF PoolStates
  <2> QED
    BY <1>1, <1>2, <1>4, <1>5, <2>1, <2>2
<1>6. CASE /\ request.kind = "authorize"
           /\ \E v \in AuthVerdicts : /\ pool' = [pool EXCEPT !.verdict = v]
                                      /\ wire' = Append(wire, Response("authorize", v))
           /\ UNCHANGED verdicts
  <2>1. PICK v \in AuthVerdicts : /\ pool' = [pool EXCEPT !.verdict = v]
                                  /\ wire' = Append(wire, Response("authorize", v))
    BY <1>6
  <2>2. /\ Response("authorize", v).kind = "response"
        /\ Response("authorize", v).to = "authorize"
        /\ Response("authorize", v).verdict = v
    BY DEF Response
  <2>3. /\ pool'.level = pool.level /\ pool'.levels = pool.levels /\ pool'.open
        /\ pool'.xn = pool.xn /\ pool'.subscribed = pool.subscribed
        /\ pool'.name = pool.name /\ pool'.verdict = v
    BY <1>1, <1>3, <2>1 DEF PoolStates
  <2> QED
    BY <1>1, <1>2, <1>4, <1>6, <2>1, <2>2, <2>3
<1>7. CASE request.kind = "submit" /\ AnswerShare(request) /\ UNCHANGED pool
  <2>1. PICK v \in {"true"} \cup ShareRefusals :
          /\ wire' = Append(wire, Response("submit", v))
          /\ \/ verdicts' = [verdicts EXCEPT !.accepted = @ + 1]
             \/ verdicts' = [verdicts EXCEPT !.refused = @ + 1]
    BY <1>7 DEF AnswerShare
  <2>2. Response("submit", v).kind = "response" /\ Response("submit", v).to = "submit"
    BY DEF Response
  <2>3. Response("submit", v) \in LinesOf(session)
    BY <1>4, <2>1
  <2> QED
    BY <1>1, <1>2, <1>7, <2>1, <2>2, <2>3
<1> QED
  BY <1>5, <1>6, <1>7 DEF PoolAnswers

(* The notifications of the pool.                                            *)
LEMMA Announcing ==
  ASSUME Inv, Announces
  PROVE  /\ UNCHANGED <<pc, recvBuffer, learned, job, session, results, verdicts>>
         /\ UNCHANGED <<connected, outbox, submitted, overtaken>>
         /\ pool.open /\ pool.subscribed /\ pool'.open /\ pool'.subscribed
         /\ pool'.name = pool.name /\ pool'.verdict = pool.verdict
         /\ \E x \in LinesOf(session) :
              /\ wire' = Append(wire, x) /\ x.kind # "response"
              /\ x.kind = "notify" =>
                   /\ x.level = pool.level /\ x.xn = pool.xn /\ pool.levels > 0
                   /\ pool.levels \in Nat
              /\ IF x.kind \in {"set_target", "set_difficulty"}
                 THEN pool'.level = x.level
                 ELSE pool'.level = pool.level /\ pool'.levels = pool.levels
              /\ pool'.xn = IF x.kind = "set_extranonce" THEN x.xn ELSE pool.xn
<1>1. /\ pool.open /\ pool.subscribed
      /\ UNCHANGED <<pc, recvBuffer, learned, job, session, results, verdicts>>
      /\ UNCHANGED <<connected, outbox, submitted, overtaken>>
  BY DEF Announces, PoolNotifies, PoolSetsLevel, PoolSetsExtranonce, PoolSendsNoise, client, jobs,
         conn
<1>2. session > 0 /\ session \in Nat /\ pool.name \in Pools /\ pool \in PoolStates
  BY <1>1, CountAssumption DEF Inv, Typed, TypeOK, OnConnection
<1>3. /\ \A n \in Nat : Notify(n) \in LinesOf(session)
      /\ \A n \in Nat \ {0} : SetLevel(n) \in LinesOf(session)
      /\ \A form \in XnForms : SetExtranonce(Xn(form)) \in LinesOf(session)
      /\ \A kind \in Noise : NoiseLine(kind) \in LinesOf(session)
  BY <1>2, LinesSent DEF Inv
<1>4. pool.levels \in Nat /\ pool.sent \in Nat
  BY <1>2, CountAssumption DEF PoolStates
<1>5. CASE PoolNotifies
  <2>1. /\ Notify(pool.sent + 1) \in LinesOf(session) /\ wire' = Append(wire, Notify(pool.sent + 1))
        /\ pool.levels > 0 /\ pool' = [pool EXCEPT !.sent = pool.sent + 1]
    BY <1>3, <1>4, <1>5 DEF PoolNotifies
  <2>2. /\ Notify(pool.sent + 1).kind = "notify" /\ Notify(pool.sent + 1).level = pool.level
        /\ Notify(pool.sent + 1).xn = pool.xn
    BY DEF Notify
  <2>3. /\ pool'.open /\ pool'.subscribed /\ pool'.level = pool.level
        /\ pool'.levels = pool.levels /\ pool'.xn = pool.xn
        /\ pool'.name = pool.name /\ pool'.verdict = pool.verdict
    BY <1>1, <1>2, <2>1 DEF PoolStates
  <2> QED
    BY <1>1, <1>4, <2>1, <2>2, <2>3
<1>6. CASE PoolSetsLevel
  <2>1. PICK level : /\ level = (session - 1) * MaxLevels + pool.levels + 1
                     /\ pool' = [pool EXCEPT !.level = level, !.levels = pool.levels + 1]
                     /\ wire' = Append(wire, SetLevel(level))
    BY <1>6 DEF PoolSetsLevel
  <2>2. (session - 1) * MaxLevels \in Nat
    BY <1>2, CountAssumption
  <2>3. level \in Nat \ {0}
    BY <1>4, <2>1, <2>2
  <2>4. pool' = [pool EXCEPT !.level = level, !.levels = pool.levels + 1]
    BY <2>1
  <2>5. /\ pool'.open /\ pool'.subscribed /\ pool'.level = level /\ pool'.xn = pool.xn
        /\ pool'.name = pool.name /\ pool'.verdict = pool.verdict
    BY <1>1, <1>2, <2>4 DEF PoolStates
  <2>6. /\ SetLevel(level).kind \in {"set_target", "set_difficulty"}
        /\ SetLevel(level).level = level
    BY DEF SetLevel
  <2>7. SetLevel(level) \in LinesOf(session) /\ wire' = Append(wire, SetLevel(level))
    BY <1>3, <2>1, <2>3
  <2> QED
    BY <1>1, <2>5, <2>6, <2>7
<1>7. CASE PoolSetsExtranonce
  <2>1. PICK form \in XnForms : /\ pool' = [pool EXCEPT !.xn = Xn(form)]
                                /\ wire' = Append(wire, SetExtranonce(Xn(form)))
    BY <1>7 DEF PoolSetsExtranonce
  <2>2. /\ pool'.open /\ pool'.subscribed /\ pool'.level = pool.level
        /\ pool'.levels = pool.levels /\ pool'.xn = Xn(form)
        /\ pool'.name = pool.name /\ pool'.verdict = pool.verdict
    BY <1>1, <1>2, <2>1 DEF PoolStates
  <2>3. /\ SetExtranonce(Xn(form)).kind = "set_extranonce"
        /\ SetExtranonce(Xn(form)).xn = Xn(form)
        /\ SetExtranonce(Xn(form)) \in LinesOf(session)
    BY <1>3, <2>1 DEF SetExtranonce
  <2> QED
    BY <1>1, <2>1, <2>2, <2>3
<1>8. CASE PoolSendsNoise
  <2>1. PICK kind \in Noise : wire' = Append(wire, NoiseLine(kind)) /\ pool' = pool
    BY <1>8 DEF PoolSendsNoise
  <2>2. NoiseLine(kind).kind \in {"blank", "malformed", "overlong"}
        /\ NoiseLine(kind) \in LinesOf(session)
    BY <1>3, <2>1, FormAssumption DEF NoiseLine
  <2> QED
    BY <1>1, <2>1, <2>2
<1> QED
  BY <1>5, <1>6, <1>7, <1>8 DEF Announces

(* A closed connection: a part of the stream is left.                        *)
LEMMA Closing ==
  ASSUME Inv, PoolCloses
  PROVE  /\ UNCHANGED <<pc, recvBuffer, learned, job, session, results, verdicts>>
         /\ UNCHANGED <<connected, submitted, overtaken>> /\ outbox' = <<>>
         /\ ~pool'.open /\ pool'.name = pool.name /\ pool'.verdict = pool.verdict
         /\ Len(Stream) \in Nat /\ Len(Stream') \in Nat /\ Len(Stream') =< Len(Stream)
         /\ \A i \in 1 .. Len(Stream') : Stream'[i] = Stream[i]
         /\ Stream' # <<>> => 1 \in 1 .. Len(Stream')
         /\ Stream = <<>> => Stream' = <<>>
<1>1. /\ pool' = [pool EXCEPT !.open = FALSE] /\ wire' \in {wire, <<>>} /\ outbox' = <<>>
      /\ UNCHANGED <<pc, recvBuffer, learned, job, session, results, verdicts>>
      /\ UNCHANGED <<connected, submitted, overtaken>>
  BY DEF PoolCloses, client, jobs, conn
<1>2. /\ recvBuffer \in Seq(LinesOf(session)) /\ wire \in Seq(LinesOf(session))
      /\ pool \in PoolStates
  BY DEF Inv, Typed
<1>3. ~pool'.open /\ pool'.name = pool.name /\ pool'.verdict = pool.verdict
  BY <1>1, <1>2 DEF PoolStates
<1>4. /\ Stream \in Seq(LinesOf(session)) /\ Stream' \in Seq(LinesOf(session))
      /\ Len(Stream') =< Len(Stream) /\ \A i \in 1 .. Len(Stream') : Stream'[i] = Stream[i]
  <2>1. CASE wire' = wire
    BY <1>1, <1>2, <2>1 DEF Stream
  <2>2. CASE wire' = <<>>
    <3>1. Stream' = recvBuffer
      BY <1>1, <1>2, <2>2 DEF Stream
    <3> QED
      BY <1>2, <3>1 DEF Stream
  <2> QED
    BY <1>1, <2>1, <2>2
<1> QED
  BY <1>1, <1>3, <1>4

LEMMA Taken ==
  ASSUME Inv, TakeLine, wire' = wire
  PROVE  /\ Stream' = Tail(Stream) /\ Stream # <<>> /\ Line = Stream[1] /\ 1 \in 1 .. Len(Stream)
         /\ Len(Stream') = Len(Stream) - 1 /\ Len(Stream) \in Nat /\ Len(Stream') \in Nat
         /\ Len(Stream) = Len(Stream') + 1
         /\ \A i \in 1 .. Len(Stream') : Stream'[i] = Stream[i + 1]
<1>1. /\ Stream \in Seq(LinesOf(session)) /\ Stream # <<>> /\ Line = Stream[1]
      /\ Stream' = Tail(Stream)
  BY LineTaken
<1> QED
  BY <1>1

LEMMA Added ==
  ASSUME Inv, NEW x \in LinesOf(session), wire' = Append(wire, x), recvBuffer' = recvBuffer
  PROVE  /\ Len(Stream') = Len(Stream) + 1 /\ Len(Stream) \in Nat
         /\ \A i \in 1 .. Len(Stream) : Stream'[i] = Stream[i]
         /\ Stream'[Len(Stream) + 1] = x /\ Stream' # <<>>
         /\ Stream = <<>> => Len(Stream) = 0
         /\ Stream # <<>> => 1 \in 1 .. Len(Stream)
<1>1. Stream \in Seq(LinesOf(session)) /\ Stream' = Append(Stream, x)
  BY LineAdded
<1> QED
  BY <1>1

-------------------------------------------------------------------------------
(* The level a job is mined against                                          *)

LevelLines == {"set_target", "set_difficulty"}

(* The levels announced before a job, and not taken yet, lead from the one   *)
(* the client holds to the job's; all of them lead to the pool's.            *)
LevelsCarried ==
  /\ job.level = job.poolLevel
  /\ TargetPools = {} => poolTarget = NoTarget
  /\ InSession =>
       /\ Carried(Stream, LevelLines, "level", JobLevel)
       /\ pool.open /\ pool.levels > 0 =>
            InForce(Stream, Len(Stream), LevelLines, "level", JobLevel, pool.level)

(* Announcements of one kind: the level held is the last one taken.          *)
LEMMA LevelHeld ==
  ASSUME TargetPools \in {{}, Pools}, Line \in LinesOf(session), session \in Nat,
         HandleNotification, TargetPools = {} => poolTarget = NoTarget
  PROVE  /\ TargetPools = {} => poolTarget' = NoTarget
         /\ JobLevel' = Announced(Line, LevelLines, "level", JobLevel)
         /\ job' = job \/ (Line.kind = "notify" /\ job' = BuiltJob)
<1>1. CASE Line.kind = "set_target"
  <2>1. /\ poolTarget' = Line.level /\ job' = job /\ Line.level # 0
        /\ Line.kind \in LevelKinds
    BY <1>1, LineFields DEF HandleNotification, ReceivedTarget, jobs
  <2>2. TargetPools # {}
    BY <1>1, <2>1 DEF LevelKinds
  <2> QED
    BY <1>1, <2>1, <2>2 DEF JobLevel, NoTarget, Announced, LevelLines
<1>2. CASE Line.kind = "set_difficulty"
  <2>1. /\ difficulty' = Line.level /\ poolTarget' = poolTarget /\ job' = job
        /\ Line.kind \in LevelKinds
    BY <1>2, LineFields DEF HandleNotification, jobs
  <2>2. TargetPools = {}
    BY <1>2, <2>1 DEF LevelKinds
  <2> QED
    BY <1>2, <2>1, <2>2 DEF JobLevel, Announced, LevelLines
<1>3. CASE Line.kind \notin LevelLines
  <2>1. poolTarget' = poolTarget /\ difficulty' = difficulty
    BY <1>3 DEF HandleNotification, LevelLines, learned
  <2>2. job' = job \/ (Line.kind = "notify" /\ job' = BuiltJob)
    BY <1>3 DEF HandleNotification, LevelLines, jobs
  <2> QED
    BY <1>3, <2>1, <2>2 DEF JobLevel, Announced
<1> QED
  BY <1>1, <1>2, <1>3 DEF LevelLines

LEMMA LevelTaken ==
  ASSUME TargetPools \in {{}, Pools}, Inv, LevelsCarried, Told PROVE LevelsCarried'
<1>1. /\ TakeLine /\ wire' = wire /\ pool' = pool /\ InSession /\ HandleNotification
      /\ TargetPools = {} => poolTarget = NoTarget
  BY DEF Told, Takes, LevelsCarried, InSession
<1>2. /\ Line = Stream[1] /\ Len(Stream') \in Nat /\ Len(Stream) = Len(Stream') + 1
      /\ \A i \in 1 .. Len(Stream') : Stream'[i] = Stream[i + 1]
  BY <1>1, Taken
<1>3. Line \in LinesOf(session) /\ session \in Nat
  BY <1>1, LineTaken, CountAssumption DEF Inv, Typed, TypeOK
<1>4. /\ TargetPools = {} => poolTarget' = NoTarget
      /\ JobLevel' = Announced(Line, LevelLines, "level", JobLevel)
      /\ job' = job \/ (Line.kind = "notify" /\ job' = BuiltJob)
  BY <1>1, <1>3, LevelHeld
<1>5. Carried(Stream, LevelLines, "level", JobLevel)
  BY <1>1 DEF LevelsCarried
<1>6. /\ Carried(Stream', LevelLines, "level", JobLevel')
      /\ Line.kind = "notify" => Line["level"] = JobLevel
  BY <1>2, <1>4, <1>5, CarriedTaken DEF Notified
<1>7. job'.level = job'.poolLevel
  BY <1>4, <1>6 DEF BuiltJob, LevelsCarried
<1>8. ASSUME pool.open, pool.levels > 0
      PROVE  InForce(Stream', Len(Stream'), LevelLines, "level", JobLevel', pool.level)
  <2>1. InForce(Stream, Len(Stream') + 1, LevelLines, "level", JobLevel, pool.level)
    BY <1>1, <1>2, <1>8 DEF LevelsCarried
  <2> QED
    BY <1>2, <1>4, <2>1, ForceTaken
<1> QED
  BY <1>1, <1>4, <1>6, <1>7, <1>8 DEF LevelsCarried

LEMMA LevelSent ==
  ASSUME Inv, LevelsCarried, PoolAnswers \/ Announces PROVE LevelsCarried'
<1>1. /\ UNCHANGED <<pc, recvBuffer, learned, job>> /\ (pool'.open => pool.open)
      /\ \E x \in LinesOf(session) :
           /\ wire' = Append(wire, x)
           /\ x.kind = "notify" => x.level = pool.level /\ pool.levels > 0 /\ pool.open
           /\ IF x.kind \in LevelLines
              THEN pool'.level = x.level
              ELSE pool'.level = pool.level /\ pool'.levels = pool.levels
  <2>1. CASE PoolAnswers
    BY <2>1, Answering DEF LevelLines
  <2>2. CASE Announces
    BY <2>2, Announcing DEF LevelLines
  <2> QED
    BY <2>1, <2>2
<1>2. PICK x \in LinesOf(session) :
        /\ wire' = Append(wire, x)
        /\ x.kind = "notify" => x.level = pool.level /\ pool.levels > 0 /\ pool.open
        /\ IF x.kind \in LevelLines
           THEN pool'.level = x.level
           ELSE pool'.level = pool.level /\ pool'.levels = pool.levels
  BY <1>1
<1>3. /\ Len(Stream') = Len(Stream) + 1 /\ Len(Stream) \in Nat
      /\ \A i \in 1 .. Len(Stream) : Stream'[i] = Stream[i]
      /\ Stream'[Len(Stream) + 1] = x
  BY <1>1, <1>2, Added
<1>4. JobLevel' = JobLevel /\ job' = job /\ pc' = pc /\ poolTarget' = poolTarget
  BY <1>1 DEF JobLevel, learned
<1>5. ASSUME InSession
      PROVE  /\ Carried(Stream', LevelLines, "level", JobLevel)
             /\ x.kind \in LevelLines =>
                  InForce(Stream', Len(Stream'), LevelLines, "level", JobLevel, x["level"])
             /\ x.kind \notin LevelLines =>
                  \A v : InForce(Stream, Len(Stream), LevelLines, "level", JobLevel, v) =>
                         InForce(Stream', Len(Stream'), LevelLines, "level", JobLevel, v)
  <2>1. Carried(Stream, LevelLines, "level", JobLevel)
    BY <1>5 DEF LevelsCarried
  <2>2. x.kind = "notify" =>
          InForce(Stream, Len(Stream), LevelLines, "level", JobLevel, x["level"])
    BY <1>2, <1>5 DEF LevelsCarried
  <2> QED
    BY <1>3, <2>1, <2>2, CarriedSent
<1>6. ASSUME InSession, pool'.open, pool'.levels > 0
      PROVE  InForce(Stream', Len(Stream'), LevelLines, "level", JobLevel, pool'.level)
  <2>1. CASE x.kind \in LevelLines
    BY <1>2, <1>5, <1>6, <2>1
  <2>2. CASE x.kind \notin LevelLines
    <3>1. InForce(Stream, Len(Stream), LevelLines, "level", JobLevel, pool.level)
      BY <1>1, <1>2, <1>6, <2>2 DEF LevelsCarried
    <3> QED
      BY <1>2, <1>5, <1>6, <2>2, <3>1
  <2> QED
    BY <2>1, <2>2
<1>7. InSession' <=> InSession
  BY <1>4 DEF InSession
<1> QED
  BY <1>4, <1>5, <1>6, <1>7 DEF LevelsCarried

LEMMA LevelsKept ==
  ASSUME TargetPools \in {{}, Pools}, Inv, LevelsCarried, Steps PROVE LevelsCarried'
<1>1. CASE \E p \in Pools : Connect(p)
  <2>1. /\ UNCHANGED <<learned, job>> /\ recvBuffer' = <<>> /\ wire' = <<>> /\ pool'.levels = 0
    BY <1>1 DEF Connect, ClearedBuffer, Closed
  <2>2. Stream' = <<>>
    BY <2>1 DEF Stream
  <2>3. Carried(Stream', LevelLines, "level", JobLevel')
    BY <2>2 DEF Carried
  <2> QED
    BY <2>1, <2>3 DEF LevelsCarried, learned
<1>2. CASE Leaves
  BY <1>2 DEF Leaves, LevelsCarried, InSession, learned
<1>3. CASE Quiet
  <2>1. JobLevel' = JobLevel
    BY <1>3 DEF Quiet, Silent, JobLevel, learned
  <2> QED
    BY <1>3, <2>1 DEF Quiet, Silent, LevelsCarried, learned
<1>4. CASE SubscribeLine \/ Heard
  <2>1. /\ TakeLine /\ wire' = wire /\ pool' = pool /\ InSession /\ job' = job
        /\ UNCHANGED <<difficulty, poolTarget>>
    BY <1>4 DEF SubscribeLine, Heard, Takes, InSession, net, jobs, learned
  <2>2. Line.kind \notin LevelLines
    <3>1. Line = Stream[1] /\ Stream # <<>>
      BY <2>1, Taken
    <3>2. Line.kind = "response"
      BY <1>4, <3>1 DEF SubscribeLine, Heard, IsResponse, Inv, ResponseFirst
    <3> QED
      BY <3>2 DEF LevelLines
  <2>3. /\ Len(Stream') \in Nat /\ Len(Stream) = Len(Stream') + 1 /\ Line = Stream[1]
        /\ \A i \in 1 .. Len(Stream') : Stream'[i] = Stream[i + 1]
    BY <2>1, Taken
  <2>4. JobLevel' = JobLevel /\ Announced(Stream[1], LevelLines, "level", JobLevel) = JobLevel
    BY <2>1, <2>2, <2>3 DEF JobLevel, Announced
  <2>5. Carried(Stream', LevelLines, "level", JobLevel)
    BY <2>1, <2>3, <2>4, CarriedTaken DEF LevelsCarried
  <2>6. pool.open /\ pool.levels > 0 =>
          InForce(Stream', Len(Stream'), LevelLines, "level", JobLevel, pool.level)
    BY <2>1, <2>3, <2>4, ForceTaken DEF LevelsCarried
  <2> QED
    BY <2>1, <2>4, <2>5, <2>6 DEF LevelsCarried
<1>5. CASE PoolCloses
  <2>1. /\ UNCHANGED <<pc, learned, job>> /\ ~pool'.open
        /\ Len(Stream) \in Nat /\ Len(Stream') \in Nat /\ Len(Stream') =< Len(Stream)
        /\ \A i \in 1 .. Len(Stream') : Stream'[i] = Stream[i]
    BY <1>5, Closing
  <2>2. JobLevel' = JobLevel /\ (InSession' <=> InSession) /\ poolTarget' = poolTarget
    BY <2>1 DEF JobLevel, InSession, learned
  <2>3. InSession => Carried(Stream', LevelLines, "level", JobLevel)
    BY <2>1, CarriedKept DEF LevelsCarried
  <2> QED
    BY <2>1, <2>2, <2>3 DEF LevelsCarried
<1> QED
  BY <1>1, <1>2, <1>3, <1>4, <1>5, LevelTaken, LevelSent, Quietly DEF Steps

LEMMA LevelsAtFirst == Init => LevelsCarried
  BY DEF Init, LevelsCarried, InSession, NoJob

(* When the pools all announce targets, or all announce difficulties, a job  *)
(* is hashed against the target its pool had announced when it sent it, on   *)
(* the first connection and on every one after it.                           *)
THEOREM JobsHaveTheirTarget ==
  ASSUME TargetPools \in {{}, Pools}
  PROVE  Spec => []JobsCarryTarget
<1>1. Init => LevelsCarried
  BY LevelsAtFirst
<1>2. Inv /\ LevelsCarried /\ [Next]_vars => LevelsCarried'
  BY LevelsKept, StepKinds
<1>3. LevelsCarried => JobsCarryTarget
  BY DEF LevelsCarried, JobsCarryTarget
<1> QED
  BY <1>1, <1>2, <1>3, Invariant, PTL DEF Spec


-------------------------------------------------------------------------------
(* The answer authorize() takes for its own                                  *)

NoResponse(s, k) == \A i \in k .. Len(s) : s[i].kind # "response"
SubmitsFrom(k) == \A i \in k .. Len(outbox) : outbox[i].kind = "submit" /\ submitted > 0
Granted == pool.verdict \in {"true", "false"} \/ (pool.verdict = "other" /\ submitted > 0)

(* Of the first n lines of s one answers mining.authorize, or the answer v   *)
(* was taken and authorize() could not read it.                              *)
Ahead(s, n, v) ==
  v = "other" \/ \E k \in 1 .. n : s[k].kind = "response" /\ s[k].to = "authorize"

Unanswered ==
  /\ NoResponse(Stream, 1)
  /\ pool.open => outbox # <<>> /\ outbox[1].kind = "authorize" /\ SubmitsFrom(2)

Given ==
  /\ SubmitsFrom(1)
  /\ pool.open => Ahead(Stream, Len(Stream), pool.verdict)
  /\ \A i \in 1 .. Len(Stream) : Stream[i].kind = "response" =>
       \/ Stream[i].to = "authorize" /\ Stream[i].verdict = pool.verdict
       \/ Stream[i].to = "submit" /\ submitted > 0 /\ Ahead(Stream, i - 1, pool.verdict)

Running == pc \in {"run", "loop", "running"}

Waiting ==
  /\ pc = "connected" => outbox = <<>> /\ Stream = <<>>
  /\ pc = "subscribing" =>
       \/ outbox \in {<<>>, <<[kind |-> "subscribe"]>>} /\ Stream = <<>>
       \/ outbox = <<>> /\ NoResponse(Stream, 2)
  /\ pc = "subscribed" => outbox = <<>> /\ NoResponse(Stream, 1)
  /\ pc = "authorizing" => Unanswered \/ Given
  /\ Running => SubmitsFrom(1) /\ Granted

Awaited == "authorize" \notin overtaken => Waiting

LEMMA AwaitedAsking ==
  ASSUME Inv, Waiting,
         \/ Asks("connected", "subscribe", "subscribing")
         \/ Asks("subscribed", "authorize", "authorizing")
  PROVE  Waiting'
<1>1. outbox \in Seq(Requests) /\ Stream' = Stream /\ pool' = pool /\ submitted' = submitted
  BY DEF Inv, Typed, Asks, Silent
<1>2. CASE Asks("connected", "subscribe", "subscribing")
  <2>1. /\ outbox = <<>> /\ Stream = <<>> /\ pc' = "subscribing"
        /\ outbox' \in {outbox, Append(outbox, [kind |-> "subscribe"])}
    BY <1>2 DEF Asks, Waiting
  <2>2. outbox' \in {<<>>, <<[kind |-> "subscribe"]>>}
    BY <2>1
  <2> QED
    BY <1>1, <2>1, <2>2 DEF Waiting, Running
<1>3. CASE Asks("subscribed", "authorize", "authorizing")
  <2>1. /\ outbox = <<>> /\ NoResponse(Stream, 1) /\ pc' = "authorizing"
        /\ outbox' = IF pool.open THEN Append(outbox, [kind |-> "authorize"]) ELSE outbox
    BY <1>3 DEF Asks, Waiting
  <2>2. pool.open => outbox' # <<>> /\ outbox'[1].kind = "authorize" /\ Len(outbox') = 1
    BY <2>1
  <2>3. Unanswered'
    BY <1>1, <2>1, <2>2 DEF Unanswered, NoResponse, SubmitsFrom
  <2> QED
    BY <2>1, <2>3 DEF Waiting, Running
<1> QED
  BY <1>2, <1>3

LEMMA AwaitedStill == ASSUME Waiting, Still PROVE Waiting'
<1>1. /\ Stream' = Stream /\ UNCHANGED <<pool, outbox, submitted>>
      /\ pc' = pc \/ (pc \in {"run", "loop"} /\ pc' \in {"loop", "running"})
  BY DEF Still, Silent
<1>2. (Unanswered => Unanswered') /\ (Given => Given')
  BY <1>1 DEF Unanswered, Given, NoResponse, SubmitsFrom, Ahead
<1>3. (SubmitsFrom(1) => SubmitsFrom(1)') /\ (Granted => Granted')
  BY <1>1 DEF SubmitsFrom, Granted
<1>4. CASE pc' = pc
  BY <1>1, <1>2, <1>3, <1>4 DEF Waiting, Running, NoResponse
<1>5. CASE pc \in {"run", "loop"} /\ pc' \in {"loop", "running"}
  BY <1>3, <1>5 DEF Waiting, Running
<1> QED
  BY <1>1, <1>4, <1>5

LEMMA AwaitedSubmit ==
  ASSUME Inv, Waiting, Submits, "authorize" \notin overtaken' PROVE Waiting'
<1>1. /\ pc' = pc /\ Stream' = Stream /\ pool' = pool /\ submitted' > 0
      /\ \/ outbox' = outbox
         \/ /\ pool.open
            /\ \E r \in Requests : r.kind = "submit" /\ outbox' = Append(outbox, r)
            /\ pc \notin {"connected", "subscribing", "subscribed"}
  BY Submitting DEF Silent
<1>2. CASE outbox' = outbox
  <2>1. (Unanswered => Unanswered') /\ (Given => Given')
    BY <1>1, <1>2 DEF Unanswered, Given, NoResponse, SubmitsFrom, Ahead
  <2>2. (SubmitsFrom(1) => SubmitsFrom(1)') /\ (Granted => Granted')
    BY <1>1, <1>2 DEF SubmitsFrom, Granted
  <2> QED
    BY <1>1, <1>2, <2>1, <2>2 DEF Waiting, Running, NoResponse
<1>3. ASSUME NEW r \in Requests, r.kind = "submit", outbox' = Append(outbox, r), pool.open,
             pc \notin {"connected", "subscribing", "subscribed"}
      PROVE  Waiting'
  <2>1. /\ Len(outbox') = Len(outbox) + 1 /\ Len(outbox) \in Nat /\ outbox' # <<>>
        /\ \A i \in 1 .. Len(outbox) : outbox'[i] = outbox[i]
        /\ outbox'[Len(outbox) + 1] = r
        /\ outbox # <<>> => Len(outbox) > 0 /\ outbox'[1] = outbox[1]
    BY <1>3, Requested
  <2>2. SubmitsFrom(1) => SubmitsFrom(1)'
    <3> SUFFICES ASSUME SubmitsFrom(1), NEW i \in 1 .. Len(outbox) + 1
                 PROVE  outbox'[i].kind = "submit" /\ submitted' > 0
      BY <2>1 DEF SubmitsFrom
    <3>1. i \in 1 .. Len(outbox) \/ i = Len(outbox) + 1
      BY <2>1
    <3> QED
      BY <1>1, <1>3, <2>1, <3>1 DEF SubmitsFrom
  <2>3. outbox # <<>> /\ SubmitsFrom(2) => SubmitsFrom(2)'
    <3> SUFFICES ASSUME outbox # <<>>, SubmitsFrom(2), NEW i \in 2 .. Len(outbox) + 1
                 PROVE  outbox'[i].kind = "submit" /\ submitted' > 0
      BY <2>1 DEF SubmitsFrom
    <3>1. (i \in 2 .. Len(outbox) /\ i \in 1 .. Len(outbox)) \/ i = Len(outbox) + 1
      BY <2>1
    <3> QED
      BY <1>1, <1>3, <2>1, <3>1 DEF SubmitsFrom
  <2>4. Unanswered => Unanswered'
    BY <1>1, <1>3, <2>1, <2>3 DEF Unanswered, NoResponse
  <2>5. Given => Given'
    BY <1>1, <2>2 DEF Given, Ahead
  <2>6. Granted => Granted'
    BY <1>1 DEF Granted
  <2> QED
    BY <1>1, <1>3, <2>2, <2>4, <2>5, <2>6 DEF Waiting, Running
<1> QED
  BY <1>1, <1>2, <1>3

(* A line taken, other than the answer to mining.authorize that counts.      *)
LEMMA AheadTaken ==
  ASSUME NEW s, NEW t, NEW n \in Nat, NEW v, \A i \in 1 .. n : t[i] = s[i + 1],
         s[1].kind = "response" => v = "other", Ahead(s, n + 1, v)
  PROVE  Ahead(t, n, v)
<1>1. CASE v = "other"
  BY <1>1 DEF Ahead
<1>2. ASSUME s[1].kind # "response", NEW k \in 1 .. n + 1, s[k].kind = "response",
             s[k].to = "authorize"
      PROVE  Ahead(t, n, v)
  <2>1. k # 1
    BY <1>2
  <2>2. k - 1 \in 1 .. n /\ (k - 1) + 1 = k
    BY <2>1
  <2>3. t[k - 1] = s[k]
    BY <2>2
  <2> QED
    BY <1>2, <2>2, <2>3 DEF Ahead
<1> QED
  BY <1>1, <1>2 DEF Ahead

LEMMA AwaitedTaken ==
  ASSUME Inv, Waiting, Told \/ Heard, pc = "authorizing" PROVE Waiting'
<1>1. /\ TakeLine /\ wire' = wire /\ pool' = pool /\ outbox' = outbox /\ submitted' = submitted
      /\ pc' \in {"authorizing", "run", "disconnect"}
      /\ pc' = "run" => IsResponse /\ Grants(Line.verdict)
      /\ IsResponse /\ pc' = "authorizing" => ~Grants(Line.verdict) /\ Line.verdict # "error"
  BY DEF Told, Heard, Takes, IsNotification
<1>2. /\ Line = Stream[1] /\ 1 \in 1 .. Len(Stream)
      /\ Len(Stream) = Len(Stream') + 1 /\ Len(Stream') \in Nat
      /\ \A i \in 1 .. Len(Stream') : Stream'[i] = Stream[i + 1]
  BY <1>1, Taken
<1>3. Line \in LinesOf(session) /\ session \in Nat
  BY <1>1, LineTaken, CountAssumption DEF Inv, Typed, TypeOK
<1>4. IsResponse => Line.verdict \in Verdict \cup {"array"}
  BY <1>3, ResponseFields DEF IsResponse
<1>5. CASE Unanswered
  <2>1. ~IsResponse /\ NoResponse(Stream', 1)
    BY <1>2, <1>5 DEF Unanswered, NoResponse, IsResponse
  <2>2. pc' # "run" /\ Unanswered'
    BY <1>1, <1>5, <2>1 DEF Unanswered, SubmitsFrom
  <2> QED
    BY <1>1, <2>2 DEF Waiting, Running
<1>6. CASE Given
  <2>1. IsResponse =>
          \/ Line.to = "authorize" /\ Line.verdict = pool.verdict
          \/ submitted > 0 /\ pool.verdict = "other"
    <3>1. IsResponse =>
            \/ Line.to = "authorize" /\ Line.verdict = pool.verdict
            \/ submitted > 0 /\ Ahead(Stream, 0, pool.verdict)
      BY <1>2, <1>6 DEF Given, IsResponse
    <3>2. Ahead(Stream, 0, pool.verdict) => pool.verdict = "other"
      BY DEF Ahead
    <3> QED
      BY <3>1, <3>2
  <2>2. SubmitsFrom(1)' /\ (pool.verdict \in {"true", "false"} => Granted')
    BY <1>1, <1>6 DEF Given, SubmitsFrom, Granted
  <2>3. CASE pc' = "run"
    <3>1. pool.verdict \in Verdict \cup {"none"}
      BY VerdictAssumption DEF Inv, Typed, PoolStates
    <3>2. Granted'
      BY <1>1, <2>1, <2>3, <3>1 DEF Grants, Verdict, Granted
    <3> QED
      BY <2>2, <2>3, <3>2 DEF Waiting, Running
  <2>4. CASE pc' = "authorizing"
    <3>1. IsResponse => pool.verdict = "other"
      BY <1>1, <1>4, <2>1, <2>4 DEF Grants, Verdict
    <3>2. Stream[1].kind = "response" => pool.verdict = "other"
      BY <1>2, <3>1 DEF IsResponse
    <3>3. pool.open => Ahead(Stream', Len(Stream'), pool.verdict)
      BY <1>2, <1>6, <3>2, AheadTaken DEF Given
    <3>4. ASSUME NEW i \in 1 .. Len(Stream'), Stream'[i].kind = "response"
          PROVE  \/ Stream'[i].to = "authorize" /\ Stream'[i].verdict = pool'.verdict
                 \/ Stream'[i].to = "submit" /\ submitted' > 0 /\ Ahead(Stream', i - 1, pool'.verdict)
      <4>1. /\ i + 1 \in 1 .. Len(Stream) /\ Stream'[i] = Stream[i + 1]
            /\ i - 1 \in Nat /\ (i + 1) - 1 = (i - 1) + 1
            /\ \A j \in 1 .. i - 1 : Stream'[j] = Stream[j + 1]
        BY <1>2
      <4>2. \/ Stream'[i].to = "authorize" /\ Stream'[i].verdict = pool.verdict
            \/ /\ Stream'[i].to = "submit" /\ submitted > 0
               /\ Ahead(Stream, (i - 1) + 1, pool.verdict)
        BY <1>6, <3>4, <4>1 DEF Given
      <4>3. Ahead(Stream, (i - 1) + 1, pool.verdict) => Ahead(Stream', i - 1, pool.verdict)
        BY <3>2, <4>1, AheadTaken
      <4> QED
        BY <1>1, <4>2, <4>3
    <3>5. Given'
      BY <1>1, <2>2, <3>3, <3>4 DEF Given
    <3> QED
      BY <2>4, <3>5 DEF Waiting, Running
  <2>5. CASE pc' = "disconnect"
    BY <2>5 DEF Waiting, Running
  <2> QED
    BY <1>1, <2>3, <2>4, <2>5
<1> QED
  BY <1>5, <1>6 DEF Waiting

(* What is ahead in a stream stays there when lines are added, or lost, at   *)
(* the end.                                                                  *)
LEMMA AheadKept ==
  ASSUME NEW s, NEW t, NEW n \in Nat, NEW v, \A i \in 1 .. n : t[i] = s[i], Ahead(s, n, v)
  PROVE  Ahead(t, n, v)
  BY DEF Ahead

LEMMA AwaitedAnnounce == ASSUME Inv, Waiting, Announces PROVE Waiting'
<1>1. /\ pc' = pc /\ outbox' = outbox /\ submitted' = submitted /\ pool.open /\ pool.subscribed
      /\ pool'.open /\ pool'.verdict = pool.verdict /\ recvBuffer' = recvBuffer
      /\ \E x \in LinesOf(session) : wire' = Append(wire, x) /\ x.kind # "response"
  BY Announcing
<1>2. PICK x \in LinesOf(session) : wire' = Append(wire, x) /\ x.kind # "response"
  BY <1>1
<1>3. /\ Len(Stream') = Len(Stream) + 1 /\ Len(Stream) \in Nat
      /\ \A i \in 1 .. Len(Stream) : Stream'[i] = Stream[i]
      /\ Stream'[Len(Stream) + 1] = x
  BY <1>1, <1>2, Added
<1>4. /\ SubmitsFrom(1) => SubmitsFrom(1)'
      /\ SubmitsFrom(2) => SubmitsFrom(2)'
      /\ Granted => Granted'
  BY <1>1 DEF SubmitsFrom, Granted
<1>5. /\ NoResponse(Stream, 1) => NoResponse(Stream', 1)
      /\ NoResponse(Stream, 2) /\ Stream # <<>> => NoResponse(Stream', 2)
  <2>1. ASSUME NEW k \in {1, 2}, NoResponse(Stream, k), NEW i \in k .. Len(Stream')
        PROVE  Stream'[i].kind # "response"
    <3>1. (i \in k .. Len(Stream) /\ i \in 1 .. Len(Stream)) \/ i = Len(Stream) + 1
      BY <1>3
    <3> QED
      BY <1>2, <1>3, <2>1, <3>1 DEF NoResponse
  <2> QED
    BY <2>1 DEF NoResponse
<1>6. Unanswered => Unanswered'
  BY <1>1, <1>4, <1>5 DEF Unanswered
<1>7. ASSUME Given PROVE Given'
  <2>1. Ahead(Stream', Len(Stream), pool.verdict)
    BY <1>1, <1>3, <1>7, AheadKept DEF Given
  <2>2. Ahead(Stream', Len(Stream'), pool.verdict)
    BY <1>3, <2>1 DEF Ahead
  <2>4. ASSUME NEW i \in 1 .. Len(Stream'), Stream'[i].kind = "response"
        PROVE  \/ Stream'[i].to = "authorize" /\ Stream'[i].verdict = pool'.verdict
               \/ Stream'[i].to = "submit" /\ submitted' > 0 /\ Ahead(Stream', i - 1, pool'.verdict)
    <3>1. i \in 1 .. Len(Stream) /\ Stream'[i] = Stream[i]
      BY <1>2, <1>3, <2>4
    <3>2. i - 1 \in Nat /\ \A j \in 1 .. i - 1 : Stream'[j] = Stream[j]
      BY <1>3, <3>1
    <3>3. Ahead(Stream, i - 1, pool.verdict) => Ahead(Stream', i - 1, pool.verdict)
      BY <3>2, AheadKept
    <3> QED
      BY <1>1, <1>7, <2>4, <3>1, <3>3 DEF Given
  <2> QED
    BY <1>1, <1>4, <1>7, <2>2, <2>4 DEF Given
<1>8. pc \notin {"connected", "subscribing"} \/ Stream # <<>>
  BY <1>1 DEF Inv, ResponseFirst
<1> QED
  BY <1>1, <1>4, <1>5, <1>6, <1>7, <1>8 DEF Waiting, Running

LEMMA AwaitedClose == ASSUME Inv, Waiting, PoolCloses PROVE Waiting'
<1>1. /\ pc' = pc /\ outbox' = <<>> /\ submitted' = submitted /\ ~pool'.open
      /\ pool'.verdict = pool.verdict
      /\ Len(Stream) \in Nat /\ Len(Stream') \in Nat /\ Len(Stream') =< Len(Stream)
      /\ \A i \in 1 .. Len(Stream') : Stream'[i] = Stream[i]
      /\ Stream = <<>> => Stream' = <<>>
  BY Closing
<1>2. SubmitsFrom(1)' /\ (Granted => Granted')
  BY <1>1 DEF SubmitsFrom, Granted
<1>3. /\ NoResponse(Stream, 1) => NoResponse(Stream', 1)
      /\ NoResponse(Stream, 2) => NoResponse(Stream', 2)
  <2>1. ASSUME NEW k \in {1, 2}, NoResponse(Stream, k), NEW i \in k .. Len(Stream')
        PROVE  Stream'[i].kind # "response"
    <3>1. i \in k .. Len(Stream) /\ i \in 1 .. Len(Stream')
      BY <1>1
    <3> QED
      BY <1>1, <2>1, <3>1 DEF NoResponse
  <2> QED
    BY <2>1 DEF NoResponse
<1>4. Unanswered => Unanswered'
  BY <1>1, <1>3 DEF Unanswered
<1>5. ASSUME Given, NEW i \in 1 .. Len(Stream'), Stream'[i].kind = "response"
      PROVE  \/ Stream'[i].to = "authorize" /\ Stream'[i].verdict = pool'.verdict
             \/ Stream'[i].to = "submit" /\ submitted' > 0 /\ Ahead(Stream', i - 1, pool'.verdict)
  <2>1. i \in 1 .. Len(Stream) /\ Stream'[i] = Stream[i]
    BY <1>1
  <2>2. i - 1 \in Nat /\ \A j \in 1 .. i - 1 : Stream'[j] = Stream[j]
    BY <1>1
  <2>3. Ahead(Stream, i - 1, pool.verdict) => Ahead(Stream', i - 1, pool.verdict)
    BY <2>2, AheadKept
  <2> QED
    BY <1>1, <1>5, <2>1, <2>3 DEF Given
<1>6. Given => Given'
  BY <1>1, <1>2, <1>5 DEF Given
<1> QED
  BY <1>1, <1>2, <1>3, <1>4, <1>6 DEF Waiting, Running

LEMMA AwaitedAnswer == ASSUME Inv, Waiting, PoolAnswers PROVE Waiting'
<1>1. /\ pc' = pc /\ recvBuffer' = recvBuffer /\ submitted' = submitted /\ pool'.open /\ pool.open
      /\ outbox # <<>> /\ outbox' = Tail(outbox)
      /\ \E x \in LinesOf(session) :
           /\ wire' = Append(wire, x) /\ x.kind = "response" /\ x.to = Head(outbox).kind
           /\ x.to = "authorize" => pool'.verdict = x.verdict
           /\ x.to = "submit" => pool'.verdict = pool.verdict
  BY Answering
<1>2. PICK x \in LinesOf(session) :
        /\ wire' = Append(wire, x) /\ x.kind = "response" /\ x.to = Head(outbox).kind
        /\ x.to = "authorize" => pool'.verdict = x.verdict
        /\ x.to = "submit" => pool'.verdict = pool.verdict
  BY <1>1
<1>3. /\ Len(Stream') = Len(Stream) + 1 /\ Len(Stream) \in Nat
      /\ \A i \in 1 .. Len(Stream) : Stream'[i] = Stream[i]
      /\ Stream'[Len(Stream) + 1] = x
      /\ Stream = <<>> => Len(Stream) = 0
  BY <1>1, <1>2, Added
<1>4. /\ Head(outbox) = outbox[1] /\ 1 \in 1 .. Len(outbox) /\ Len(outbox) \in Nat
      /\ Len(outbox) = Len(outbox') + 1 /\ Len(outbox') \in Nat
      /\ \A i \in 1 .. Len(outbox') : outbox'[i] = outbox[i + 1]
  BY <1>1, RequestTaken
<1>5. SubmitsFrom(2) => SubmitsFrom(1)'
  <2> SUFFICES ASSUME SubmitsFrom(2), NEW i \in 1 .. Len(outbox')
               PROVE  outbox'[i].kind = "submit" /\ submitted' > 0
    BY DEF SubmitsFrom
  <2>1. i + 1 \in 2 .. Len(outbox) /\ outbox'[i] = outbox[i + 1]
    BY <1>4
  <2> QED
    BY <1>1, <2>1 DEF SubmitsFrom
<1>6. SubmitsFrom(1) => SubmitsFrom(2) /\ x.to = "submit" /\ submitted > 0
  BY <1>2, <1>4 DEF SubmitsFrom
<1>7. CASE pc \in {"connected", "subscribed"}
  BY <1>1, <1>7 DEF Waiting
<1>8. CASE pc = "subscribing"
  <2>1. Stream = <<>> /\ outbox = <<[kind |-> "subscribe"]>>
    BY <1>1, <1>8 DEF Waiting
  <2>2. outbox' = <<>> /\ NoResponse(Stream', 2)
    BY <1>1, <1>3, <2>1 DEF NoResponse
  <2> QED
    BY <1>1, <1>8, <2>2 DEF Waiting, Running
<1>9. CASE pc = "authorizing"
  <2>1. Given'
    <3>1. SubmitsFrom(1)'
      BY <1>1, <1>5, <1>6, <1>9 DEF Waiting, Unanswered, Given
    <3>2. Ahead(Stream', Len(Stream'), pool'.verdict)
      <4>1. CASE Unanswered
        <5>1. x.to = "authorize" /\ Len(Stream) + 1 \in 1 .. Len(Stream')
          BY <1>1, <1>2, <1>3, <1>4, <4>1 DEF Unanswered
        <5> QED
          BY <1>2, <1>3, <5>1 DEF Ahead
      <4>2. CASE Given
        <5>1. pool'.verdict = pool.verdict /\ Ahead(Stream, Len(Stream), pool.verdict)
          BY <1>1, <1>2, <1>6, <4>2 DEF Given
        <5>2. Ahead(Stream', Len(Stream), pool.verdict)
          BY <1>3, <5>1, AheadKept
        <5> QED
          BY <1>3, <5>1, <5>2 DEF Ahead
      <4> QED
        BY <1>9, <4>1, <4>2 DEF Waiting
    <3>3. ASSUME NEW i \in 1 .. Len(Stream'), Stream'[i].kind = "response"
          PROVE  \/ Stream'[i].to = "authorize" /\ Stream'[i].verdict = pool'.verdict
                 \/ /\ Stream'[i].to = "submit" /\ submitted' > 0
                    /\ Ahead(Stream', i - 1, pool'.verdict)
      <4>1. CASE Unanswered
        <5>1. i = Len(Stream) + 1
          BY <1>3, <3>3, <4>1 DEF Unanswered, NoResponse
        <5>2. x.to = "authorize"
          BY <1>1, <1>2, <1>4, <4>1 DEF Unanswered
        <5> QED
          BY <1>2, <1>3, <5>1, <5>2
      <4>2. CASE Given
        <5>1. /\ x.to = "submit" /\ submitted' > 0 /\ pool'.verdict = pool.verdict
              /\ Ahead(Stream, Len(Stream), pool.verdict)
          BY <1>1, <1>2, <1>6, <4>2 DEF Given
        <5>2. CASE i = Len(Stream) + 1
          <6>1. i - 1 = Len(Stream)
            BY <1>3, <5>2
          <6>2. Ahead(Stream', Len(Stream), pool.verdict)
            BY <1>3, <5>1, AheadKept
          <6>3. Ahead(Stream', i - 1, pool'.verdict)
            BY <5>1, <6>1, <6>2
          <6> QED
            BY <1>3, <5>1, <5>2, <6>3
        <5>3. CASE i \in 1 .. Len(Stream)
          <6>1. i - 1 \in Nat /\ \A j \in 1 .. i - 1 : Stream'[j] = Stream[j]
            BY <1>3, <5>3
          <6>2. Ahead(Stream, i - 1, pool.verdict) => Ahead(Stream', i - 1, pool.verdict)
            BY <6>1, AheadKept
          <6> QED
            BY <1>1, <1>3, <3>3, <4>2, <5>1, <5>3, <6>2 DEF Given
        <5> QED
          BY <1>3, <5>2, <5>3
      <4> QED
        BY <1>9, <4>1, <4>2 DEF Waiting
    <3> QED
      BY <1>1, <3>1, <3>2, <3>3 DEF Given
  <2> QED
    BY <1>1, <1>9, <2>1 DEF Waiting, Running
<1>10. CASE Running
  <2>1. SubmitsFrom(1)' /\ pool'.verdict = pool.verdict /\ Granted
    BY <1>2, <1>5, <1>6, <1>10 DEF Waiting
  <2>2. Granted'
    BY <1>1, <2>1 DEF Granted
  <2> QED
    BY <1>1, <1>10, <2>1, <2>2 DEF Waiting, Running
<1>11. CASE pc \in {"idle", "disconnect"}
  BY <1>1, <1>11 DEF Waiting, Running
<1>12. pc \in {"idle", "connected", "subscribing", "subscribed", "authorizing", "run", "loop",
               "running", "disconnect"}
  BY DEF Inv, Typed, TypeOK
<1> QED
  BY <1>7, <1>8, <1>9, <1>10, <1>11, <1>12 DEF Running

LEMMA AwaitedKept == ASSUME Inv, Awaited, Steps PROVE Awaited'
<1> SUFFICES ASSUME "authorize" \notin overtaken' PROVE Waiting'
  BY DEF Awaited
<1>1. CASE \E p \in Pools : Connect(p)
  <2>1. pc' = "connected" /\ outbox' = <<>> /\ recvBuffer' = <<>> /\ wire' = <<>>
    BY <1>1 DEF Connect, ClearedBuffer
  <2>2. Stream' = <<>>
    BY <2>1 DEF Stream
  <2> QED
    BY <2>1, <2>2 DEF Waiting, Running
<1>2. ASSUME ~ \E p \in Pools : Connect(p) PROVE "authorize" \notin overtaken
  <2>1. overtaken \subseteq overtaken'
    BY <1>2, Submitting, Answering, Announcing, Closing
    DEF Steps, SubscribeLine, Asks, Leaves, Still, Told, Heard, Takes, shares
  <2> QED
    BY <2>1
<1>3. ASSUME ~ \E p \in Pools : Connect(p) PROVE Waiting
  BY <1>2, <1>3 DEF Awaited
<1>4. CASE SubscribeLine /\ Waiting
  <2>1. TakeLine /\ wire' = wire /\ pc = "subscribing" /\ pc' = "subscribed" /\ outbox' = outbox
    BY <1>4 DEF SubscribeLine, net
  <2>2. /\ Stream # <<>> /\ Len(Stream) = Len(Stream') + 1 /\ Len(Stream') \in Nat
        /\ \A i \in 1 .. Len(Stream') : Stream'[i] = Stream[i + 1]
    BY <2>1, Taken
  <2>3. outbox = <<>> /\ NoResponse(Stream, 2)
    BY <1>4, <2>1, <2>2 DEF Waiting
  <2>4. NoResponse(Stream', 1)
    <3> SUFFICES ASSUME NEW i \in 1 .. Len(Stream') PROVE Stream'[i].kind # "response"
      BY DEF NoResponse
    <3>1. i + 1 \in 2 .. Len(Stream)
      BY <2>2
    <3> QED
      BY <2>2, <2>3, <3>1 DEF NoResponse
  <2> QED
    BY <2>1, <2>3, <2>4 DEF Waiting, Running
<1>5. CASE Leaves
  BY <1>5 DEF Leaves, Waiting, Running
<1>6. CASE (Told \/ Heard) /\ Waiting /\ pc # "authorizing"
  <2>1. pc = "running" /\ pc' = "loop" /\ UNCHANGED <<pool, outbox, submitted>>
    BY <1>6 DEF Told, Heard, Takes
  <2>2. SubmitsFrom(1)' /\ Granted'
    BY <1>6, <2>1 DEF Waiting, Running, SubmitsFrom, Granted
  <2> QED
    BY <2>1, <2>2 DEF Waiting, Running
<1> QED
  BY <1>1, <1>3, <1>4, <1>5, <1>6, AwaitedAsking, AwaitedStill, AwaitedSubmit, AwaitedTaken,
     AwaitedAnswer, AwaitedAnnounce, AwaitedClose DEF Steps

LEMMA AwaitedAtFirst == Init => Awaited
  BY DEF Init, Awaited, Waiting, Running

LEMMA AwaitedHolds == Awaited => RunsAuthorized
  BY DEF Awaited, Waiting, Running, Granted, RunsAuthorized

(* run() is entered only on a session whose authorization the pool has       *)
(* granted, or refused in the form authorize() takes for success: the answer *)
(* is never that of an earlier session, nor that to another request, unless  *)
(* a share was sent ahead of mining.authorize, or one is answered after an   *)
(* answer authorize() cannot read.                                           *)
THEOREM AuthorizedBeforeRun == Spec => []RunsAuthorized
<1>1. Inv /\ Awaited /\ [Next]_vars => Awaited'
  BY AwaitedKept, StepKinds
<1> QED
  BY <1>1, AwaitedAtFirst, AwaitedHolds, Invariant, PTL DEF Spec

-------------------------------------------------------------------------------
(* The answer subscribe() takes for its own                                  *)

NotAsked(k) == \A i \in k .. Len(outbox) : outbox[i].kind # "subscribe"
Unheard == pc = "connected" \/ (pc = "subscribing" /\ Stream = <<>>)

(* If no share went before mining.subscribe, the first line is its answer,   *)
(* and it is not asked again.                                                *)
SubscribeAnswered ==
  "subscribe" \notin overtaken =>
    /\ pc = "connected" => outbox = <<>> /\ Stream = <<>>
    /\ pc = "subscribing" /\ Stream = <<>> /\ pool.open =>
         outbox # <<>> /\ outbox[1].kind = "subscribe" /\ NotAsked(2)
    /\ pc = "subscribing" /\ Stream # <<>> =>
         Stream[1].kind = "response" /\ Stream[1].to = "subscribe"
    /\ InSession /\ ~Unheard => NotAsked(1)

LEMMA NotAskedKept ==
  ASSUME Inv, NEW k \in {1, 2}, NEW r \in Requests, r.kind # "subscribe",
         outbox' = Append(outbox, r), NotAsked(k), k = 1 \/ outbox # <<>>
  PROVE  NotAsked(k)'
<1>1. /\ Len(outbox') = Len(outbox) + 1 /\ Len(outbox) \in Nat
      /\ \A i \in 1 .. Len(outbox) : outbox'[i] = outbox[i]
      /\ outbox'[Len(outbox) + 1] = r
      /\ outbox # <<>> => Len(outbox) > 0
  BY Requested
<1>2. ASSUME NEW i \in k .. Len(outbox') PROVE outbox'[i].kind # "subscribe"
  <2>1. (i \in k .. Len(outbox) /\ i \in 1 .. Len(outbox)) \/ i = Len(outbox) + 1
    BY <1>1
  <2> QED
    BY <1>1, <2>1 DEF NotAsked
<1> QED
  BY <1>2 DEF NotAsked

LEMMA SubscribeAsked ==
  ASSUME Inv, SubscribeAnswered, "subscribe" \notin overtaken,
         \/ Asks("connected", "subscribe", "subscribing")
         \/ Asks("subscribed", "authorize", "authorizing")
  PROVE  SubscribeAnswered'
<1>1. Stream' = Stream /\ pool' = pool /\ outbox \in Seq(Requests)
  BY DEF Asks, Silent, Inv, Typed
<1>2. CASE Asks("connected", "subscribe", "subscribing")
  <2>1. /\ outbox = <<>> /\ Stream = <<>> /\ pc' = "subscribing"
        /\ pool.open => outbox' = Append(outbox, [kind |-> "subscribe"])
    BY <1>2 DEF Asks, SubscribeAnswered
  <2>2. pool.open => outbox' # <<>> /\ outbox'[1].kind = "subscribe" /\ Len(outbox') = 1
    BY <2>1
  <2>3. ASSUME pool.open PROVE NotAsked(2)'
    <3>1. Len(outbox') = 1
      BY <2>2, <2>3
    <3>2. \A i \in 2 .. 1 : FALSE
      OBVIOUS
    <3> QED
      BY <3>1, <3>2 DEF NotAsked
  <2> QED
    BY <1>1, <2>1, <2>2, <2>3 DEF SubscribeAnswered, Unheard
<1>3. CASE Asks("subscribed", "authorize", "authorizing")
  <2>1. /\ NotAsked(1) /\ pc' = "authorizing" /\ [kind |-> "authorize"] \in Requests
        /\ outbox' = outbox \/ outbox' = Append(outbox, [kind |-> "authorize"])
    BY <1>3 DEF Asks, SubscribeAnswered, InSession, Unheard, Requests
  <2>2. NotAsked(1)'
    BY <2>1, NotAskedKept DEF NotAsked
  <2> QED
    BY <2>1, <2>2 DEF SubscribeAnswered, InSession
<1> QED
  BY <1>2, <1>3

LEMMA SubscribeShared ==
  ASSUME Inv, SubscribeAnswered, Submits, "subscribe" \notin overtaken' PROVE SubscribeAnswered'
<1>1. /\ pc' = pc /\ Stream' = Stream /\ pool' = pool /\ "subscribe" \notin overtaken
      /\ \/ outbox' = outbox
         \/ /\ pool.open /\ pc # "connected"
            /\ \E r \in Requests : r.kind = "submit" /\ outbox' = Append(outbox, r)
  BY Submitting DEF Silent
<1>2. CASE outbox' = outbox
  BY <1>1, <1>2 DEF SubscribeAnswered, NotAsked, InSession, Unheard
<1>3. ASSUME NEW r \in Requests, r.kind = "submit", outbox' = Append(outbox, r), pool.open,
             pc # "connected"
      PROVE  SubscribeAnswered'
  <2>1. NotAsked(1) => NotAsked(1)'
    BY <1>3, NotAskedKept
  <2>2. outbox # <<>> /\ NotAsked(2) => NotAsked(2)'
    BY <1>3, NotAskedKept
  <2>3. outbox # <<>> => outbox' # <<>> /\ outbox'[1] = outbox[1]
    BY <1>3, Requested
  <2> QED
    BY <1>1, <1>3, <2>1, <2>2, <2>3 DEF SubscribeAnswered, InSession, Unheard
<1> QED
  BY <1>1, <1>2, <1>3

LEMMA SubscribeSent ==
  ASSUME Inv, SubscribeAnswered, "subscribe" \notin overtaken, PoolAnswers \/ Announces
  PROVE  SubscribeAnswered'
<1>1. CASE PoolAnswers
  <2>1. /\ pc' = pc /\ recvBuffer' = recvBuffer /\ pool.open
        /\ outbox # <<>> /\ outbox' = Tail(outbox)
        /\ \E x \in LinesOf(session) :
             wire' = Append(wire, x) /\ x.kind = "response" /\ x.to = Head(outbox).kind
    BY <1>1, Answering
  <2>2. PICK x \in LinesOf(session) :
          wire' = Append(wire, x) /\ x.kind = "response" /\ x.to = Head(outbox).kind
    BY <2>1
  <2>3. /\ \A i \in 1 .. Len(Stream) : Stream'[i] = Stream[i]
        /\ Stream'[Len(Stream) + 1] = x /\ Stream' # <<>>
        /\ Stream = <<>> => Len(Stream) = 0
        /\ Stream # <<>> => 1 \in 1 .. Len(Stream)
    BY <2>1, <2>2, Added
  <2>4. /\ Head(outbox) = outbox[1] /\ 1 \in 1 .. Len(outbox)
        /\ Len(outbox) = Len(outbox') + 1 /\ Len(outbox') \in Nat
        /\ \A i \in 1 .. Len(outbox') : outbox'[i] = outbox[i + 1]
    BY <2>1, RequestTaken
  <2>5. /\ NotAsked(1) => NotAsked(2)
        /\ NotAsked(2) => NotAsked(1)'
    <3>1. \A i \in 2 .. Len(outbox) : i \in 1 .. Len(outbox)
      OBVIOUS
    <3>2. \A i \in 1 .. Len(outbox') : i + 1 \in 2 .. Len(outbox)
      BY <2>4
    <3> QED
      BY <2>4, <3>1, <3>2 DEF NotAsked
  <2>6. InSession => pc # "connected" /\ NotAsked(1)'
    BY <2>1, <2>5 DEF SubscribeAnswered, Unheard
  <2>7. pc = "subscribing" => Stream'[1].kind = "response" /\ Stream'[1].to = "subscribe"
    BY <2>1, <2>2, <2>3, <2>4 DEF SubscribeAnswered
  <2> QED
    BY <2>1, <2>3, <2>6, <2>7 DEF SubscribeAnswered, InSession
<1>2. CASE Announces
  <2>1. /\ pc' = pc /\ recvBuffer' = recvBuffer /\ pool.open /\ pool.subscribed /\ outbox' = outbox
        /\ \E x \in LinesOf(session) : wire' = Append(wire, x)
    BY <1>2, Announcing
  <2>2. pc \in {"connected", "subscribing"} => Stream # <<>>
    BY <2>1 DEF Inv, ResponseFirst
  <2>3. Stream' # <<>> /\ (Stream # <<>> => Stream'[1] = Stream[1])
    BY <2>1, Added
  <2> QED
    BY <2>1, <2>2, <2>3 DEF SubscribeAnswered, NotAsked, InSession, Unheard
<1> QED
  BY <1>1, <1>2

LEMMA SubscribeKept == ASSUME Inv, SubscribeAnswered, Steps PROVE SubscribeAnswered'
<1> SUFFICES ASSUME "subscribe" \notin overtaken' PROVE SubscribeAnswered'
  BY DEF SubscribeAnswered
<1>1. CASE \E p \in Pools : Connect(p)
  <2>1. pc' = "connected" /\ outbox' = <<>> /\ recvBuffer' = <<>> /\ wire' = <<>>
    BY <1>1 DEF Connect, ClearedBuffer
  <2>2. Stream' = <<>>
    BY <2>1 DEF Stream
  <2> QED
    BY <2>1, <2>2 DEF SubscribeAnswered, Unheard
<1>2. ASSUME ~ \E p \in Pools : Connect(p) PROVE "subscribe" \notin overtaken
  <2>1. overtaken \subseteq overtaken'
    BY <1>2, Submitting, Answering, Announcing, Closing
    DEF Steps, SubscribeLine, Asks, Leaves, Still, Told, Heard, Takes, shares
  <2> QED
    BY <2>1
<1>3. CASE SubscribeLine /\ "subscribe" \notin overtaken
  <2>1. TakeLine /\ wire' = wire /\ pc = "subscribing" /\ pc' = "subscribed" /\ outbox' = outbox
    BY <1>3 DEF SubscribeLine, net
  <2>2. Stream # <<>>
    BY <2>1, Taken
  <2>3. NotAsked(1)
    BY <1>3, <2>1, <2>2 DEF SubscribeAnswered, InSession, Unheard
  <2> QED
    BY <2>1, <2>3 DEF SubscribeAnswered, NotAsked
<1>4. CASE Leaves
  BY <1>4 DEF Leaves, SubscribeAnswered, InSession
<1>5. CASE (Still \/ Told \/ Heard) /\ "subscribe" \notin overtaken
  <2>1. CASE Still /\ pc' = pc
    BY <1>5, <2>1 DEF Still, Silent, SubscribeAnswered, NotAsked, InSession, Unheard
  <2>2. CASE ~(Still /\ pc' = pc)
    <3>1. /\ pc \in {"authorizing", "running", "run", "loop"} /\ outbox' = outbox
          /\ pc' \notin {"connected", "subscribing"}
      BY <1>5, <2>2 DEF Still, Told, Heard, Takes
    <3> QED
      BY <1>5, <3>1 DEF SubscribeAnswered, NotAsked, InSession, Unheard
  <2> QED
    BY <2>1, <2>2
<1>6. CASE PoolCloses /\ "subscribe" \notin overtaken
  <2>1. /\ pc' = pc /\ outbox' = <<>> /\ ~pool'.open
        /\ \A i \in 1 .. Len(Stream') : Stream'[i] = Stream[i]
        /\ Stream' # <<>> => 1 \in 1 .. Len(Stream')
        /\ Stream = <<>> => Stream' = <<>>
    BY <1>6, Closing
  <2>2. NotAsked(1)'
    BY <2>1 DEF NotAsked
  <2> QED
    BY <1>6, <2>1, <2>2 DEF SubscribeAnswered
<1> QED
  BY <1>1, <1>2, <1>3, <1>4, <1>5, <1>6, SubscribeAsked, SubscribeShared, SubscribeSent DEF Steps

-------------------------------------------------------------------------------
(* The extranonce a job is mined with                                        *)

XnLines == {"set_extranonce"}

(* The extranonce the client holds, or has yet to take from the answer to    *)
(* mining.subscribe.                                                         *)
HandedXn == IF Early THEN Xn("answer") ELSE extranonce1

(* Nothing has kept subscribe() from the extranonce of this session.         *)
Ordered == "subscribe" \notin overtaken /\ (pool.name \in ArrayPools \/ session = 1)

(* The changes announced before a job, and not taken yet, lead from v to the *)
(* job's extranonce; all of them lead to the pool's.                         *)
XnHanded(v) ==
  /\ v.form = "positional" \/ HandedXn = v
  /\ Carried(Stream, XnLines, "xn", v)
  /\ pool.open /\ pool.subscribed => InForce(Stream, Len(Stream), XnLines, "xn", v, pool.xn)

XnCarried ==
  /\ session = 0 \/ (session = 1 /\ Early) => extranonce1 = NoXn
  /\ JobsCarryExtranonce
  /\ InSession /\ Ordered => \E v : XnHanded(v)

(* A line is taken after subscribe(), or by it.                              *)
LEMMA XnTaken ==
  ASSUME Inv, NEW v, XnHanded(v), TakeLine, wire' = wire, pool' = pool,
         NEW w, w = Announced(Line, XnLines, "xn", v), w.form = "positional" \/ HandedXn' = w
  PROVE  /\ XnHanded(w)'
         /\ Line.kind = "notify" => Line.xn = v
<1>1. /\ Line = Stream[1] /\ Len(Stream') \in Nat /\ Len(Stream) = Len(Stream') + 1
      /\ \A i \in 1 .. Len(Stream') : Stream'[i] = Stream[i + 1]
  BY Taken
<1>2. Carried(Stream, XnLines, "xn", v)
  BY DEF XnHanded
<1>3. /\ Carried(Stream', XnLines, "xn", w)
      /\ Line.kind = "notify" => Line["xn"] = v
  BY <1>1, <1>2, CarriedTaken DEF Notified
<1>4. ASSUME pool.open, pool.subscribed
      PROVE  InForce(Stream', Len(Stream'), XnLines, "xn", w, pool.xn)
  <2>1. InForce(Stream, Len(Stream') + 1, XnLines, "xn", v, pool.xn)
    BY <1>1, <1>4 DEF XnHanded
  <2> QED
    BY <1>1, <2>1, ForceTaken
<1> QED
  BY <1>3, <1>4 DEF XnHanded

LEMMA XnTold == ASSUME Inv, XnCarried, Told PROVE XnCarried'
<1>1. /\ TakeLine /\ HandleNotification /\ InSession /\ ~Early /\ ~Early' /\ session # 0
      /\ UNCHANGED <<wire, pool, session, overtaken, connected>> /\ connected
  BY DEF Told, Takes, InSession, Early, TakeLine, Receiving, Inv, Typed, TypeOK
<1>2. CASE Ordered
  <2>1. PICK v : XnHanded(v)
    BY <1>1, <1>2 DEF XnCarried
  <2>2. PICK w : w = Announced(Line, XnLines, "xn", v)
    OBVIOUS
  <2>3. w.form = "positional" \/ HandedXn' = w
    <3>1. v.form = "positional" \/ extranonce1 = v
      BY <1>1, <2>1 DEF XnHanded, HandedXn
    <3>2. CASE Line.kind = "set_extranonce"
      <4>1. /\ w = Line.xn
            /\ extranonce1' = IF Line.xn.form = "positional" THEN extranonce1 ELSE Line.xn
        BY <1>1, <2>2, <3>2 DEF HandleNotification, Announced, XnLines
      <4> QED
        BY <1>1, <4>1 DEF HandedXn
    <3>3. CASE Line.kind # "set_extranonce"
      <4>1. w = v /\ extranonce1' = extranonce1
        BY <1>1, <2>2, <3>3 DEF HandleNotification, Announced, XnLines, learned
      <4> QED
        BY <1>1, <3>1, <4>1 DEF HandedXn
    <3> QED
      BY <3>2, <3>3
  <2>4. XnHanded(w)' /\ (Line.kind = "notify" => Line.xn = v)
    BY <1>1, <2>1, <2>2, <2>3, XnTaken
  <2>5. JobsCarryExtranonce'
    <3>1. CASE job' = job
      BY <1>1, <3>1 DEF XnCarried, JobsCarryExtranonce
    <3>2. CASE Line.kind = "notify" /\ job' = BuiltJob
      <4>1. job'.xn = extranonce1 /\ job'.poolXn = v
        BY <2>4, <3>2 DEF BuiltJob
      <4>2. v.form = "positional" \/ extranonce1 = v
        BY <1>1, <2>1 DEF XnHanded, HandedXn
      <4> QED
        BY <4>1, <4>2 DEF JobsCarryExtranonce
    <3> QED
      BY <1>1, <3>1, <3>2 DEF HandleNotification, jobs
  <2> QED
    BY <1>1, <2>4, <2>5 DEF XnCarried
<1>3. CASE ~Ordered
  BY <1>1, <1>3 DEF Ordered, XnCarried, JobsCarryExtranonce
<1> QED
  BY <1>2, <1>3

LEMMA XnSent ==
  ASSUME Inv, SubscribeAnswered, XnCarried, PoolAnswers \/ Announces PROVE XnCarried'
<1>1. /\ UNCHANGED <<pc, recvBuffer, learned, job, session, connected, overtaken>>
      /\ pool.open /\ pool'.name = pool.name
  BY Answering, Announcing
<1>2. /\ extranonce1' = extranonce1 /\ (Early' <=> Early) /\ (InSession' <=> InSession)
      /\ HandedXn' = HandedXn /\ (Ordered' <=> Ordered)
  BY <1>1 DEF learned, Early, InSession, HandedXn, Xn, Ordered
<1>3. JobsCarryExtranonce'
  BY <1>1 DEF XnCarried, JobsCarryExtranonce
<1>4. ASSUME InSession, Ordered PROVE \E v : XnHanded(v)'
  <2>1. PICK v : XnHanded(v)
    BY <1>4 DEF XnCarried
  <2>2. CASE PoolAnswers /\ Head(outbox).kind = "subscribe"
    <3>1. PICK x \in LinesOf(session) : wire' = Append(wire, x) /\ x.kind = "response"
      BY <2>2, Answering
    <3>2. pool'.xn = Xn("answer") /\ outbox # <<>> /\ Head(outbox) = outbox[1] /\ 1 \in 1 .. Len(outbox)
      BY <2>2, Answering, RequestTaken
    <3>3. ~NotAsked(1)
      BY <2>2, <3>2 DEF NotAsked
    <3>4. pc = "subscribing" /\ Stream = <<>>
      BY <1>4, <3>2, <3>3 DEF SubscribeAnswered, Unheard, Ordered
    <3>5. Len(Stream') = 1 /\ Stream'[1] = x
      BY <1>1, <3>1, <3>4, Added
    <3>6. /\ Carried(Stream', XnLines, "xn", Xn("answer"))
          /\ InForce(Stream', Len(Stream'), XnLines, "xn", Xn("answer"), Xn("answer"))
      <4>1. \A i \in 1 .. Len(Stream') : Stream'[i].kind = "response"
        BY <3>1, <3>5
      <4> QED
        BY <4>1 DEF Carried, InForce, Notified, XnLines
    <3>7. HandedXn = Xn("answer")
      BY <3>4 DEF HandedXn, Early
    <3>8. PICK w : w = Xn("answer")
      OBVIOUS
    <3>9. XnHanded(w)'
      BY <1>2, <3>2, <3>6, <3>7, <3>8 DEF XnHanded
    <3> QED
      BY <3>9
  <2>3. CASE ~(PoolAnswers /\ Head(outbox).kind = "subscribe")
    <3>1. /\ pool'.subscribed = pool.subscribed
          /\ \E x \in LinesOf(session) :
               /\ wire' = Append(wire, x)
               /\ x.kind = "notify" => x.xn = pool.xn /\ pool.subscribed
               /\ pool'.xn = IF x.kind \in XnLines THEN x.xn ELSE pool.xn
      <4>1. CASE PoolAnswers
        BY <2>3, <4>1, Answering DEF XnLines
      <4>2. CASE Announces
        BY <4>2, Announcing DEF XnLines
      <4> QED
        BY <4>1, <4>2
    <3>2. PICK x \in LinesOf(session) :
            /\ wire' = Append(wire, x)
            /\ x.kind = "notify" => x.xn = pool.xn /\ pool.subscribed
            /\ pool'.xn = IF x.kind \in XnLines THEN x.xn ELSE pool.xn
      BY <3>1
    <3>3. /\ Len(Stream') = Len(Stream) + 1 /\ Len(Stream) \in Nat
          /\ \A i \in 1 .. Len(Stream) : Stream'[i] = Stream[i]
          /\ Stream'[Len(Stream) + 1] = x
      BY <1>1, <3>2, Added
    <3>4. /\ Carried(Stream', XnLines, "xn", v)
          /\ x.kind \in XnLines => InForce(Stream', Len(Stream'), XnLines, "xn", v, x["xn"])
          /\ x.kind \notin XnLines =>
               \A u : InForce(Stream, Len(Stream), XnLines, "xn", v, u) =>
                      InForce(Stream', Len(Stream'), XnLines, "xn", v, u)
      <4>1. Carried(Stream, XnLines, "xn", v)
        BY <2>1 DEF XnHanded
      <4>2. x.kind = "notify" => InForce(Stream, Len(Stream), XnLines, "xn", v, x["xn"])
        BY <1>1, <2>1, <3>2 DEF XnHanded
      <4> QED
        BY <3>3, <4>1, <4>2, CarriedSent
    <3>5. XnHanded(v)'
      <4>1. v.form = "positional" \/ HandedXn' = v
        BY <1>2, <2>1 DEF XnHanded
      <4>2. pool.subscribed => InForce(Stream', Len(Stream'), XnLines, "xn", v, pool'.xn)
        <5>1. pool.subscribed => InForce(Stream, Len(Stream), XnLines, "xn", v, pool.xn)
          BY <1>1, <2>1 DEF XnHanded
        <5> QED
          BY <3>2, <3>4, <5>1
      <4> QED
        BY <3>1, <3>4, <4>1, <4>2 DEF XnHanded
    <3> QED
      BY <3>5
  <2> QED
    BY <2>2, <2>3
<1> QED
  BY <1>1, <1>2, <1>3, <1>4 DEF XnCarried

LEMMA XnSubscribed == ASSUME Inv, SubscribeAnswered, XnCarried, SubscribeLine PROVE XnCarried'
<1>1. /\ TakeLine /\ wire' = wire /\ pool' = pool /\ session' = session /\ connected' = connected
      /\ overtaken' = overtaken /\ job' = job /\ pc = "subscribing" /\ pc' = "subscribed"
      /\ extranonce1' = ExtranonceIn(Line) /\ session # 0
  BY DEF SubscribeLine, TakeLine, Receiving, net, shares, jobs, conn, Inv, Typed, TypeOK
<1>2. JobsCarryExtranonce'
  BY <1>1 DEF XnCarried, JobsCarryExtranonce
<1>3. ASSUME Ordered PROVE \E v : XnHanded(v)'
  <2>1. PICK v : XnHanded(v)
    BY <1>1, <1>3 DEF XnCarried, InSession
  <2>2. /\ Line = Stream[1] /\ Stream # <<>> /\ Line \in LinesOf(session) /\ session \in Nat
        /\ Line.kind = "response" /\ Line.to = "subscribe"
    BY <1>1, <1>3, LineTaken, CountAssumption
    DEF SubscribeAnswered, Ordered, Inv, Typed, TypeOK
  <2>3. Line.xn = Xn("answer")
    BY <2>2, ResponseFields DEF Xn
  <2>4. extranonce1' = Xn("answer")
    <3>1. pool.name \in ArrayPools \/ extranonce1 = NoXn
      BY <1>1, <1>3 DEF Ordered, XnCarried, Early
    <3> QED
      BY <1>1, <2>2, <2>3, <3>1 DEF ExtranonceIn
  <2>5. HandedXn = Xn("answer") /\ HandedXn' = Xn("answer")
    BY <1>1, <2>4 DEF HandedXn, Early
  <2>6. v = Announced(Line, XnLines, "xn", v)
    BY <2>2 DEF Announced, XnLines
  <2>7. v.form = "positional" \/ HandedXn' = v
    BY <2>1, <2>5 DEF XnHanded
  <2> QED
    BY <1>1, <2>1, <2>6, <2>7, XnTaken
<1>4. (Ordered' <=> Ordered) /\ ~Early'
  BY <1>1 DEF Ordered, Early
<1> QED
  BY <1>1, <1>2, <1>3, <1>4 DEF XnCarried

LEMMA XnKept == ASSUME Inv, SubscribeAnswered, XnCarried, Steps PROVE XnCarried'
<1>1. CASE \E p \in Pools : Connect(p)
  <2>1. /\ pc' = "connected" /\ recvBuffer' = <<>> /\ wire' = <<>> /\ ~pool'.subscribed
        /\ session' = session + 1 /\ extranonce1' = extranonce1 /\ job' = job
    BY <1>1 DEF Connect, ClearedBuffer, Closed, learned
  <2>2. session \in Nat /\ job.from =< session /\ job.from \in Nat
    BY CountAssumption DEF Inv, Typed, TypeOK
  <2>3. Stream' = <<>>
    BY <2>1 DEF Stream
  <2>4. PICK w : w = HandedXn'
    OBVIOUS
  <2>5. XnHanded(w)'
    BY <2>1, <2>3, <2>4 DEF XnHanded, Carried
  <2>6. JobsCarryExtranonce'
    BY <2>1, <2>2 DEF JobsCarryExtranonce
  <2> QED
    BY <2>1, <2>2, <2>5, <2>6 DEF XnCarried
<1>2. CASE Leaves
  <2>1. extranonce1' = extranonce1 /\ ~Early' /\ ~InSession'
    BY <1>2 DEF Leaves, learned, Early, InSession
  <2>2. JobsCarryExtranonce'
    BY <1>2 DEF Leaves, XnCarried, JobsCarryExtranonce
  <2> QED
    BY <1>2, <2>1, <2>2 DEF Leaves, XnCarried
<1>3. CASE Quiet
  <2>1. /\ extranonce1' = extranonce1 /\ (Early' <=> Early) /\ (InSession' => InSession)
        /\ HandedXn' = HandedXn /\ (Ordered' => Ordered) /\ Stream' = Stream /\ pool' = pool
        /\ session' = session /\ job' = job /\ connected' = connected
        /\ overtaken \subseteq overtaken'
    BY <1>3 DEF Quiet, Silent, learned, HandedXn, Xn, Ordered
  <2>2. \A v : XnHanded(v) => XnHanded(v)'
    BY <2>1 DEF XnHanded
  <2>3. JobsCarryExtranonce'
    BY <2>1 DEF XnCarried, JobsCarryExtranonce
  <2> QED
    BY <2>1, <2>2, <2>3 DEF XnCarried
<1>4. CASE Heard
  <2>1. /\ TakeLine /\ IsResponse /\ InSession /\ ~Early /\ ~Early' /\ extranonce1' = extranonce1
        /\ session # 0
        /\ UNCHANGED <<wire, pool, session, overtaken, connected, job>>
    BY <1>4 DEF Heard, Takes, InSession, Early, TakeLine, Receiving, learned, Inv, Typed, TypeOK
  <2>2. HandedXn' = HandedXn /\ (Ordered' <=> Ordered)
    BY <2>1 DEF HandedXn, Ordered
  <2>3. ASSUME NEW v, XnHanded(v) PROVE XnHanded(v)'
    <3>1. v = Announced(Line, XnLines, "xn", v)
      BY <2>1 DEF IsResponse, Announced, XnLines
    <3>2. v.form = "positional" \/ HandedXn' = v
      BY <2>2, <2>3 DEF XnHanded
    <3> QED
      BY <2>1, <2>3, <3>1, <3>2, XnTaken
  <2>4. JobsCarryExtranonce'
    BY <2>1 DEF XnCarried, JobsCarryExtranonce
  <2> QED
    BY <2>1, <2>2, <2>3, <2>4 DEF XnCarried
<1>5. CASE PoolCloses
  <2>1. /\ UNCHANGED <<pc, learned, job, session, connected, overtaken>>
        /\ ~pool'.open /\ pool'.name = pool.name
        /\ Len(Stream) \in Nat /\ Len(Stream') \in Nat /\ Len(Stream') =< Len(Stream)
        /\ \A i \in 1 .. Len(Stream') : Stream'[i] = Stream[i]
    BY <1>5, Closing
  <2>2. /\ extranonce1' = extranonce1 /\ (Early' <=> Early) /\ (InSession' <=> InSession)
        /\ HandedXn' = HandedXn /\ (Ordered' <=> Ordered)
    BY <2>1 DEF learned, Early, InSession, HandedXn, Xn, Ordered
  <2>3. ASSUME NEW v, XnHanded(v) PROVE XnHanded(v)'
    <3>1. Carried(Stream', XnLines, "xn", v)
      BY <2>1, <2>3, CarriedKept DEF XnHanded
    <3> QED
      BY <2>1, <2>2, <2>3, <3>1 DEF XnHanded
  <2>4. JobsCarryExtranonce'
    BY <2>1 DEF XnCarried, JobsCarryExtranonce
  <2> QED
    BY <2>1, <2>2, <2>3, <2>4 DEF XnCarried
<1> QED
  BY <1>1, <1>2, <1>3, <1>4, <1>5, XnSubscribed, XnTold, XnSent, Quietly DEF Steps

LEMMA XnAtFirst == Init => SubscribeAnswered /\ XnCarried
  BY DEF Init, SubscribeAnswered, XnCarried, JobsCarryExtranonce, InSession

(* While the connection lasts, a job of it is hashed with the extranonce its *)
(* pool had given when it sent the job, across any number of connections and *)
(* changes, unless a share overtook mining.subscribe, the answer is not in   *)
(* the form subscribe() replaces an extranonce from, or the change is one    *)
(* the client cannot read.                                                   *)
THEOREM JobsHaveTheirExtranonce == Spec => []JobsCarryExtranonce
<1>1. Inv /\ SubscribeAnswered /\ XnCarried /\ [Next]_vars => SubscribeAnswered' /\ XnCarried'
  BY SubscribeKept, XnKept, StepKinds
<1>2. XnCarried => JobsCarryExtranonce
  BY DEF XnCarried
<1> QED
  BY <1>1, <1>2, XnAtFirst, Invariant, PTL DEF Spec

-------------------------------------------------------------------------------
(* The answers that are reported                                             *)

Reported == results.accepted + results.rejected
Decided == verdicts.accepted + verdicts.refused

Responses == {x \in LinesOf(session) : x.kind = "response"}
Questions == {r \in Requests : r.kind # "submit"}
Answers == Count(Stream, Responses)
Unread == Count(outbox, Questions)

(* The requests the handshake has still to send, and the responses it takes. *)
ToAsk ==
  IF pc = "connected" THEN 2 ELSE IF pc \in {"subscribing", "subscribed"} THEN 1 ELSE 0
ToTake == IF Early THEN 2 ELSE IF pc \in {"subscribed", "authorizing"} THEN 1 ELSE 0

(* Each response that is reported, or will be, is one the pool gave a share, *)
(* but for those the handshake still takes.                                  *)
Tallied ==
  /\ Reported =< Decided
  /\ InSession => Reported + Answers + Unread + ToAsk =< Decided + ToTake

LEMMA Balanced ==
  ASSUME NEW r \in Nat, NEW a \in Nat, NEW u \in Nat, NEW k \in Nat, NEW d \in Nat, NEW m \in Nat,
         NEW v \in Nat, r + a + u + k =< d + m
  PROVE  /\ v + 1 =< u => r + (a + 1) + v + k =< d + m
         /\ v =< u => r + (a + 1) + v + k =< (d + 1) + m
  OBVIOUS

LEMMA BalanceTaken ==
  ASSUME NEW r \in Nat, NEW a \in Nat, NEW b \in Nat, NEW u \in Nat, NEW d \in Nat,
         r + a + u + 1 =< d + 2, b + 1 =< a
  PROVE  r + b + u + 1 =< d + 1
  OBVIOUS

LEMMA BalanceHeard ==
  ASSUME NEW r \in Nat, NEW q \in Nat, NEW a \in Nat, NEW b \in Nat, NEW u \in Nat, NEW k \in Nat,
         NEW d \in Nat, NEW m \in Nat, r + a + u + k =< d + m
  PROVE  /\ b =< a => r + b + u + k =< d + m
         /\ b + 1 =< a /\ k = 0 /\ m = 1 => r + b + u =< d
         /\ b + 1 =< a /\ k = 0 /\ m = 0 /\ q =< r + 1 => q + b + u =< d /\ q =< d
  OBVIOUS

LEMMA TallyTypes ==
  ASSUME Inv
  PROVE  /\ Reported \in Nat /\ Decided \in Nat /\ Answers \in Nat /\ Unread \in Nat
         /\ Len(Stream) \in Nat /\ Len(outbox) \in Nat
<1>1. /\ Stream \in Seq(LinesOf(session)) /\ outbox \in Seq(Requests)
      /\ results \in [accepted : Nat, rejected : Nat]
      /\ verdicts \in [accepted : Nat, refused : Nat]
  BY DEF Inv, Typed, TypeOK, Stream
<1>2. Len(Stream) \in Nat /\ Len(outbox) \in Nat
  BY <1>1
<1> QED
  BY <1>1, <1>2, CountIsNat DEF Reported, Decided, Answers, Unread

LEMMA UnreadSent ==
  ASSUME Inv, NEW r \in Requests, outbox' = Append(outbox, r)
  PROVE  Unread' = IF r.kind # "submit" THEN Unread + 1 ELSE Unread
<1> DEFINE t == outbox'
<1>1. /\ Len(outbox) \in Nat /\ Len(t) = Len(outbox) + 1 /\ t[Len(outbox) + 1] = r
      /\ \A i \in 1 .. Len(outbox) : t[i] = outbox[i]
  BY Requested
<1> HIDE DEF t
<1>2. Count(t, Questions) =
        IF r \in Questions THEN Count(outbox, Questions) + 1 ELSE Count(outbox, Questions)
  BY <1>1, CountSent
<1>3. r \in Questions <=> r.kind # "submit"
  BY DEF Questions
<1> QED
  BY <1>2, <1>3 DEF Unread, t

LEMMA TallyAsked ==
  ASSUME Inv, Tallied,
         \/ Asks("connected", "subscribe", "subscribing")
         \/ Asks("subscribed", "authorize", "authorizing")
  PROVE  Tallied'
<1>1. /\ Stream' = Stream /\ session' = session /\ results' = results /\ verdicts' = verdicts
      /\ InSession
  BY DEF Asks, Silent, InSession
<1>2. Reported' = Reported /\ Decided' = Decided /\ Answers' = Answers
  BY <1>1 DEF Reported, Decided, Answers, Responses
<1>3. Unread' = Unread \/ Unread' = Unread + 1
  <2>1. CASE outbox' = outbox
    BY <2>1 DEF Unread
  <2>2. ASSUME NEW r \in Requests, outbox' = Append(outbox, r)
        PROVE  Unread' = Unread \/ Unread' = Unread + 1
    BY <2>2, UnreadSent
  <2> QED
    BY <2>1, <2>2 DEF Asks, Requests
<1>4. ToAsk = ToAsk' + 1 /\ ToTake' = ToTake /\ ToAsk' \in Nat /\ ToTake \in Nat
  BY DEF Asks, ToAsk, ToTake, Early
<1> QED
  BY <1>1, <1>2, <1>3, <1>4, TallyTypes DEF Tallied

LEMMA TallyKept ==
  ASSUME Inv, Tallied, Still \/ Submits PROVE Tallied'
<1>1. /\ Stream' = Stream /\ session' = session /\ results' = results /\ verdicts' = verdicts
      /\ pc' = pc \/ (pc \in {"run", "loop"} /\ pc' \in {"loop", "running"})
  BY Submitting DEF Still, Silent
<1>2. Reported' = Reported /\ Decided' = Decided /\ Answers' = Answers
  BY <1>1 DEF Reported, Decided, Answers, Responses
<1>3. Unread' = Unread
  <2>1. CASE outbox' = outbox
    BY <2>1 DEF Unread
  <2>2. ASSUME NEW r \in Requests, r.kind = "submit", outbox' = Append(outbox, r)
        PROVE  Unread' = Unread
    BY <2>2, UnreadSent
  <2> QED
    BY <2>1, <2>2, Submitting DEF Still
<1>4. ToAsk' = ToAsk /\ ToTake' = ToTake /\ (InSession' <=> InSession)
  BY <1>1 DEF ToAsk, ToTake, Early, InSession
<1> QED
  BY <1>2, <1>3, <1>4 DEF Tallied

LEMMA TallyTaken ==
  ASSUME Inv, Tallied, SubscribeLine \/ Told \/ Heard, Inv' PROVE Tallied'
<1>1. /\ TakeLine /\ wire' = wire /\ InSession
      /\ UNCHANGED <<outbox, session, verdicts>>
      /\ IsResponse => results' = results \/ (pc = "running" /\ HandleResponse)
      /\ ~IsResponse => results' = results
  BY DEF SubscribeLine, Told, Heard, Takes, IsNotification, InSession, net, shares
<1>2. /\ Line = Stream[1] /\ Len(Stream) = Len(Stream') + 1 /\ Len(Stream') \in Nat
      /\ \A i \in 1 .. Len(Stream') : Stream'[i] = Stream[i + 1]
      /\ Line \in LinesOf(session) /\ Stream # <<>>
  BY <1>1, Taken, LineTaken
<1>3. Answers' + (IF IsResponse THEN 1 ELSE 0) =< Answers
  <2>1. Stream[1] \in Responses <=> IsResponse
    BY <1>2 DEF Responses, IsResponse
  <2>2. Count(Stream', Responses) + (IF Stream[1] \in Responses THEN 1 ELSE 0) =< Count(Stream, Responses)
    BY <1>2, CountTaken
  <2>3. Responses' = Responses
    BY <1>1 DEF Responses
  <2> QED
    BY <2>1, <2>2, <2>3 DEF Answers
<1>4. Unread' = Unread /\ Decided' = Decided /\ Answers' \in Nat
  BY <1>1, <1>2, CountIsNat DEF Unread, Decided, Answers
<1>5. IF results' = results THEN Reported' = Reported ELSE Reported' = Reported + 1
  <2>1. results \in [accepted : Nat, rejected : Nat]
    BY DEF Inv, Typed, TypeOK
  <2>2. CASE results' = results
    BY <2>2 DEF Reported
  <2>3. CASE HandleResponse /\ results' # results
    <3>1. \/ results' = [results EXCEPT !.accepted = @ + 1]
          \/ results' = [results EXCEPT !.rejected = @ + 1]
      BY <2>3 DEF HandleResponse
    <3>2. Reported' = Reported + 1
      BY <2>1, <3>1 DEF Reported
    <3> QED
      BY <2>3, <3>2
  <2> QED
    BY <1>1, <2>2, <2>3
<1>6. CASE SubscribeLine
  <2>1. IsResponse
    BY <1>2, <1>6 DEF Inv, ResponseFirst, SubscribeLine, IsResponse
  <2>2. /\ results' = results /\ ToTake = 2 /\ ToTake' = 1 /\ ToAsk' = 1 /\ ToAsk = 1
        /\ InSession'
    BY <1>6 DEF SubscribeLine, ToTake, ToAsk, Early, InSession
  <2>3. Answers' + 1 =< Answers /\ Reported' = Reported
    BY <1>3, <1>5, <2>1, <2>2
  <2>4. Reported + Answers + Unread + 1 =< Decided + 2
    BY <1>1, <2>2 DEF Tallied
  <2>5. Reported \in Nat /\ Decided \in Nat /\ Answers \in Nat /\ Unread \in Nat /\ Answers' \in Nat
    BY <1>4, TallyTypes
  <2>6. Reported + Answers' + Unread + 1 =< Decided + 1
    BY <2>3, <2>4, <2>5, BalanceTaken
  <2>7. Reported =< Decided
    BY DEF Tallied
  <2> QED
    BY <1>4, <2>2, <2>3, <2>6, <2>7 DEF Tallied
<1>7. CASE Told
  <2>1. /\ ~IsResponse /\ ToAsk' = ToAsk /\ ToAsk \in Nat /\ ToTake \in Nat
        /\ pc' # "disconnect" => ToTake' = ToTake
        /\ results' = results
        /\ InSession' => pc' # "disconnect"
    BY <1>1, <1>7 DEF Told, Takes, IsNotification, ToAsk, ToTake, Early, InSession
  <2>2. Answers' =< Answers /\ Reported' = Reported
    <3>1. Answers' + 0 =< Answers
      BY <1>3, <2>1
    <3> QED
      BY <1>4, <1>5, <2>1, <3>1
  <2>3. Reported + Answers + Unread + ToAsk =< Decided + ToTake
    BY <1>1 DEF Tallied
  <2>4. Reported + Answers' + Unread + ToAsk =< Decided + ToTake
    BY <1>4, <2>1, <2>2, <2>3, TallyTypes, BalanceHeard
  <2> QED
    BY <1>4, <2>1, <2>2, <2>4 DEF Tallied
<1>8. CASE Heard /\ pc = "authorizing"
  <2>1. /\ IsResponse /\ results' = results /\ ToAsk' = 0 /\ ToAsk = 0 /\ ToTake = 1
        /\ pc' # "disconnect" => ToTake' \in {0, 1}
        /\ InSession' => pc' # "disconnect"
    BY <1>8 DEF Heard, Takes, ToAsk, ToTake, Early, InSession
  <2>2. Answers' + 1 =< Answers /\ Reported' = Reported
    BY <1>3, <1>5, <2>1
  <2>3. Reported + Answers + Unread + 0 =< Decided + 1
    BY <1>1, <2>1 DEF Tallied
  <2>4. Reported + Answers' + Unread =< Decided
    BY <1>4, <2>2, <2>3, TallyTypes, BalanceHeard
  <2>5. \A m \in {0, 1} : Reported + Answers' + Unread + 0 =< Decided + m
    BY <1>4, <2>4, TallyTypes
  <2> QED
    BY <1>4, <2>1, <2>2, <2>5 DEF Tallied
<1>9. CASE Heard /\ pc = "running"
  <2>1. IsResponse /\ ToAsk' = 0 /\ ToAsk = 0 /\ ToTake' = 0 /\ ToTake = 0
    BY <1>9 DEF Heard, Takes, ToAsk, ToTake, Early
  <2>2. Answers' + 1 =< Answers /\ Reported' \in Nat /\ Reported' =< Reported + 1
    BY <1>3, <1>5, <2>1, TallyTypes
  <2>3. Reported + Answers + Unread + 0 =< Decided + 0
    BY <1>1, <2>1 DEF Tallied
  <2>4. Reported' + Answers' + Unread =< Decided /\ Reported' =< Decided
    BY <1>4, <2>2, <2>3, TallyTypes, BalanceHeard
  <2>5. Reported' + Answers' + Unread + 0 =< Decided + 0
    BY <1>4, <2>2, <2>4, TallyTypes
  <2> QED
    BY <1>4, <2>1, <2>4, <2>5 DEF Tallied
<1> QED
  BY <1>6, <1>7, <1>8, <1>9 DEF Heard, Takes

LEMMA TallySent ==
  ASSUME Inv, Tallied, PoolAnswers \/ Announces PROVE Tallied'
<1>1. /\ pc' = pc /\ session' = session /\ results' = results /\ recvBuffer' = recvBuffer
  BY Answering, Announcing
<1>2. /\ Reported' = Reported /\ ToAsk' = ToAsk /\ ToTake' = ToTake /\ (InSession' <=> InSession)
      /\ Responses' = Responses /\ ToAsk \in Nat /\ ToTake \in Nat
  BY <1>1 DEF Reported, ToAsk, ToTake, Early, InSession, Responses
<1>3. ASSUME NEW x \in LinesOf(session), wire' = Append(wire, x)
      PROVE  Answers' = IF x.kind = "response" THEN Answers + 1 ELSE Answers
  <2>1. x \in Responses <=> x.kind = "response"
    BY DEF Responses
  <2> QED
    BY <1>1, <1>2, <1>3, <2>1, Added, CountSent DEF Answers
<1>4. CASE Announces
  <2>1. Answers' = Answers /\ outbox' = outbox /\ verdicts' = verdicts
    BY <1>3, <1>4, Announcing
  <2> QED
    BY <1>2, <2>1 DEF Tallied, Unread, Decided
<1>5. CASE PoolAnswers
  <2>1. Answers' = Answers + 1
    BY <1>3, <1>5, Answering
  <2>2. outbox # <<>> /\ outbox' = Tail(outbox)
    BY <1>5, Answering
  <2>3. /\ Head(outbox) = outbox[1] /\ Len(outbox') \in Nat /\ Len(outbox) = Len(outbox') + 1
        /\ \A i \in 1 .. Len(outbox') : outbox'[i] = outbox[i + 1]
        /\ Head(outbox) \in Requests
    BY <2>2, RequestTaken DEF Inv, Typed
  <2>4. Unread' + (IF Head(outbox) \in Questions THEN 1 ELSE 0) =< Unread
    BY <2>3, CountTaken DEF Unread
  <2>5. CASE Head(outbox).kind # "submit"
    <3>1. verdicts' = verdicts
      BY <1>5, <2>5, Answering
    <3>2. Head(outbox) \in Questions /\ Decided' = Decided
      BY <2>3, <2>5, <3>1 DEF Questions, Decided
    <3>3. Unread' + 1 =< Unread /\ Unread' \in Nat
      BY <2>3, <2>4, <3>2, CountIsNat DEF Unread
    <3>4. InSession => Reported + Answers + Unread + ToAsk =< Decided + ToTake
      BY DEF Tallied
    <3>5. InSession => Reported + (Answers + 1) + Unread' + ToAsk =< Decided + ToTake
      BY <1>2, <3>3, <3>4, TallyTypes, Balanced
    <3> QED
      BY <1>2, <2>1, <3>2, <3>5 DEF Tallied
  <2>6. CASE Head(outbox).kind = "submit"
    <3>1. \/ verdicts' = [verdicts EXCEPT !.accepted = @ + 1]
          \/ verdicts' = [verdicts EXCEPT !.refused = @ + 1]
      BY <1>5, <2>6, Answering
    <3>2. Decided' = Decided + 1
      <4>1. verdicts \in [accepted : Nat, refused : Nat]
        BY DEF Inv, Typed, TypeOK
      <4> QED
        BY <3>1, <4>1 DEF Decided
    <3>3. Unread' =< Unread /\ Unread' \in Nat
      BY <2>3, <2>4, CountIsNat, TallyTypes DEF Unread
    <3>4. Reported =< Decided /\ (InSession => Reported + Answers + Unread + ToAsk =< Decided + ToTake)
      BY DEF Tallied
    <3>5. InSession => Reported + (Answers + 1) + Unread' + ToAsk =< (Decided + 1) + ToTake
      BY <1>2, <3>3, <3>4, TallyTypes, Balanced
    <3>6. Reported =< Decided + 1
      BY <3>4, TallyTypes
    <3> QED
      BY <1>2, <2>1, <3>2, <3>5, <3>6 DEF Tallied
  <2> QED
    BY <2>5, <2>6
<1> QED
  BY <1>4, <1>5

LEMMA TallyClosed == ASSUME Inv, Tallied, PoolCloses PROVE Tallied'
<1>1. /\ UNCHANGED <<pc, session, results, verdicts>> /\ outbox' = <<>>
      /\ Len(Stream) \in Nat /\ Len(Stream') \in Nat /\ Len(Stream') =< Len(Stream)
      /\ \A i \in 1 .. Len(Stream') : Stream'[i] = Stream[i]
  BY Closing
<1>2. /\ Reported' = Reported /\ Decided' = Decided /\ ToAsk' = ToAsk /\ ToTake' = ToTake
      /\ (InSession' <=> InSession) /\ Responses' = Responses /\ ToAsk \in Nat /\ ToTake \in Nat
  BY <1>1 DEF Reported, Decided, ToAsk, ToTake, Early, InSession, Responses
<1>3. Answers' =< Answers /\ Answers' \in Nat
  BY <1>1, <1>2, CountKept, CountIsNat DEF Answers
<1>4. Unread' = 0
  <2>1. Places(outbox', Questions) = {}
    BY <1>1 DEF Places
  <2> QED
    BY <2>1, FS_EmptySet DEF Unread, Count
<1> QED
  BY <1>2, <1>3, <1>4, TallyTypes DEF Tallied

LEMMA TallyHolds == ASSUME Inv, Tallied, Steps, Inv' PROVE Tallied'
<1>1. CASE \E p \in Pools : Connect(p)
  <2>1. /\ pc' = "connected" /\ outbox' = <<>> /\ recvBuffer' = <<>> /\ wire' = <<>>
        /\ results' = results /\ verdicts' = verdicts
    BY <1>1 DEF Connect, ClearedBuffer
  <2>2. Stream' = <<>>
    BY <2>1 DEF Stream
  <2>3. Places(Stream', Responses') = {} /\ Places(outbox', Questions) = {}
    BY <2>1, <2>2 DEF Places
  <2>4. Answers' = 0 /\ Unread' = 0
    BY <2>3, FS_EmptySet DEF Answers, Unread, Count
  <2>5. Reported' = Reported /\ Decided' = Decided /\ ToAsk' = 2 /\ ToTake' = 2
    BY <2>1 DEF Reported, Decided, ToAsk, ToTake, Early
  <2> QED
    BY <2>4, <2>5, TallyTypes DEF Tallied
<1>2. CASE Leaves
  BY <1>2 DEF Leaves, Tallied, Reported, Decided, InSession
<1> QED
  BY <1>1, <1>2, TallyAsked, TallyKept, TallyTaken, TallySent, TallyClosed DEF Steps

LEMMA TallyAtFirst == Init => Tallied
  BY DEF Init, Tallied, Reported, Decided, InSession

LEMMA TallyReports == Tallied => ReportsAnswers
  BY DEF Tallied, Reported, Decided, ReportsAnswers

(* The share callback is not called more often than pools have answered a    *)
(* share, however the handshakes before went, and whatever they took for     *)
(* their own answers.                                                        *)
THEOREM AnswersReported == Spec => []ReportsAnswers
<1>1. Inv /\ Tallied /\ [Next]_vars /\ Inv' => Tallied'
  BY TallyHolds, StepKinds
<1> QED
  BY <1>1, TallyAtFirst, TallyReports, Invariant, PTL DEF Spec

-------------------------------------------------------------------------------
(* The client and the mining threads together                                *)

(* A thread works on what it had, or on the last job of the client.          *)
LEMMA ThreadCopies ==
  ASSUME job \in Jobs, mined \in [Threads -> Jobs], NEW t \in Threads, Mining!OwnStep(t)
  PROVE  /\ mined' \in [Threads -> Jobs]
         /\ \A u \in Threads : mined'[u] \in {mined[u], job}
<1>1. CASE Mining!TakeJob(t)
  <2>1. mined' = [mined EXCEPT ![t] = Mining!Refreshed(t)]
    BY <1>1 DEF Mining!TakeJob
  <2>2. Mining!Refreshed(t) \in {mined[t], job}
    BY DEF Mining!Refreshed
  <2> QED
    BY <2>1, <2>2
<1>2. CASE mined' = mined
  BY <1>2
<1> QED
  BY <1>1, <1>2
  DEF Mining!OwnStep, Mining!CheckPredicate, Mining!FallAsleep, Mining!TimeOut, Mining!Exit,
      Mining!Find, Mining!EndBatch, Mining!LockForShare, Mining!Verify, Mining!Discard

MinerInv == Inv /\ mined \in [Threads -> Jobs]

(* What each step of the miner is to the client.                             *)
LEMMA MinerStep ==
  ASSUME MinerInv, [MinerNext]_minerVars
  PROVE  \/ (Thread \/ ConnectFails \/ Pool) /\ mined' = mined
         \/ /\ UNCHANGED vars /\ mined' \in [Threads -> Jobs]
            /\ \A u \in Threads : mined'[u] \in {mined[u], job}
         \/ (\E t \in Threads : SubmitShare(mined[t])) /\ mined' = mined
<1>1. CASE StratumStep
  BY <1>1 DEF StratumStep, Mining!OnNewJob, miningVars
<1>2. CASE \E t \in Threads : MiningStep(t)
  <2>1. PICK t \in Threads : MiningStep(t)
    BY <1>2
  <2>2. CASE Mining!OwnStep(t) /\ UNCHANGED vars
    BY <2>2, ThreadCopies DEF MinerInv, Inv, Typed
  <2>3. CASE Mining!Submit(t) /\ SubmitShare(mined[t])
    BY <2>3 DEF Mining!Submit
  <2> QED
    BY <2>1, <2>2, <2>3 DEF MiningStep
<1>3. CASE UNCHANGED minerVars
  BY <1>3 DEF minerVars, miningVars, MinerInv
<1> QED
  BY <1>1, <1>2, <1>3 DEF MinerNext

LEMMA MinerKeeps == ASSUME MinerInv, [MinerNext]_minerVars PROVE MinerInv'
<1>1. CASE (Thread \/ ConnectFails \/ Pool) /\ mined' = mined
  BY <1>1, ThreadKeeps, DisconnectKeeps, PoolKeeps DEF MinerInv
<1>2. CASE UNCHANGED vars /\ mined' \in [Threads -> Jobs]
  BY <1>2, StutterKeeps DEF MinerInv
<1>3. CASE (\E t \in Threads : SubmitShare(mined[t])) /\ mined' = mined
  BY <1>3, SubmitShareKeeps DEF MinerInv
<1> QED
  BY <1>1, <1>2, <1>3, MinerStep

LEMMA MinerInitHolds == MinerInit => MinerInv
<1> SUFFICES ASSUME MinerInit PROVE MinerInv
  OBVIOUS
<1>1. Inv
  BY InitHolds DEF MinerInit
<1>2. NoJob \in Jobs
  BY NoXnTyped DEF NoJob, Jobs
<1>3. mined = [t \in Threads |-> NoJob]
  BY DEF MinerInit, Mining!Init
<1> QED
  BY <1>1, <1>2, <1>3 DEF MinerInv

LEMMA MinerInvariant == MinerSpec => []MinerInv
  BY MinerInitHolds, MinerKeeps, PTL DEF MinerSpec

-------------------------------------------------------------------------------
(* The jobs the miner still has, and the shares it sends of them             *)

Before == pc \in {"connected", "subscribing", "subscribed"}

(* A job of session s carries its extranonce x, and there is none before     *)
(* subscribe() has its answer (b).                                           *)
HeldIn(j, s, b, x) == j.from =< s /\ (b => j.from < s) /\ (j.from = s => j.xn = x)

JobsHeld ==
  /\ HeldIn(job, session, Before, extranonce1)
  /\ \A t \in Threads : HeldIn(mined[t], session, Before, extranonce1)

InTime(q, s, b) ==
  \A i \in 1 .. Len(q) : q[i].kind = "submit" /\ q[i].job.from = s =>
    /\ ~b
    /\ \A k \in i .. Len(q) : q[k].kind = "submit"
    /\ q[i].xn = q[i].job.xn

LEMMA InTimeSent ==
  ASSUME NEW S, NEW q \in Seq(S), NEW r \in S, NEW s, NEW b \in BOOLEAN, InTime(q, s, b),
         \/ b /\ r.kind # "submit"
         \/ r.kind = "submit" /\ (r.job.from = s => ~b /\ r.xn = r.job.xn),
         NEW c \in BOOLEAN, c => b
  PROVE  InTime(Append(q, r), s, c)
<1> DEFINE t == Append(q, r)
<1>1. /\ Len(t) = Len(q) + 1 /\ Len(q) \in Nat /\ t[Len(q) + 1] = r
      /\ \A i \in 1 .. Len(q) : t[i] = q[i]
  OBVIOUS
<1> HIDE DEF t
<1> SUFFICES ASSUME NEW i \in 1 .. Len(t), t[i].kind = "submit", t[i].job.from = s
             PROVE  /\ ~c
                    /\ \A k \in i .. Len(t) : t[k].kind = "submit"
                    /\ t[i].xn = t[i].job.xn
  BY DEF InTime, t
<1>2. CASE i = Len(q) + 1
  <2>1. t[i] = r /\ \A k \in i .. Len(t) : k = i
    BY <1>1, <1>2
  <2> QED
    BY <2>1
<1>3. CASE i \in 1 .. Len(q)
  <2>1. t[i] = q[i]
    BY <1>1, <1>3
  <2>2. /\ ~b /\ \A k \in i .. Len(q) : q[k].kind = "submit"
        /\ q[i].xn = q[i].job.xn
    BY <1>3, <2>1 DEF InTime
  <2>3. r.kind = "submit"
    BY <2>2
  <2>4. ASSUME NEW k \in i .. Len(t) PROVE t[k].kind = "submit"
    <3>1. k \in i .. Len(q) \/ k = Len(q) + 1
      BY <1>1, <1>3
    <3>2. k \in i .. Len(q) => t[k] = q[k]
      BY <1>1, <1>3
    <3> QED
      BY <1>1, <2>2, <2>3, <3>1, <3>2
  <2> QED
    BY <2>1, <2>2, <2>4
<1> QED
  BY <1>1, <1>2, <1>3

LEMMA InTimeTaken ==
  ASSUME NEW S, NEW q \in Seq(S), q # <<>>, NEW s, NEW b \in BOOLEAN, InTime(q, s, b)
  PROVE  InTime(Tail(q), s, b)
<1> DEFINE t == Tail(q)
<1>1. /\ Len(t) = Len(q) - 1 /\ Len(q) \in Nat \ {0}
      /\ \A i \in 1 .. Len(t) : t[i] = q[i + 1]
  OBVIOUS
<1> HIDE DEF t
<1> SUFFICES ASSUME NEW i \in 1 .. Len(t), t[i].kind = "submit", t[i].job.from = s
             PROVE  /\ ~b
                    /\ \A k \in i .. Len(t) : t[k].kind = "submit"
                    /\ t[i].xn = t[i].job.xn
  BY DEF InTime, t
<1>2. i + 1 \in 1 .. Len(q) /\ t[i] = q[i + 1]
  BY <1>1
<1>3. /\ ~b /\ \A k \in i + 1 .. Len(q) : q[k].kind = "submit"
      /\ q[i + 1].xn = q[i + 1].job.xn
  BY <1>2 DEF InTime
<1>4. \A k \in i .. Len(t) : k + 1 \in i + 1 .. Len(q) /\ t[k] = q[k + 1]
  BY <1>1
<1> QED
  BY <1>2, <1>3, <1>4

(* What the steps of the client and of the pool change.                      *)
LEMMA ClientStep ==
  ASSUME Inv, XnForms \subseteq {"positional"}, Thread \/ ConnectFails \/ Pool
  PROVE  \/ \E p \in Pools : Connect(p)
         \/ /\ session' = session /\ Before /\ Before' /\ job' = job /\ outbox' = outbox
            /\ pc = "subscribing"
         \/ /\ session' = session /\ extranonce1' = extranonce1 /\ (Before' => Before)
            /\ \/ job' = job
               \/ ~Before' /\ job'.from = session /\ job'.xn = extranonce1
            /\ \/ outbox' = outbox
               \/ outbox' = <<>>
               \/ outbox # <<>> /\ outbox' = Tail(outbox)
               \/ \E r \in Requests : Before /\ r.kind # "submit" /\ outbox' = Append(outbox, r)
<1>1. CASE Subscribe \/ Authorize
  <2>1. [kind |-> "subscribe"] \in Requests /\ [kind |-> "authorize"] \in Requests
    BY DEF Requests
  <2>2. /\ Before /\ (outbox' = outbox
                        \/ outbox' = Append(outbox, [kind |-> "subscribe"])
                        \/ outbox' = Append(outbox, [kind |-> "authorize"]))
    BY <1>1 DEF Subscribe, Authorize, Send, Before
  <2>3. session' = session /\ extranonce1' = extranonce1 /\ job' = job
    BY <1>1 DEF Subscribe, Authorize, learned, jobs
  <2> QED
    BY <2>1, <2>2, <2>3
<1>2. CASE SubscribeLine
  BY <1>2 DEF SubscribeLine, Before, net, jobs
<1>3. CASE AuthorizeNotification \/ RunNotification
  <2>1. /\ TakeLine /\ wire' = wire /\ HandleNotification /\ session' = session
        /\ outbox' = outbox /\ ~Before'
    BY <1>3 DEF AuthorizeNotification, RunNotification, Before, net
  <2>2. Line \in LinesOf(session) /\ session \in Nat
    BY <2>1, LineTaken, CountAssumption DEF Inv, Typed, TypeOK
  <2>3. extranonce1' = extranonce1
    BY <2>1, <2>2, LineFields DEF HandleNotification, learned
  <2>4. job' = job \/ (job'.from = session /\ job'.xn = extranonce1)
    BY <2>1, <2>2, LineFields DEF HandleNotification, BuiltJob, jobs
  <2> QED
    BY <2>1, <2>3, <2>4
<1>4. CASE AuthorizeResponse \/ RunResponse \/ Recv \/ RecvFails \/ EmptyLine \/ Run \/ RunLoop
  <2>1. /\ session' = session /\ extranonce1' = extranonce1 /\ job' = job /\ outbox' = outbox
        /\ Before' => Before
    BY <1>4 DEF AuthorizeResponse, RunResponse, Recv, RecvFails, EmptyLine, Run, RunLoop,
                Before, learned, jobs, net
  <2> QED
    BY <2>1
<1>5. CASE Disconnect \/ ConnectFails
  BY <1>5 DEF Disconnect, DisconnectLeaving, ConnectFails, Before, learned, jobs, net
<1>6. CASE Pool
  <2>1. /\ session' = session /\ extranonce1' = extranonce1 /\ job' = job /\ pc' = pc
    BY <1>6 DEF Pool, PoolAnswers, PoolNotifies, PoolSetsLevel, PoolSetsExtranonce,
                PoolSendsNoise, PoolCloses, client, learned, jobs
  <2>2. \/ outbox' = outbox \/ outbox' = <<>>
        \/ outbox # <<>> /\ outbox' = Tail(outbox)
    BY <1>6 DEF Pool, PoolAnswers, PoolNotifies, PoolSetsLevel, PoolSetsExtranonce,
                PoolSendsNoise, PoolCloses
  <2> QED
    BY <2>1, <2>2 DEF Before
<1> QED
  BY <1>1, <1>2, <1>3, <1>4, <1>5, <1>6 DEF Thread, Handshake

SharesHeld == JobsHeld /\ InTime(outbox, session, Before)

LEMMA SharesHeldByClient ==
  ASSUME MinerInv, XnForms \subseteq {"positional"}, SharesHeld, mined' = mined,
         Thread \/ ConnectFails \/ Pool
  PROVE  SharesHeld'
<1>1. /\ session \in Nat /\ outbox \in Seq(Requests) /\ job.from \in Nat
      /\ \A t \in Threads : mined[t].from \in Nat
  BY CountAssumption DEF MinerInv, Inv, Typed, TypeOK, Jobs
<1>2. Before \in BOOLEAN /\ Before' \in BOOLEAN
  BY DEF Before
<1>3. CASE \E p \in Pools : Connect(p)
  <2>1. session' = session + 1 /\ outbox' = <<>> /\ job' = job
    BY <1>3 DEF Connect
  <2>2. ASSUME NEW j, j.from \in Nat, HeldIn(j, session, Before, extranonce1)
        PROVE  HeldIn(j, session', Before', extranonce1')
    BY <1>1, <2>1, <2>2 DEF HeldIn
  <2>3. JobsHeld'
    BY <1>1, <2>1, <2>2 DEF SharesHeld, JobsHeld
  <2> QED
    BY <2>1, <2>3 DEF SharesHeld, InTime
<1>4. CASE /\ session' = session /\ Before /\ Before' /\ job' = job /\ outbox' = outbox
  <2>1. ASSUME NEW j, j.from \in Nat, HeldIn(j, session, Before, extranonce1)
        PROVE  HeldIn(j, session', Before', extranonce1')
    BY <1>1, <1>4, <2>1 DEF HeldIn
  <2>2. JobsHeld'
    BY <1>1, <1>4, <2>1 DEF SharesHeld, JobsHeld
  <2> QED
    BY <1>4, <2>2 DEF SharesHeld, InTime
<1>5. CASE /\ session' = session /\ extranonce1' = extranonce1 /\ (Before' => Before)
           /\ \/ job' = job
              \/ ~Before' /\ job'.from = session /\ job'.xn = extranonce1
           /\ \/ outbox' = outbox
              \/ outbox' = <<>>
              \/ outbox # <<>> /\ outbox' = Tail(outbox)
              \/ \E r \in Requests : Before /\ r.kind # "submit" /\ outbox' = Append(outbox, r)
  <2>1. ASSUME NEW j, HeldIn(j, session, Before, extranonce1)
        PROVE  HeldIn(j, session', Before', extranonce1')
    BY <1>5, <2>1 DEF HeldIn
  <2>2. HeldIn(job', session', Before', extranonce1')
    <3>1. CASE job' = job
      BY <2>1, <3>1 DEF SharesHeld, JobsHeld
    <3>2. CASE ~Before' /\ job'.from = session /\ job'.xn = extranonce1
      BY <1>1, <1>5, <3>2 DEF HeldIn
    <3> QED
      BY <1>5, <3>1, <3>2
  <2>3. JobsHeld'
    BY <2>1, <2>2 DEF SharesHeld, JobsHeld
  <2>4. InTime(outbox', session, Before')
    <3>1. InTime(outbox, session, Before)
      BY DEF SharesHeld
    <3>2. CASE outbox' = outbox
      BY <1>5, <3>1, <3>2 DEF InTime
    <3>3. CASE outbox' = <<>>
      BY <3>3 DEF InTime
    <3>4. CASE outbox # <<>> /\ outbox' = Tail(outbox)
      <4>1. InTime(outbox', session, Before)
        BY <1>1, <1>2, <3>1, <3>4, InTimeTaken
      <4> QED
        BY <1>5, <4>1 DEF InTime
    <3>5. CASE \E r \in Requests : Before /\ r.kind # "submit" /\ outbox' = Append(outbox, r)
      BY <1>1, <1>2, <1>5, <3>1, <3>5, InTimeSent
    <3> QED
      BY <1>5, <3>2, <3>3, <3>4, <3>5
  <2> QED
    BY <1>5, <2>3, <2>4 DEF SharesHeld
<1> QED
  BY <1>3, <1>4, <1>5, ClientStep DEF MinerInv

LEMMA SharesHeldByThreads ==
  ASSUME MinerInv, SharesHeld, UNCHANGED vars, \A u \in Threads : mined'[u] \in {mined[u], job}
  PROVE  SharesHeld'
<1>1. UNCHANGED <<pc, session, extranonce1, job, outbox>>
  BY VarsKept
<1>2. Before' = Before
  BY <1>1 DEF Before
<1> QED
  BY <1>1, <1>2 DEF SharesHeld, JobsHeld

LEMMA SharesHeldBySubmit ==
  ASSUME MinerInv, SharesHeld, NEW t \in Threads, SubmitShare(mined[t]), mined' = mined
  PROVE  SharesHeld'
<1>1. UNCHANGED <<pc, session, extranonce1, job>>
  BY DEF SubmitShare, learned, jobs
<1>2. Before' = Before /\ Before \in BOOLEAN
  BY <1>1 DEF Before
<1>3. JobsHeld'
  BY <1>1, <1>2 DEF SharesHeld, JobsHeld
<1> DEFINE r == [kind |-> "submit", job |-> mined[t], xn |-> extranonce1]
<1>4. outbox' \in {outbox, Append(outbox, r)}
  BY DEF SubmitShare, Send
<1>5. /\ outbox \in Seq(Requests) /\ mined[t] \in Jobs /\ session \in Nat /\ mined[t].from \in Nat
      /\ r \in Requests
  BY CountAssumption DEF MinerInv, Inv, Typed, TypeOK, Requests, Jobs
<1>6. r.kind = "submit" /\ (r.job.from = session => ~Before /\ r.xn = r.job.xn)
  BY <1>5 DEF SharesHeld, JobsHeld, HeldIn
<1> HIDE DEF r
<1>7. InTime(Append(outbox, r), session, Before)
  BY <1>2, <1>5, <1>6, InTimeSent DEF SharesHeld
<1> QED
  BY <1>1, <1>2, <1>3, <1>4, <1>7 DEF SharesHeld

(* As long as the pool makes no change of extranonce the client reads, a     *)
(* share of this connection's job is sent after the requests of the          *)
(* handshake, with the extranonce its nonce was hashed with, whatever the    *)
(* threads still had of earlier connections.                                 *)
THEOREM SharesComeInTime ==
  ASSUME XnForms \subseteq {"positional"}
  PROVE  MinerSpec => []SharesInTime
<1>1. MinerInit => SharesHeld
  <2> SUFFICES ASSUME MinerInit PROVE SharesHeld
    OBVIOUS
  <2>1. /\ pc = "idle" /\ session = 0 /\ extranonce1 = NoXn /\ job = NoJob /\ outbox = <<>>
        /\ mined = [t \in Threads |-> NoJob]
    BY DEF MinerInit, Init, Mining!Init
  <2>2. HeldIn(NoJob, session, Before, extranonce1)
    BY <2>1 DEF HeldIn, NoJob, Before
  <2>3. JobsHeld
    BY <2>1, <2>2 DEF JobsHeld
  <2> QED
    BY <2>1, <2>3 DEF SharesHeld, InTime
<1>2. MinerInv /\ SharesHeld /\ [MinerNext]_minerVars => SharesHeld'
  BY MinerStep, SharesHeldByClient, SharesHeldByThreads, SharesHeldBySubmit
<1>3. SharesHeld => SharesInTime
  BY DEF SharesHeld, InTime, SharesInTime, Before
<1> QED
  BY <1>1, <1>2, <1>3, MinerInvariant, PTL DEF MinerSpec

LEMMA MinerSteps == ASSUME MinerInv, [MinerNext]_minerVars PROVE Steps
<1>1. CASE \E t \in Threads : SubmitShare(mined[t])
  BY <1>1 DEF MinerInv, Submits, Steps
<1>2. CASE UNCHANGED vars
  BY <1>2, Stuttering DEF MinerInv, Steps
<1> QED
  BY <1>1, <1>2, MinerStep, AloneSteps DEF MinerInv

(* The mining threads, which send shares of any job they still have at any   *)
(* moment, cost the client no job: those pending are those not handed over.  *)
THEOREM ThreadsLoseNoJob == MinerSpec => []NoJobLost
<1>1. MinerInv => NoJobLost
  BY NothingLost DEF MinerInv
<1> QED
  BY <1>1, MinerInvariant, PTL

(* Nor do they change the target a job is hashed against: it is the one its  *)
(* pool had announced when it sent the job, if all pools announce alike.     *)
THEOREM ThreadsHaveTheTarget ==
  ASSUME TargetPools \in {{}, Pools}
  PROVE  MinerSpec => []JobsCarryTarget
<1>1. MinerInit => LevelsCarried
  BY LevelsAtFirst DEF MinerInit
<1>2. MinerInv /\ LevelsCarried /\ [MinerNext]_minerVars => LevelsCarried'
  BY MinerSteps, LevelsKept DEF MinerInv
<1>3. LevelsCarried => JobsCarryTarget
  BY DEF LevelsCarried, JobsCarryTarget
<1> QED
  BY <1>1, <1>2, <1>3, MinerInvariant, PTL DEF MinerSpec

(* Nor, as long as none of their shares is sent ahead of mining.subscribe,   *)
(* the extranonce a job of this connection is hashed with.                   *)
THEOREM ThreadsHaveTheExtranonce == MinerSpec => []JobsCarryExtranonce
<1>1. MinerInit => SubscribeAnswered /\ XnCarried
  BY XnAtFirst DEF MinerInit
<1>2. MinerInv /\ SubscribeAnswered /\ XnCarried /\ [MinerNext]_minerVars =>
        SubscribeAnswered' /\ XnCarried'
  BY MinerSteps, SubscribeKept, XnKept DEF MinerInv
<1>3. XnCarried => JobsCarryExtranonce
  BY DEF XnCarried
<1> QED
  BY <1>1, <1>2, <1>3, MinerInvariant, PTL DEF MinerSpec

(* Nor, as long as none is sent ahead of mining.authorize, do they make      *)
(* authorize() take the answer to another request for its own.               *)
THEOREM ThreadsRunAuthorized == MinerSpec => []RunsAuthorized
<1>1. MinerInit => Awaited
  BY AwaitedAtFirst DEF MinerInit
<1>2. MinerInv /\ Awaited /\ [MinerNext]_minerVars => Awaited'
  BY MinerSteps, AwaitedKept DEF MinerInv
<1>3. Awaited => RunsAuthorized
  BY AwaitedHolds
<1> QED
  BY <1>1, <1>2, <1>3, MinerInvariant, PTL DEF MinerSpec

(* Whatever they send, and whatever the handshakes take for their own, the   *)
(* share callback is called no more often than pools have answered a share.  *)
THEOREM ThreadsHaveTheirAnswers == MinerSpec => []ReportsAnswers
<1>1. MinerInit => Tallied
  BY TallyAtFirst DEF MinerInit
<1>2. MinerInv /\ Tallied /\ [MinerNext]_minerVars /\ MinerInv' => Tallied'
  BY MinerSteps, TallyHolds DEF MinerInv
<1>3. Tallied => ReportsAnswers
  BY TallyReports
<1> QED
  BY <1>1, <1>2, <1>3, MinerInvariant, PTL DEF MinerSpec
================================================================================
