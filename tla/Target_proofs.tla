----------------------------- MODULE Target_proofs -----------------------------
(***************************************************************************)
(* Target proved for every base, every number of bytes and whatever is     *)
(* announced.  The numbers are defined by recursion over the bytes: the    *)
(* first lemmas are induction over them, from the least element that a set *)
(* of naturals has, and the existence of what is defined so.               *)
(***************************************************************************)
EXTENDS Target, WellFoundedInduction, TLAPS

(* A set of naturals that is not empty has a least element. *)
LEMMA LeastOfSet ==
  ASSUME NEW T, T \subseteq Nat, T # {}
  PROVE  \E n \in T : \A m \in T : n =< m
<1>1. PICK n \in T : \A m \in T : ~(<<m, n>> \in OpToRel(<, Nat))
  BY NatLessThanWellFounded, WFMin
<1>2. \A m \in T : ~(m < n)
  BY <1>1 DEF OpToRel
<1> QED
  BY <1>2

(* ... so that a set with 0 and the successor of each of its elements has all. *)
LEMMA SetInduction ==
  ASSUME NEW T, 0 \in T, \A n \in Nat : n \in T => n + 1 \in T
  PROVE  Nat \subseteq T
<1> SUFFICES ASSUME Nat \ T # {} PROVE FALSE
  OBVIOUS
<1>1. PICK n \in Nat \ T : \A m \in Nat \ T : n =< m
  BY LeastOfSet
<1>2. n - 1 \in Nat /\ n - 1 \in T
  BY <1>1
<1> QED
  BY <1>1, <1>2

LEMMA RangeInduction ==
  ASSUME NEW T, NEW m \in Nat, 0 \in T, \A n \in 0 .. m - 1 : n \in T => n + 1 \in T
  PROVE  0 .. m \subseteq T
<1> DEFINE U == {n \in Nat : n =< m => n \in T}
<1>1. 0 \in U
  OBVIOUS
<1>2. ASSUME NEW n \in Nat, n \in U PROVE n + 1 \in U
  <2> SUFFICES ASSUME n + 1 =< m PROVE n + 1 \in T
    OBVIOUS
  <2>1. n \in 0 .. m - 1 /\ n \in T
    BY <1>2
  <2> QED
    BY <2>1
<1> HIDE DEF U
<1>3. Nat \subseteq U
  BY <1>1, <1>2, SetInduction
<1> QED
  BY <1>3 DEF U

(* The first n values of what F makes of a. *)
Partial(S, a, F, g, n) ==
  /\ g \in [0 .. n -> S]
  /\ g[0] = a
  /\ \A k \in 0 .. n - 1 : g[k + 1] = F[<<k, g[k]>>]

LEMMA PartialsAgree ==
  ASSUME NEW S, NEW a, NEW F, NEW g, NEW h, NEW m \in Nat, NEW n \in Nat,
         Partial(S, a, F, g, m), Partial(S, a, F, h, n)
  PROVE  \A k \in Nat : k =< m /\ k =< n => g[k] = h[k]
<1> DEFINE T == {k \in Nat : k =< m /\ k =< n => g[k] = h[k]}
<1>1. 0 \in T
  BY DEF Partial
<1>2. ASSUME NEW k \in Nat, k \in T PROVE k + 1 \in T
  <2> SUFFICES ASSUME k + 1 =< m, k + 1 =< n PROVE g[k + 1] = h[k + 1]
    OBVIOUS
  <2>1. g[k] = h[k] /\ k \in 0 .. m - 1 /\ k \in 0 .. n - 1
    BY <1>2
  <2> QED
    BY <2>1 DEF Partial
<1> HIDE DEF T
<1>3. Nat \subseteq T
  BY <1>1, <1>2, SetInduction
<1> QED
  BY <1>3 DEF T

(* A function that each of its values gives the next one of exists. *)
LEMMA Recursion ==
  ASSUME NEW S, NEW a \in S, NEW F \in [Nat \X S -> S]
  PROVE  \E f \in [Nat -> S] : f[0] = a /\ \A n \in Nat : f[n + 1] = F[<<n, f[n]>>]
<1> DEFINE P(g, n) == Partial(S, a, F, g, n)
           T == {n \in Nat : \E g : P(g, n)}
<1>1. 0 \in T
  <2>1. P([k \in 0 .. 0 |-> a], 0)
    BY DEF Partial
  <2> HIDE DEF P
  <2> QED
    BY <2>1
<1>2. ASSUME NEW n \in Nat, n \in T PROVE n + 1 \in T
  <2>1. PICK g : P(g, n)
    BY <1>2
  <2> DEFINE h == [k \in 0 .. n + 1 |-> IF k = n + 1 THEN F[<<n, g[n]>>] ELSE g[k]]
  <2>2. P(h, n + 1)
    <3>1. g \in [0 .. n -> S] /\ g[0] = a /\ \A k \in 0 .. n - 1 : g[k + 1] = F[<<k, g[k]>>]
      BY <2>1 DEF Partial
    <3>2. F[<<n, g[n]>>] \in S
      BY <3>1
    <3>3. h \in [0 .. n + 1 -> S]
      BY <3>1, <3>2
    <3>4. h[0] = a
      BY <3>1
    <3>5. ASSUME NEW k \in 0 .. n PROVE h[k + 1] = F[<<k, h[k]>>]
      <4>1. h[k] = g[k]
        OBVIOUS
      <4>2. CASE k = n
        <5>1. h[k + 1] = F[<<n, g[n]>>]
          BY <4>2
        <5> QED
          BY <4>1, <4>2, <5>1
      <4>3. CASE k # n
        <5>1. k \in 0 .. n - 1
          BY <4>3
        <5>2. h[k + 1] = g[k + 1]
          BY <5>1
        <5> QED
          BY <3>1, <4>1, <5>1, <5>2
      <4> QED
        BY <4>2, <4>3
    <3>6. (n + 1) - 1 = n
      OBVIOUS
    <3> HIDE DEF h
    <3> QED
      BY <3>3, <3>4, <3>5, <3>6 DEF Partial
  <2> HIDE DEF P, h
  <2> QED
    BY <2>2
<1>3. Nat \subseteq T
  <2> HIDE DEF T
  <2> QED
    BY <1>1, <1>2, SetInduction
<1>4. \A n \in Nat : P(CHOOSE g : P(g, n), n)
  <2> HIDE DEF P
  <2>1. \A n \in Nat : \E g : P(g, n)
    BY <1>3
  <2> QED
    BY <2>1
<1> DEFINE s == [n \in Nat |-> CHOOSE g : P(g, n)]
           f == [n \in Nat |-> s[n][n]]
<1>5. \A n \in Nat : P(s[n], n)
  <2> HIDE DEF P
  <2> QED
    BY <1>4
<1> HIDE DEF s
<1>6. f \in [Nat -> S]
  BY <1>5 DEF Partial
<1>7. f[0] = a
  BY <1>5 DEF Partial
<1>8. ASSUME NEW n \in Nat PROVE f[n + 1] = F[<<n, f[n]>>]
  <2>1. P(s[n], n) /\ P(s[n + 1], n + 1)
    BY <1>5
  <2>2. s[n][n] = s[n + 1][n]
    BY <2>1, PartialsAgree
  <2>3. n \in 0 .. (n + 1) - 1
    OBVIOUS
  <2>4. s[n + 1][n + 1] = F[<<n, s[n + 1][n]>>]
    BY <2>1, <2>3 DEF Partial
  <2> QED
    BY <2>2, <2>4
<1> HIDE DEF f
<1> QED
  BY <1>6, <1>7, <1>8

LEMMA NatRecursion ==
  ASSUME NEW a \in Nat, NEW F \in [Nat \X Nat -> Nat]
  PROVE  \E f \in [Nat -> Nat] : f[0] = a /\ \A n \in Nat : f[n + 1] = F[<<n, f[n]>>]
<1>1. PICK S : S = Nat
  OBVIOUS
<1>2. a \in S /\ F \in [Nat \X S -> S]
  BY <1>1
<1>3. \E f \in [Nat -> S] : f[0] = a /\ \A n \in Nat : f[n + 1] = F[<<n, f[n]>>]
  BY <1>2, Recursion
<1> QED
  BY <1>1, <1>3

LEMMA PowerIs ==
  /\ Power \in [Nat -> Nat]
  /\ Power[0] = 1
  /\ \A n \in Nat : Power[n + 1] = Base * Power[n]
<1> DEFINE F == [p \in Nat \X Nat |-> Base * p[2]]
<1>1. F \in [Nat \X Nat -> Nat]
  BY SizeAssumption
<1>2. PICK f \in [Nat -> Nat] : f[0] = 1 /\ \A n \in Nat : f[n + 1] = Base * f[n]
  <2>1. PICK f \in [Nat -> Nat] : f[0] = 1 /\ \A n \in Nat : f[n + 1] = F[<<n, f[n]>>]
    <3>1. PICK a \in Nat : a = 1
      OBVIOUS
    <3> HIDE DEF F
    <3> QED
      BY <1>1, <3>1, NatRecursion
  <2>2. \A n \in Nat : F[<<n, f[n]>>] = Base * f[n]
    OBVIOUS
  <2> QED
    BY <2>1, <2>2
<1>3. f = [k \in Nat |-> IF k = 0 THEN 1 ELSE Base * f[k - 1]]
  <2>1. \A k \in Nat : f[k] = IF k = 0 THEN 1 ELSE Base * f[k - 1]
    <3> SUFFICES ASSUME NEW k \in Nat, k # 0 PROVE f[k] = Base * f[k - 1]
      BY <1>2
    <3>1. k - 1 \in Nat /\ k = (k - 1) + 1
      OBVIOUS
    <3> QED
      BY <1>2, <3>1
  <2> QED
    BY <2>1
<1>4. Power = [k \in Nat |-> IF k = 0 THEN 1 ELSE Base * Power[k - 1]]
  BY <1>3 DEF Power
<1>5. \A k \in Nat : Power[k] = IF k = 0 THEN 1 ELSE Base * Power[k - 1]
  BY <1>4
<1>6. Power[0] = 1 /\ \A n \in Nat : Power[n + 1] = Base * Power[n]
  BY <1>5
<1>7. Power \in [Nat -> Nat]
  <2> DEFINE T == {n \in Nat : Power[n] \in Nat}
  <2>1. 0 \in T
    BY <1>6
  <2>2. ASSUME NEW n \in Nat, n \in T PROVE n + 1 \in T
    BY <1>6, <2>2, SizeAssumption
  <2> HIDE DEF T
  <2>3. Nat \subseteq T
    BY <2>1, <2>2, SetInduction
  <2>4. \A n \in Nat : Power[n] \in Nat
    BY <2>3 DEF T
  <2> QED
    BY <1>4, <2>4
<1> QED
  BY <1>6, <1>7

LEMMA PowerPositive == \A n \in Nat : Power[n] \in Nat \ {0}
<1> DEFINE T == {n \in Nat : Power[n] \in Nat \ {0}}
<1>1. 0 \in T
  BY PowerIs
<1>2. ASSUME NEW n \in Nat, n \in T PROVE n + 1 \in T
  <2>1. Power[n] \in Nat \ {0} /\ Power[n + 1] = Base * Power[n]
    BY <1>2, PowerIs
  <2> QED
    BY <2>1, SizeAssumption
<1> HIDE DEF T
<1>3. Nat \subseteq T
  BY <1>1, <1>2, SetInduction
<1> QED
  BY <1>3 DEF T

-------------------------------------------------------------------------------
(* A hash read from its first byte on, and a number taken apart. *)
LEMMA SumsAre ==
  ASSUME NEW hash \in Bytes
  PROVE  LET s == Sums(hash) IN
         /\ s[0] = 0
         /\ \A n \in Index : s[n + 1] = s[n] + hash[n] * Power[n]
         /\ \A n \in 0 .. Len : s[n] \in Nat
<1> DEFINE step(n) == IF n \in Index THEN hash[n] * Power[n] ELSE 0
           F == [p \in Nat \X Nat |-> p[2] + step(p[1])]
<1>1. \A n \in Nat : step(n) \in Nat
  <2> SUFFICES ASSUME NEW n \in Index PROVE hash[n] * Power[n] \in Nat
    OBVIOUS
  <2>1. hash[n] \in Nat /\ n \in Nat
    BY SizeAssumption DEF Bytes, Index
  <2> QED
    BY <2>1, PowerIs
<1>2. PICK f \in [Nat -> Nat] : f[0] = 0 /\ \A n \in Nat : f[n + 1] = f[n] + step(n)
  <2> HIDE DEF step
  <2>1. F \in [Nat \X Nat -> Nat]
    BY <1>1
  <2>2. PICK f \in [Nat -> Nat] : f[0] = 0 /\ \A n \in Nat : f[n + 1] = F[<<n, f[n]>>]
    <3>1. PICK a \in Nat : a = 0
      OBVIOUS
    <3> HIDE DEF F
    <3> QED
      BY <2>1, <3>1, NatRecursion
  <2>3. \A n \in Nat : F[<<n, f[n]>>] = f[n] + step(n)
    OBVIOUS
  <2> QED
    BY <2>2, <2>3
<1> DEFINE g == [n \in 0 .. Len |-> f[n]]
           Sum(h) == h = [n \in 0 .. Len |->
                            IF n = 0 THEN 0 ELSE h[n - 1] + hash[n - 1] * Power[n - 1]]
<1>3. Sum(g)
  <2> SUFFICES ASSUME NEW n \in 0 .. Len, n # 0 PROVE f[n] = g[n - 1] + hash[n - 1] * Power[n - 1]
    BY <1>2
  <2>1. n - 1 \in Index /\ n - 1 \in Nat /\ n - 1 \in 0 .. Len /\ n = (n - 1) + 1
    BY SizeAssumption DEF Index
  <2>2. f[n] = f[n - 1] + step(n - 1)
    BY <1>2, <2>1
  <2> QED
    BY <2>1, <2>2
<1>4. Sums(hash) = CHOOSE h : Sum(h)
  BY DEF Sums
<1>5. Sum(Sums(hash))
  <2> HIDE DEF Sum, g
  <2> QED
    BY <1>3, <1>4
<1> DEFINE s == Sums(hash)
<1>6. s = [n \in 0 .. Len |-> IF n = 0 THEN 0 ELSE s[n - 1] + hash[n - 1] * Power[n - 1]]
  BY <1>5
<1> HIDE DEF s, Sum, g, F
<1>7. s[0] = 0
  BY <1>6, SizeAssumption
<1>8. ASSUME NEW n \in Index PROVE s[n + 1] = s[n] + hash[n] * Power[n]
  <2>1. n + 1 \in 0 .. Len /\ n + 1 # 0 /\ (n + 1) - 1 = n
    BY SizeAssumption DEF Index
  <2> QED
    BY <1>6, <2>1
<1>9. \A n \in 0 .. Len : s[n] \in Nat
  <2> DEFINE T == {n \in 0 .. Len : s[n] \in Nat}
  <2>1. 0 \in T
    BY <1>7, SizeAssumption
  <2>2. ASSUME NEW n \in 0 .. Len - 1, n \in T PROVE n + 1 \in T
    <3>1. n \in Index /\ n \in Nat /\ n + 1 \in 0 .. Len
      BY SizeAssumption DEF Index
    <3>2. hash[n] * Power[n] \in Nat
      BY <1>1, <3>1
    <3> QED
      BY <1>8, <2>2, <3>1, <3>2
  <2> HIDE DEF T
  <2>3. 0 .. Len \subseteq T
    BY <2>1, <2>2, RangeInduction, SizeAssumption
  <2> QED
    BY <2>3 DEF T
<1> QED
  BY <1>7, <1>8, <1>9 DEF s

LEMMA RemainingIs ==
  ASSUME NEW v \in Nat
  PROVE  LET r == Remaining(v) IN
         /\ r[0] = v
         /\ \A n \in Index : r[n + 1] = r[n] \div Base
         /\ \A n \in 0 .. Len : r[n] \in Nat
<1> DEFINE F == [p \in Nat \X Nat |-> p[2] \div Base]
<1>1. \A n \in Nat : n \div Base \in Nat
  BY SizeAssumption
<1>2. PICK f \in [Nat -> Nat] : f[0] = v /\ \A n \in Nat : f[n + 1] = f[n] \div Base
  <2>1. F \in [Nat \X Nat -> Nat]
    BY <1>1
  <2>2. PICK f \in [Nat -> Nat] : f[0] = v /\ \A n \in Nat : f[n + 1] = F[<<n, f[n]>>]
    <3> HIDE DEF F
    <3> QED
      BY <2>1, NatRecursion
  <2>3. \A n \in Nat : F[<<n, f[n]>>] = f[n] \div Base
    OBVIOUS
  <2> QED
    BY <2>2, <2>3
<1> DEFINE g == [n \in 0 .. Len |-> f[n]]
           Rest(h) == h = [n \in 0 .. Len |-> IF n = 0 THEN v ELSE h[n - 1] \div Base]
<1>3. Rest(g)
  <2> SUFFICES ASSUME NEW n \in 0 .. Len, n # 0 PROVE f[n] = g[n - 1] \div Base
    BY <1>2
  <2>1. n - 1 \in Nat /\ n - 1 \in 0 .. Len /\ n = (n - 1) + 1
    BY SizeAssumption
  <2>2. f[n] = f[n - 1] \div Base
    BY <1>2, <2>1
  <2> QED
    BY <2>1, <2>2
<1>4. Remaining(v) = CHOOSE h : Rest(h)
  BY DEF Remaining
<1>5. Rest(Remaining(v))
  <2> HIDE DEF Rest, g
  <2> QED
    BY <1>3, <1>4
<1> DEFINE r == Remaining(v)
<1>6. r = [n \in 0 .. Len |-> IF n = 0 THEN v ELSE r[n - 1] \div Base]
  BY <1>5
<1> HIDE DEF r, Rest, g, F
<1>7. r[0] = v
  BY <1>6, SizeAssumption
<1>8. ASSUME NEW n \in Index PROVE r[n + 1] = r[n] \div Base
  <2>1. n + 1 \in 0 .. Len /\ n + 1 # 0 /\ (n + 1) - 1 = n
    BY SizeAssumption DEF Index
  <2> QED
    BY <1>6, <2>1
<1>9. \A n \in 0 .. Len : r[n] \in Nat
  <2> DEFINE T == {n \in 0 .. Len : r[n] \in Nat}
  <2>1. 0 \in T
    BY <1>7, SizeAssumption
  <2>2. ASSUME NEW n \in 0 .. Len - 1, n \in T PROVE n + 1 \in T
    <3>1. n \in Index /\ n + 1 \in 0 .. Len
      BY SizeAssumption DEF Index
    <3> QED
      BY <1>1, <1>8, <2>2, <3>1
  <2> HIDE DEF T
  <2>3. 0 .. Len \subseteq T
    BY <2>1, <2>2, RangeInduction, SizeAssumption
  <2> QED
    BY <2>3 DEF T
<1> QED
  BY <1>7, <1>8, <1>9 DEF r

LEMMA IndexFits == \A n \in Index : n \in Nat /\ n \in 0 .. Len /\ n + 1 \in 0 .. Len
  BY SizeAssumption DEF Index

(* The first n bytes of a hash are less than Base^n. *)
LEMMA SumsBounded ==
  ASSUME NEW hash \in Bytes
  PROVE  \A n \in 0 .. Len : Sums(hash)[n] < Power[n]
<1> DEFINE s == Sums(hash)
           T == {n \in 0 .. Len : s[n] < Power[n]}
<1> HIDE DEF s
<1>1. /\ s[0] = 0
      /\ \A n \in Index : s[n + 1] = s[n] + hash[n] * Power[n]
      /\ \A n \in 0 .. Len : s[n] \in Nat
  BY SumsAre DEF s
<1>2. 0 \in T
  BY <1>1, PowerIs, SizeAssumption
<1>3. ASSUME NEW n \in 0 .. Len - 1, n \in T PROVE n + 1 \in T
  <2>1. n \in Index /\ n \in Nat /\ n + 1 \in 0 .. Len
    BY SizeAssumption DEF Index
  <2>2. hash[n] \in Nat /\ hash[n] =< Base - 1
    BY <2>1, SizeAssumption DEF Bytes
  <2>3. Power[n] \in Nat /\ Power[n + 1] = Base * Power[n] /\ Base \in Nat
    BY <2>1, PowerIs, SizeAssumption
  <2>4. hash[n] * Power[n] =< (Base - 1) * Power[n]
    BY <2>2, <2>3
  <2>5. (Base - 1) * Power[n] = Base * Power[n] - Power[n]
    BY <2>3
  <2>6. hash[n] * Power[n] \in Nat /\ Base * Power[n] \in Nat
    BY <2>2, <2>3
  <2>7. s[n] < Power[n] /\ s[n] \in Nat /\ s[n + 1] = s[n] + hash[n] * Power[n]
    BY <1>1, <1>3, <2>1
  <2>8. s[n + 1] < Power[n + 1]
    BY <2>3, <2>4, <2>5, <2>6, <2>7
  <2> QED
    BY <2>1, <2>8
<1> HIDE DEF T
<1>4. 0 .. Len \subseteq T
  BY <1>2, <1>3, RangeInduction, SizeAssumption
<1> QED
  BY <1>4 DEF T, s

LEMMA HashValueIsNat ==
  ASSUME NEW hash \in Bytes PROVE HashValue(hash) \in Nat /\ HashValue(hash) < Power[Len]
<1>1. Len \in 0 .. Len
  BY SizeAssumption
<1> QED
  BY <1>1, SumsAre, SumsBounded DEF HashValue

LEMMA BigEndianIsBytes == ASSUME NEW v \in Nat PROVE BigEndian(v) \in Bytes
<1> SUFFICES ASSUME NEW k \in Index PROVE Remaining(v)[Len - 1 - k] % Base \in 0 .. Base - 1
  BY DEF BigEndian, Bytes
<1>1. Remaining(v)[Len - 1 - k] \in Nat
  BY RemainingIs, SizeAssumption DEF Index
<1> QED
  BY <1>1, SizeAssumption

LEMMA ReversedIsBytes == ASSUME NEW b \in Bytes PROVE Reversed(b) \in Bytes
<1>1. \A k \in Index : Len - 1 - k \in Index
  BY SizeAssumption DEF Index
<1> QED
  BY <1>1 DEF Reversed, Bytes

(* A number is its remainder, if it comes to the number with a multiple. *)
LEMMA RemainderIs ==
  ASSUME NEW m \in Nat \ {0}, NEW q \in Nat, NEW r \in Nat, r < m
  PROVE  (q * m + r) % m = r
<1> DEFINE v == q * m + r
           p == v \div m
           s == v % m
<1>1. v \in Nat
  OBVIOUS
<1>2. p \in Nat /\ s \in Nat /\ s < m /\ v = p * m + s
  <2> HIDE DEF v
  <2> QED
    BY <1>1
<1>3. q * m + r = p * m + s
  BY <1>2
<1> HIDE DEF v, p, s
<1>4. q * m \in Nat /\ p * m \in Nat
  BY <1>2
<1>5. ~(p < q)
  <2> SUFFICES ASSUME p + 1 =< q PROVE FALSE
    BY <1>2
  <2>1. (p + 1) * m =< q * m
    BY <1>2
  <2>2. (p + 1) * m = p * m + m
    BY <1>2
  <2> QED
    BY <1>2, <1>3, <1>4, <2>1, <2>2
<1>6. ~(q < p)
  <2> SUFFICES ASSUME q + 1 =< p PROVE FALSE
    BY <1>2
  <2>1. (q + 1) * m =< p * m
    BY <1>2
  <2>2. (q + 1) * m = q * m + m
    OBVIOUS
  <2> QED
    BY <1>2, <1>3, <1>4, <2>1, <2>2
<1>7. p = q
  BY <1>2, <1>5, <1>6
<1>8. s = r
  BY <1>2, <1>3, <1>4, <1>7
<1> QED
  BY <1>8 DEF s, v

LEMMA DivisionIs ==
  ASSUME NEW m \in Nat \ {0}, NEW n \in Nat
  PROVE  n = (n \div m) * m + (n % m) /\ n \div m \in Nat /\ n % m \in Nat
OBVIOUS

(* A number written as bytes, of which the last counts least, and read from  *)
(* the other end, is the number, as far as the bytes go.                     *)
LEMMA WrittenAndRead ==
  ASSUME NEW v \in Nat PROVE HashValue(Reversed(BigEndian(v))) = v % Power[Len]
<1> DEFINE b == Reversed(BigEndian(v))
           s == Sums(b)
           r == Remaining(v)
           T == {n \in 0 .. Len : s[n] + r[n] * Power[n] = v}
<1>1. b \in Bytes
  BY BigEndianIsBytes, ReversedIsBytes
<1>2. \A n \in Index : b[n] = r[n] % Base
  <2> SUFFICES ASSUME NEW n \in Index PROVE b[n] = r[n] % Base
    OBVIOUS
  <2>1. Len - 1 - n \in Index /\ Len - 1 - (Len - 1 - n) = n
    BY SizeAssumption DEF Index
  <2> QED
    BY <2>1 DEF Reversed, BigEndian
<1> HIDE DEF b
<1>3. /\ s[0] = 0
      /\ \A n \in Index : s[n + 1] = s[n] + b[n] * Power[n]
      /\ \A n \in 0 .. Len : s[n] \in Nat
      /\ \A n \in 0 .. Len : s[n] < Power[n]
  BY <1>1, SumsAre, SumsBounded
<1>4. /\ r[0] = v
      /\ \A n \in Index : r[n + 1] = r[n] \div Base
      /\ \A n \in 0 .. Len : r[n] \in Nat
  BY RemainingIs
<1> HIDE DEF s, r
<1>5. 0 \in T
  BY <1>3, <1>4, PowerIs, SizeAssumption
<1>6. ASSUME NEW n \in 0 .. Len - 1, n \in T PROVE n + 1 \in T
  <2>1. n \in Index /\ n \in Nat /\ n + 1 \in 0 .. Len
    BY SizeAssumption DEF Index
  <2> DEFINE p == Power[n]
             q == r[n + 1]
             d == b[n]
  <2>2. r[n] = q * Base + d /\ q \in Nat /\ d \in Nat
    <3>1. q = r[n] \div Base /\ d = r[n] % Base
      BY <1>2, <1>4, <2>1
    <3>2. r[n] \in Nat
      BY <1>4, <2>1, IndexFits
    <3> HIDE DEF q, d
    <3> QED
      BY <3>1, <3>2, DivisionIs, SizeAssumption
  <2>3. p \in Nat /\ Power[n + 1] = Base * p
    <3>1. \A k \in Nat : Power[k] \in Nat /\ Power[k + 1] = Base * Power[k]
      BY PowerIs
    <3> QED
      BY <2>1, <3>1
  <2>4. s[n + 1] = s[n] + d * p /\ s[n] \in Nat
    BY <1>3, <2>1, IndexFits
  <2>5. s[n] + r[n] * p = v
    BY <1>6
  <2> HIDE DEF p, q, d
  <2>6. (q * Base + d) * p = q * (Base * p) + d * p
    BY <2>2, <2>3, SizeAssumption
  <2>7. q * (Base * p) \in Nat /\ d * p \in Nat
    BY <2>2, <2>3, SizeAssumption
  <2>8. s[n + 1] + q * (Base * p) = v
    BY <2>2, <2>4, <2>5, <2>6, <2>7
  <2> QED
    BY <2>1, <2>3, <2>8 DEF q, p
<1> HIDE DEF T
<1>7. 0 .. Len \subseteq T
  BY <1>5, <1>6, RangeInduction, SizeAssumption
<1>8. s[Len] + r[Len] * Power[Len] = v /\ s[Len] \in Nat /\ s[Len] < Power[Len] /\ r[Len] \in Nat
  <2>1. Len \in 0 .. Len
    BY SizeAssumption
  <2> QED
    BY <1>3, <1>4, <1>7, <2>1 DEF T
<1>9. Power[Len] \in Nat \ {0}
  BY PowerPositive, SizeAssumption
<1>10. v % Power[Len] = s[Len]
  <2>1. v = r[Len] * Power[Len] + s[Len]
    BY <1>8, <1>9
  <2> QED
    BY <1>8, <1>9, <2>1, RemainderIs
<1> QED
  BY <1>10 DEF HashValue, s, b

-------------------------------------------------------------------------------
(* The last byte that differs decides between two numbers. *)
LEMMA LastByteDecides ==
  ASSUME NEW g \in Bytes, NEW h \in Bytes, NEW m \in Index, g[m] < h[m],
         \A k \in Index : k > m => g[k] = h[k]
  PROVE  HashValue(g) < HashValue(h)
<1> DEFINE s == Sums(g)
           t == Sums(h)
           T == {n \in 0 .. Len : n > m => s[n] < t[n]}
<1>1. /\ \A n \in Index : s[n + 1] = s[n] + g[n] * Power[n]
      /\ \A n \in 0 .. Len : s[n] \in Nat /\ s[n] < Power[n]
  BY SumsAre, SumsBounded
<1>2. /\ \A n \in Index : t[n + 1] = t[n] + h[n] * Power[n]
      /\ \A n \in 0 .. Len : t[n] \in Nat
  BY SumsAre
<1> HIDE DEF s, t
<1>3. m \in Nat /\ Len \in Nat /\ m < Len
  BY SizeAssumption DEF Index
<1>4. 0 \in T
  BY <1>3
<1>5. ASSUME NEW n \in 0 .. Len - 1, n \in T PROVE n + 1 \in T
  <2>1. n \in Index /\ n \in Nat /\ n + 1 \in 0 .. Len /\ n \in 0 .. Len
    BY <1>3 DEF Index
  <2>2. /\ s[n + 1] = s[n] + g[n] * Power[n] /\ s[n] \in Nat /\ s[n] < Power[n]
        /\ t[n + 1] = t[n] + h[n] * Power[n] /\ t[n] \in Nat
    BY <1>1, <1>2, <2>1
  <2>3. Power[n] \in Nat
    BY <2>1, PowerIs
  <2>4. g[n] \in Nat /\ h[n] \in Nat
    BY <2>1, SizeAssumption DEF Bytes
  <2>5. g[n] * Power[n] \in Nat /\ h[n] * Power[n] \in Nat
    BY <2>3, <2>4
  <2>6. CASE n > m
    <3>1. g[n] = h[n] /\ s[n] < t[n]
      BY <1>5, <2>1, <2>6
    <3> QED
      BY <2>1, <2>2, <2>5, <3>1
  <2>7. CASE n = m
    <3>1. (g[n] + 1) * Power[n] =< h[n] * Power[n]
      BY <2>3, <2>4, <2>7
    <3>2. (g[n] + 1) * Power[n] = g[n] * Power[n] + Power[n]
      BY <2>3, <2>4
    <3>3. s[n + 1] < t[n + 1]
      BY <2>2, <2>3, <2>5, <3>1, <3>2
    <3> QED
      BY <2>1, <3>3
  <2>8. CASE n < m
    BY <1>3, <2>1, <2>8
  <2> QED
    BY <1>3, <2>1, <2>6, <2>7, <2>8
<1> HIDE DEF T
<1>6. 0 .. Len \subseteq T
  BY <1>3, <1>4, <1>5, RangeInduction
<1>7. s[Len] < t[Len]
  <2>1. Len \in 0 .. Len
    BY <1>3
  <2> QED
    BY <1>3, <1>6, <2>1 DEF T
<1> QED
  BY <1>7 DEF HashValue, s, t

(* Among the bytes that differ there is a last one. *)
LEMMA LastOfIndex ==
  ASSUME NEW d, d \subseteq Index, d # {}
  PROVE  Max(d) \in d /\ \A k \in d : Max(d) >= k
<1> DEFINE T == {Len - k : k \in d}
<1>1. T \subseteq Nat /\ T # {}
  <2>1. \A k \in d : Len - k \in Nat
    BY SizeAssumption DEF Index
  <2> QED
    BY <2>1
<1>2. PICK n \in T : \A m \in T : n =< m
  BY <1>1, LeastOfSet
<1>3. PICK l \in d : n = Len - l
  BY <1>2
<1>4. \A k \in d : l >= k
  <2> SUFFICES ASSUME NEW k \in d PROVE l >= k
    OBVIOUS
  <2>1. Len - k \in T
    OBVIOUS
  <2>2. Len - l =< Len - k
    BY <1>2, <1>3, <2>1
  <2> QED
    BY <2>2, SizeAssumption DEF Index
<1>5. \E x \in d : \A y \in d : x >= y
  BY <1>4
<1> QED
  BY <1>5 DEF Max

(* meets_target() compares the numbers. *)
LEMMA MeetsTargetCompares ==
  ASSUME NEW hash \in Bytes, NEW target \in Bytes
  PROVE  MeetsTarget(hash, target) <=> HashValue(hash) =< HashValue(target)
<1> DEFINE d == Differing(hash, target)
           m == Max(d)
<1>1. HashValue(hash) \in Nat /\ HashValue(target) \in Nat
  BY HashValueIsNat
<1>2. CASE d = {}
  <2>1. hash = target
    <3>1. \A k \in Index : hash[k] = target[k]
      BY <1>2 DEF Differing
    <3> QED
      BY <3>1 DEF Bytes
  <2> QED
    BY <1>1, <1>2, <2>1 DEF MeetsTarget
<1>3. CASE d # {}
  <2>1. m \in d /\ \A k \in d : m >= k
    BY <1>3, LastOfIndex DEF Differing
  <2> HIDE DEF m
  <2>2. m \in Index /\ hash[m] # target[m] /\ \A k \in Index : k > m => hash[k] = target[k]
    BY <2>1, IndexFits DEF Differing
  <2>3. hash[m] \in Nat /\ target[m] \in Nat
    BY <2>2, SizeAssumption DEF Bytes
  <2>4. MeetsTarget(hash, target) <=> hash[m] < target[m]
    BY <1>3 DEF MeetsTarget, m
  <2>5. CASE hash[m] < target[m]
    <3>1. HashValue(hash) < HashValue(target)
      BY <2>2, <2>5, LastByteDecides
    <3> QED
      BY <1>1, <2>4, <2>5, <3>1
  <2>6. CASE target[m] < hash[m]
    <3>1. HashValue(target) < HashValue(hash)
      BY <2>2, <2>6, LastByteDecides
    <3> QED
      BY <1>1, <2>3, <2>4, <2>6, <3>1
  <2> QED
    BY <2>2, <2>3, <2>5, <2>6
<1> QED
  BY <1>2, <1>3

(* A target made of a number is met by the numbers up to it, if it fits. *)
LEMMA SharesUpToNumber ==
  ASSUME NEW v \in Nat, v < Power[Len], job.target = Reversed(BigEndian(v))
  PROVE  SharesUpTo(v)
<1>1. job.target \in Bytes
  BY BigEndianIsBytes, ReversedIsBytes
<1>2. HashValue(job.target) = v
  <2>1. Power[Len] \in Nat \ {0}
    BY PowerPositive, SizeAssumption
  <2>2. v % Power[Len] = v
    BY <2>1
  <2> QED
    BY <2>2, WrittenAndRead
<1> QED
  BY <1>1, <1>2, MeetsTargetCompares DEF SharesUpTo

-------------------------------------------------------------------------------
LEMMA BaseTargetPositive == BaseTarget \in Nat \ {0}
<1>1. Power[2] = Base * Base
  <2>1. \A n \in Nat : Power[n + 1] = Base * Power[n]
    BY PowerIs
  <2>2. Power[0] = 1
    BY PowerIs
  <2>3. Power[1] = Base * Power[0] /\ Power[2] = Base * Power[1]
    <3>1. Power[0 + 1] = Base * Power[0] /\ Power[1 + 1] = Base * Power[1]
      BY <2>1
    <3>2. 0 + 1 = 1 /\ 1 + 1 = 2
      OBVIOUS
    <3> QED
      BY <3>1, <3>2
  <2> QED
    BY <2>2, <2>3, SizeAssumption
<1>2. Base * Base - 1 \in Nat \ {0}
  <2>1. Base \in Nat /\ Base >= 2
    BY SizeAssumption
  <2>2. Base * Base >= 2 * Base
    BY <2>1
  <2> QED
    BY <2>1, <2>2
<1>3. Power[Shift] \in Nat \ {0}
  BY PowerPositive, SizeAssumption
<1>4. \A a, b \in Nat \ {0} : a * b \in Nat \ {0}
  OBVIOUS
<1> QED
  BY <1>1, <1>2, <1>3, <1>4 DEF BaseTarget

LEMMA QuotientIsNat ==
  ASSUME NEW diff \in (Nat \ {0}) \X Nat PROVE Quotient(diff) \in Nat
<1>1. diff[1] \in Nat \ {0} /\ diff[2] \in Nat
  OBVIOUS
<1>2. BaseTarget * diff[2] \in Nat
  BY <1>1, BaseTargetPositive
<1> QED
  BY <1>1, <1>2, DivisionIs DEF Quotient

LEMMA TargetFits == \A t \in Targets : t \in Nat /\ t < Power[Len]
<1>1. Power[Len] \in Nat
  BY PowerIs, SizeAssumption
<1> QED
  BY <1>1, AnnouncedAssumption

(* The bytes of the target a pool announced are kept the other way around,   *)
(* and a pool that announced none left no bytes.                             *)
AskedIsKept ==
  /\ asked \in Targets => poolTarget = Reversed(BigEndian(asked))
  /\ hasPoolTarget <=> asked # NoTarget

(* The job has the target its announcement stands for. *)
JobIsAsAsked ==
  /\ job.asked \in Targets => job.target = Reversed(BigEndian(job.asked))
  /\ job.asked = NoTarget => job.target = BigEndian(Quotient(job.difficulty))

IInv == TypeOK /\ AskedIsKept /\ JobIsAsAsked

LEMMA ZerosIsBytes == Zeros \in Bytes
BY SizeAssumption DEF Zeros, Bytes

LEMMA InitIInv == Init => IInv
<1> SUFFICES ASSUME Init PROVE IInv
  OBVIOUS
<1>1. Unread \notin Targets /\ NoTarget \notin Targets /\ Unread # NoTarget
  BY TargetFits DEF Unread, NoTarget
<1>2. <<1, 1>> \in (Nat \ {0}) \X Nat
  OBVIOUS
<1>3. TypeOK
  <2>1. job \in [target : Bytes, asked : Targets \union {NoTarget, Unread},
                difficulty : (Nat \ {0}) \X Nat]
    BY <1>2, ZerosIsBytes DEF Init
  <2> QED
    BY <1>2, <2>1, ZerosIsBytes DEF Init, TypeOK
<1>4. AskedIsKept
  BY <1>1 DEF Init, AskedIsKept
<1>5. JobIsAsAsked
  BY <1>1 DEF Init, JobIsAsAsked
<1> QED
  BY <1>3, <1>4, <1>5 DEF IInv

LEMMA NextIInv == IInv /\ [Next]_vars => IInv'
<1> SUFFICES ASSUME IInv, [Next]_vars PROVE IInv'
  OBVIOUS
<1> USE DEF IInv, TypeOK, AskedIsKept, JobIsAsAsked
<1>0. Unread \notin Targets /\ NoTarget \notin Targets /\ Unread # NoTarget
  BY TargetFits DEF Unread, NoTarget
<1>1. CASE SetDifficulty
  <2>1. PICK diff \in Difficulties :
          /\ difficulty' = IF diff[1] > 0 THEN diff ELSE difficulty
          /\ UNCHANGED <<hasPoolTarget, poolTarget, asked, job>>
    BY <1>1 DEF SetDifficulty
  <2>2. diff \in Int \X (Nat \ {0})
    BY AnnouncedAssumption
  <2>3. difficulty' \in (Nat \ {0}) \X Nat
    BY <2>1, <2>2
  <2> QED
    BY <2>1, <2>3
<1>2. CASE SetTarget
  <2>1. PICK t \in Targets :
          /\ TakePoolTarget(BigEndian(t))
          /\ difficulty' = <<BaseTarget, t>>
          /\ asked' = t
          /\ UNCHANGED job
    BY <1>2 DEF SetTarget
  <2>2. Reversed(BigEndian(t)) \in Bytes /\ t \in Nat
    BY TargetFits, BigEndianIsBytes, ReversedIsBytes
  <2>3. difficulty' \in (Nat \ {0}) \X Nat
    BY <2>1, <2>2, BaseTargetPositive
  <2> QED
    BY <1>0, <2>1, <2>2, <2>3 DEF TakePoolTarget
<1>3. CASE SetUnreadTarget
  <2>1. PICK t \in Targets, left \in Leftovers, n \in Index :
          LET b == [k \in Index |-> IF k < n THEN BigEndian(t)[k] ELSE left[k]] IN
          /\ TakePoolTarget(b)
          /\ difficulty' = <<BaseTarget, HashValue(Reversed(b))>>
          /\ asked' = Unread
          /\ UNCHANGED job
    BY <1>3 DEF SetUnreadTarget
  <2> DEFINE b == [k \in Index |-> IF k < n THEN BigEndian(t)[k] ELSE left[k]]
  <2>2. BigEndian(t) \in Bytes /\ left \in Bytes
    BY TargetFits, BigEndianIsBytes, AnnouncedAssumption
  <2>3. b \in Bytes
    BY <2>2 DEF Bytes
  <2>4. /\ TakePoolTarget(b)
        /\ difficulty' = <<BaseTarget, HashValue(Reversed(b))>>
        /\ asked' = Unread
        /\ UNCHANGED job
    BY <2>1
  <2> HIDE DEF b
  <2>5. Reversed(b) \in Bytes /\ HashValue(Reversed(b)) \in Nat
    BY <2>3, ReversedIsBytes, HashValueIsNat
  <2>6. difficulty' \in (Nat \ {0}) \X Nat
    BY <2>4, <2>5, BaseTargetPositive
  <2> QED
    BY <1>0, <2>4, <2>5, <2>6 DEF TakePoolTarget
<1>4. CASE NewJob
  <2>1. DifficultyToTarget \in Bytes
    BY QuotientIsNat, BigEndianIsBytes DEF DifficultyToTarget
  <2>2. CalculateTarget \in Bytes
    BY <2>1 DEF CalculateTarget
  <2>3. /\ job' = [target |-> CalculateTarget, asked |-> asked, difficulty |-> difficulty]
        /\ UNCHANGED <<difficulty, hasPoolTarget, poolTarget, asked>>
    BY <1>4 DEF NewJob
  <2>4. TypeOK'
    BY <2>2, <2>3
  <2>5. asked \in Targets => CalculateTarget = Reversed(BigEndian(asked))
    BY <1>0 DEF CalculateTarget
  <2>6. asked = NoTarget => CalculateTarget = BigEndian(Quotient(difficulty))
    BY DEF CalculateTarget, DifficultyToTarget
  <2> QED
    BY <2>3, <2>4, <2>5, <2>6
<1>5. CASE UNCHANGED vars
  BY <1>5 DEF vars
<1> QED
  BY <1>1, <1>2, <1>3, <1>4, <1>5 DEF Next

(* Every variable keeps its type: what arrives as a target, hexadecimal or   *)
(* not, is Len bytes, and a difficulty that is not positive never divides.   *)
THEOREM TypeCorrect == Spec => []TypeOK
<1>1. IInv => TypeOK
  BY DEF IInv
<1> QED
  BY <1>1, InitIInv, NextIInv, PTL DEF Spec

(* A job made after mining.set_target is submitted for exactly the hashes    *)
(* up to the number the pool announced, for any base, any number of bytes    *)
(* and any order of announcements: the two reversals of the bytes, when the  *)
(* target is read and when the hash is compared, agree.                      *)
THEOREM SharesAsAsked == Spec => []TargetSharesFound
<1>1. IInv => TargetSharesFound
  <2> SUFFICES ASSUME IInv, job.asked \in Targets PROVE SharesUpTo(job.asked)
    BY DEF TargetSharesFound
  <2>1. job.target = Reversed(BigEndian(job.asked))
    BY DEF IInv, JobIsAsAsked
  <2>2. job.asked \in Nat /\ job.asked < Power[Len]
    BY TargetFits
  <2> QED
    BY <2>1, <2>2, SharesUpToNumber
<1> QED
  BY <1>1, InitIInv, NextIInv, PTL DEF Spec

(* What a job made from a difficulty holds, read from its last byte, is      *)
(* base / difficulty, less what does not fit.                                *)
THEOREM DifficultiesAreWritten == Spec => []DifficultyWritten
<1>1. IInv => DifficultyWritten
  <2> SUFFICES ASSUME IInv, job.asked = NoTarget
               PROVE  HashValue(Reversed(job.target)) = Quotient(job.difficulty) % Power[Len]
    BY DEF DifficultyWritten
  <2>1. job.target = BigEndian(Quotient(job.difficulty))
    BY DEF IInv, JobIsAsAsked
  <2>2. Quotient(job.difficulty) \in Nat
    BY QuotientIsNat DEF IInv, TypeOK
  <2> QED
    BY <2>1, <2>2, WrittenAndRead
<1> QED
  BY <1>1, InitIInv, NextIInv, PTL DEF Spec
===============================================================================
