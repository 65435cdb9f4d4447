-------------------------- MODULE SystemMonitor_proofs --------------------------
(***************************************************************************)
(* SystemMonitor proved for any number of readers, any counter and any     *)
(* draw: what is shown of the CPU is at most what the code takes for a     *)
(* possible power, however the readers disturb each other, and a power     *)
(* that has been drawn as long as they do not.                             *)
(***************************************************************************)
EXTENDS SystemMonitor, TLAPS

LEMMA InitHolds == Init => IInv
<1> SUFFICES ASSUME Init PROVE IInv
  OBVIOUS
<1> USE CounterAssumption, PowerAssumption DEF Init
<1>1. lastEnergy \in 0 .. Words - 1
  <2>1. counter \in 0 .. Words - 1
    <3>1. counter \in 0 .. Range - 1
      OBVIOUS
    <3> QED
      BY <3>1
  <2>2. lastEnergy = 0 \/ lastEnergy \in Readings
    OBVIOUS
  <2>3. 0 \in 0 .. Words - 1
    OBVIOUS
  <2>4. Readings \subseteq 0 .. Words - 1
    BY <2>1, <2>3, LeftoversAssumption DEF Readings
  <2> HIDE DEF Init
  <2> QED
    BY <2>2, <2>3, <2>4
<1>2. /\ pc = [r \in Readers |-> "idle"]
      /\ verdict = [r \in Readers |-> "cached"]
      /\ <<now, current, seconds, power, shown>> =
           <<[r \in Readers |-> 0], [r \in Readers |-> 0], [r \in Readers |-> 0],
             [r \in Readers |-> 0], [r \in Readers |-> 0]>>
  OBVIOUS
<1>3. disturbed \in BOOLEAN
  OBVIOUS
<1>4. TypeOK
  BY <1>1, <1>2, <1>3 DEF TypeOK
<1> QED
  BY <1>4 DEF IInv

(* The difference is taken modulo 2^64, so it is never negative, and it is   *)
(* divided by a time that is not 0.                                          *)
LEMMA PowerIsNatural ==
  ASSUME TypeOK, NEW r \in Readers, seconds[r] >= MinInterval
  PROVE  NewPower(r) \in Nat
<1>1. (current[r] - lastEnergy) % Words \in Nat
  BY CounterAssumption DEF TypeOK
<1>2. seconds[r] \in Nat \ {0}
  BY TimeAssumption DEF TypeOK
<1> QED
  BY <1>1, <1>2 DEF NewPower

LEMMA NextKeeps == IInv /\ [Next]_vars => IInv'
<1> SUFFICES ASSUME IInv, [Next]_vars PROVE IInv'
  OBVIOUS
<1> USE CounterAssumption, TimeAssumption, PowerAssumption, LeftoversAssumption
    DEF IInv, TypeOK, world, last, locals, Goto
<1>1. ASSUME NEW r \in Readers, ReadHwmon(r) PROVE IInv'
  BY <1>1 DEF ReadHwmon
<1>2. ASSUME NEW r \in Readers, ReadClock(r) PROVE IInv'
  BY <1>2 DEF ReadClock
<1>3. ASSUME NEW r \in Readers, ReadCounter(r) PROVE IInv'
  BY <1>3 DEF ReadCounter, Readings
<1>4. ASSUME NEW r \in Readers, NothingToCompare(r) PROVE IInv'
  BY <1>4 DEF NothingToCompare
<1>5. ASSUME NEW r \in Readers, Compared(r) PROVE IInv'
  BY <1>5 DEF Compared
<1>6. ASSUME NEW r \in Readers, TooFast(r) PROVE IInv'
  BY <1>6 DEF TooFast, Returns, Elapsed
<1>7. ASSUME NEW r \in Readers, LongEnough(r) PROVE IInv'
  BY <1>7 DEF LongEnough, Elapsed
<1>8. ASSUME NEW r \in Readers, Wrapped(r) PROVE IInv'
  BY <1>8 DEF Wrapped
<1>9. ASSUME NEW r \in Readers, NotWrapped(r) PROVE IInv'
  BY <1>9 DEF NotWrapped
<1>10. ASSUME NEW r \in Readers, Measure(r) PROVE IInv'
  <2>1. NewPower(r) \in Nat
    BY <1>10, PowerIsNatural DEF Measure
  <2>2. PICK sane \in BOOLEAN :
          /\ sane => NewPower(r) =< Sane
          /\ power' = [power EXCEPT ![r] = IF sane THEN NewPower(r) ELSE 0]
          /\ verdict' = [verdict EXCEPT ![r] = IF sane THEN "measured" ELSE "cached"]
    BY <1>10 DEF Measure
  <2>3. \A p \in Readers : power'[p] \in Nat /\ power'[p] =< Sane
    BY <2>1, <2>2
  <2>4. power' \in [Readers -> Nat]
    BY <2>1, <2>2
  <2>5. verdict' \in [Readers -> {"unavailable", "cached", "measured"}]
    BY <2>2
  <2> QED
    BY <1>10, <2>3, <2>4, <2>5 DEF Measure
<1>11. ASSUME NEW r \in Readers, Rebase(r) PROVE IInv'
  BY <1>11 DEF Rebase
<1>12. ASSUME NEW r \in Readers, Return(r) PROVE IInv'
  BY <1>12 DEF Return, Returns, Outcome
<1>13. CASE Tick
  BY <1>13 DEF Tick
<1>14. CASE UNCHANGED vars
  BY <1>14 DEF vars
<1> QED
  BY <1>1, <1>2, <1>3, <1>4, <1>5, <1>6, <1>7, <1>8, <1>9, <1>10, <1>11, <1>12, <1>13, <1>14
     DEF Next, Read

LEMMA Invariant == Spec => []IInv
BY InitHolds, NextKeeps, PTL DEF Spec

-------------------------------------------------------------------------------
(* Every variable of the monitor and of its readers keeps its type. *)
THEOREM TypeCorrect == Spec => []TypeOK
<1>1. IInv => TypeOK
  BY DEF IInv
<1> QED
  BY Invariant, <1>1, PTL

(* No power above the limit is shown, in whatever way the readers mix up     *)
(* their energies and times, and however far apart those are.                *)
THEOREM PowerStaysSane == Spec => []PowerIsSane
<1>1. IInv => PowerIsSane
  BY DEF IInv, PowerIsSane
<1> QED
  BY Invariant, <1>1, PTL
-------------------------------------------------------------------------------
(* The power is real as long as the readers keep apart.                      *)

Least == CHOOSE d \in Draws : \A e \in Draws : d =< e
Most == CHOOSE d \in Draws : \A e \in Draws : e =< d

Real(watts) == watts = 0 \/ (Least =< watts /\ watts =< Most)

(* The counter may have come from energy e at time t to energy f at time u,  *)
(* through any number of wraps.                                              *)
Between(e, t, f, u) ==
  /\ t =< u
  /\ \E drawn \in Nat, wraps \in Nat :
       /\ e + drawn = f + wraps * Range
       /\ Least * (u - t) =< drawn /\ drawn =< Most * (u - t)

(* The last reading is one of the counter, if there was something to read. *)
LastIsOld == lastEnergy # 0 => Between(lastEnergy, lastTime, counter, clock)

CurrentIsOld(r) == current[r] # 0 => Between(current[r], now[r], counter, clock)

LastIsOlder(r) ==
  lastEnergy # 0 /\ current[r] # 0 => Between(lastEnergy, lastTime, current[r], now[r])

(* Where reader r is, and what it may rely on there. *)
KnowsItsReading(r) ==
  /\ Real(shown[r])
  /\ pc[r] = "read" => now[r] = clock
  /\ pc[r] \notin {"idle", "read"} => CurrentIsOld(r)
  /\ pc[r] \in {"test", "elapsed", "compare", "divide"} => LastIsOlder(r)
  /\ pc[r] \in {"elapsed", "compare", "divide"} => lastEnergy # 0 /\ current[r] # 0
  /\ pc[r] \in {"compare", "divide"} => seconds[r] = now[r] - lastTime
  /\ pc[r] = "divide" => lastEnergy =< current[r]
  /\ pc[r] = "rebase" /\ verdict[r] = "measured" => Real(power[r])
  /\ pc[r] = "return" => lastEnergy = current[r] /\ Real(Outcome(r))

Apart ==
  /\ \A q, r \in Readers : pc[q] # "idle" /\ pc[r] # "idle" => q = r
  /\ Real(lastPower)
  /\ (\A r \in Readers : pc[r] # "return") => LastIsOld
  /\ \A r \in Readers : KnowsItsReading(r)

Unmixed ==
  /\ clock =< Horizon
  /\ lastEnergy < Range
  /\ \A r \in Readers : current[r] < Range
  /\ ~disturbed => Apart

LEMMA LeastAndMost ==
  ASSUME NEW l \in Draws, \A d \in Draws : l =< d,
         NEW m \in Draws, \A d \in Draws : d =< m
  PROVE  /\ Least \in Draws /\ Least \in Nat /\ \A d \in Draws : Least =< d
         /\ Most \in Draws /\ Most \in Nat /\ \A d \in Draws : d =< Most
  BY PowerAssumption DEF Least, Most

(* The extremes exist: the draws of a CPU are bounded. *)
Bounded ==
  /\ Least \in Draws /\ Least \in Nat /\ \A d \in Draws : Least =< d
  /\ Most \in Draws /\ Most \in Nat /\ \A d \in Draws : d =< Most

LEMMA ZeroBetween ==
  ASSUME NEW e \in Nat, NEW t \in Nat, Bounded
  PROVE  Between(e, t, e, t)
<1>1. e + 0 = e + 0 * Range /\ Least * (t - t) = 0 /\ Most * (t - t) = 0
  BY CounterAssumption DEF Bounded
<1> QED
  BY <1>1 DEF Between

(* A tick later the counter has gone on by what was drawn, and wrapped or not.*)
LEMMA TickBetween ==
  ASSUME NEW e \in Nat, NEW t \in Nat, NEW f \in Nat, NEW u \in Nat, NEW d \in Draws, Bounded,
         Between(e, t, f, u)
  PROVE  Between(e, t, (f + d) % Range, u + 1)
<1>1. PICK drawn \in Nat, wraps \in Nat :
        /\ e + drawn = f + wraps * Range
        /\ Least * (u - t) =< drawn /\ drawn =< Most * (u - t)
  BY DEF Between
<1> DEFINE g == (f + d) % Range
           k == (f + d) \div Range
<1>2. d \in Nat /\ Least =< d /\ d =< Most /\ Least \in Nat /\ Most \in Nat
  BY PowerAssumption DEF Bounded
<1>3. Range \in Nat \ {0} /\ f + d \in Nat
  BY <1>2, CounterAssumption
<1>4. g \in Nat /\ k \in Nat /\ f + d = k * Range + g
  BY <1>3
<1> HIDE DEF g, k
<1>5. t =< u
  BY DEF Between
<1>6. Least * (u + 1 - t) = Least * (u - t) + Least /\ Most * (u + 1 - t) = Most * (u - t) + Most
  BY <1>2
<1>7. Least * (u - t) \in Int /\ Most * (u - t) \in Int
  BY <1>2
<1>8. Least * (u + 1 - t) =< drawn + d /\ drawn + d =< Most * (u + 1 - t)
  BY <1>1, <1>2, <1>6, <1>7
<1>9. (wraps + k) * Range = wraps * Range + k * Range /\ wraps * Range \in Nat /\ k * Range \in Nat
  BY <1>3, <1>4
<1>10. e + (drawn + d) = g + (wraps + k) * Range
  BY <1>1, <1>2, <1>4, <1>9
<1>11. drawn + d \in Nat /\ wraps + k \in Nat /\ t =< u + 1
  BY <1>2, <1>4, <1>5
<1>12. Between(e, t, g, u + 1)
  BY <1>8, <1>10, <1>11 DEF Between
<1> QED
  BY <1>12 DEF g

LEMMA QuotientFits ==
  ASSUME NEW x \in Nat, NEW s \in Nat \ {0}, NEW l \in Nat, NEW m \in Nat, l * s =< x, x =< m * s
  PROVE  l =< x \div s /\ x \div s =< m
<1> DEFINE q == x \div s
<1>1. q \in Nat /\ s * q =< x /\ x < s * q + s
  OBVIOUS
<1> HIDE DEF q
<1>2. s * (q + 1) = s * q + s /\ l * s = s * l /\ m * s = s * m
  BY <1>1
<1>3. s * l < s * (q + 1) /\ s * q =< s * m
  BY <1>1, <1>2
<1>4. l < q + 1
  <2>1. q + 1 =< l => s * (q + 1) =< s * l
    BY <1>1
  <2> QED
    BY <1>1, <1>3, <2>1
<1>5. q =< m
  <2>1. m + 1 =< q => s * (m + 1) =< s * q
    BY <1>1
  <2>2. s * (m + 1) = s * m + s /\ s * m \in Nat /\ s * q \in Nat
    BY <1>1
  <2> QED
    BY <1>1, <1>3, <2>1, <2>2
<1>6. l =< q /\ q =< m
  BY <1>1, <1>4, <1>5
<1> QED
  BY <1>6 DEF q

(* The counter cannot come round to an energy it has passed. *)
RoundOnce == Least = 0 \/ Most * Horizon < Range

(* A difference of two energies that is not negative is what was drawn       *)
(* between them, or less by whole ranges of the counter.                     *)
LEMMA DifferenceIsReal ==
  ASSUME Bounded, RoundOnce,
         NEW e \in 0 .. Range - 1, NEW t \in Nat, NEW f \in 0 .. Range - 1, NEW u \in Nat,
         u =< Horizon, e =< f, t < u, Between(e, t, f, u)
  PROVE  Real(((f - e) % Words) \div (u - t))
<1>1. PICK drawn \in Nat, wraps \in Nat :
        /\ e + drawn = f + wraps * Range
        /\ Least * (u - t) =< drawn /\ drawn =< Most * (u - t)
  BY DEF Between
<1>2. Range \in Nat \ {0} /\ Least \in Nat /\ Most \in Nat /\ Horizon \in Nat
  BY CounterAssumption, TimeAssumption DEF Bounded
<1>3. f - e \in 0 .. Words - 1
  BY <1>2, CounterAssumption
<1>4. (f - e) % Words = f - e
  BY <1>3, CounterAssumption
<1>5. wraps * Range \in Nat /\ f - e = drawn - wraps * Range
  BY <1>1, <1>2
<1>6. f - e =< Most * (u - t)
  <2>1. Most * (u - t) \in Nat
    BY <1>2
  <2> QED
    BY <1>1, <1>5, <2>1
<1>7. Least * (u - t) =< f - e
  <2>1. CASE Least = 0
    BY <2>1, <1>3
  <2>2. CASE Most * Horizon < Range
    <3>1. Most * (u - t) =< Most * Horizon
      BY <1>2
    <3>2. Most * (u - t) \in Nat /\ Most * Horizon \in Nat
      BY <1>2
    <3>3. drawn < Range
      BY <1>1, <1>2, <2>2, <3>1, <3>2
    <3>4. wraps * Range < Range
      BY <1>2, <1>5, <3>3
    <3>5. wraps = 0
      <4>1. wraps >= 1 => wraps * Range >= Range
        BY <1>2
      <4> QED
        BY <3>4, <4>1, <1>2, <1>5
    <3>6. wraps * Range = 0
      BY <3>5, <1>2
    <3> QED
      BY <1>1, <1>5, <3>6
  <2> QED
    BY <2>1, <2>2 DEF RoundOnce
<1>8. /\ f - e \in Nat /\ u - t \in Nat \ {0}
  BY <1>3
<1>9. Least =< (f - e) \div (u - t) /\ (f - e) \div (u - t) =< Most
  BY <1>2, <1>6, <1>7, <1>8, QuotientFits
<1> QED
  BY <1>4, <1>9 DEF Real

-------------------------------------------------------------------------------
LEMMA InitUnmixed == Bounded /\ Leftovers = {} /\ Init => Unmixed
<1> SUFFICES ASSUME Bounded, Leftovers = {}, Init PROVE Unmixed
  OBVIOUS
<1> USE DEF Init
<1>1. counter \in Nat /\ counter < Range
  BY CounterAssumption
<1>2. LastIsOld
  <2>1. lastEnergy \in {counter, 0} /\ lastTime = 0 /\ clock = 0
    BY DEF Readings
  <2> QED
    BY <1>1, <2>1, ZeroBetween DEF LastIsOld
<1>3. \A r \in Readers : KnowsItsReading(r)
  BY DEF KnowsItsReading, Real
<1>4. Apart
  BY <1>2, <1>3 DEF Apart, Real
<1>5. lastEnergy \in {counter, 0}
  BY DEF Readings
<1> QED
  BY <1>1, <1>4, <1>5, CounterAssumption, TimeAssumption DEF Unmixed

(* While one reader is in read_rapl_power() and the others are not, only its *)
(* own reading can change.                                                   *)
LEMMA OneReader ==
  ASSUME Apart, NEW r \in Readers,
         \A q \in Readers \ {r} : pc[q] = "idle",
         \A q \in Readers \ {r} : pc'[q] = "idle" /\ shown'[q] = shown[q],
         Real(lastPower)', pc'[r] # "return" => LastIsOld', KnowsItsReading(r)'
  PROVE  Apart'
<1>1. ASSUME NEW q \in Readers \ {r} PROVE KnowsItsReading(q)'
  BY <1>1 DEF Apart, KnowsItsReading, Real
<1> QED
  BY <1>1 DEF Apart

LEMMA TickUnmixed == Bounded /\ TypeOK /\ Unmixed /\ Tick => Unmixed'
<1> SUFFICES ASSUME Bounded, TypeOK, Unmixed, Tick PROVE Unmixed'
  OBVIOUS
<1> USE DEF TypeOK, Tick, last, locals
<1>1. PICK d \in Draws : counter' = (counter + d) % Range
  OBVIOUS
<1>2. /\ clock \in Nat /\ counter \in Nat /\ clock' = clock + 1
      /\ lastTime \in Nat /\ lastEnergy \in Nat
      /\ \A r \in Readers : now[r] \in Nat /\ current[r] \in Nat
  BY CounterAssumption
<1>3. clock' =< Horizon
  BY <1>2, TimeAssumption
<1>4. ASSUME ~disturbed' PROVE Apart'
  <2>1. Apart /\ \A r \in Readers : pc[r] # "read"
    BY <1>4 DEF Unmixed
  <2>2. LastIsOld => LastIsOld'
    BY <1>1, <1>2, TickBetween DEF LastIsOld
  <2>3. ASSUME NEW r \in Readers PROVE KnowsItsReading(r)'
    <3>1. KnowsItsReading(r)
      BY <2>1 DEF Apart
    <3>2. CurrentIsOld(r) => CurrentIsOld(r)'
      BY <1>1, <1>2, TickBetween DEF CurrentIsOld
    <3>3. LastIsOlder(r) => LastIsOlder(r)'
      BY DEF LastIsOlder, Between
    <3> QED
      BY <2>1, <3>1, <3>2, <3>3 DEF KnowsItsReading, Real, Outcome
  <2> QED
    BY <2>1, <2>2, <2>3 DEF Apart, Real
<1> QED
  BY <1>3, <1>4 DEF Unmixed

(* What a step of reader r leaves to show. *)
Step(r) ==
  /\ Real(lastPower)'
  /\ pc'[r] # "return" => LastIsOld'
  /\ KnowsItsReading(r)'

LEMMA ReadHwmonReal ==
  ASSUME Bounded, TypeOK, Apart, NEW r \in Readers, ReadHwmon(r)
  PROVE  Apart'
<1> USE DEF TypeOK, ReadHwmon, world, last, locals
<1>1. PICK w \in Draws \cup {0} : shown' = [shown EXCEPT ![r] = w]
  OBVIOUS
<1>2. Real(w)
  BY DEF Real, Bounded
<1>3. ASSUME NEW q \in Readers PROVE KnowsItsReading(q)'
  <2>1. KnowsItsReading(q) /\ Real(shown'[q])
    BY <1>1, <1>2 DEF Apart, KnowsItsReading
  <2> QED
    BY <2>1 DEF KnowsItsReading, CurrentIsOld, LastIsOlder, Between, Real, Outcome
<1>4. LastIsOld => LastIsOld'
  BY DEF LastIsOld, Between
<1> QED
  BY <1>3, <1>4 DEF Apart, Real

LEMMA ReadClockReal ==
  ASSUME Bounded, TypeOK, Apart, NEW r \in Readers, ReadClock(r),
         \A q \in Readers : pc[q] = "idle"
  PROVE  Step(r)
<1> USE DEF TypeOK, ReadClock, Goto, world, last
<1>1. LastIsOld'
  BY DEF Apart, LastIsOld, Between
<1> QED
  BY <1>1 DEF Step, Apart, KnowsItsReading, Real

LEMMA ReadCounterReal ==
  ASSUME Bounded, TypeOK, Apart, Leftovers = {}, NEW r \in Readers, ReadCounter(r),
         \A q \in Readers \ {r} : pc[q] = "idle"
  PROVE  Step(r)
<1> USE DEF TypeOK, ReadCounter, Readings, Goto, world, last
<1>1. PICK e \in {counter, 0} : current' = [current EXCEPT ![r] = e]
  OBVIOUS
<1>2. now[r] = clock /\ Real(shown[r]) /\ Real(lastPower) /\ LastIsOld
  BY DEF Apart, KnowsItsReading
<1>3. LastIsOld'
  BY <1>2 DEF LastIsOld, Between
<1>4. CurrentIsOld(r)'
  <2>1. Between(counter, clock, counter, clock)
    BY ZeroBetween, CounterAssumption
  <2> QED
    BY <1>1, <1>2, <2>1 DEF CurrentIsOld, Between
<1>5. LastIsOlder(r)'
  BY <1>1, <1>2 DEF LastIsOlder, LastIsOld, Between
<1>6. pc'[r] = "test"
  OBVIOUS
<1> QED
  BY <1>2, <1>3, <1>4, <1>5, <1>6 DEF Step, KnowsItsReading, Real

(* The steps before anything is kept leave last and the counter alone. *)
LEMMA KeptBetween ==
  ASSUME NEW r \in Readers, UNCHANGED <<world, last, now, current>>
  PROVE  /\ LastIsOld => LastIsOld'
         /\ CurrentIsOld(r) => CurrentIsOld(r)'
         /\ LastIsOlder(r) => LastIsOlder(r)'
  BY DEF LastIsOld, CurrentIsOld, LastIsOlder, Between, world, last

LEMMA TestReal ==
  ASSUME TypeOK, Apart, NEW r \in Readers, NothingToCompare(r) \/ Compared(r),
         \A q \in Readers \ {r} : pc[q] = "idle"
  PROVE  Step(r)
<1> USE DEF TypeOK, NothingToCompare, Compared, Goto
<1>1. pc[r] = "test" /\ UNCHANGED <<world, last, now, current, shown, power>>
  BY DEF locals
<1>2. Real(shown[r]) /\ Real(lastPower) /\ LastIsOld /\ CurrentIsOld(r) /\ LastIsOlder(r)
  BY <1>1 DEF Apart, KnowsItsReading
<1>3. LastIsOld' /\ CurrentIsOld(r)' /\ LastIsOlder(r)'
  BY <1>1, <1>2, KeptBetween
<1>4. Real(shown[r])' /\ Real(lastPower)'
  BY <1>1, <1>2 DEF Real, last
<1>5. CASE NothingToCompare(r)
  <2>1. pc'[r] = "rebase" /\ verdict'[r] = "unavailable"
    BY <1>5
  <2> QED
    BY <1>3, <1>4, <2>1 DEF Step, KnowsItsReading
<1>6. CASE Compared(r)
  <2>1. pc'[r] = "elapsed" /\ lastEnergy' # 0 /\ current'[r] # 0
    BY <1>1, <1>6 DEF last
  <2> QED
    BY <1>3, <1>4, <2>1 DEF Step, KnowsItsReading
<1> QED
  BY <1>5, <1>6

LEMMA TooFastReal ==
  ASSUME TypeOK, Apart, NEW r \in Readers, TooFast(r), \A q \in Readers \ {r} : pc[q] = "idle"
  PROVE  Step(r)
<1> USE DEF TypeOK, TooFast, Goto, Returns
<1>1. pc[r] = "elapsed" /\ pc'[r] = "idle" /\ UNCHANGED <<world, last>> /\ shown'[r] = lastPower
  OBVIOUS
<1>2. Real(lastPower) /\ LastIsOld
  BY <1>1 DEF Apart
<1>3. LastIsOld' /\ Real(lastPower)' /\ Real(shown[r])'
  BY <1>1, <1>2 DEF LastIsOld, Between, Real, world, last
<1> QED
  BY <1>1, <1>3 DEF Step, KnowsItsReading

LEMMA LongEnoughReal ==
  ASSUME TypeOK, Apart, NEW r \in Readers, LongEnough(r), \A q \in Readers \ {r} : pc[q] = "idle"
  PROVE  Step(r)
<1> USE DEF TypeOK, LongEnough, Goto
<1>1. pc[r] = "elapsed" /\ pc'[r] = "compare" /\ UNCHANGED <<world, last, now, current, shown>>
  OBVIOUS
<1>2. /\ Real(shown[r]) /\ Real(lastPower) /\ LastIsOld /\ CurrentIsOld(r) /\ LastIsOlder(r)
      /\ lastEnergy # 0 /\ current[r] # 0
  BY <1>1 DEF Apart, KnowsItsReading
<1>3. LastIsOld' /\ CurrentIsOld(r)' /\ LastIsOlder(r)'
  BY <1>1, <1>2, KeptBetween
<1>4. Real(shown[r])' /\ Real(lastPower)' /\ lastEnergy' # 0 /\ current'[r] # 0
  BY <1>1, <1>2 DEF Real, last
<1>5. seconds'[r] = now'[r] - lastTime'
  BY <1>1 DEF Elapsed, last
<1> QED
  BY <1>1, <1>3, <1>4, <1>5 DEF Step, KnowsItsReading

LEMMA CompareReal ==
  ASSUME TypeOK, Apart, NEW r \in Readers, Wrapped(r) \/ NotWrapped(r),
         \A q \in Readers \ {r} : pc[q] = "idle"
  PROVE  Step(r)
<1> USE DEF TypeOK, Wrapped, NotWrapped, Goto
<1>1. pc[r] = "compare" /\ UNCHANGED <<world, last, now, current, seconds, shown, power>>
  BY DEF locals
<1>2. /\ Real(shown[r]) /\ Real(lastPower) /\ LastIsOld /\ CurrentIsOld(r) /\ LastIsOlder(r)
      /\ lastEnergy # 0 /\ current[r] # 0 /\ seconds[r] = now[r] - lastTime
  BY <1>1 DEF Apart, KnowsItsReading
<1>3. LastIsOld' /\ CurrentIsOld(r)' /\ LastIsOlder(r)'
  BY <1>1, <1>2, KeptBetween
<1>4. /\ Real(shown[r])' /\ Real(lastPower)' /\ lastEnergy' # 0 /\ current'[r] # 0
      /\ seconds'[r] = now'[r] - lastTime'
  BY <1>1, <1>2 DEF Real, last
<1>5. CASE Wrapped(r)
  <2>1. pc'[r] = "rebase" /\ verdict'[r] = "cached"
    BY <1>5
  <2> QED
    BY <1>3, <1>4, <2>1 DEF Step, KnowsItsReading
<1>6. CASE NotWrapped(r)
  <2>1. pc'[r] = "divide" /\ lastEnergy' =< current'[r]
    BY <1>1, <1>6 DEF last
  <2> QED
    BY <1>3, <1>4, <2>1 DEF Step, KnowsItsReading
<1> QED
  BY <1>5, <1>6

(* The power computed is one that has been drawn between the two readings. *)
LEMMA MeasureReal ==
  ASSUME Bounded, RoundOnce, IInv, Unmixed, Apart, NEW r \in Readers, Measure(r),
         \A q \in Readers \ {r} : pc[q] = "idle"
  PROVE  Step(r)
<1> USE DEF IInv, TypeOK, Measure, Goto
<1>1. pc[r] = "divide" /\ pc'[r] = "rebase" /\ UNCHANGED <<world, last, now, current, shown>>
  OBVIOUS
<1>2. /\ Real(shown[r]) /\ Real(lastPower) /\ LastIsOld /\ CurrentIsOld(r) /\ LastIsOlder(r)
      /\ lastEnergy # 0 /\ current[r] # 0 /\ seconds[r] = now[r] - lastTime
      /\ lastEnergy =< current[r]
  BY <1>1 DEF Apart, KnowsItsReading
<1>3. LastIsOld' /\ CurrentIsOld(r)'
  BY <1>1, <1>2, KeptBetween
<1>4. Real(shown[r])' /\ Real(lastPower)'
  BY <1>1, <1>2 DEF Real, last
<1>5. Real(NewPower(r))
  <2>1. lastEnergy \in 0 .. Range - 1 /\ current[r] \in 0 .. Range - 1
    BY CounterAssumption DEF Unmixed
  <2>2. lastTime \in Nat /\ now[r] \in Nat
    OBVIOUS
  <2>3. lastTime < now[r]
    BY <1>1, <1>2, <2>2, TimeAssumption
  <2>4. now[r] =< Horizon
    <3>1. now[r] =< clock
      BY <1>2 DEF CurrentIsOld, Between
    <3> QED
      BY <2>2, <3>1, TimeAssumption DEF Unmixed
  <2>5. Between(lastEnergy, lastTime, current[r], now[r])
    BY <1>2 DEF LastIsOlder
  <2> QED
    BY <1>2, <2>1, <2>2, <2>3, <2>4, <2>5, DifferenceIsReal DEF NewPower
<1>6. verdict'[r] = "measured" => power'[r] = NewPower(r)
  BY DEF IInv
<1>7. Real(power[r])' \/ verdict'[r] # "measured"
  BY <1>5, <1>6 DEF Real
<1> QED
  BY <1>1, <1>3, <1>4, <1>7 DEF Step, KnowsItsReading

LEMMA RebaseReal ==
  ASSUME TypeOK, Apart, NEW r \in Readers, Rebase(r), \A q \in Readers \ {r} : pc[q] = "idle"
  PROVE  Step(r)
<1> USE DEF TypeOK, Rebase, Goto
<1>1. /\ pc[r] = "rebase" /\ pc'[r] = "return" /\ lastEnergy' = current[r]
      /\ UNCHANGED <<world, lastTime, lastPower, now, current, power, verdict, shown>>
  BY DEF locals
<1>2. /\ Real(shown[r]) /\ Real(lastPower) /\ CurrentIsOld(r)
      /\ verdict[r] = "measured" => Real(power[r])
  BY <1>1 DEF Apart, KnowsItsReading
<1>3. CurrentIsOld(r)'
  BY <1>1, <1>2 DEF CurrentIsOld, Between, world
<1>4. Real(shown[r])' /\ Real(lastPower)' /\ Real(Outcome(r))'
  BY <1>1, <1>2 DEF Real, Outcome
<1> QED
  BY <1>1, <1>3, <1>4 DEF Step, KnowsItsReading

LEMMA ReturnReal ==
  ASSUME TypeOK, Apart, NEW r \in Readers, Return(r), \A q \in Readers \ {r} : pc[q] = "idle"
  PROVE  Step(r)
<1> USE DEF TypeOK, Return, Goto, Returns
<1>1. /\ pc[r] = "return" /\ pc'[r] = "idle" /\ UNCHANGED <<world, lastEnergy>>
      /\ lastTime' = now[r] /\ lastPower' = Outcome(r)
      /\ shown'[r] = IF verdict[r] = "unavailable" THEN 0 ELSE Outcome(r)
  OBVIOUS
<1>2. Real(Outcome(r)) /\ CurrentIsOld(r) /\ lastEnergy = current[r]
  BY <1>1 DEF Apart, KnowsItsReading
<1>3. LastIsOld'
  BY <1>1, <1>2 DEF LastIsOld, CurrentIsOld, Between, world
<1>4. Real(lastPower)' /\ Real(shown[r])'
  BY <1>1, <1>2 DEF Real
<1> QED
  BY <1>1, <1>3, <1>4 DEF Step, KnowsItsReading

(* What every step of a reader does to the others: nothing. *)
LEMMA OthersStay ==
  ASSUME TypeOK, NEW r \in Readers, Read(r), ~ReadHwmon(r)
  PROVE  /\ pc[r] = "idle" => ReadClock(r)
         /\ \A q \in Readers \ {r} : pc'[q] = pc[q] /\ shown'[q] = shown[q]
         /\ ReadClock(r) \/ disturbed' = disturbed
  BY DEF TypeOK, Read, ReadClock, ReadCounter, Readings, NothingToCompare, Compared, TooFast, LongEnough,
         Wrapped, NotWrapped, Measure, Rebase, Return, Returns, Goto

(* Without values left over, what has been read is a value of the counter. *)
LEMMA ReadingsFit ==
  ASSUME TypeOK, Unmixed, Leftovers = {}, NEW r \in Readers, Read(r)
  PROVE  clock' =< Horizon /\ lastEnergy' < Range /\ \A q \in Readers : current'[q] < Range
  BY CounterAssumption
     DEF TypeOK, Unmixed, Read, ReadHwmon, ReadClock, ReadCounter, Readings, NothingToCompare, Compared,
         TooFast, LongEnough, Wrapped, NotWrapped, Measure, Rebase, Return, Returns, Goto, world,
         last, locals

LEMMA ReadUnmixed ==
  ASSUME Bounded, RoundOnce, Leftovers = {}, IInv, Unmixed, NEW r \in Readers, Read(r)
  PROVE  Unmixed'
<1>1. TypeOK
  BY DEF IInv
<1>2. ASSUME ~disturbed' PROVE Apart'
  <2>1. CASE ReadHwmon(r)
    BY <1>1, <1>2, <2>1, ReadHwmonReal DEF ReadHwmon, Unmixed
  <2>2. CASE ~ReadHwmon(r)
    <3>1. ~disturbed
      BY <1>1, <1>2, <2>2, OthersStay DEF ReadClock
    <3>2. Apart
      BY <3>1 DEF Unmixed
    <3>3. \A q \in Readers \ {r} : pc[q] = "idle"
      <4>1. CASE ReadClock(r)
        BY <1>2, <4>1 DEF ReadClock
      <4>2. CASE ~ReadClock(r)
        BY <1>1, <2>2, <3>2, <4>2, OthersStay DEF Apart
      <4> QED
        BY <4>1, <4>2
    <3>4. Step(r)
      <4>1. CASE ReadClock(r)
        <5>1. \A q \in Readers : pc[q] = "idle"
          BY <3>3, <4>1 DEF ReadClock, Goto
        <5> QED
          BY <1>1, <3>2, <4>1, <5>1, ReadClockReal
      <4>2. CASE ~ReadClock(r)
        BY <1>1, <2>2, <3>2, <3>3, <4>2, ReadCounterReal, TestReal, TooFastReal, LongEnoughReal,
           CompareReal, MeasureReal, RebaseReal, ReturnReal DEF Read
      <4> QED
        BY <4>1, <4>2
    <3>5. \A q \in Readers \ {r} : pc'[q] = "idle" /\ shown'[q] = shown[q]
      BY <1>1, <2>2, <3>3, OthersStay
    <3> QED
      BY <3>2, <3>3, <3>4, <3>5, OneReader DEF Step
  <2> QED
    BY <2>1, <2>2
<1> QED
  BY <1>1, <1>2, ReadingsFit DEF Unmixed

LEMMA StutterUnmixed == Unmixed /\ UNCHANGED vars => Unmixed'
  BY DEF Unmixed, Apart, KnowsItsReading, LastIsOld, CurrentIsOld, LastIsOlder, Between, Real,
         Outcome, vars, world, last, locals

(* The power shown is one that the CPU has drawn on average between two      *)
(* readings, as long as the readers have kept apart, and counters that could *)
(* be opened could be read.  It needs a counter that cannot come all the way *)
(* round unseen, or a CPU that may draw nothing: a whole range that is       *)
(* missed is power that is not shown.                                        *)
THEOREM PowerHasBeenDrawn ==
  ASSUME NEW l \in Draws, \A d \in Draws : l =< d,
         NEW m \in Draws, \A d \in Draws : d =< m,
         l = 0 \/ m * Horizon < Range,
         Leftovers = {}
  PROVE  Spec => []PowerIsReal
<1>1. Bounded
  BY LeastAndMost DEF Bounded
<1>2. Least = l /\ Most = m
  BY <1>1, PowerAssumption DEF Bounded
<1>3. RoundOnce
  BY <1>2 DEF RoundOnce
<1>4. Init => Unmixed
  BY <1>1, InitUnmixed
<1>5. IInv /\ Unmixed /\ [Next]_vars => Unmixed'
  <2>1. IInv => TypeOK
    BY DEF IInv
  <2> QED
    BY <1>1, <1>3, <2>1, TickUnmixed, ReadUnmixed, StutterUnmixed DEF Next
<1>6. Unmixed => PowerIsReal
  BY <1>1 DEF Unmixed, Apart, KnowsItsReading, Real, Bounded, PowerIsReal
<1> QED
  BY <1>4, <1>5, <1>6, Invariant, PTL DEF Spec
===============================================================================
