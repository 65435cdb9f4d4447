---------------------------- MODULE SystemMonitor ----------------------------
(***************************************************************************)
(* The CPU's power as the miner shows it (include/utils/                   *)
(* system_monitor.hpp): the difference of an energy counter that the       *)
(* kernel keeps, and that wraps, over the time since the last reading.     *)
(*                                                                         *)
(* There is one SystemMonitor.  The stats thread and the API's callback    *)
(* both call get_stats(), and nothing locks it: each access to             *)
(* m_last_energy and m_last_energy_time is a step; m_last_power, which is  *)
(* compared with nothing, is read or written with the last of them.        *)
(* Time is in ticks, energy in units of which Draws says how many the CPU  *)
(* takes in a tick.                                                        *)
(***************************************************************************)
EXTENDS Integers

CONSTANTS
  Readers,      \* the threads that call get_stats()
  Range,        \* the counter wraps at max_energy_range_uj
  Draws,        \* energy the CPU may take in a tick
  MinInterval,  \* 0.1 s: readings closer than that return the last power
  Sane,         \* 500 W: more is an invalid reading
  Words,        \* 2^64
  Leftovers,    \* what read_energy_uj() may return when its read fails
  Horizon       \* bound: the time

ASSUME CounterAssumption == Range \in Nat \ {0} /\ Words \in Nat \ {0} /\ Range =< Words
ASSUME TimeAssumption == MinInterval \in Nat \ {0} /\ Horizon \in Nat
ASSUME PowerAssumption == Draws \subseteq Nat /\ Sane \in Nat
ASSUME LeftoversAssumption == Leftovers \subseteq 0 .. Words - 1

VARIABLES
  sensor,      \* what the constructor has found: "rapl", "hwmon" or "none"
  clock,       \* the time
  counter,     \* energy_uj
  lastEnergy,  \* m_last_energy
  lastTime,    \* m_last_energy_time
  lastPower,   \* m_last_power
  pc,          \* where each reader is in read_rapl_power()
  now,         \* its local variables
  current,
  seconds,
  power,
  verdict,     \* what it is about to return: 0, m_last_power or a new power
  shown,       \* what it has returned, 0 until it has
  disturbed    \* history: two readers were inside together, or one was held up
               \* between the clock and the counter

world == <<sensor, clock, counter>>
last == <<lastEnergy, lastTime, lastPower>>
locals == <<now, current, seconds, power, verdict>>
vars == <<world, last, pc, locals, shown, disturbed>>

(* What read_energy_uj() returns: 0 if the file does not open, and whatever  *)
(* its variable holds if it opens and cannot be read.                        *)
Readings == {counter, 0} \cup Leftovers

(* find_power_sensor(): a counter that can be opened is also read, else      *)
(* there may be a sensor of hwmon.                                           *)
Init ==
  /\ clock = 0
  /\ counter \in 0 .. Range - 1
  /\ \/ sensor = "rapl" /\ lastEnergy \in Readings
     \/ sensor \in {"hwmon", "none"} /\ lastEnergy = 0
  /\ lastTime = 0
  /\ lastPower = 0
  /\ pc = [r \in Readers |-> "idle"]
  /\ now = [r \in Readers |-> 0]
  /\ current = [r \in Readers |-> 0]
  /\ seconds = [r \in Readers |-> 0]
  /\ power = [r \in Readers |-> 0]
  /\ verdict = [r \in Readers |-> "cached"]
  /\ shown = [r \in Readers |-> 0]
  /\ disturbed = FALSE

Goto(r, from, to) == pc[r] = from /\ pc' = [pc EXCEPT ![r] = to]

(* The CPU works, the clock and the counter with it. *)
Tick ==
  /\ clock < Horizon
  /\ clock' = clock + 1
  /\ \E d \in Draws : counter' = (counter + d) % Range
  /\ disturbed' = (disturbed \/ \E r \in Readers : pc[r] = "read")
  /\ UNCHANGED <<sensor, last, pc, locals, shown>>

-------------------------------------------------------------------------------
(* read_rapl_power() *)

(* read_hwmon_power(): the sensor says how many watts, or cannot be read. *)
ReadHwmon(r) ==
  /\ sensor = "hwmon"
  /\ \E w \in Draws \cup {0} : shown' = [shown EXCEPT ![r] = w]
  /\ UNCHANGED <<world, last, pc, locals, disturbed>>

(* now = steady_clock::now() *)
ReadClock(r) ==
  /\ sensor = "rapl"
  /\ Goto(r, "idle", "read")
  /\ now' = [now EXCEPT ![r] = clock]
  /\ shown' = [shown EXCEPT ![r] = 0]
  /\ disturbed' = (disturbed \/ \E q \in Readers : pc[q] # "idle")
  /\ UNCHANGED <<world, last, current, seconds, power, verdict>>

(* current_energy = read_energy_uj() *)
ReadCounter(r) ==
  /\ Goto(r, "read", "test")
  /\ \E e \in Readings : current' = [current EXCEPT ![r] = e]
  /\ UNCHANGED <<world, last, now, seconds, power, verdict, shown, disturbed>>

(* if (m_last_energy == 0 || current_energy == 0) *)
NothingToCompare(r) ==
  /\ lastEnergy = 0 \/ current[r] = 0
  /\ Goto(r, "test", "rebase")
  /\ verdict' = [verdict EXCEPT ![r] = "unavailable"]
  /\ UNCHANGED <<world, last, now, current, seconds, power, shown, disturbed>>

Compared(r) ==
  /\ lastEnergy # 0 /\ current[r] # 0
  /\ Goto(r, "test", "elapsed")
  /\ UNCHANGED <<world, last, locals, shown, disturbed>>

Returns(r, watts) ==
  /\ shown' = [shown EXCEPT ![r] = watts]
  /\ now' = [now EXCEPT ![r] = 0]
  /\ current' = [current EXCEPT ![r] = 0]
  /\ seconds' = [seconds EXCEPT ![r] = 0]
  /\ power' = [power EXCEPT ![r] = 0]
  /\ verdict' = [verdict EXCEPT ![r] = "cached"]

Elapsed(r) == now[r] - lastTime

(* seconds < 0.1: "Too fast, return cached value" *)
TooFast(r) ==
  /\ Elapsed(r) < MinInterval
  /\ Goto(r, "elapsed", "idle")
  /\ Returns(r, lastPower)
  /\ UNCHANGED <<world, last, disturbed>>

LongEnough(r) ==
  /\ Elapsed(r) >= MinInterval
  /\ Goto(r, "elapsed", "compare")
  /\ seconds' = [seconds EXCEPT ![r] = Elapsed(r)]
  /\ UNCHANGED <<world, last, now, current, power, verdict, shown, disturbed>>

(* current_energy < m_last_energy: the counter has wrapped. *)
Wrapped(r) ==
  /\ current[r] < lastEnergy
  /\ Goto(r, "compare", "rebase")
  /\ verdict' = [verdict EXCEPT ![r] = "cached"]
  /\ UNCHANGED <<world, last, now, current, seconds, power, shown, disturbed>>

NotWrapped(r) ==
  /\ current[r] >= lastEnergy
  /\ Goto(r, "compare", "divide")
  /\ UNCHANGED <<world, last, locals, shown, disturbed>>

(* (current_energy - m_last_energy) / seconds, in uint64_t *)
NewPower(r) == ((current[r] - lastEnergy) % Words) \div seconds[r]

AnyMeasure(r) ==  \* mutant of Measure: no test against 500 W
  /\ Goto(r, "divide", "rebase")
  /\ power' = [power EXCEPT ![r] = NewPower(r)]
  /\ verdict' = [verdict EXCEPT ![r] = "measured"]
  /\ UNCHANGED <<world, last, now, current, seconds, shown, disturbed>>

Measure(r) ==
  /\ Goto(r, "divide", "rebase")
  /\ LET sane == NewPower(r) =< Sane
     IN  /\ power' = [power EXCEPT ![r] = IF sane THEN NewPower(r) ELSE 0]
         /\ verdict' = [verdict EXCEPT ![r] = IF sane THEN "measured" ELSE "cached"]
  /\ UNCHANGED <<world, last, now, current, seconds, shown, disturbed>>

(* m_last_energy = current_energy, in each of the four branches *)
Rebase(r) ==
  /\ Goto(r, "rebase", "return")
  /\ lastEnergy' = current[r]
  /\ UNCHANGED <<world, lastTime, lastPower, locals, shown, disturbed>>

(* m_last_power = power, if there is a new one *)
Outcome(r) == IF verdict[r] = "measured" THEN power[r] ELSE lastPower

KeepTime(r) ==  \* mutant of Return: the time of the last reading stays
  /\ Goto(r, "return", "idle")
  /\ lastPower' = Outcome(r)
  /\ Returns(r, IF verdict[r] = "unavailable" THEN 0 ELSE Outcome(r))
  /\ UNCHANGED <<world, lastEnergy, lastTime, disturbed>>

(* m_last_energy_time = now, and the end of each branch *)
Return(r) ==
  /\ Goto(r, "return", "idle")
  /\ lastTime' = now[r]
  /\ lastPower' = Outcome(r)
  /\ Returns(r, IF verdict[r] = "unavailable" THEN 0 ELSE Outcome(r))
  /\ UNCHANGED <<world, lastEnergy, disturbed>>

Read(r) ==
  \/ ReadHwmon(r)
  \/ ReadClock(r)
  \/ ReadCounter(r)
  \/ NothingToCompare(r)
  \/ Compared(r)
  \/ TooFast(r)
  \/ LongEnough(r)
  \/ Wrapped(r)
  \/ NotWrapped(r)
  \/ Measure(r)
  \/ Rebase(r)
  \/ Return(r)

Next == Tick \/ \E r \in Readers : Read(r)

Spec == Init /\ [][Next]_vars

-------------------------------------------------------------------------------
TypeOK ==
  /\ sensor \in {"rapl", "hwmon", "none"}
  /\ clock \in Nat
  /\ counter \in 0 .. Range - 1
  /\ lastEnergy \in 0 .. Words - 1
  /\ lastTime \in Nat
  /\ lastPower \in Nat
  /\ pc \in [Readers -> {"idle", "read", "test", "elapsed", "compare", "divide", "rebase",
                         "return"}]
  /\ now \in [Readers -> Nat]
  /\ current \in [Readers -> 0 .. Words - 1]
  /\ seconds \in [Readers -> Nat]
  /\ power \in [Readers -> Nat]
  /\ verdict \in [Readers -> {"unavailable", "cached", "measured"}]
  /\ shown \in [Readers -> Nat]
  /\ disturbed \in BOOLEAN

(* "CPU power should never exceed 500W": nothing above is ever shown, though *)
(* the readers mix their energies and times up, and a difference taken the   *)
(* wrong way round is close to 2^64.                                         *)
PowerIsSane == sensor = "rapl" => \A r \in Readers : shown[r] =< Sane

(* As long as the readers have not disturbed each other, what is shown is a  *)
(* power the CPU has drawn on average between two readings, or 0 for "not    *)
(* available": through wraps, unreadable counters, a counter that is just 0  *)
(* and readings in quick succession.                                         *)
PowerIsReal ==
  \A r \in Readers :
    ~disturbed /\ shown[r] # 0 =>
      /\ \E d \in Draws : shown[r] >= d
      /\ \E d \in Draws : shown[r] =< d

(* The same with several readers at once. *)
PowerAlwaysReal ==
  \A r \in Readers :
    shown[r] # 0 =>
      /\ \E d \in Draws : shown[r] >= d
      /\ \E d \in Draws : shown[r] =< d

(* What makes PowerIsSane inductive: nothing above is kept either, and no    *)
(* power is computed over no time.                                           *)
IInv ==
  /\ TypeOK
  /\ lastPower =< Sane
  /\ sensor = "rapl" => \A r \in Readers : shown[r] =< Sane
  /\ sensor # "rapl" => \A r \in Readers : pc[r] = "idle"
  /\ \A r \in Readers : power[r] =< Sane
  /\ \A r \in Readers : pc[r] \in {"compare", "divide"} => seconds[r] >= MinInterval
===============================================================================
