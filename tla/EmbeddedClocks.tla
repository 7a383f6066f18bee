--------------------------- MODULE EmbeddedClocks ---------------------------
(***************************************************************************)
(* The clocks of the embedded demo (main.rs): a counter of ticks that the  *)
(* interrupt advances and that wraps, the monotonic clock that accumulates *)
(* its differences, the instant given to the network stack, and the PTP    *)
(* clock that accumulates the differences of the cycle counter, each       *)
(* rounded down to nanoseconds.  Both counters have the width of a machine *)
(* word, here Word.                                                        *)
(***************************************************************************)
EXTENDS Naturals

CONSTANTS
  Word,             \* values of a machine word (2^32)
  MicrosPerTick,    \* microseconds of a tick (10 000)
  CyclesPerTick,    \* cycles of a tick (120 000)
  Nanos, Hz,        \* nanoseconds and cycles of a second, over their common divisor
  MaxGap,           \* bound on the ticks between two readings of a clock
  MaxTicks,         \* bound on the ticks in all
  MaxReadings       \* bound on the readings of the PTP clock

ASSUME EmbeddedClocksAssumption ==
  {Word, MicrosPerTick, CyclesPerTick, Nanos, Hz, MaxGap, MaxTicks, MaxReadings}
    \subseteq Nat \ {0}

\* Each clock is read again before its counter has come round: InstantClock in every
\* iteration of the main loop, CycleClock with every packet received and every event
\* message sent.  A master sends a Sync every second; the counter takes minutes.
ASSUME ReadInTime == MaxGap < Word /\ MaxGap * CyclesPerTick < Word

VARIABLES
  time,         \* the ticks that have really passed
  last,         \* InstantClock::last_ticks
  instant,      \* InstantClock::instant, in ticks
  looked,       \* the time of the last reading of InstantClock
  smol,         \* what as_smol_instant gave then, in microseconds
  lastCycles,   \* CycleClock::last_cycles
  ptp,          \* CycleClock::time, in nanoseconds
  stamped,      \* the time of the last reading of CycleClock
  readings      \* how often CycleClock was read

vars == <<time, last, instant, looked, smol, lastCycles, ptp, stamped, readings>>

\* SystemTick::tick and now, and the cycle counter
Counter == time % Word

Cycles == (time * CyclesPerTick) % Word

SysTick ==
  /\ time < MaxTicks /\ time - looked < MaxGap /\ time - stamped < MaxGap
  /\ time' = time + 1
  /\ UNCHANGED <<last, instant, looked, smol, lastCycles, ptp, stamped, readings>>

\* u32::wrapping_sub in Ticks::elapsed_since and Cycles::elapsed_since
WrappingSub(a, b) == (a + Word - b) % Word

\* Cycles::elapsed_since, in nanoseconds
ElapsedNanos(a, b) == (WrappingSub(a, b) * Nanos) \div Hz

\* as_smol_instant: the product is a machine word too; built for release it wraps,
\* built for debugging it panics there.
AsSmolInstant(ticks) == (ticks * MicrosPerTick) % Word

\* Seeded fault: the difference saturates at zero.
ReadInstantSaturates ==
  /\ instant' = instant + (IF Counter >= last THEN Counter - last ELSE 0)
  /\ last' = Counter
  /\ smol' = AsSmolInstant(Counter)
  /\ looked' = time
  /\ UNCHANGED <<time, lastCycles, ptp, stamped, readings>>

\* The main loop reads InstantClock::now and the instant for the network stack.
ReadInstant ==
  /\ instant' = instant + WrappingSub(Counter, last)
  /\ last' = Counter
  /\ smol' = AsSmolInstant(Counter)
  /\ looked' = time
  /\ UNCHANGED <<time, lastCycles, ptp, stamped, readings>>

\* Seeded fault: the cycles of the last reading are not stored.
ReadKeepsCycles ==
  /\ readings < MaxReadings
  /\ ptp' = ptp + ElapsedNanos(Cycles, lastCycles)
  /\ stamped' = time
  /\ readings' = readings + 1
  /\ UNCHANGED <<time, last, instant, looked, smol, lastCycles>>

\* CycleClock::now, for an ingress or egress timestamp.
ReadCycles ==
  /\ readings < MaxReadings
  /\ ptp' = ptp + ElapsedNanos(Cycles, lastCycles)
  /\ lastCycles' = Cycles
  /\ stamped' = time
  /\ readings' = readings + 1
  /\ UNCHANGED <<time, last, instant, looked, smol>>

Init ==
  /\ time = 0 /\ last = 0 /\ instant = 0 /\ looked = 0 /\ smol = 0
  /\ lastCycles = 0 /\ ptp = 0 /\ stamped = 0 /\ readings = 0

Next == SysTick \/ ReadInstant \/ ReadCycles

Spec == Init /\ [][Next]_vars

----------------------------------------------------------------------------

\* The monotonic clock shows the ticks that passed, across any number of wraps of the
\* counter, as long as it is read once per wrap (InstantClock::now).
InstantTracksTime == instant = looked

\* The PTP clock never runs ahead of the cycles that passed, and falls behind by less
\* than a nanosecond per reading, across wraps of the counter (CycleClock::now).
CyclesTrackTime ==
  LET exact == stamped * CyclesPerTick * Nanos IN
    /\ ptp * Hz <= exact
    /\ exact - ptp * Hz <= readings * (Hz - 1)

----------------------------------------------------------------------------
(* What the documentation says and the code does not do: this fails. *)

\* Until the tick counter wraps, the instant given to the network stack is the time
\* that passed (as_smol_instant).
SmolInstantExact == looked < Word => smol = looked * MicrosPerTick
=============================================================================
