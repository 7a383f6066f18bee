--------------------------- MODULE TimeArithmetic ---------------------------
(***************************************************************************)
(* The timestamps and intervals of time.rs and what is computed from them  *)
(* for one sample: the offset from the master out of four timestamps       *)
(* (e2e.rs), the comparison with a step threshold and the time to step to  *)
(* (servo.rs), and a later reading of the clock that stepped.              *)
(*                                                                         *)
(* A timestamp is seconds and nanoseconds, an interval carries its sign in *)
(* the seconds.  The second, the 48-bit range of a timestamp's seconds and *)
(* the i64 range of an interval's are parameters.                          *)
(***************************************************************************)
EXTENDS Integers

CONSTANTS
  NanosPerSecond,   \* 1_000_000_000 in the code
  MaxSeconds,       \* 2^48 - 1: the last second of a timestamp
  I64Max,           \* i64::MAX
  StepThreshold,    \* a servo's step threshold
  NoTime            \* Option::None

TimeStamp == [seconds : 0..MaxSeconds, nanos : 0..(NanosPerSecond - 1)]
TimeInterval == [seconds : Int, nanos : 0..(NanosPerSecond - 1)]

ASSUME TimeAssumption ==
  /\ NanosPerSecond \in Nat \ {0}
  /\ MaxSeconds \in Nat
  /\ I64Max \in Nat /\ I64Max > 2 * MaxSeconds + 2
  /\ StepThreshold \in TimeInterval
  /\ NoTime \notin TimeStamp /\ NoTime \notin [ingress : TimeStamp, offset : TimeInterval]

VARIABLES
  stamps,    \* the four timestamps of the sample, t1 to t4
  sample,    \* ServoSample: the ingress timestamp and the offset
  judged,    \* the step policy has decided
  target,    \* where to step to, or NoTime: no step
  elapsed,   \* the time since the step
  reading    \* the clock after it

timeVars == <<stamps, sample, judged, target, elapsed, reading>>

----------------------------------------------------------------------------
(* time.rs *)

\* An i64 result: it wraps.
I64(n) ==
  IF n > I64Max THEN n - 2 * (I64Max + 1)
  ELSE IF n < -I64Max - 1 THEN n + 2 * (I64Max + 1) ELSE n

InI64(n) == -I64Max - 1 <= n /\ n <= I64Max

TryNewI64(seconds, nanos) ==
  IF InI64(seconds) /\ 0 <= seconds /\ seconds <= MaxSeconds /\ nanos < NanosPerSecond
  THEN [seconds |-> seconds, nanos |-> nanos] ELSE NoTime

\* Seeded fault: the nanoseconds carry no second.
CheckedAddNoCarry(t, i) ==
  LET nanos == t.nanos + i.nanos
  IN  IF nanos >= NanosPerSecond
      THEN TryNewI64(t.seconds + i.seconds, nanos - NanosPerSecond)
      ELSE TryNewI64(t.seconds + i.seconds, nanos)

\* TimeStamp::checked_add and checked_sub.  An i64 overflow on the way gives
\* NoTime like a result out of range.
CheckedAdd(t, i) ==
  LET nanos == t.nanos + i.nanos
  IN  IF nanos >= NanosPerSecond
      THEN TryNewI64(t.seconds + i.seconds + 1, nanos - NanosPerSecond)
      ELSE TryNewI64(t.seconds + i.seconds, nanos)

\* Seeded fault: a time before the epoch is the epoch.
CheckedSubSaturates(t, i) ==
  IF t.seconds < i.seconds THEN [seconds |-> 0, nanos |-> 0]
  ELSE LET nanos == t.nanos - i.nanos
       IN  IF nanos < 0 THEN TryNewI64(t.seconds - i.seconds - 1, nanos + NanosPerSecond)
           ELSE TryNewI64(t.seconds - i.seconds, nanos)

CheckedSub(t, i) ==
  LET nanos == t.nanos - i.nanos
  IN  IF nanos < 0 THEN TryNewI64(t.seconds - i.seconds - 1, nanos + NanosPerSecond)
      ELSE TryNewI64(t.seconds - i.seconds, nanos)

\* Seeded fault: the borrowed second stays.
MinusNoBorrow(a, b) ==
  LET nanos == a.nanos - b.nanos
  IN  [seconds |-> I64(a.seconds - b.seconds),
       nanos |-> IF nanos < 0 THEN nanos + NanosPerSecond ELSE nanos]

\* The difference of two timestamps and of two intervals.
Minus(a, b) ==
  LET nanos == a.nanos - b.nanos
  IN  IF nanos < 0
      THEN [seconds |-> I64(I64(a.seconds - b.seconds) - 1),
            nanos |-> nanos + NanosPerSecond]
      ELSE [seconds |-> I64(a.seconds - b.seconds), nanos |-> nanos]

TotalNanos(i) == i.seconds * NanosPerSecond + i.nanos

\* div_euclid and rem_euclid.
FromTotalNanos(n) == [seconds |-> n \div NanosPerSecond, nanos |-> n % NanosPerSecond]

\* Division of an integer in the code rounds towards zero.
Halved(n) == IF n >= 0 THEN n \div 2 ELSE -((-n) \div 2)

Half(i) == FromTotalNanos(Halved(TotalNanos(i)))

AbsInterval(i) ==
  IF i.seconds >= 0 THEN i
  ELSE IF i.nanos = 0 THEN [seconds |-> -i.seconds, nanos |-> 0]
  ELSE [seconds |-> -(i.seconds + 1), nanos |-> NanosPerSecond - i.nanos]

\* The derived order: by seconds, then by nanoseconds.
Greater(a, b) ==
  \/ a.seconds > b.seconds
  \/ a.seconds = b.seconds /\ a.nanos > b.nanos

----------------------------------------------------------------------------
(* The sample *)

\* EndToEndDelayMechanism::sample: half of t2 - t1 less t4 - t3.
OffsetFromMaster(t) == Half(Minus(Minus(t[2], t[1]), Minus(t[4], t[3])))

TimeInit ==
  /\ stamps = NoTime /\ sample = NoTime /\ judged = FALSE
  /\ target = NoTime /\ elapsed = NoTime /\ reading = NoTime

Measure ==
  /\ sample = NoTime
  /\ \E t1, t2, t3, t4 \in TimeStamp :
       /\ stamps' = <<t1, t2, t3, t4>>
       /\ sample' = [ingress |-> t2, offset |-> OffsetFromMaster(stamps')]
  /\ UNCHANGED <<judged, target, elapsed, reading>>

\* ServoThreshold::exceeded_by and ServoSample::beyond_threshold.
IntervalExceeds(offset) ==
  /\ Greater(StepThreshold, [seconds |-> 0, nanos |-> 0])
  /\ Greater(AbsInterval(offset), StepThreshold)

\* StepPolicy::should_step with one enabled threshold; master_estimate.
JudgeStep ==
  /\ sample # NoTime /\ ~judged
  /\ judged' = TRUE
  /\ target' = IF IntervalExceeds(sample.offset)
               THEN CheckedSub(sample.ingress, sample.offset) ELSE NoTime
  /\ UNCHANGED <<stamps, sample, elapsed, reading>>

\* Seeded fault: where the sum is out of range, the latest timestamp is read.
ReadSaturating(i) ==
  /\ target # NoTime /\ reading = NoTime
  /\ elapsed' = i
  /\ reading' = LET sum == CheckedAdd(target, i)
                IN IF sum # NoTime THEN sum
                   ELSE [seconds |-> MaxSeconds, nanos |-> NanosPerSecond - 1]
  /\ UNCHANGED <<stamps, sample, judged, target>>

\* VirtualClock::now after the step: checked_add of the time since then, or the
\* time it stepped to where the sum is out of range (unwrap_or).
Read(i) ==
  /\ target # NoTime /\ reading = NoTime
  /\ elapsed' = i
  /\ reading' = LET sum == CheckedAdd(target, i)
                IN IF sum # NoTime THEN sum ELSE target
  /\ UNCHANGED <<stamps, sample, judged, target>>

Forget ==
  /\ sample # NoTime
  /\ stamps' = NoTime /\ sample' = NoTime /\ judged' = FALSE
  /\ target' = NoTime /\ elapsed' = NoTime /\ reading' = NoTime

TimeNext ==
  \/ Measure
  \/ JudgeStep
  \/ \E i \in TimeStamp : Read(i)
  \/ Forget

TimeSpec == TimeInit /\ [][TimeNext]_timeVars

----------------------------------------------------------------------------
(* Properties: the same in whole nanoseconds, where nothing overflows,     *)
(* carries or borrows.                                                     *)

\* A stamp of this many nanoseconds exists.
Representable(n) == 0 <= n /\ n < (MaxSeconds + 1) * NanosPerSecond

\* The offset of the sample is half of (t2 - t1) - (t4 - t3), rounded towards
\* zero, for every four timestamps: no borrow, wrap or rounding is lost on the
\* way through two subtractions of timestamps and one of intervals.
OffsetExact ==
  sample # NoTime =>
    TotalNanos(sample.offset) =
      Halved((TotalNanos(stamps[2]) - TotalNanos(stamps[1]))
             - (TotalNanos(stamps[4]) - TotalNanos(stamps[3])))

\* The servo steps exactly when the magnitude of the offset is greater than
\* the threshold and the ingress time less the offset is a timestamp, and it
\* steps to exactly that time.
StepExact ==
  judged =>
    LET offset == TotalNanos(sample.offset)
        estimate == TotalNanos(sample.ingress) - offset
        steps == /\ TotalNanos(StepThreshold) > 0
                 /\ offset > TotalNanos(StepThreshold) \/ -offset > TotalNanos(StepThreshold)
                 /\ Representable(estimate)
    IN  /\ steps => target # NoTime /\ TotalNanos(target) = estimate
        /\ ~steps => target = NoTime

\* A clock that stepped reads the target plus the time since, to the nanosecond, as
\* long as that is a timestamp, and otherwise falls back to the target itself
\* (VirtualClock::now).
ReadingExact ==
  elapsed # NoTime =>
    LET now == TotalNanos(target) + TotalNanos(elapsed)
    IN  /\ reading \in TimeStamp
        /\ Representable(now) => TotalNanos(reading) = now
        /\ ~Representable(now) => reading = target
=============================================================================
