----------------------------- MODULE ServoProofs -----------------------------
(***************************************************************************)
(* The servo: what it estimates, on which clock, and what the clock shows  *)
(* as it is adjusted; and the arithmetic of time.rs that its samples and   *)
(* steps are made of, which is exact for every length of the second and    *)
(* every range of the timestamps: what is computed in seconds and          *)
(* nanoseconds is what whole nanoseconds give.                             *)
(***************************************************************************)
EXTENDS Servo, TimeArithmetic, TLAPS

----------------------------------------------------------------------------
(* Seconds and nanoseconds *)


LEMMA Distributes ==
  ASSUME NEW x \in Int, NEW y \in Int, NEW n \in Int
  PROVE  /\ (x + y) * n = x * n + y * n
         /\ (x - y) * n = x * n - y * n
         /\ (-x) * n = -(x * n)
         /\ 1 * n = n
         /\ x * n \in Int
BY SMT

LEMMA Scales ==
  ASSUME NEW x \in Int, NEW n \in Nat \ {0}
  PROVE  /\ x >= 1 => x * n >= n
         /\ x >= 0 => x * n >= 0
         /\ x <= -1 => x * n <= -n
BY SMT

LEMMA DivMod ==
  ASSUME NEW x \in Int, NEW n \in Nat \ {0}
  PROVE  /\ x \div n \in Int
         /\ x % n \in 0..(n - 1)
         /\ ((x \div n) * n) + (x % n) = x
BY SMT

LEMMA StampIsInterval ==
  ASSUME NEW t \in TimeStamp
  PROVE  t \in TimeInterval
BY TimeAssumption DEF TimeStamp, TimeInterval

LEMMA TotalType ==
  ASSUME NEW i \in TimeInterval
  PROVE  /\ TotalNanos(i) \in Int
         /\ TotalNanos(i) = i.seconds * NanosPerSecond + i.nanos
         /\ i.seconds \in Int /\ i.nanos \in Int
         /\ 0 <= i.nanos /\ i.nanos < NanosPerSecond
         /\ i.seconds * NanosPerSecond \in Int
         /\ NanosPerSecond \in Nat \ {0}
BY Distributes, TimeAssumption DEF TotalNanos, TimeInterval
----------------------------------------------------------------------------
(* The operators. *)

\* Minus borrows exactly, where its i64 seconds do not overflow.
LEMMA MinusExact ==
  ASSUME NEW a \in TimeInterval, NEW b \in TimeInterval,
         InI64(a.seconds - b.seconds), InI64(a.seconds - b.seconds - 1)
  PROVE  /\ Minus(a, b) \in TimeInterval
         /\ TotalNanos(Minus(a, b)) = TotalNanos(a) - TotalNanos(b)
         /\ a.seconds - b.seconds - 1 <= Minus(a, b).seconds
         /\ Minus(a, b).seconds <= a.seconds - b.seconds
<1> DEFINE N == NanosPerSecond
           ds == a.seconds - b.seconds
           dn == a.nanos - b.nanos
<1>1. /\ ds \in Int /\ dn \in Int /\ N \in Nat \ {0}
      /\ dn < N /\ -N < dn
      /\ I64(ds) = ds /\ I64(ds - 1) = ds - 1
  BY TotalType, TimeAssumption DEF I64, InI64
<1>2. Minus(a, b) = IF dn < 0 THEN [seconds |-> ds - 1, nanos |-> dn + N]
                    ELSE [seconds |-> ds, nanos |-> dn]
  BY <1>1 DEF Minus
<1>3. Minus(a, b) \in TimeInterval
  BY <1>1, <1>2 DEF TimeInterval
<1>4. /\ ds * N = a.seconds * N - b.seconds * N
      /\ (ds - 1) * N = ds * N - N
  BY <1>1, TotalType, Distributes
<1>5. TotalNanos(Minus(a, b)) = TotalNanos(a) - TotalNanos(b)
  <2>1. CASE dn < 0
    <3>1. TotalNanos(Minus(a, b)) = (ds - 1) * N + (dn + N)
      BY <1>2, <2>1 DEF TotalNanos
    <3> QED  BY <3>1, <1>1, <1>4, TotalType
  <2>2. CASE ~(dn < 0)
    <3>1. TotalNanos(Minus(a, b)) = ds * N + dn
      BY <1>2, <2>2 DEF TotalNanos
    <3> QED  BY <3>1, <1>1, <1>4, TotalType
  <2> QED  BY <2>1, <2>2
<1>6. ds - 1 <= Minus(a, b).seconds /\ Minus(a, b).seconds <= ds
  BY <1>1, <1>2
<1> QED  BY <1>3, <1>5, <1>6

LEMMA HalvedType ==
  ASSUME NEW n \in Int
  PROVE  /\ Halved(n) \in Int
         /\ n >= 0 => 0 <= Halved(n) /\ Halved(n) <= n
         /\ n < 0 => n <= Halved(n) /\ Halved(n) <= 0
BY DEF Halved

\* Half is the half of the whole nanoseconds, rounded towards zero.
LEMMA HalfExact ==
  ASSUME NEW i \in TimeInterval
  PROVE  /\ Half(i) \in TimeInterval
         /\ TotalNanos(Half(i)) = Halved(TotalNanos(i))
<1> DEFINE h == Halved(TotalNanos(i))
           N == NanosPerSecond
<1>1. h \in Int /\ N \in Nat \ {0}
  BY TotalType, HalvedType
<1>2. /\ h \div N \in Int /\ h % N \in 0..(N - 1)
      /\ ((h \div N) * N) + (h % N) = h
  BY <1>1, DivMod
<1>3. Half(i) = [seconds |-> h \div N, nanos |-> h % N]
  BY DEF Half, FromTotalNanos
<1> HIDE DEF h
<1>4. Half(i) \in TimeInterval
  BY <1>2, <1>3 DEF TimeInterval
<1>5. TotalNanos(Half(i)) = h
  BY <1>2, <1>3 DEF TotalNanos
<1> QED  BY <1>4, <1>5 DEF h

\* The derived order is the order of the whole nanoseconds.
LEMMA GreaterExact ==
  ASSUME NEW a \in TimeInterval, NEW b \in TimeInterval
  PROVE  Greater(a, b) <=> TotalNanos(a) > TotalNanos(b)
<1> DEFINE N == NanosPerSecond
           ds == a.seconds - b.seconds
<1>1. /\ ds \in Int
      /\ ds * N = a.seconds * N - b.seconds * N
      /\ ds * N \in Int
  BY TotalType, Distributes
<1>2. /\ ds >= 1 => ds * N >= N
      /\ ds <= -1 => ds * N <= -N
  BY <1>1, TotalType, Scales
<1>3. CASE ds >= 1
  BY <1>1, <1>2, <1>3, TotalType DEF Greater
<1>4. CASE ds <= -1
  BY <1>1, <1>2, <1>4, TotalType DEF Greater
<1>5. CASE ds = 0
  <2>1. a.seconds = b.seconds
    BY <1>5, TotalType
  <2> QED  BY <2>1, TotalType DEF Greater
<1> QED  BY <1>1, <1>3, <1>4, <1>5

\* Abs is the magnitude.
LEMMA AbsExact ==
  ASSUME NEW i \in TimeInterval
  PROVE  /\ AbsInterval(i) \in TimeInterval
         /\ TotalNanos(i) >= 0 => TotalNanos(AbsInterval(i)) = TotalNanos(i)
         /\ TotalNanos(i) < 0 => TotalNanos(AbsInterval(i)) = -TotalNanos(i)
<1> DEFINE N == NanosPerSecond
           s == i.seconds
<1>1. CASE s >= 0
  <2>1. s * N >= 0
    BY <1>1, TotalType, Scales
  <2>2. AbsInterval(i) = i
    BY <1>1 DEF AbsInterval
  <2> QED  BY <2>1, <2>2, TotalType
<1>2. CASE s < 0
  <2>1. s * N <= -N
    BY <1>2, TotalType, Scales
  <2>2. TotalNanos(i) < 0
    BY <2>1, TotalType
  <2>3. /\ (-s) * N = -(s * N)
        /\ (s + 1) * N = s * N + N
        /\ (-(s + 1)) * N = -((s + 1) * N)
    BY TotalType, Distributes
  <2>4. CASE i.nanos = 0
    <3>1. AbsInterval(i) = [seconds |-> -s, nanos |-> 0]
      BY <1>2, <2>4, TotalType DEF AbsInterval
    <3>2. AbsInterval(i) \in TimeInterval
      BY <3>1, TotalType DEF TimeInterval
    <3>3. TotalNanos(AbsInterval(i)) = (-s) * N
      BY <3>1, <2>3, TotalType DEF TotalNanos
    <3> QED  BY <2>2, <2>3, <2>4, <3>2, <3>3, TotalType
  <2>5. CASE i.nanos # 0
    <3>1. AbsInterval(i) = [seconds |-> -(s + 1), nanos |-> N - i.nanos]
      BY <1>2, <2>5, TotalType DEF AbsInterval
    <3>2. AbsInterval(i) \in TimeInterval
      BY <3>1, <2>5, TotalType DEF TimeInterval
    <3>3. TotalNanos(AbsInterval(i)) = (-(s + 1)) * N + (N - i.nanos)
      BY <3>1 DEF TotalNanos
    <3> QED  BY <2>2, <2>3, <3>2, <3>3, TotalType
  <2> QED  BY <2>4, <2>5
<1> QED  BY <1>1, <1>2, TotalType
\* TryNewI64 accepts the seconds and nanoseconds of a timestamp, and nothing
\* else.
LEMMA TryNewExact ==
  ASSUME NEW s \in Int, NEW n \in Int, 0 <= n, n < NanosPerSecond
  PROVE  LET total == s * NanosPerSecond + n
         IN  /\ Representable(total) =>
                  /\ TryNewI64(s, n) \in TimeStamp
                  /\ TotalNanos(TryNewI64(s, n)) = total
             /\ ~Representable(total) => TryNewI64(s, n) = NoTime
<1> DEFINE N == NanosPerSecond
           over == s - (MaxSeconds + 1)
<1>1. /\ N \in Nat \ {0} /\ MaxSeconds \in Nat /\ over \in Int
      /\ s * N \in Int /\ over * N \in Int
      /\ over * N = s * N - (MaxSeconds + 1) * N
      /\ (MaxSeconds + 1) * N \in Int
  BY TimeAssumption, Distributes
<1>2. /\ s >= 0 => s * N >= 0
      /\ s <= -1 => s * N <= -N
      /\ over >= 0 => over * N >= 0
      /\ over <= -1 => over * N <= -N
  BY <1>1, Scales
<1>3. Representable(s * N + n) <=> 0 <= s /\ s <= MaxSeconds
  BY <1>1, <1>2 DEF Representable
<1>4. 0 <= s /\ s <= MaxSeconds => InI64(s)
  BY <1>1, TimeAssumption DEF InI64
<1>5. ASSUME 0 <= s, s <= MaxSeconds
      PROVE  /\ TryNewI64(s, n) = [seconds |-> s, nanos |-> n]
             /\ TryNewI64(s, n) \in TimeStamp
             /\ TotalNanos(TryNewI64(s, n)) = s * N + n
  <2>1. TryNewI64(s, n) = [seconds |-> s, nanos |-> n]
    BY <1>4, <1>5 DEF TryNewI64
  <2> QED  BY <2>1, <1>1, <1>5 DEF TimeStamp, TotalNanos
<1>6. ~(0 <= s /\ s <= MaxSeconds) => TryNewI64(s, n) = NoTime
  BY DEF TryNewI64
<1> QED  BY <1>3, <1>5, <1>6

\* checked_sub and checked_add give the exact time, or None where there is
\* no such timestamp.
LEMMA CheckedSubExact ==
  ASSUME NEW t \in TimeStamp, NEW i \in TimeInterval
  PROVE  LET total == TotalNanos(t) - TotalNanos(i)
         IN  /\ Representable(total) =>
                  /\ CheckedSub(t, i) \in TimeStamp
                  /\ TotalNanos(CheckedSub(t, i)) = total
             /\ ~Representable(total) => CheckedSub(t, i) = NoTime
<1> DEFINE N == NanosPerSecond
           ds == t.seconds - i.seconds
           dn == t.nanos - i.nanos
<1>1. t \in TimeInterval
  BY StampIsInterval
<1>2. /\ ds \in Int /\ dn \in Int /\ dn < N /\ -N < dn /\ N \in Nat \ {0}
      /\ ds * N = t.seconds * N - i.seconds * N
      /\ (ds - 1) * N = ds * N - N
      /\ ds * N \in Int
  BY <1>1, TotalType, Distributes
<1>3. TotalNanos(t) - TotalNanos(i) = ds * N + dn
  BY <1>1, <1>2, TotalType
<1>4. CASE dn < 0
  <2>1. CheckedSub(t, i) = TryNewI64(ds - 1, dn + N)
    BY <1>4 DEF CheckedSub
  <2>2. (ds - 1) * N + (dn + N) = ds * N + dn
    BY <1>2
  <2>3. ds - 1 \in Int /\ dn + N \in Int /\ 0 <= dn + N /\ dn + N < N
    BY <1>2, <1>4
  <2> HIDE DEF ds, dn
  <2> QED  BY <1>3, <2>1, <2>2, <2>3, TryNewExact
<1>5. CASE ~(dn < 0)
  <2>1. CheckedSub(t, i) = TryNewI64(ds, dn)
    BY <1>5 DEF CheckedSub
  <2>2. 0 <= dn
    BY <1>2, <1>5
  <2> HIDE DEF ds, dn
  <2> QED  BY <1>2, <1>3, <2>1, <2>2, TryNewExact
<1> QED  BY <1>4, <1>5

LEMMA CheckedAddExact ==
  ASSUME NEW t \in TimeStamp, NEW i \in TimeInterval
  PROVE  LET total == TotalNanos(t) + TotalNanos(i)
         IN  /\ Representable(total) =>
                  /\ CheckedAdd(t, i) \in TimeStamp
                  /\ TotalNanos(CheckedAdd(t, i)) = total
             /\ ~Representable(total) => CheckedAdd(t, i) = NoTime
<1> DEFINE N == NanosPerSecond
           ss == t.seconds + i.seconds
           sn == t.nanos + i.nanos
<1>1. t \in TimeInterval
  BY StampIsInterval
<1>2. /\ ss \in Int /\ sn \in Int /\ 0 <= sn /\ sn < 2 * N /\ N \in Nat \ {0}
      /\ ss * N = t.seconds * N + i.seconds * N
      /\ (ss + 1) * N = ss * N + N
      /\ ss * N \in Int
  BY <1>1, TotalType, Distributes
<1>3. TotalNanos(t) + TotalNanos(i) = ss * N + sn
  BY <1>1, <1>2, TotalType
<1>4. CASE sn >= N
  <2>1. CheckedAdd(t, i) = TryNewI64(ss + 1, sn - N)
    BY <1>4 DEF CheckedAdd
  <2>2. (ss + 1) * N + (sn - N) = ss * N + sn
    BY <1>2
  <2>3. ss + 1 \in Int /\ sn - N \in Int /\ 0 <= sn - N /\ sn - N < N
    BY <1>2, <1>4
  <2> HIDE DEF ss, sn
  <2> QED  BY <1>3, <2>1, <2>2, <2>3, TryNewExact
<1>5. CASE ~(sn >= N)
  <2>1. CheckedAdd(t, i) = TryNewI64(ss, sn)
    BY <1>5 DEF CheckedAdd
  <2>2. sn < N
    BY <1>2, <1>5
  <2> HIDE DEF ss, sn
  <2> QED  BY <1>2, <1>3, <2>1, <2>2, TryNewExact
<1> QED  BY <1>4, <1>5

\* Two differences of timestamps, their difference and its half: no i64 on
\* the way overflows, because a timestamp's seconds have 48 bits.
LEMMA SampleExact ==
  ASSUME NEW t1 \in TimeStamp, NEW t2 \in TimeStamp,
         NEW t3 \in TimeStamp, NEW t4 \in TimeStamp
  PROVE  LET offset == Half(Minus(Minus(t2, t1), Minus(t4, t3)))
         IN  /\ offset \in TimeInterval
             /\ TotalNanos(offset) =
                  Halved((TotalNanos(t2) - TotalNanos(t1))
                         - (TotalNanos(t4) - TotalNanos(t3)))
<1>1. /\ t1 \in TimeInterval /\ t2 \in TimeInterval
      /\ t3 \in TimeInterval /\ t4 \in TimeInterval
  BY StampIsInterval
<1>2. ASSUME NEW a \in TimeStamp, NEW b \in TimeStamp
      PROVE  /\ Minus(a, b) \in TimeInterval
             /\ TotalNanos(Minus(a, b)) = TotalNanos(a) - TotalNanos(b)
             /\ -MaxSeconds - 1 <= Minus(a, b).seconds
             /\ Minus(a, b).seconds <= MaxSeconds
  <2>1. /\ a \in TimeInterval /\ b \in TimeInterval
        /\ a.seconds \in 0..MaxSeconds /\ b.seconds \in 0..MaxSeconds
    BY StampIsInterval DEF TimeStamp
  <2>2. InI64(a.seconds - b.seconds) /\ InI64(a.seconds - b.seconds - 1)
    BY <2>1, TimeAssumption DEF InI64
  <2>3. /\ a.seconds - b.seconds - 1 <= Minus(a, b).seconds
        /\ Minus(a, b).seconds <= a.seconds - b.seconds
        /\ Minus(a, b) \in TimeInterval
        /\ TotalNanos(Minus(a, b)) = TotalNanos(a) - TotalNanos(b)
    BY <2>1, <2>2, MinusExact
  <2>4. Minus(a, b).seconds \in Int
    BY <2>3, TotalType
  <2> QED  BY <2>1, <2>3, <2>4, TimeAssumption
<1> DEFINE ms == Minus(t2, t1)
           sm == Minus(t4, t3)
<1>3. /\ ms \in TimeInterval /\ sm \in TimeInterval
      /\ ms.seconds \in Int /\ sm.seconds \in Int
  BY <1>2, TotalType
<1>4. InI64(ms.seconds - sm.seconds) /\ InI64(ms.seconds - sm.seconds - 1)
  BY <1>2, <1>3, TimeAssumption DEF InI64
<1>5. /\ Minus(ms, sm) \in TimeInterval
      /\ TotalNanos(Minus(ms, sm)) = TotalNanos(ms) - TotalNanos(sm)
  BY <1>3, <1>4, MinusExact
<1>6. /\ TotalNanos(ms) = TotalNanos(t2) - TotalNanos(t1)
      /\ TotalNanos(sm) = TotalNanos(t4) - TotalNanos(t3)
  BY <1>2
<1> QED  BY <1>5, <1>6, HalfExact

----------------------------------------------------------------------------
(* The invariant: the three properties with the types they rest on. *)

TimeTyped ==
  /\ sample # NoTime =>
       /\ sample.ingress \in TimeStamp /\ sample.offset \in TimeInterval
  /\ judged \in BOOLEAN /\ (judged => sample # NoTime)
  /\ target # NoTime => target \in TimeStamp /\ judged
  /\ elapsed # NoTime => elapsed \in TimeStamp /\ target # NoTime
  /\ reading # NoTime => elapsed # NoTime

TimeInv == TimeTyped /\ OffsetExact /\ StepExact /\ ReadingExact

LEMMA TimeInitially == TimeInit => TimeInv
BY DEF TimeInit, TimeInv, TimeTyped, OffsetExact, StepExact, ReadingExact

LEMMA TimePreserved ==
  ASSUME TimeInv, [TimeNext]_timeVars
  PROVE  TimeInv'
<1>1. CASE UNCHANGED timeVars
  BY <1>1 DEF timeVars, TimeInv, TimeTyped, OffsetExact, StepExact, ReadingExact
<1>2. CASE Measure
  <2> PICK t1 \in TimeStamp, t2 \in TimeStamp, t3 \in TimeStamp, t4 \in TimeStamp :
        /\ stamps' = <<t1, t2, t3, t4>>
        /\ sample' = [ingress |-> t2, offset |-> OffsetFromMaster(stamps')]
    BY <1>2 DEF Measure
  <2> DEFINE offset == Half(Minus(Minus(t2, t1), Minus(t4, t3)))
  <2>1. /\ sample'.offset = offset /\ sample'.ingress = t2
        /\ stamps'[1] = t1 /\ stamps'[2] = t2 /\ stamps'[3] = t3 /\ stamps'[4] = t4
    BY DEF OffsetFromMaster
  <2>2. /\ offset \in TimeInterval
        /\ TotalNanos(offset) = Halved((TotalNanos(t2) - TotalNanos(t1))
                                       - (TotalNanos(t4) - TotalNanos(t3)))
    BY SampleExact
  <2>3. OffsetExact'
    BY <2>1, <2>2 DEF OffsetExact, TotalNanos
  <2>4. sample = NoTime /\ judged = FALSE /\ target = NoTime /\ elapsed = NoTime /\ reading = NoTime
    BY <1>2 DEF Measure, TimeInv, TimeTyped
  <2>5. judged' = FALSE /\ target' = NoTime /\ elapsed' = NoTime /\ reading' = NoTime
    BY <1>2, <2>4 DEF Measure
  <2> QED  BY <2>1, <2>2, <2>3, <2>5 DEF TimeInv, TimeTyped, StepExact, ReadingExact
<1>3. CASE JudgeStep
  <2>1. /\ sample.ingress \in TimeStamp /\ sample.offset \in TimeInterval
        /\ sample # NoTime /\ target = NoTime /\ elapsed = NoTime /\ reading = NoTime
    BY <1>3 DEF JudgeStep, TimeInv, TimeTyped
  <2>2. OffsetExact' /\ sample' = sample /\ judged' /\ elapsed' = NoTime /\ reading' = NoTime
    BY <1>3, <2>1 DEF JudgeStep, TimeInv, OffsetExact, TotalNanos
  <2> DEFINE offset == TotalNanos(sample.offset)
             limit == TotalNanos(StepThreshold)
             zero == [seconds |-> 0, nanos |-> 0]
  <2>3. /\ zero \in TimeInterval /\ TotalNanos(zero) = 0 /\ StepThreshold \in TimeInterval
        /\ limit \in Int /\ offset \in Int
    BY <2>1, TotalType, TimeAssumption DEF TimeInterval, TotalNanos
  <2>4. IntervalExceeds(sample.offset) <=> limit > 0 /\ (offset > limit \/ -offset > limit)
    <3>1. Greater(StepThreshold, zero) <=> limit > 0
      BY <2>3, GreaterExact
    <3>2. /\ AbsInterval(sample.offset) \in TimeInterval
          /\ offset >= 0 => TotalNanos(AbsInterval(sample.offset)) = offset
          /\ offset < 0 => TotalNanos(AbsInterval(sample.offset)) = -offset
      BY <2>1, AbsExact
    <3>3. Greater(AbsInterval(sample.offset), StepThreshold) <=> TotalNanos(AbsInterval(sample.offset)) > limit
      BY <2>3, <3>2, GreaterExact
    <3> QED  BY <2>3, <3>1, <3>2, <3>3 DEF IntervalExceeds
  <2> DEFINE estimate == TotalNanos(sample.ingress) - offset
             sub == CheckedSub(sample.ingress, sample.offset)
  <2>5. /\ Representable(estimate) => sub \in TimeStamp /\ TotalNanos(sub) = estimate
        /\ ~Representable(estimate) => sub = NoTime
    BY <2>1, CheckedSubExact
  <2>6. target' = IF IntervalExceeds(sample.offset) THEN sub ELSE NoTime
    BY <1>3 DEF JudgeStep
  <2>7. StepExact'
    BY <2>2, <2>4, <2>5, <2>6, TimeAssumption DEF StepExact, TotalNanos
  <2>8. TimeTyped'
    BY <2>1, <2>2, <2>5, <2>6, <1>3 DEF TimeTyped, JudgeStep
  <2> QED  BY <2>2, <2>7, <2>8 DEF TimeInv, ReadingExact
<1>4. ASSUME NEW i \in TimeStamp, Read(i)
      PROVE  TimeInv'
  <2>1. /\ target \in TimeStamp /\ target # NoTime /\ judged /\ sample # NoTime
        /\ i \in TimeInterval /\ i # NoTime
        /\ elapsed' = i /\ target' = target
        /\ reading' = IF CheckedAdd(target, i) # NoTime THEN CheckedAdd(target, i) ELSE target
        /\ sample' = sample /\ stamps' = stamps /\ judged' = judged
    BY <1>4, StampIsInterval, TimeAssumption DEF Read, TimeInv, TimeTyped
  <2> DEFINE sum == TotalNanos(target) + TotalNanos(i)
  <2>2. /\ Representable(sum) =>
             CheckedAdd(target, i) \in TimeStamp /\ TotalNanos(CheckedAdd(target, i)) = sum
        /\ ~Representable(sum) => CheckedAdd(target, i) = NoTime
    BY <2>1, CheckedAddExact
  <2>3. ReadingExact'
    BY <2>1, <2>2, TimeAssumption DEF ReadingExact, TotalNanos
  <2>4. TimeTyped'
    BY <1>4, <2>1 DEF TimeInv, TimeTyped
  <2>5. OffsetExact'
    BY <2>1 DEF TimeInv, OffsetExact, TotalNanos
  <2>6. StepExact'
    BY <2>1 DEF TimeInv, StepExact, TotalNanos
  <2> QED  BY <2>3, <2>4, <2>5, <2>6 DEF TimeInv
<1>5. CASE Forget
  BY <1>5 DEF Forget, TimeInv, TimeTyped, OffsetExact, StepExact, ReadingExact
<1> QED  BY <1>1, <1>2, <1>3, <1>4, <1>5 DEF TimeNext

\* For every second, every range and every four timestamps, the offset of a
\* sample (e2e.rs sample) is half of (t2 - t1) - (t4 - t3), towards zero.
THEOREM OffsetIsExact == TimeSpec => []OffsetExact
<1>1. TimeInv => OffsetExact
  BY DEF TimeInv
<1> QED  BY <1>1, TimeInitially, TimePreserved, PTL DEF TimeSpec

\* StepPolicy::should_step steps exactly beyond the threshold, and to the
\* ingress time less the offset.
THEOREM StepIsExact == TimeSpec => []StepExact
<1>1. TimeInv => StepExact
  BY DEF TimeInv
<1> QED  BY <1>1, TimeInitially, TimePreserved, PTL DEF TimeSpec

\* A stepped clock (VirtualClock::now) reads the target plus the time since, for every
\* length of the second and every range, and the target where the sum is out of range.
THEOREM ReadingIsExact == TimeSpec => []ReadingExact
<1>1. TimeInv => ReadingExact
  BY DEF TimeInv
<1> QED  BY <1>1, TimeInitially, TimePreserved, PTL DEF TimeSpec

----------------------------------------------------------------------------
(* The clock and the servo *)

Samples == [ingress : Nat, offset : Int, base : Nat, copies : Nat]

Clocks == [ts : Nat, start : Nat, rate : Int]

Servos ==
  [state : {"Unlocked", "Calibrating", "Locked"}, initial : BOOLEAN,
   baseline : {None} \cup Samples, integral : Int]

Types ==
  /\ now \in Nat /\ heard \in Int /\ heard <= now /\ steps \in Nat
  /\ clock \in Clocks /\ clock.start <= now
  /\ servo \in Servos
  /\ sync \in {None} \cup Samples /\ (sync # None => sync.copies <= Repeats)
  /\ fed \in {None} \cup Samples /\ first \in {None} \cup Samples

\* What clock c shows at tick t.
Shows(c, t) ==
  LET dt == (t - c.start) * c.rate
      whole == IF dt >= 0 THEN dt ELSE -(((-dt) \div Scale) * Scale)
  IN IF c.ts + whole < 0 THEN c.ts ELSE c.ts + whole

\* The FollowUp of the last Sync did not arrive yet.
Pending == sync # None /\ sync.copies = Repeats

\* A sample that was not fed yet was taken from the clock as it is.
PendingIsFresh == Pending => sync.base = steps

NothingFed ==
  /\ strategy # "PI" => fed = None
  /\ fed = None => first = None /\ servo.baseline = None

IInv == Types /\ SlaveIsLocked /\ PendingIsFresh /\ NothingFed /\ BaselineSinceStep

PendingIsShown == Pending => clock.start <= heard /\ sync.ingress = Shows(clock, heard)

\* Until it locks, the servo compares every sample with the first, and the samples
\* are in the order of the Syncs.
ComparesWithFirst ==
  servo.state # "Locked" /\ fed # None /\ ~again =>
    /\ first # None /\ servo.baseline = first
    /\ first.ingress <= fed.ingress /\ fed.ingress - first.ingress < MinDelta
    /\ clock.start <= heard /\ fed.ingress <= Shows(clock, heard)
    /\ Pending => fed.ingress < sync.ingress

LEMMA ShowsType ==
  ASSUME NEW c \in Clocks, NEW t \in Int
  PROVE  Shows(c, t) \in Nat
<1> DEFINE dt == (t - c.start) * c.rate
           whole == IF dt >= 0 THEN dt ELSE -(((-dt) \div Scale) * Scale)
<1>1. c.ts \in Nat /\ c.start \in Nat /\ c.rate \in Int
  BY DEF Clocks
<1>2. dt \in Int
  BY <1>1
<1> HIDE DEF dt
<1>3. (-dt) \div Scale \in Int
  BY <1>2, ServoAssumption
<1>4. whole \in Int
  BY <1>2, <1>3, ServoAssumption
<1> HIDE DEF whole
<1>5. Shows(c, t) = IF c.ts + whole < 0 THEN c.ts ELSE c.ts + whole
  BY DEF Shows, whole, dt
<1> QED  BY <1>1, <1>4, <1>5

LEMMA ShowsBase ==
  ASSUME NEW c \in Clocks
  PROVE  Shows(c, c.start) = c.ts
<1>1. c.ts \in Nat /\ c.start \in Nat /\ c.rate \in Int
  BY DEF Clocks
<1>2. (c.start - c.start) * c.rate = 0
  BY <1>1
<1> QED  BY <1>1, <1>2 DEF Shows

\* A clock with a rate that is not negative never goes backwards, and one with a
\* positive rate goes on.
LEMMA ShowsForward ==
  ASSUME NEW c \in Clocks, c.rate >= 0, NEW t \in Int, NEW u \in Int, c.start <= t, t <= u
  PROVE  /\ Shows(c, t) <= Shows(c, u)
         /\ c.rate > 0 /\ t < u => Shows(c, t) < Shows(c, u)
<1>1. c.ts \in Nat /\ c.start \in Nat /\ c.rate \in Int
  BY DEF Clocks
<1> DEFINE a == t - c.start
           b == u - c.start
<1>2. a \in Nat /\ b \in Nat /\ a <= b
  BY <1>1
<1>3. ASSUME NEW n \in Nat, NEW r \in Nat
      PROVE  n * r \in Nat
  BY <1>3
<1>4. b * c.rate = a * c.rate + (b - a) * c.rate
  <2> HIDE DEF a, b
  <2> QED  BY <1>1, <1>2
<1>5. /\ a * c.rate \in Nat /\ b * c.rate \in Nat /\ (b - a) * c.rate \in Nat
  <2> HIDE DEF a, b
  <2> QED  BY <1>1, <1>2, <1>3
<1>6. Shows(c, t) = c.ts + a * c.rate
  BY <1>1, <1>5 DEF Shows
<1>7. Shows(c, u) = c.ts + b * c.rate
  BY <1>1, <1>5 DEF Shows
<1>8. c.rate > 0 /\ t < u => (b - a) * c.rate > 0
  <2>1. ASSUME NEW n \in Nat \ {0}, NEW r \in Nat \ {0}
        PROVE  n * r > 0
    BY <2>1
  <2>2. t < u => b - a \in Nat \ {0}
    BY <1>1
  <2> HIDE DEF a, b
  <2> QED  BY <1>1, <2>1, <2>2
<1> HIDE DEF a, b
<1> QED  BY <1>1, <1>4, <1>5, <1>6, <1>7, <1>8

LEMMA ClockNowShows == ClockNow = Shows(clock, now)
BY DEF ClockNow, Shows

LEMMA EstimateOf ==
  ASSUME NEW b \in {None} \cup Samples, NEW s \in Samples
  PROVE  /\ Estimate(b, s).drift \in {None} \cup Int
         /\ Estimate(b, s).baseline \in {None, b, s}
         /\ b = None => Estimate(b, s).baseline = s /\ Estimate(b, s).drift = None
         /\ b # None /\ s.ingress > b.ingress /\ s.ingress - b.ingress < MinDelta =>
              Estimate(b, s).baseline = b
         /\ b # None /\ s.ingress > b.ingress /\ Estimate(b, s).drift = None =>
              s.ingress - b.ingress < MinDelta
<1>1. CASE b = None
  BY <1>1 DEF Estimate, Estimated
<1>2. CASE b # None
  <2>1. /\ s.ingress \in Nat /\ s.offset \in Int /\ b.ingress \in Nat /\ b.offset \in Int
        /\ MinDelta \in Nat /\ None \notin Int
    BY <1>2, ServoAssumption DEF Samples
  <2>2. ASSUME s.ingress > b.ingress
        PROVE  Clamp(DriftSince(b, s)) \in Int
    <3>1. s.ingress - b.ingress \in Nat \ {0} /\ (s.offset - b.offset) * Scale \in Int
      BY <2>1, <2>2, ServoAssumption
    <3>2. DriftSince(b, s) \in Int
      BY <3>1 DEF DriftSince
    <3> QED  BY <3>2, ServoAssumption DEF Clamp
  <2>3. CASE s.ingress <= b.ingress
    BY <1>2, <2>1, <2>3 DEF Estimate, Estimated
  <2>4. CASE s.ingress > b.ingress /\ s.ingress - b.ingress < MinDelta
    BY <1>2, <2>1, <2>4 DEF Estimate, Estimated
  <2>5. CASE s.ingress > b.ingress /\ ~(s.ingress - b.ingress < MinDelta)
    <3>1. Estimate(b, s) = [baseline |-> s, drift |-> Clamp(DriftSince(b, s))]
      BY <1>2, <2>1, <2>5 DEF Estimate, Estimated
    <3> HIDE DEF Estimate
    <3> QED  BY <1>2, <2>1, <2>2, <2>5, <3>1
  <2> QED  BY <2>1, <2>3, <2>4, <2>5
<1> QED  BY <1>1, <1>2

\* What a FollowUp may do: step, run the PI loop, go on calibrating, lock; or, with
\* the stepping servo, step or not.
Steps(s) ==
  /\ clock' = [clock EXCEPT !.ts = MasterEstimate(s), !.start = now]
  /\ MasterEstimate(s) \in Nat
  /\ steps' = steps + 1

LEMMA FeedCases ==
  ASSUME IInv, FollowUpArrives
  PROVE  \/ /\ strategy = "PI" /\ Steps(sync) /\ fed' = None /\ first' = None
            /\ servo' = [NewServo EXCEPT !.initial = FALSE]
         \/ /\ strategy = "PI" /\ servo.state = "Locked" /\ steps' = steps
            /\ fed' = sync /\ first' = (IF first = None THEN sync ELSE first)
            /\ servo' \in Servos /\ servo'.state = "Locked" /\ servo'.baseline = servo.baseline
            /\ \E rate \in Int : clock' = Adjust(rate)
         \/ /\ strategy = "PI" /\ servo.state # "Locked" /\ steps' = steps
            /\ fed' = sync /\ first' = (IF first = None THEN sync ELSE first)
            /\ Estimate(servo.baseline, sync).drift = None /\ servo' \in Servos
            /\ servo'.state = "Calibrating"
            /\ servo'.baseline = Estimate(servo.baseline, sync).baseline
            /\ clock' = clock
         \/ /\ strategy = "PI" /\ servo.state # "Locked" /\ steps' = steps
            /\ fed' = sync /\ first' = (IF first = None THEN sync ELSE first)
            /\ servo' \in Servos /\ servo'.state = "Locked" /\ servo'.baseline = None
            /\ \E rate \in Int : clock' = Adjust(rate)
         \/ /\ strategy # "PI" /\ UNCHANGED <<fed, first>>
            /\ servo' \in Servos /\ servo'.baseline = servo.baseline
            /\ Steps(sync) \/ UNCHANGED <<clock, steps>>
<1>1. /\ sync \in Samples /\ sync.ingress \in Nat /\ sync.offset \in Int
      /\ servo \in Servos /\ servo.baseline \in {None} \cup Samples /\ servo.integral \in Int
  BY DEF FollowUpArrives, IInv, Types, Samples, Servos
<1>2. MasterEstimate(sync) # None => MasterEstimate(sync) \in Nat
  BY <1>1 DEF MasterEstimate
<1>3. CASE strategy = "PI" /\ ShouldStep(sync)
  <2>1. StepServo(sync) /\ steps' = steps + 1 /\ fed' = None /\ first' = None
    BY <1>3 DEF FollowUpArrives, FeedPi
  <2>2. MasterEstimate(sync) \in Nat
    BY <1>2, <1>3 DEF ShouldStep
  <2> QED  BY <1>3, <2>1, <2>2 DEF StepServo, Step, Steps
<1>4. CASE strategy = "PI" /\ ~ShouldStep(sync) /\ servo.state = "Locked"
  <2>1. /\ PiLoop(sync) /\ steps' = steps
        /\ fed' = sync /\ first' = (IF first = None THEN sync ELSE first)
    BY <1>4 DEF FollowUpArrives, FeedPi
  <2> DEFINE i == servo.integral + sync.offset
             rate == Scale - (Kp * sync.offset + Ki * i) \div Gain
  <2>2. i \in Int
    BY <1>1
  <2>3. servo' = [servo EXCEPT !.initial = FALSE, !.integral = i] /\ clock' = Adjust(rate)
    BY <2>1 DEF PiLoop
  <2> HIDE DEF i
  <2>4. Kp * sync.offset + Ki * i \in Int
    BY <1>1, <2>2, ServoAssumption
  <2>5. rate \in Int
    BY <2>4, ServoAssumption
  <2> HIDE DEF rate
  <2>6. servo' \in Servos /\ servo'.state = "Locked" /\ servo'.baseline = servo.baseline
    BY <1>1, <1>4, <2>2, <2>3 DEF Servos
  <2> QED  BY <1>4, <2>1, <2>3, <2>5, <2>6
<1>5. CASE strategy = "PI" /\ ~ShouldStep(sync) /\ servo.state # "Locked"
  <2> DEFINE e == Estimate(servo.baseline, sync)
  <2>1. /\ Calibrate(sync) /\ steps' = steps
        /\ fed' = sync /\ first' = (IF first = None THEN sync ELSE first)
    BY <1>5 DEF FollowUpArrives, FeedPi
  <2>2. e.drift \in {None} \cup Int /\ e.baseline \in {None} \cup Samples
    BY <1>1, EstimateOf
  <2>3. CASE e.drift = None
    <3>1. /\ clock' = clock
          /\ servo' = [servo EXCEPT !.state = "Calibrating", !.initial = FALSE,
                                    !.baseline = e.baseline]
      BY <2>1, <2>3 DEF Calibrate
    <3> HIDE DEF e
    <3>2. servo' \in Servos /\ servo'.state = "Calibrating" /\ servo'.baseline = e.baseline
      BY <1>1, <2>2, <3>1 DEF Servos
    <3> QED  BY <1>5, <2>1, <2>3, <3>1, <3>2 DEF e
  <2>4. CASE e.drift # None
    <3>1. /\ clock' = Adjust(AsRate(e.drift))
          /\ servo' = [servo EXCEPT !.state = "Locked", !.initial = FALSE, !.baseline = None]
      BY <2>1, <2>4 DEF Calibrate
    <3> HIDE DEF e
    <3>2. AsRate(e.drift) \in Int
      BY <2>2, <2>4, ServoAssumption DEF AsRate
    <3>3. servo' \in Servos /\ servo'.state = "Locked" /\ servo'.baseline = None
      BY <1>1, <3>1 DEF Servos
    <3> QED  BY <1>5, <2>1, <3>1, <3>2, <3>3
  <2> QED  BY <2>3, <2>4
<1>6. CASE strategy # "PI"
  <2>1. FeedStepping(sync)
    BY <1>6 DEF FollowUpArrives
  <2>2. servo' \in Servos /\ servo'.baseline = servo.baseline
    BY <1>1, <2>1 DEF FeedStepping, Servos
  <2>3. Steps(sync) \/ UNCHANGED <<clock, steps>>
    BY <1>2, <2>1 DEF FeedStepping, Step, Steps
  <2> QED  BY <1>6, <2>1, <2>2, <2>3 DEF FeedStepping
<1> QED  BY <1>3, <1>4, <1>5, <1>6

LEMMA AdjustShows ==
  ASSUME Types, NEW rate \in Int
  PROVE  /\ Adjust(rate) \in Clocks /\ Adjust(rate).start = now
         /\ Shows(Adjust(rate), now) = ClockNow
<1>1. ClockNow \in Nat /\ now \in Nat
  BY ClockNowShows, ShowsType DEF Types
<1>2. Adjust(rate) = [ts |-> ClockNow, start |-> now, rate |-> rate]
  BY DEF Adjust
<1>3. Adjust(rate) \in Clocks /\ Adjust(rate).start = now /\ Adjust(rate).ts = ClockNow
  BY <1>1, <1>2 DEF Clocks
<1> QED  BY <1>3, ShowsBase

LEMMA StepsClock ==
  ASSUME Types, NEW s, Steps(s)
  PROVE  clock' \in Clocks /\ clock'.start = now /\ steps' \in Nat
<1>1. clock.rate \in Int /\ now \in Nat /\ steps \in Nat /\ MasterEstimate(s) \in Nat
  BY DEF Types, Steps, Clocks
<1>2. clock' = [ts |-> MasterEstimate(s), start |-> now, rate |-> clock.rate]
  BY DEF Types, Steps, Clocks
<1> QED  BY <1>1, <1>2 DEF Steps, Clocks

LEMMA Initially == Init => IInv /\ PendingIsShown /\ ComparesWithFirst
<1> SUFFICES ASSUME Init PROVE IInv /\ PendingIsShown /\ ComparesWithFirst
  OBVIOUS
<1>1. clock \in Clocks /\ clock.start = 0
  <2>1. clock \in [ts : Offsets, start : {0}, rate : {Scale}]
    BY DEF Init
  <2>2. Offsets \subseteq Nat /\ {0} \subseteq Nat /\ {Scale} \subseteq Int
    BY ServoAssumption
  <2> QED  BY <2>1, <2>2 DEF Clocks
<1>2. Types
  BY <1>1 DEF Init, Types, NewServo, Servos
<1> QED
  BY <1>2 DEF Init, NewServo, IInv, SlaveIsLocked, PendingIsFresh, Pending, NothingFed,
              BaselineSinceStep, PendingIsShown, ComparesWithFirst

LEMMA FollowUpKeeps ==
  ASSUME IInv, FollowUpArrives
  PROVE  IInv' /\ ~Pending'
<1>1. /\ sync # None /\ sync \in Samples /\ sync.copies \in 0..Repeats /\ Repeats \in Nat
      /\ UNCHANGED <<strategy, now, heard>>
      /\ sync' = IF sync.copies = 0 THEN None ELSE [sync EXCEPT !.copies = @ - 1]
      /\ again' = (again \/ sync.copies < Repeats)
  BY ServoAssumption DEF FollowUpArrives, IInv, Types, Samples
<1>2. /\ sync' \in {None} \cup Samples
      /\ sync' # None => sync'.copies <= Repeats /\ sync'.copies # Repeats
  BY <1>1 DEF Samples
<1>3. ~Pending'
  BY <1>2 DEF Pending
<1>4. SlaveIsLocked'
  BY DEF FollowUpArrives, FollowServo, SlaveIsLocked
<1>5. Types
  BY DEF IInv
<1>6. servo' \in Servos
  <2>1. NewServo \in Servos
    BY DEF NewServo, Servos
  <2>2. [NewServo EXCEPT !.initial = FALSE] \in Servos
    BY <2>1 DEF Servos
  <2> QED  BY <2>2, FeedCases
<1>7. clock' \in Clocks /\ clock'.start <= now /\ steps' \in Nat
  <2>1. now \in Nat /\ now <= now
    BY <1>5 DEF Types
  <2> QED  BY <1>5, <2>1, FeedCases, StepsClock, AdjustShows DEF Types
<1>8. fed' \in {None} \cup Samples /\ first' \in {None} \cup Samples
  BY <1>1, <1>5, FeedCases DEF Types
<1>9. Types'
  BY <1>1, <1>2, <1>5, <1>6, <1>7, <1>8 DEF Types
<1>10. NothingFed'
  BY <1>1, FeedCases DEF IInv, NothingFed, NewServo
<1>11. BaselineSinceStep'
  <2> SUFFICES ASSUME servo'.baseline # None, ~again'
               PROVE  servo'.baseline.base = steps'
    BY DEF BaselineSinceStep
  <2>1. sync.base = steps /\ ~again
    <3>1. ~again /\ ~(sync.copies < Repeats)
      BY <1>1, Zenon
    <3>2. sync.copies = Repeats
      BY <1>1, <3>1
    <3> QED  BY <1>1, <3>1, <3>2 DEF IInv, PendingIsFresh, Pending
  <2>2. servo.baseline # None => servo.baseline.base = steps
    BY <2>1 DEF IInv, BaselineSinceStep
  <2>3. strategy # "PI" => servo.baseline = None
    BY DEF IInv, NothingFed
  <2>4. servo.baseline \in {None} \cup Samples
    BY <1>5 DEF Types, Servos
  <2>5. Estimate(servo.baseline, sync).baseline \in {None, servo.baseline, sync}
    BY <1>1, <2>4, EstimateOf
  <2> QED  BY <2>1, <2>2, <2>3, <2>5, FeedCases DEF NewServo
<1> QED  BY <1>3, <1>4, <1>9, <1>10, <1>11 DEF IInv, PendingIsFresh

LEMMA SyncKeeps ==
  ASSUME IInv, SyncArrives
  PROVE  /\ IInv' /\ heard < now /\ heard' = now
         /\ sync' # None /\ sync'.ingress = Shows(clock, now)
         /\ UNCHANGED <<strategy, now, clock, servo, role, steps, fed, first, again>>
<1>1. PICK e \in Noise :
        sync' = [ingress |-> ClockNow, offset |-> ClockNow - MasterNow + e,
                 base |-> steps, copies |-> Repeats]
  BY DEF SyncArrives
<1>2. Types /\ now \in Nat /\ steps \in Nat
  BY DEF IInv, Types
<1>3. ClockNow = Shows(clock, now) /\ ClockNow \in Nat
  BY <1>2, ClockNowShows, ShowsType DEF Types
<1>4. MasterNow \in Int /\ e \in Int /\ Repeats \in Nat
  BY <1>2, ServoAssumption DEF MasterNow
<1>5. ClockNow - MasterNow + e \in Int
  BY <1>3, <1>4
<1>6. sync' \in Samples /\ sync'.copies = Repeats /\ sync'.base = steps /\ sync'.ingress = ClockNow
  BY <1>1, <1>2, <1>3, <1>4, <1>5 DEF Samples
<1>7. sync' # None
  BY <1>6, ServoAssumption DEF Samples
<1>8. /\ heard < now /\ heard' = now
      /\ UNCHANGED <<strategy, now, clock, servo, role, steps, fed, first, again>>
  BY DEF SyncArrives
<1>9. Types'
  BY <1>2, <1>4, <1>6, <1>8 DEF Types
<1>10. SlaveIsLocked' /\ NothingFed' /\ BaselineSinceStep'
  BY <1>8 DEF IInv, SlaveIsLocked, NothingFed, BaselineSinceStep
<1>11. PendingIsFresh'
  BY <1>6, <1>8 DEF PendingIsFresh
<1> QED  BY <1>3, <1>6, <1>7, <1>8, <1>9, <1>10, <1>11 DEF IInv

LEMMA Preserved ==
  ASSUME IInv, [Next]_vars
  PROVE  IInv'
<1>1. CASE UNCHANGED vars
  BY <1>1 DEF vars, IInv, Types, SlaveIsLocked, PendingIsFresh, Pending, NothingFed, BaselineSinceStep
<1>2. CASE NewParent
  <2>1. servo' \in Servos /\ servo'.baseline = None /\ servo'.state = "Unlocked"
    BY <1>2 DEF NewParent, NewServo, Servos
  <2>2. Types'
    BY <1>2, <2>1 DEF NewParent, IInv, Types
  <2> QED  BY <1>2, <2>1, <2>2 DEF NewParent, IInv, SlaveIsLocked, PendingIsFresh, Pending,
                                   NothingFed, BaselineSinceStep
<1>3. CASE Tick
  <2>1. Types'
    BY <1>3 DEF Tick, IInv, Types, Clocks
  <2> QED  BY <1>3, <2>1 DEF Tick, IInv, SlaveIsLocked, PendingIsFresh, Pending,
                             NothingFed, BaselineSinceStep
<1> QED  BY <1>1, <1>2, <1>3, FollowUpKeeps, SyncKeeps DEF Next

\* A port is in Slave exactly while its servo is locked, for every servo, every
\* policy and every sequence of samples (process_follow_up of uncalibrated.rs and
\* slave.rs, profile.uncalibrated).
THEOREM SlaveFollowsLock == Spec => []SlaveIsLocked
<1>1. IInv => SlaveIsLocked
  BY DEF IInv
<1> QED  BY <1>1, Initially, Preserved, PTL DEF Spec

\* As long as no FollowUp comes twice, the baseline of the drift estimate was measured
\* on the clock as it is now: no drift is estimated across a step (PiServo::step,
\* ServoDriftEstimate::estimate).
THEOREM NoDriftAcrossStep == Spec => []BaselineSinceStep
<1>1. IInv => BaselineSinceStep
  BY DEF IInv
<1> QED  BY <1>1, Initially, Preserved, PTL DEF Spec

\* What the clock shows at an instant changes only by a step: an adjustment starts
\* from it (VirtualClock::adjust).
Seamless == now' = now /\ steps' = steps => ClockNow' = ClockNow

LEMMA StepSeamless ==
  ASSUME IInv, [Next]_vars
  PROVE  Seamless
<1> SUFFICES ASSUME now' = now, steps' = steps
             PROVE  ClockNow' = ClockNow
  BY DEF Seamless
<1>1. Types /\ steps \in Nat
  BY DEF IInv, Types
<1>2. CASE clock' = clock
  BY <1>2 DEF ClockNow
<1>3. ASSUME NEW rate \in Int, clock' = Adjust(rate)
      PROVE  ClockNow' = ClockNow
  BY <1>1, <1>3, AdjustShows DEF ClockNow, Shows
<1>4. CASE FollowUpArrives
  <2>1. clock' = clock \/ \E rate \in Int : clock' = Adjust(rate)
    BY <1>1, <1>4, FeedCases DEF Steps
  <2> QED  BY <1>2, <1>3, <2>1
<1> QED  BY <1>2, <1>4 DEF Next, SyncArrives, NewParent, Tick, vars

\* At any rate, an adjustment never moves the clock: only time and steps do
\* (VirtualClock::adjust).
THEOREM AdjustIsSeamless == Spec => [][Seamless]_vars
<1>1. ASSUME IInv, [Next]_vars
      PROVE  [Seamless]_vars
  BY <1>1, StepSeamless
<1> QED  BY <1>1, Initially, Preserved, PTL DEF Spec

\* As long as its rate is not negative, the clock goes backwards only by a step: not
\* as time passes, and not by an adjustment, which may be made at any time
\* (VirtualClock::now, adjust).
THEOREM ClockGoesForward == Spec /\ [](clock.rate >= 0) => ClockForward
<1>1. ASSUME IInv, [Next]_vars, clock.rate >= 0
      PROVE  [GoesForward]_vars
  <2>1. Types /\ Types'
    BY <1>1, Preserved DEF IInv
  <2>2. ClockNow \in Nat
    BY <2>1, ClockNowShows, ShowsType DEF Types
  <2>3. Seamless
    BY <1>1, StepSeamless
  <2>4. CASE now' = now
    BY <2>2, <2>3, <2>4 DEF Seamless, GoesForward
  <2>5. CASE Tick
    <3>1. ClockNow' = Shows(clock, now + 1)
      BY <2>5 DEF Tick, ClockNow, Shows
    <3>2. Shows(clock, now) <= Shows(clock, now + 1) /\ Shows(clock, now + 1) \in Nat
      BY <1>1, <2>1, ShowsForward, ShowsType DEF Types
    <3> QED  BY <2>2, <3>1, <3>2, ClockNowShows DEF GoesForward
  <2> QED  BY <1>1, <2>4, <2>5 DEF Next, SyncArrives, FollowUpArrives, NewParent, vars
<1> QED  BY <1>1, Initially, Preserved, PTL DEF Spec, ClockForward

----------------------------------------------------------------------------
(* Calibration *)

LEMMA CalibrationKept ==
  ASSUME MinDelta > 0, IInv, PendingIsShown, ComparesWithFirst, clock.rate > 0, [Next]_vars
  PROVE  PendingIsShown' /\ ComparesWithFirst'
<1>1. IInv' /\ Types /\ clock \in Clocks /\ heard \in Int /\ now \in Nat
  BY Preserved DEF IInv, Types
<1>2. CASE UNCHANGED vars \/ Tick
  <2>1. UNCHANGED <<clock, servo, sync, heard, fed, first, again>>
    BY <1>2 DEF vars, Tick
  <2> QED  BY <2>1 DEF PendingIsShown, ComparesWithFirst, Pending, Shows
<1>3. CASE NewParent
  BY <1>3 DEF NewParent, PendingIsShown, ComparesWithFirst, Pending
<1>4. CASE SyncArrives
  <2>1. /\ heard < now /\ heard' = now
        /\ sync' # None /\ sync'.ingress = Shows(clock, now)
        /\ UNCHANGED <<strategy, now, clock, servo, role, steps, fed, first, again>>
    BY <1>4, SyncKeeps
  <2>2. clock.start <= now /\ clock.rate \in Int
    BY <1>1 DEF Types, Clocks
  <2>3. PendingIsShown'
    BY <2>1, <2>2 DEF PendingIsShown, Shows
  <2>4. ASSUME servo.state # "Locked", fed # None, ~again
        PROVE  fed.ingress < Shows(clock, now)
    <3>1. clock.start <= heard /\ fed.ingress <= Shows(clock, heard)
      BY <2>4 DEF ComparesWithFirst
    <3>2. Shows(clock, heard) < Shows(clock, now)
      BY <1>1, <2>1, <2>2, <3>1, ShowsForward
    <3>3. fed.ingress \in Nat /\ Shows(clock, heard) \in Nat /\ Shows(clock, now) \in Nat
      BY <1>1, <2>4, ShowsType DEF Types, Samples
    <3> QED  BY <3>1, <3>2, <3>3
  <2>5. ComparesWithFirst'
    <3> SUFFICES ASSUME servo.state # "Locked", fed # None, ~again
                 PROVE  /\ first # None /\ servo.baseline = first
                        /\ first.ingress <= fed.ingress /\ fed.ingress - first.ingress < MinDelta
                        /\ clock.start <= now /\ fed.ingress <= Shows(clock, now)
                        /\ fed.ingress < sync'.ingress
      BY <2>1 DEF ComparesWithFirst, Shows
    <3>1. fed.ingress \in Nat /\ Shows(clock, now) \in Nat
      BY <1>1, ShowsType DEF Types, Samples
    <3> QED  BY <2>1, <2>2, <2>4, <3>1 DEF ComparesWithFirst
  <2> QED  BY <2>3, <2>5
<1>5. CASE FollowUpArrives
  <2>1. ~Pending'
    BY <1>5, FollowUpKeeps
  <2>2. PendingIsShown'
    BY <2>1 DEF PendingIsShown
  <2>3. ASSUME servo'.state # "Locked", fed' # None, ~again'
        PROVE  /\ first' # None /\ servo'.baseline = first'
               /\ first'.ingress <= fed'.ingress /\ fed'.ingress - first'.ingress < MinDelta
               /\ clock.start <= heard /\ fed'.ingress <= Shows(clock, heard)
               /\ clock' = clock
    <3>1. /\ sync \in Samples /\ sync # None /\ sync.copies \in 0..Repeats /\ Repeats \in Nat
          /\ again' = (again \/ sync.copies < Repeats)
      BY <1>1, <1>5, ServoAssumption DEF FollowUpArrives, Types, Samples
    <3>2. ~again /\ ~(sync.copies < Repeats)
      BY <2>3, <3>1, Zenon
    <3>3. Pending
      BY <3>1, <3>2 DEF Pending
    <3>4. clock.start <= heard /\ sync.ingress = Shows(clock, heard) /\ sync.ingress \in Nat
      BY <3>1, <3>3 DEF PendingIsShown, Samples
    <3>5. strategy = "PI"
      BY <1>1, <1>5, <2>3, FeedCases DEF IInv, NothingFed
    <3> DEFINE b == servo.baseline
               e == Estimate(b, sync)
    <3>6. /\ servo.state # "Locked" /\ fed' = sync /\ clock' = clock
          /\ first' = (IF first = None THEN sync ELSE first)
          /\ e.drift = None /\ servo'.baseline = e.baseline
      BY <1>5, <2>3, <3>5, FeedCases
    <3>7. b \in {None} \cup Samples
      BY <1>1 DEF Types, Servos
    <3>8. CASE fed = None
      <4>1. first = None /\ b = None
        BY <3>8 DEF IInv, NothingFed
      <4>2. e.baseline = sync
        BY <3>1, <3>7, <4>1, EstimateOf
      <4> HIDE DEF e
      <4>3. sync.ingress - sync.ingress < MinDelta
        BY <3>4, ServoAssumption
      <4> QED  BY <3>1, <3>4, <3>6, <4>1, <4>2, <4>3
    <3>9. CASE fed # None
      <4>1. /\ first # None /\ b = first /\ first.ingress <= fed.ingress
            /\ fed.ingress < sync.ingress
        BY <3>2, <3>3, <3>6, <3>9 DEF ComparesWithFirst
      <4>2. first \in Samples /\ fed.ingress \in Nat /\ first.ingress \in Nat
        BY <1>1, <3>9, <4>1 DEF Types, Samples
      <4>3. sync.ingress > b.ingress
        BY <3>4, <4>1, <4>2
      <4>4. e.baseline = b /\ sync.ingress - b.ingress < MinDelta
        BY <3>1, <3>6, <3>7, <4>1, <4>3, EstimateOf
      <4> HIDE DEF e
      <4> QED  BY <3>1, <3>4, <3>6, <4>1, <4>2, <4>3, <4>4
    <3> QED  BY <3>8, <3>9
  <2>4. UNCHANGED heard
    BY <1>5 DEF FollowUpArrives
  <2>5. ComparesWithFirst'
    BY <2>1, <2>3, <2>4 DEF ComparesWithFirst, Shows
  <2> QED  BY <2>2, <2>5
<1> QED  BY <1>2, <1>3, <1>4, <1>5 DEF Next

\* With a minimum that is not zero, and as long as the clock's rate is positive and no
\* FollowUp comes twice, a servo that was fed samples MinDelta apart is locked, however
\* many samples came in between: none of them replaces the first as the baseline
\* (ServoDriftEstimate::estimate, PiServo::calibrate).
THEOREM CalibrationEnds ==
  ASSUME MinDelta > 0
  PROVE  Spec /\ [](clock.rate > 0) => []CalibratesInTime
<1>1. ComparesWithFirst => CalibratesInTime
  BY DEF ComparesWithFirst, CalibratesInTime
<1> QED  BY <1>1, Initially, Preserved, CalibrationKept, PTL DEF Spec

=============================================================================
