------------------------- MODULE EmbeddedDemoProofs -------------------------
(***************************************************************************)
(* The host side of the embedded demo.                                     *)
(*                                                                         *)
(* Its clocks keep the time across any number of wraps of their counters,  *)
(* for every width of the counters and every frequency, as long as each is *)
(* read before its counter has come round.                                 *)
(*                                                                         *)
(* Its sockets lose no DelayReq and no send of the port fails, for every   *)
(* size of the buffers that can hold what the port sends.  The argument is *)
(* a count: what is still to be sent before the next poll, and what has    *)
(* been sent since the last, is never more than the DelayReqs of the       *)
(* iteration, one FollowUp and one Announce.                               *)
(***************************************************************************)
EXTENDS Integers, Sequences, EmbeddedDemo, TLAPS

----------------------------------------------------------------------------
(* The clocks *)

LEMMA DivMod ==
  ASSUME NEW x \in Nat, NEW n \in Nat \ {0}
  PROVE  /\ x \div n \in Nat
         /\ x % n \in 0..(n - 1)
         /\ ((x \div n) * n) + (x % n) = x
BY SMT

\* What a multiple of n more or less leaves of a remainder.
LEMMA ModUnique ==
  ASSUME NEW n \in Nat \ {0}, NEW d \in 0..(n - 1), NEW k \in Int, NEW x \in Nat,
         x = d + k * n
  PROVE  x % n = d
<1> DEFINE q == x \div n
           r == x % n
<1>1. q \in Nat /\ r \in 0..(n - 1) /\ (q * n) + r = x
  BY DivMod, Zenon
<1> HIDE DEF q, r
<1>2. (q - k) * n = q * n - k * n
  BY <1>1, SMT
<1>3. (q - k) * n = d - r
  BY <1>1, <1>2
<1>4. /\ q - k >= 1 => (q - k) * n >= n
      /\ q - k <= -1 => (q - k) * n <= -n
  BY <1>1, SMT
<1>5. q - k = 0
  BY <1>1, <1>3, <1>4
<1>6. d = r
  BY <1>1, <1>3, <1>5
<1> QED  BY <1>6 DEF r

\* wrapping_sub gives how far a counter has advanced, wraps included.
LEMMA WrapsAway ==
  ASSUME NEW a \in Nat, NEW b \in Nat, b <= a, a - b < Word
  PROVE  WrappingSub(a % Word, b % Word) = a - b
<1>1. Word \in Nat \ {0}
  BY EmbeddedClocksAssumption
<1> DEFINE qa == a \div Word  ra == a % Word
           qb == b \div Word  rb == b % Word
           k == (1 - qa) + qb
<1>2. /\ qa \in Nat /\ ra \in 0..(Word - 1) /\ (qa * Word) + ra = a
      /\ qb \in Nat /\ rb \in 0..(Word - 1) /\ (qb * Word) + rb = b
  BY <1>1, DivMod, Zenon
<1> HIDE DEF qa, qb, ra, rb
<1>3. k * Word = (Word - qa * Word) + qb * Word
  BY <1>1, <1>2, SMT
<1>4. ra + Word - rb = (a - b) + k * Word
  BY <1>1, <1>2, <1>3
<1>5. (ra + Word - rb) % Word = a - b
  <2> DEFINE d == a - b
             x == ra + Word - rb
  <2>1. d \in 0..(Word - 1) /\ k \in Int /\ x \in Nat /\ x = d + k * Word
    BY <1>1, <1>2, <1>4
  <2> HIDE DEF d, x, k
  <2>2. x % Word = d
    BY <1>1, <2>1, ModUnique
  <2> QED  BY <2>2 DEF d, x
<1> QED  BY <1>5 DEF WrappingSub, ra, rb

----------------------------------------------------------------------------
(* The inductive invariant: a clock has stored the counter of its last     *)
(* reading, which is at most MaxGap ticks ago.                             *)

Types ==
  /\ time \in Nat /\ last \in Nat /\ instant \in Nat /\ looked \in Nat
  /\ lastCycles \in Nat /\ ptp \in Nat /\ stamped \in Nat /\ readings \in Nat

Recent(reading) == reading <= time /\ time - reading <= MaxGap

IInv ==
  /\ Types
  /\ Recent(looked) /\ last = looked % Word
  /\ Recent(stamped) /\ lastCycles = (stamped * CyclesPerTick) % Word
  /\ InstantTracksTime
  /\ CyclesTrackTime

LEMMA Constants ==
  /\ Word \in Nat \ {0} /\ CyclesPerTick \in Nat \ {0}
  /\ Nanos \in Nat \ {0} /\ Hz \in Nat \ {0} /\ MaxGap \in Nat \ {0}
  /\ MaxGap < Word /\ MaxGap * CyclesPerTick < Word
BY EmbeddedClocksAssumption, ReadInTime

LEMMA Initially == Init => IInv
<1> SUFFICES ASSUME Init PROVE IInv
  OBVIOUS
<1>1. 0 % Word = 0 /\ 0 * CyclesPerTick = 0 /\ 0 * Nanos = 0 /\ 0 * Hz = 0
      /\ 0 * (Hz - 1) = 0
  <2>1. 0 = 0 + 0 * Word /\ 0 \in 0..(Word - 1)
    BY Constants, SMT
  <2>2. 0 % Word = 0
    BY <2>1, Constants, ModUnique
  <2> QED  BY <2>2, Constants, SMT
<1>2. Types /\ Recent(looked) /\ Recent(stamped)
  BY Constants DEF Init, Types, Recent
<1> QED  BY <1>1, <1>2, Constants DEF Init, IInv, InstantTracksTime, CyclesTrackTime

\* A tick moves the time only, and no further than MaxGap from the readings.
LEMMA TickKeeps == IInv /\ SysTick => IInv'
<1> SUFFICES ASSUME IInv, SysTick PROVE IInv'
  OBVIOUS
<1>1. /\ time' = time + 1 /\ time - looked < MaxGap /\ time - stamped < MaxGap
      /\ UNCHANGED <<last, instant, looked, lastCycles, ptp, stamped, readings>>
  BY DEF SysTick
<1>2. Types' /\ Recent(looked)' /\ Recent(stamped)'
  BY <1>1, Constants DEF IInv, Types, Recent
<1>3. InstantTracksTime' /\ CyclesTrackTime'
  BY <1>1 DEF IInv, InstantTracksTime, CyclesTrackTime
<1> QED  BY <1>1, <1>2, <1>3 DEF IInv

LEMMA ReadInstantKeeps == IInv /\ ReadInstant => IInv'
<1> SUFFICES ASSUME IInv, ReadInstant PROVE IInv'
  OBVIOUS
<1>1. /\ instant' = instant + WrappingSub(time % Word, last)
      /\ last' = time % Word /\ looked' = time
      /\ UNCHANGED <<time, lastCycles, ptp, stamped, readings>>
  BY DEF ReadInstant, Counter
<1>2. WrappingSub(time % Word, last) = time - looked
  <2>1. time \in Nat /\ looked \in Nat /\ looked <= time /\ time - looked < Word
    BY Constants DEF IInv, Types, Recent
  <2>2. WrappingSub(time % Word, looked % Word) = time - looked
    BY <2>1, WrapsAway
  <2> QED  BY <2>2 DEF IInv
<1>3. instant' = looked'
  BY <1>1, <1>2 DEF IInv, Types, InstantTracksTime
<1>4. last' \in Nat
  BY <1>1, Constants, DivMod DEF IInv, Types
<1>5. Types' /\ Recent(looked)' /\ Recent(stamped)'
  BY <1>1, <1>3, <1>4, Constants DEF IInv, Types, Recent
<1>6. CyclesTrackTime'
  BY <1>1 DEF IInv, CyclesTrackTime
<1> QED  BY <1>1, <1>3, <1>5, <1>6 DEF IInv, InstantTracksTime

\* The nanoseconds of a reading are rounded down once.
LEMMA ReadCyclesKeeps == IInv /\ ReadCycles => IInv'
<1> SUFFICES ASSUME IInv, ReadCycles PROVE IInv'
  OBVIOUS
<1> DEFINE gap == time - stamped
           cycles == gap * CyclesPerTick
           nanos == cycles * Nanos
           q == nanos \div Hz
           exact == stamped * CyclesPerTick * Nanos
<1>1. gap \in Nat /\ gap <= MaxGap /\ stamped \in Nat /\ time \in Nat
  BY Constants DEF IInv, Types, Recent
<1>2. /\ cycles \in Nat /\ cycles <= MaxGap * CyclesPerTick
      /\ stamped * CyclesPerTick \in Nat /\ time * CyclesPerTick \in Nat
      /\ time * CyclesPerTick = stamped * CyclesPerTick + cycles
  <2> HIDE DEF gap
  <2>1. time = stamped + gap
    BY <1>1 DEF gap
  <2> QED  BY <1>1, <2>1, Constants, SMT
<1>3. WrappingSub((time * CyclesPerTick) % Word, lastCycles) = cycles
  <2> DEFINE a == time * CyclesPerTick
             b == stamped * CyclesPerTick
  <2>1. a \in Nat /\ b \in Nat /\ b <= a /\ a - b = cycles /\ a - b < Word
    BY <1>2, Constants
  <2> HIDE DEF a, b, cycles
  <2>2. WrappingSub(a % Word, b % Word) = cycles
    BY <2>1, WrapsAway
  <2> QED  BY <2>2 DEF a, b, IInv
<1> HIDE DEF gap, cycles
<1>4. /\ nanos \in Nat /\ exact \in Nat
      /\ (time * CyclesPerTick) * Nanos = exact + nanos
  BY <1>2, Constants, SMT
<1> HIDE DEF nanos, exact
<1>5. q \in Nat /\ q * Hz <= nanos /\ nanos - q * Hz <= Hz - 1 /\ q * Hz \in Nat
  <2>1. q \in Nat /\ nanos % Hz \in 0..(Hz - 1) /\ (q * Hz) + (nanos % Hz) = nanos
    BY <1>4, Constants, DivMod, Zenon
  <2> HIDE DEF q
  <2>2. q * Hz \in Nat
    BY <2>1, Constants, SMT
  <2> QED  BY <2>1, <2>2, <1>4, Constants
<1>6. /\ ptp' = ptp + q /\ lastCycles' = (time * CyclesPerTick) % Word
      /\ stamped' = time /\ readings' = readings + 1
      /\ UNCHANGED <<time, last, instant, looked>>
  BY <1>3 DEF ReadCycles, Cycles, ElapsedNanos, nanos
<1> HIDE DEF q
<1>7. /\ ptp \in Nat /\ readings \in Nat /\ ptp * Hz <= exact
      /\ exact - ptp * Hz <= readings * (Hz - 1)
  BY DEF IInv, Types, CyclesTrackTime, exact
<1>8. /\ (ptp + q) * Hz = ptp * Hz + q * Hz /\ ptp * Hz \in Nat
      /\ (readings + 1) * (Hz - 1) = readings * (Hz - 1) + (Hz - 1)
      /\ readings * (Hz - 1) \in Nat
  BY <1>5, <1>7, Constants, SMT
<1>9. CyclesTrackTime'
  <2> DEFINE now == (time * CyclesPerTick) * Nanos
  <2>1. /\ (ptp + q) * Hz <= now
        /\ now - (ptp + q) * Hz <= (readings + 1) * (Hz - 1)
    <3> DEFINE a == ptp * Hz  b == q * Hz  c == readings * (Hz - 1)
    <3>1. a \in Nat /\ b \in Nat /\ c \in Nat /\ Hz \in Nat
          /\ (ptp + q) * Hz = a + b /\ (readings + 1) * (Hz - 1) = c + (Hz - 1)
          /\ now = exact + nanos /\ a <= exact /\ exact - a <= c
          /\ b <= nanos /\ nanos - b <= Hz - 1
      BY <1>4, <1>5, <1>7, <1>8, Constants
    <3> HIDE DEF a, b, c, now
    <3>2. a + b <= now /\ now - (a + b) <= c + (Hz - 1)
      BY <3>1, <1>4
    <3> QED  BY <3>1, <3>2
  <2> QED  BY <2>1, <1>6 DEF CyclesTrackTime
<1>10. Types' /\ Recent(looked)' /\ Recent(stamped)'
  <2>1. lastCycles' \in Nat
    <3> DEFINE a == time * CyclesPerTick
    <3>1. a \in Nat /\ lastCycles' = a % Word
      BY <1>2, <1>6
    <3> HIDE DEF a
    <3>2. a % Word \in 0..(Word - 1)
      BY <3>1, Constants, DivMod
    <3> QED  BY <3>1, <3>2, Constants
  <2> QED  BY <2>1, <1>1, <1>5, <1>6, Constants DEF IInv, Types, Recent
<1> QED  BY <1>6, <1>9, <1>10 DEF IInv, InstantTracksTime

LEMMA Invariant == Spec => []IInv
<1>1. IInv /\ [Next]_vars => IInv'
  <2> SUFFICES ASSUME IInv, [Next]_vars PROVE IInv'
    OBVIOUS
  <2>1. CASE SysTick  BY <2>1, TickKeeps
  <2>2. CASE ReadInstant  BY <2>2, ReadInstantKeeps
  <2>3. CASE ReadCycles  BY <2>3, ReadCyclesKeeps
  <2>4. CASE UNCHANGED vars
    BY <2>4 DEF vars, IInv, Types, Recent, InstantTracksTime, CyclesTrackTime
  <2> QED  BY <2>1, <2>2, <2>3, <2>4 DEF Next
<1> QED  BY Initially, <1>1, PTL DEF Spec

\* The monotonic clock of the demo shows the ticks that passed, whatever the width of
\* the counter (InstantClock::now).
THEOREM InstantNeverDrifts == Spec => []InstantTracksTime
BY Invariant, PTL DEF IInv

\* The PTP clock of the demo is never ahead of its oscillator and loses less than a
\* nanosecond per reading, whatever its frequency (CycleClock::now).
THEOREM CyclesNeverDrift == Spec => []CyclesTrackTime
BY Invariant, PTL DEF IInv

----------------------------------------------------------------------------
(* The sockets *)

\* netPc = "packets": the loop handles the packets, then the timestamps.
NetTypes ==
  /\ event \in Seq(Nat \ {0}) /\ rxPackets \in Seq(Nat) /\ handled \in Seq(Nat)
  /\ general \in Nat /\ eventTx \in Nat /\ generalTx \in Nat /\ stamps \in Nat
  /\ arrived \in Nat /\ load \in Nat
  /\ netRole \in {"Master", "Faulty", "Panicked"}
  /\ netPc \in {"poll", "packets", "timers", "sync"}
  /\ Len(event) <= SocketPackets /\ arrived <= MaxEvents

\* The first k packets of rx_packets, and no others, are DelayReqs.
RequestsAhead(k) ==
  /\ k \in 0..Len(rxPackets)
  /\ \A i \in DOMAIN rxPackets : rxPackets[i] # 0 <=> i <= k

\* What has been sent since the last poll and is still to be sent before the next.
RoomLeft ==
  /\ \E k \in 0..Len(rxPackets) :
       /\ RequestsAhead(k)
       /\ netPc = "packets" => generalTx + k + stamps <= load + 1
  /\ netPc # "packets" => rxPackets = <<>>
  /\ netPc \in {"poll", "packets"} => stamps <= 1
  /\ netPc \in {"timers", "sync"} => stamps = 0
  /\ netPc # "poll" => eventTx = 0
  /\ netPc = "timers" => generalTx <= load + 1

NetInv == NetTypes /\ RoomLeft /\ SendsFit

\* Where every DelayReq is, when the vector has room for what a socket buffers.
RequestsInPlace ==
  /\ event = <<>>
  /\ \A i \in DOMAIN handled : handled[i] = i
  /\ \E k \in 0..Len(rxPackets) :
       /\ RequestsAhead(k)
       /\ \A i \in 1..k : rxPackets[i] = Len(handled) + i
       /\ arrived = Len(handled) + k

LEMMA NetConstants ==
  /\ SocketPackets \in Nat /\ MaxRxPackets \in Nat /\ QueueLength \in Nat \ {0}
  /\ MaxRequests \in Nat /\ MaxGeneral \in Nat /\ MaxEvents \in Nat
BY DemoAssumption DEF Net!EmbeddedNetAssumption

LEMMA LeastIs ==
  ASSUME NEW a \in Int, NEW b \in Int
  PROVE  /\ Net!Least(a, b) \in {a, b}
         /\ Net!Least(a, b) <= a /\ Net!Least(a, b) <= b
BY DEF Net!Least

\* drain_socket copies what there is room for and leaves fewer than there were.
LEMMA Drained ==
  ASSUME NEW n \in Nat, NEW v \in Seq(Nat), Len(v) <= MaxRxPackets
  PROVE  /\ Net!Copied(n, v) \in Nat /\ Net!Copied(n, v) <= n
         /\ Net!Copied(n, v) <= MaxRxPackets - Len(v)
         /\ Net!Left(n, v) \in Nat /\ Net!Left(n, v) <= n
         /\ n <= MaxRxPackets - Len(v) => Net!Copied(n, v) = n /\ Net!Left(n, v) = 0
<1>1. MaxRxPackets - Len(v) \in Nat
  BY NetConstants
<1> QED  BY <1>1 DEF Net!Copied, Net!Left, Net!Least

\* A send on the general socket, or none, while there is room for one more.
LEMMA GeneralSent ==
  ASSUME NetTypes, SendsFit, Net!SendGeneral \/ Net!NoSend, generalTx <= load + 1,
         load' = load
  PROVE  /\ generalTx' \in Nat /\ generalTx' <= generalTx + 1
         /\ netRole' \in {"Master", "Faulty", "Panicked"}
         /\ SendsFit'
BY NetConstants DEF NetTypes, SendsFit, Net!SendsFit, Net!TimestampsFit,
   Net!SendGeneral, Net!NoSend

LEMMA Concatenated ==
  ASSUME NEW E, NEW s \in Seq(E), NEW t \in Seq(E)
  PROVE  /\ s \o t \in Seq(E) /\ Len(s \o t) = Len(s) + Len(t)
         /\ \A i \in 1..Len(s) : (s \o t)[i] = s[i]
         /\ \A i \in (Len(s) + 1)..(Len(s) + Len(t)) : (s \o t)[i] = t[i - Len(s)]
OBVIOUS

LEMMA TailEnd ==
  ASSUME NEW E, NEW s \in Seq(E), NEW k \in 0..Len(s)
  PROVE  SubSeq(s, Len(s) - k + 1, Len(s)) \in Seq(E)
         /\ Len(SubSeq(s, Len(s) - k + 1, Len(s))) = k
OBVIOUS

\* What a poll takes in: n of the DelayReqs, then the general messages.
LEMMA Polled ==
  ASSUME NetTypes, Net!Poll
  PROVE  \E new \in Nat, n \in Nat, m \in Nat :
           /\ arrived' = arrived + new /\ arrived' <= MaxEvents
           /\ rxPackets' \in Seq(Nat) /\ Len(rxPackets') = n + m
           /\ \A i \in 1..(n + m) : rxPackets'[i] # 0 <=> i <= n
           /\ event' \in Seq(Nat \ {0}) /\ Len(event') <= SocketPackets
           /\ general' \in Nat
           /\ load' \in Nat /\ load <= load' /\ n <= load'
           /\ event = <<>> /\ SocketPackets <= MaxRxPackets =>
                /\ n = new /\ event' = <<>>
                /\ \A i \in 1..n : rxPackets'[i] = arrived + i
<1>1. PICK e \in 0..MaxRequests, g \in 0..MaxGeneral :
       LET new == Net!Least(Net!Least(e, SocketPackets - Len(event)), MaxEvents - arrived)
           events == event \o [i \in 1..new |-> arrived + i]
           generals == Net!Least(general + g, SocketPackets)
           n == Net!Copied(Len(events), <<>>)
           first == SubSeq(events, 1, n)
       IN  /\ arrived' = arrived + new
           /\ rxPackets' = first \o [i \in 1..Net!Copied(generals, first) |-> 0]
           /\ event' = SubSeq(events, Len(events) - Net!Left(Len(events), <<>>) + 1,
                              Len(events))
           /\ general' = Net!Left(generals, first)
           /\ load' = IF n > load THEN n ELSE load
  BY Zenon DEF Net!Poll
<1> DEFINE new == Net!Least(Net!Least(e, SocketPackets - Len(event)), MaxEvents - arrived)
           fresh == [i \in 1..new |-> arrived + i]
           events == event \o fresh
           generals == Net!Least(general + g, SocketPackets)
           n == Net!Copied(Len(events), <<>>)
           left == Net!Left(Len(events), <<>>)
           first == SubSeq(events, 1, n)
           m == Net!Copied(generals, first)
           zeros == [i \in 1..m |-> 0]
<1>2. new \in Nat /\ new <= SocketPackets - Len(event) /\ new <= MaxEvents - arrived
  <2> DEFINE room == Net!Least(e, SocketPackets - Len(event))
  <2>1. e \in Nat /\ SocketPackets - Len(event) \in Nat /\ MaxEvents - arrived \in Nat
    BY NetConstants DEF NetTypes
  <2>2. room \in Nat /\ room <= SocketPackets - Len(event)
    BY <2>1, LeastIs
  <2> HIDE DEF room
  <2>3. Net!Least(room, MaxEvents - arrived) \in Nat
        /\ Net!Least(room, MaxEvents - arrived) <= room
        /\ Net!Least(room, MaxEvents - arrived) <= MaxEvents - arrived
    BY <2>1, <2>2, LeastIs
  <2> QED  BY <2>1, <2>2, <2>3 DEF room
<1>3. generals \in Nat
  <2>1. general + g \in Nat /\ SocketPackets \in Nat
    BY NetConstants, SMTT(20) DEF NetTypes
  <2> QED  BY <2>1, LeastIs
<1>4. /\ arrived' = arrived + new
      /\ rxPackets' = first \o zeros
      /\ event' = SubSeq(events, Len(events) - left + 1, Len(events))
      /\ general' = Net!Left(generals, first)
      /\ load' = IF n > load THEN n ELSE load
  BY <1>1
<1> HIDE DEF new, generals
<1>5. /\ fresh \in Seq(Nat \ {0}) /\ Len(fresh) = new
      /\ \A i \in 1..new : fresh[i] = arrived + i
  BY <1>2 DEF NetTypes
<1>6. /\ events \in Seq(Nat \ {0}) /\ Len(events) = Len(event) + new
      /\ Len(event) = 0 => \A i \in 1..new : events[i] = arrived + i
  <2> HIDE DEF fresh
  <2>1. event \in Seq(Nat \ {0})
    BY DEF NetTypes
  <2>2. /\ event \o fresh \in Seq(Nat \ {0}) /\ Len(event \o fresh) = Len(event) + Len(fresh)
        /\ \A i \in (Len(event) + 1)..(Len(event) + Len(fresh)) :
             (event \o fresh)[i] = fresh[i - Len(event)]
    BY <2>1, <1>5, Concatenated, Zenon
  <2>3. events \in Seq(Nat \ {0}) /\ Len(events) = Len(event) + new
    BY <2>2, <1>5
  <2>4. ASSUME Len(event) = 0, NEW i \in 1..new
        PROVE  events[i] = arrived + i
    <3>1. i \in (Len(event) + 1)..(Len(event) + Len(fresh)) /\ i - Len(event) = i
      BY <2>4, <1>2, <1>5
    <3>2. events[i] = fresh[i]
      BY <3>1, <2>2
    <3> QED  BY <3>2, <1>5
  <2> HIDE DEF events
  <2> QED  BY <2>3, <2>4
<1> HIDE DEF fresh, events
<1>7. /\ n \in Nat /\ n <= Len(events) /\ n <= MaxRxPackets
      /\ left \in Nat /\ left <= Len(events)
      /\ Len(events) <= MaxRxPackets => n = Len(events) /\ left = 0
  <2>1. <<>> \in Seq(Nat) /\ Len(<<>>) = 0 /\ Len(events) \in Nat
    BY <1>6
  <2>2. Len(<<>>) <= MaxRxPackets /\ MaxRxPackets - Len(<<>>) = MaxRxPackets
    BY <2>1, NetConstants
  <2> QED  BY <2>1, <2>2, Drained, Zenon
<1> HIDE DEF n, left
<1>8. /\ first \in Seq(Nat \ {0}) /\ Len(first) = n
      /\ \A i \in 1..n : first[i] = events[i] /\ first[i] # 0
  BY <1>6, <1>7
<1>9. event' \in Seq(Nat \ {0}) /\ Len(event') = left
  <2>1. event' = SubSeq(events, Len(events) - left + 1, Len(events))
    BY <1>4
  <2>2. left \in 0..Len(events)
    BY <1>6, <1>7
  <2> QED  BY <2>1, <2>2, <1>6, TailEnd, Zenon
<1> HIDE DEF first
<1>10. m \in Nat /\ general' \in Nat
  <2>1. first \in Seq(Nat)
    BY <1>8
  <2> QED  BY <2>1, <1>3, <1>4, <1>7, <1>8, Drained
<1> HIDE DEF m
<1>11. /\ rxPackets' \in Seq(Nat) /\ Len(rxPackets') = n + m
       /\ \A i \in 1..n : rxPackets'[i] = first[i]
       /\ \A i \in (n + 1)..(n + m) : rxPackets'[i] = 0
  <2>1. zeros \in Seq(Nat) /\ Len(zeros) = m /\ \A i \in 1..m : zeros[i] = 0
    BY <1>10
  <2>2. first \in Seq(Nat)
    BY <1>8
  <2>3. rxPackets' = first \o zeros
    BY <1>4
  <2> HIDE DEF zeros
  <2>4. /\ rxPackets' \in Seq(Nat) /\ Len(rxPackets') = Len(first) + Len(zeros)
        /\ \A i \in 1..Len(first) : rxPackets'[i] = first[i]
        /\ \A i \in (Len(first) + 1)..(Len(first) + Len(zeros)) :
             rxPackets'[i] = zeros[i - Len(first)]
    BY <2>1, <2>2, <2>3, Concatenated
  <2> QED  BY <2>1, <2>4, <1>7, <1>8, <1>10
<1>12. \A i \in 1..(n + m) : rxPackets'[i] # 0 <=> i <= n
  BY <1>7, <1>8, <1>10, <1>11
<1>13. load' \in Nat /\ load <= load' /\ n <= load'
  BY <1>4, <1>7 DEF NetTypes
<1>14. arrived' = arrived + new /\ arrived' <= MaxEvents
       /\ Len(event') <= SocketPackets
  BY <1>2, <1>4, <1>6, <1>7, <1>9, NetConstants DEF NetTypes
<1>15. ASSUME event = <<>>, SocketPackets <= MaxRxPackets
       PROVE  /\ n = new /\ event' = <<>>
              /\ \A i \in 1..n : rxPackets'[i] = arrived + i
  <2>1. Len(event) = 0 /\ Len(events) = new /\ new <= MaxRxPackets
    BY <1>15, <1>2, <1>6, NetConstants
  <2>2. n = new /\ left = 0
    BY <2>1, <1>7
  <2>3. event' = <<>>
    BY <2>2, <1>9
  <2> QED  BY <2>1, <2>2, <2>3, <1>6, <1>8, <1>11
<1> QED  BY <1>2, <1>7, <1>9, <1>10, <1>11, <1>12, <1>13, <1>14, <1>15, Zenon

\* A packet handled is one DelayReq less ahead, if it is a DelayReq.
LEMMA OneLessAhead ==
  ASSUME NetTypes, rxPackets # <<>>, NEW k \in 0..Len(rxPackets), RequestsAhead(k),
         rxPackets' = Tail(rxPackets)
  PROVE  /\ rxPackets' \in Seq(Nat) /\ Len(rxPackets') = Len(rxPackets) - 1
         /\ \A i \in 1..Len(rxPackets') : rxPackets'[i] = rxPackets[i + 1]
         /\ Head(rxPackets) = rxPackets[1] /\ Head(rxPackets) \in Nat
         /\ Head(rxPackets) # 0 => k > 0 /\ k - 1 \in 0..Len(rxPackets') /\ RequestsAhead(k - 1)'
         /\ Head(rxPackets) = 0 => k = 0 /\ RequestsAhead(0)'
<1>1. rxPackets \in Seq(Nat) /\ Len(rxPackets) > 0
  BY DEF NetTypes
<1>2. /\ rxPackets' \in Seq(Nat) /\ Len(rxPackets') = Len(rxPackets) - 1
      /\ \A i \in 1..Len(rxPackets') : rxPackets'[i] = rxPackets[i + 1]
      /\ Head(rxPackets) = rxPackets[1] /\ Head(rxPackets) \in Nat
  BY <1>1
<1>3. \A i \in 1..Len(rxPackets) : rxPackets[i] # 0 <=> i <= k
  BY <1>1 DEF RequestsAhead
<1>4. Head(rxPackets) # 0 <=> k > 0
  BY <1>1, <1>2, <1>3
<1>5. \A i \in 1..Len(rxPackets') : rxPackets'[i] # 0 <=> i + 1 <= k
  BY <1>1, <1>2, <1>3
<1>6. DOMAIN rxPackets' = 1..Len(rxPackets')
  BY <1>2
<1>7. Head(rxPackets) # 0 => k > 0 /\ k - 1 \in 0..Len(rxPackets') /\ RequestsAhead(k - 1)'
  BY <1>1, <1>2, <1>4, <1>5, <1>6, SMTT(20) DEF RequestsAhead
<1>8. Head(rxPackets) = 0 => k = 0 /\ RequestsAhead(0)'
  BY <1>1, <1>2, <1>4, <1>5, <1>6 DEF RequestsAhead
<1> QED  BY <1>2, <1>7, <1>8

LEMMA PollKeepsNet == NetInv /\ Net!Poll => NetInv'
<1> SUFFICES ASSUME NetInv, Net!Poll PROVE NetInv'
  OBVIOUS
<1>1. /\ netPc = "poll" /\ netPc' = "packets" /\ eventTx' = 0 /\ generalTx' = 0
      /\ stamps' = stamps /\ netRole' = netRole /\ handled' = handled
  BY DEF Net!Poll, Net!Egress
<1>2. PICK new \in Nat, n \in Nat, m \in Nat :
           /\ arrived' = arrived + new /\ arrived' <= MaxEvents
           /\ rxPackets' \in Seq(Nat) /\ Len(rxPackets') = n + m
           /\ \A i \in 1..(n + m) : rxPackets'[i] # 0 <=> i <= n
           /\ event' \in Seq(Nat \ {0}) /\ Len(event') <= SocketPackets
           /\ general' \in Nat
           /\ load' \in Nat /\ load <= load' /\ n <= load'
  BY Polled, Zenon DEF NetInv
<1>3. load \in Nat /\ stamps \in Nat /\ stamps <= 1
  BY <1>1 DEF NetInv, NetTypes, RoomLeft
<1>4. NetTypes'
  BY <1>1, <1>2 DEF NetInv, NetTypes
<1>5. RequestsAhead(n)' /\ n \in 0..Len(rxPackets')
  BY <1>2 DEF RequestsAhead
<1>6. /\ load' \in Nat /\ load <= load'
      /\ generalTx' + n + stamps' <= load' + 1
  <2>1. load' \in Nat /\ load <= load' /\ n <= load'
    BY <1>2
  <2>2. generalTx' = 0 /\ stamps' = stamps
    BY <1>1
  <2>3. \A p \in Nat : n <= p => 0 + n + stamps <= p + 1
    BY <1>3
  <2> QED  BY <2>1, <2>2, <2>3
<1>7. RoomLeft'
  BY <1>1, <1>3, <1>5, <1>6, Zenon DEF RoomLeft
<1>8. SendsFit'
  <2>1. load' + 2 <= SocketPackets => load + 2 <= SocketPackets
    <3>1. \A p \in Nat : load <= p => (p + 2 <= SocketPackets => load + 2 <= SocketPackets)
      BY <1>3, NetConstants
    <3> QED  BY <3>1, <1>6
  <2> QED  BY <2>1, <1>1 DEF NetInv, SendsFit, Net!SendsFit, Net!TimestampsFit
<1> QED  BY <1>4, <1>7, <1>8 DEF NetInv

LEMMA PacketKeepsNet == NetInv /\ Net!ProcessPacket => NetInv'
<1> SUFFICES ASSUME NetInv, Net!ProcessPacket PROVE NetInv'
  OBVIOUS
<1>1. PICK k \in 0..Len(rxPackets) :
        RequestsAhead(k) /\ generalTx + k + stamps <= load + 1
  BY DEF NetInv, RoomLeft, Net!ProcessPacket
<1>2. /\ netPc = "packets" /\ netPc' = "packets" /\ eventTx' = eventTx /\ stamps' = stamps
      /\ event' = event /\ general' = general /\ arrived' = arrived /\ load' = load
      /\ rxPackets # <<>> /\ rxPackets' = Tail(rxPackets)
      /\ handled' = IF Head(rxPackets) # 0 THEN Append(handled, Head(rxPackets))
                                           ELSE handled
  BY DEF Net!ProcessPacket
<1>3. /\ rxPackets' \in Seq(Nat) /\ Head(rxPackets) \in Nat
      /\ Head(rxPackets) # 0 => k > 0 /\ k - 1 \in 0..Len(rxPackets') /\ RequestsAhead(k - 1)'
      /\ Head(rxPackets) = 0 => k = 0 /\ RequestsAhead(0)'
  BY <1>1, <1>2, OneLessAhead DEF NetInv
<1>4. /\ NetTypes /\ SendsFit /\ generalTx \in Nat /\ stamps \in Nat /\ load \in Nat
      /\ generalTx <= load + 1
  BY <1>1 DEF NetInv, NetTypes
<1>5. Net!SendGeneral \/ Net!NoSend
  BY DEF Net!ProcessPacket
<1>6. /\ generalTx' \in Nat /\ generalTx' <= generalTx + 1
      /\ netRole' \in {"Master", "Faulty", "Panicked"} /\ SendsFit'
  BY <1>2, <1>4, <1>5, GeneralSent
<1>7. handled' \in Seq(Nat)
  BY <1>2, <1>3, <1>4 DEF NetTypes
<1>8. NetTypes'
  BY <1>2, <1>3, <1>4, <1>6, <1>7 DEF NetTypes
<1>9. RoomLeft'
  <2>1. CASE Head(rxPackets) # 0
    <3>1. generalTx' + (k - 1) + stamps' <= load' + 1
      <4>1. k \in Nat /\ generalTx + k + stamps <= load + 1
        BY <1>1
      <4>2. stamps' = stamps /\ load' = load
        BY <1>2
      <4>3. generalTx \in Nat /\ generalTx' \in Nat /\ generalTx' <= generalTx + 1
            /\ stamps \in Nat /\ load \in Nat
        BY <1>4, <1>6
      <4>4. \A g \in Nat : g <= generalTx + 1 => g + (k - 1) + stamps <= load + 1
        BY <4>1, <4>3
      <4> QED  BY <4>2, <4>3, <4>4, Zenon
    <3> QED  BY <3>1, <2>1, <1>2, <1>3 DEF NetInv, RoomLeft
  <2>2. CASE Head(rxPackets) = 0
    <3>1. generalTx' = generalTx
      BY <2>2 DEF Net!ProcessPacket, Net!NoSend
    <3>2. generalTx' + 0 + stamps' <= load' + 1 /\ 0 \in 0..Len(rxPackets')
      BY <3>1, <1>1, <1>2, <1>3, <1>4, <2>2
    <3> QED  BY <3>2, <2>2, <1>2, <1>3 DEF NetInv, RoomLeft
  <2> QED  BY <2>1, <2>2
<1> QED  BY <1>6, <1>8, <1>9 DEF NetInv

LEMMA TimestampKeepsNet == NetInv /\ Net!DeliverTimestamp => NetInv'
<1> SUFFICES ASSUME NetInv, Net!DeliverTimestamp PROVE NetInv'
  OBVIOUS
<1>1. PICK k \in 0..Len(rxPackets) :
        RequestsAhead(k) /\ generalTx + k + stamps <= load + 1
  BY DEF NetInv, RoomLeft, Net!DeliverTimestamp
<1>2. /\ netPc = "packets" /\ netPc' = "packets" /\ eventTx' = eventTx
      /\ event' = event /\ general' = general /\ arrived' = arrived /\ load' = load
      /\ rxPackets = <<>> /\ rxPackets' = rxPackets /\ handled' = handled
      /\ stamps > 0 /\ stamps' = stamps - 1
  BY DEF Net!DeliverTimestamp
<1>3. /\ NetTypes /\ SendsFit /\ generalTx \in Nat /\ stamps \in Nat /\ load \in Nat
      /\ stamps = 1 /\ stamps' = 0
  BY <1>2 DEF NetInv, NetTypes, RoomLeft
<1>4. k = 0
  BY <1>1, <1>2
<1>5. generalTx <= load
  BY <1>1, <1>3, <1>4
<1>6. Net!SendGeneral \/ Net!NoSend
  BY DEF Net!DeliverTimestamp
<1>7. /\ generalTx' \in Nat /\ generalTx' <= generalTx + 1
      /\ netRole' \in {"Master", "Faulty", "Panicked"} /\ SendsFit'
  <2>1. generalTx <= load + 1
    BY <1>3, <1>5
  <2> QED  BY <2>1, <1>2, <1>3, <1>6, GeneralSent
<1>8. NetTypes'
  BY <1>2, <1>3, <1>7 DEF NetTypes
<1>9. RoomLeft'
  <2>1. \A g \in Nat : g <= generalTx + 1 => g + 0 + 0 <= load + 1
    BY <1>3, <1>5
  <2>2. generalTx' + 0 + stamps' <= load' + 1
    BY <2>1, <1>2, <1>3, <1>7, Zenon
  <2>3. 0 \in 0..Len(rxPackets') /\ RequestsAhead(0)'
    BY <1>1, <1>2, <1>4 DEF RequestsAhead
  <2> QED  BY <2>2, <2>3, <1>2, <1>3 DEF NetInv, RoomLeft
<1> QED  BY <1>7, <1>8, <1>9 DEF NetInv

LEMMA TimestampsDoneKeepsNet == NetInv /\ Net!TimestampsDone => NetInv'
<1> SUFFICES ASSUME NetInv, Net!TimestampsDone PROVE NetInv'
  OBVIOUS
<1>1. PICK k \in 0..Len(rxPackets) :
        RequestsAhead(k) /\ generalTx + k + stamps <= load + 1
  BY DEF NetInv, RoomLeft, Net!TimestampsDone
<1>2. /\ netPc = "packets" /\ netPc' = "timers" /\ eventTx' = eventTx
      /\ event' = event /\ general' = general /\ arrived' = arrived /\ load' = load
      /\ rxPackets = <<>> /\ rxPackets' = rxPackets /\ handled' = handled
      /\ stamps = 0 /\ stamps' = stamps /\ generalTx' = generalTx /\ netRole' = netRole
  BY DEF Net!TimestampsDone
<1>3. k = 0 /\ generalTx <= load + 1
  <2>1. k = 0
    BY <1>1, <1>2
  <2>2. generalTx \in Nat /\ load \in Nat
    BY DEF NetInv, NetTypes
  <2> QED  BY <2>1, <2>2, <1>1, <1>2
<1>4. NetTypes' /\ SendsFit'
  BY <1>2 DEF NetInv, NetTypes, SendsFit, Net!SendsFit, Net!TimestampsFit
<1>5. 0 \in 0..Len(rxPackets') /\ RequestsAhead(0)'
  BY <1>1, <1>2, <1>3 DEF RequestsAhead
<1>6. RoomLeft'
  BY <1>2, <1>3, <1>5 DEF NetInv, RoomLeft
<1> QED  BY <1>4, <1>6 DEF NetInv

LEMMA AnnounceKeepsNet == NetInv /\ (Net!AnnounceDue \/ Net!AnnounceNotDue) => NetInv'
<1> SUFFICES ASSUME NetInv, Net!AnnounceDue \/ Net!AnnounceNotDue PROVE NetInv'
  OBVIOUS
<1>1. /\ netPc = "timers" /\ netPc' = "sync" /\ eventTx' = eventTx /\ stamps' = stamps
      /\ event' = event /\ general' = general /\ arrived' = arrived /\ load' = load
      /\ rxPackets' = rxPackets /\ handled' = handled
      /\ Net!SendGeneral \/ Net!NoSend
  BY DEF Net!AnnounceDue, Net!AnnounceNotDue, Net!NoSend
<1>2. NetTypes /\ SendsFit /\ generalTx <= load + 1 /\ rxPackets = <<>>
      /\ stamps = 0 /\ eventTx = 0
  BY <1>1 DEF NetInv, RoomLeft
<1>3. /\ generalTx' \in Nat /\ netRole' \in {"Master", "Faulty", "Panicked"} /\ SendsFit'
  BY <1>1, <1>2, GeneralSent
<1>4. NetTypes'
  BY <1>1, <1>2, <1>3 DEF NetTypes
<1>5. 0 \in 0..Len(rxPackets') /\ RequestsAhead(0)'
  BY <1>1, <1>2 DEF RequestsAhead
<1>6. RoomLeft'
  BY <1>1, <1>2, <1>5 DEF RoomLeft
<1> QED  BY <1>3, <1>4, <1>6 DEF NetInv

LEMMA SyncKeepsNet == NetInv /\ (Net!SyncDue \/ Net!SyncNotDue) => NetInv'
<1> SUFFICES ASSUME NetInv, Net!SyncDue \/ Net!SyncNotDue PROVE NetInv'
  OBVIOUS
<1>1. /\ netPc = "sync" /\ netPc' = "poll" /\ generalTx' = generalTx
      /\ event' = event /\ general' = general /\ arrived' = arrived /\ load' = load
      /\ rxPackets' = rxPackets /\ handled' = handled
      /\ Net!SendSync \/ UNCHANGED <<eventTx, stamps, netRole>>
  BY DEF Net!SyncDue, Net!SyncNotDue
<1>2. NetTypes /\ SendsFit /\ rxPackets = <<>> /\ stamps = 0 /\ eventTx = 0 /\ load \in Nat
  BY <1>1 DEF NetInv, NetTypes, RoomLeft
<1>3. stamps' \in {0, 1} /\ eventTx' \in {0, 1}
  BY <1>1, <1>2 DEF Net!SendSync
<1>4. netRole' = netRole \/ (netRole' = "Faulty" /\ SocketPackets = 0)
  BY <1>1, <1>2, NetConstants DEF Net!SendSync
<1>5. SendsFit'
  <2>1. SocketPackets = 0 => ~(load + 2 <= SocketPackets)
    BY <1>2
  <2> QED  BY <2>1, <1>1, <1>2, <1>4 DEF SendsFit, Net!SendsFit, Net!TimestampsFit
<1>6. NetTypes'
  BY <1>1, <1>2, <1>3, <1>4 DEF NetTypes
<1>7. 0 \in 0..Len(rxPackets') /\ RequestsAhead(0)'
  BY <1>1, <1>2 DEF RequestsAhead
<1>8. stamps' <= 1
  BY <1>3
<1>9. RoomLeft'
  BY <1>1, <1>2, <1>7, <1>8 DEF RoomLeft
<1> QED  BY <1>5, <1>6, <1>9 DEF NetInv

\* Only the part that steps touches its variables.
LEMMA OnlyNetSteps == [DemoNext]_demoVars => Net!Next \/ UNCHANGED netVars
BY DEF DemoNext, ClocksStep, MainLoopStep, SysTickStep, NetStep, EthernetStep, demoVars

LEMMA NetInvariant == DemoSpec => []NetInv
<1>1. DemoInit => NetInv
  <2> SUFFICES ASSUME DemoInit PROVE NetInv
    OBVIOUS
  <2>1. Net!Init
    BY DEF DemoInit
  <2>2. 0 \in 0..Len(rxPackets) /\ RequestsAhead(0)
    BY <2>1 DEF Net!Init, RequestsAhead
  <2> QED  BY <2>1, <2>2, NetConstants
         DEF Net!Init, NetInv, NetTypes, RoomLeft, SendsFit, Net!SendsFit, Net!TimestampsFit
<1>2. NetInv /\ [DemoNext]_demoVars => NetInv'
  <2> SUFFICES ASSUME NetInv, Net!Next \/ UNCHANGED netVars PROVE NetInv'
    BY OnlyNetSteps
  <2>1. CASE Net!Next
    BY <2>1, PollKeepsNet, PacketKeepsNet, TimestampKeepsNet, TimestampsDoneKeepsNet,
       AnnounceKeepsNet, SyncKeepsNet DEF Net!Next
  <2>2. CASE UNCHANGED netVars
    BY <2>2 DEF netVars, NetInv, NetTypes, RoomLeft, RequestsAhead, SendsFit, Net!SendsFit,
       Net!TimestampsFit
  <2> QED  BY <2>1, <2>2
<1> QED  BY <1>1, <1>2, PTL DEF DemoSpec

\* No send of the port fails for lack of room in the transmit buffer of the general
\* socket unless the DelayReqs of one iteration leave no room for two more, and the
\* queue of timestamps never overflows, whatever the sizes of the buffers and of the
\* queue (SmoltcpPhysicalPort::send, TimestampQueue::push).
THEOREM NoSendFails == DemoSpec => []SendsFit
BY NetInvariant, PTL DEF NetInv

LEMMA InPlaceReaches ==
  ASSUME NetTypes, RequestsInPlace
  PROVE  RequestsReachPort
<1> DEFINE n == Len(handled)
           seen == handled \o rxPackets \o event
<1>1. PICK k \in 0..Len(rxPackets) :
        /\ RequestsAhead(k)
        /\ \A i \in 1..k : rxPackets[i] = n + i
        /\ arrived = n + k
  BY DEF RequestsInPlace
<1>2. /\ handled \in Seq(Nat) /\ rxPackets \in Seq(Nat) /\ event = <<>>
      /\ n \in Nat /\ Len(rxPackets) \in Nat /\ k \in Nat /\ k <= Len(rxPackets)
  BY <1>1 DEF NetTypes, RequestsInPlace
<1>3. seen = handled \o rxPackets
  BY <1>2
<1>4. DOMAIN seen = 1..(n + Len(rxPackets))
  BY <1>2, <1>3
<1>5. \A i \in 1..(n + k) : i \in DOMAIN seen /\ seen[i] = i
  <2> SUFFICES ASSUME NEW i \in 1..(n + k) PROVE i \in DOMAIN seen /\ seen[i] = i
    OBVIOUS
  <2>1. i \in 1..(n + Len(rxPackets))
    BY <1>2
  <2>2. CASE i <= n
    BY <2>1, <2>2, <1>2, <1>3, <1>4 DEF RequestsInPlace
  <2>3. CASE i > n
    <3>1. i - n \in 1..k
      BY <2>3, <1>2
    <3> QED  BY <3>1, <2>1, <2>3, <1>1, <1>2, <1>3, <1>4
  <2> QED  BY <2>2, <2>3, <1>2
<1>6. \A i \in DOMAIN seen : seen[i] # 0 => i \in 1..(n + k)
  <2> SUFFICES ASSUME NEW i \in 1..(n + Len(rxPackets)), i > n + k PROVE seen[i] = 0
    BY <1>2, <1>4
  <2>1. i - n \in 1..Len(rxPackets) /\ ~ (i - n <= k)
    BY <1>2
  <2> QED  BY <2>1, <1>1, <1>2, <1>3 DEF RequestsAhead
<1> HIDE DEF seen, n
<1>7. {seen[i] : i \in DOMAIN seen} \ {0} = 1..arrived
  BY <1>1, <1>2, <1>5, <1>6
<1>8. \A i, j \in DOMAIN seen :
        i < j /\ seen[i] # 0 /\ seen[j] # 0 => seen[i] < seen[j]
  BY <1>5, <1>6
<1> QED  BY <1>7, <1>8 DEF RequestsReachPort, Net!RequestsReachPort, seen

LEMMA PollKeepsPlace ==
  ASSUME SocketPackets <= MaxRxPackets, NetInv, RequestsInPlace, Net!Poll
  PROVE  RequestsInPlace'
<1>1. handled' = handled /\ netPc = "poll"
  BY DEF Net!Poll
<1>2. PICK new \in Nat, n \in Nat, m \in Nat :
           /\ arrived' = arrived + new
           /\ rxPackets' \in Seq(Nat) /\ Len(rxPackets') = n + m
           /\ \A i \in 1..(n + m) : rxPackets'[i] # 0 <=> i <= n
           /\ event = <<>> /\ SocketPackets <= MaxRxPackets =>
                /\ n = new /\ event' = <<>>
                /\ \A i \in 1..n : rxPackets'[i] = arrived + i
  BY Polled, Zenon DEF NetInv
<1>3. n = new /\ event' = <<>> /\ \A i \in 1..n : rxPackets'[i] = arrived + i
  BY <1>2 DEF RequestsInPlace
<1>4. arrived = Len(handled)
  <2>1. rxPackets = <<>> /\ handled \in Seq(Nat)
    BY <1>1 DEF NetInv, NetTypes, RoomLeft
  <2> QED  BY <2>1 DEF RequestsInPlace
<1>5. RequestsAhead(n)' /\ n \in 0..Len(rxPackets')
  BY <1>2 DEF RequestsAhead
<1>6. /\ \A i \in 1..n : rxPackets'[i] = Len(handled') + i
      /\ arrived' = Len(handled') + n
  BY <1>1, <1>2, <1>3, <1>4
<1> QED  BY <1>1, <1>3, <1>5, <1>6, SMTT(20) DEF RequestsInPlace

LEMMA PacketKeepsPlace ==
  ASSUME NetInv, RequestsInPlace, Net!ProcessPacket
  PROVE  RequestsInPlace'
<1>1. PICK k \in 0..Len(rxPackets) :
        /\ RequestsAhead(k)
        /\ \A i \in 1..k : rxPackets[i] = Len(handled) + i
        /\ arrived = Len(handled) + k
  BY DEF RequestsInPlace
<1>2. /\ event' = event /\ arrived' = arrived
      /\ rxPackets # <<>> /\ rxPackets' = Tail(rxPackets)
      /\ handled' = IF Head(rxPackets) # 0 THEN Append(handled, Head(rxPackets))
                                           ELSE handled
  BY DEF Net!ProcessPacket
<1>3. /\ rxPackets' \in Seq(Nat) /\ Head(rxPackets) \in Nat
      /\ Len(rxPackets') = Len(rxPackets) - 1
      /\ \A i \in 1..Len(rxPackets') : rxPackets'[i] = rxPackets[i + 1]
      /\ Head(rxPackets) = rxPackets[1]
      /\ Head(rxPackets) # 0 => k > 0 /\ k - 1 \in 0..Len(rxPackets') /\ RequestsAhead(k - 1)'
      /\ Head(rxPackets) = 0 => k = 0 /\ RequestsAhead(0)'
  BY <1>1, <1>2, OneLessAhead DEF NetInv
<1>4. /\ handled \in Seq(Nat) /\ \A i \in 1..Len(handled) : handled[i] = i
      /\ k \in Nat /\ rxPackets \in Seq(Nat) /\ Len(rxPackets) > 0
  BY <1>1, <1>2, SMTT(20) DEF NetInv, NetTypes, RequestsInPlace
<1>5. CASE Head(rxPackets) # 0
  <2>1. Head(rxPackets) = Len(handled) + 1
    BY <1>1, <1>3, <1>4, <1>5
  <2>2. /\ handled' \in Seq(Nat) /\ Len(handled') = Len(handled) + 1
        /\ \A i \in 1..Len(handled') : handled'[i] = i
    <3>1. handled' = Append(handled, Len(handled) + 1)
      BY <1>2, <1>5, <2>1
    <3> QED  BY <3>1, <1>4
  <2>3. \A i \in 1..(k - 1) : rxPackets'[i] = (Len(handled) + 1) + i
    <3> SUFFICES ASSUME NEW i \in 1..(k - 1)
                 PROVE  rxPackets'[i] = (Len(handled) + 1) + i
      OBVIOUS
    <3>1. i \in 1..Len(rxPackets') /\ i + 1 \in 1..k
      BY <1>1, <1>3, <1>4
    <3>2. rxPackets'[i] = Len(handled) + (i + 1)
      BY <3>1, <1>1, <1>3
    <3> QED  BY <3>2, <1>4
  <2>4. arrived = (Len(handled) + 1) + (k - 1)
    BY <1>1, <1>4
  <2>5. event' = <<>> /\ DOMAIN handled' = 1..Len(handled')
    BY <2>2, <1>2 DEF RequestsInPlace
  <2>6. /\ RequestsAhead(k - 1)' /\ k - 1 \in 0..Len(rxPackets')
        /\ \A i \in 1..(k - 1) : rxPackets'[i] = Len(handled') + i
        /\ arrived' = Len(handled') + (k - 1)
    BY <2>2, <2>3, <2>4, <1>2, <1>3, <1>5
  <2> QED  BY <2>2, <2>5, <2>6, Zenon DEF RequestsInPlace
<1>6. CASE Head(rxPackets) = 0
  <2>1. k = 0 /\ RequestsAhead(0)' /\ handled' = handled /\ 0 \in 0..Len(rxPackets')
    BY <1>2, <1>3, <1>6
  <2> QED  BY <2>1, <1>1, <1>2 DEF RequestsInPlace
<1> QED  BY <1>5, <1>6

LEMMA PlaceInvariant ==
  ASSUME SocketPackets <= MaxRxPackets
  PROVE  DemoSpec => []RequestsInPlace
<1>1. DemoInit => RequestsInPlace
  <2> SUFFICES ASSUME DemoInit PROVE RequestsInPlace
    OBVIOUS
  <2>1. Net!Init
    BY DEF DemoInit
  <2>2. 0 \in 0..Len(rxPackets) /\ RequestsAhead(0)
    BY <2>1 DEF Net!Init, RequestsAhead
  <2> QED  BY <2>1, <2>2 DEF Net!Init, RequestsInPlace
<1>2. NetInv /\ RequestsInPlace /\ [DemoNext]_demoVars => RequestsInPlace'
  <2> SUFFICES ASSUME NetInv, RequestsInPlace, Net!Next \/ UNCHANGED netVars
               PROVE  RequestsInPlace'
    BY OnlyNetSteps
  <2>1. CASE Net!Poll
    BY <2>1, PollKeepsPlace
  <2>2. CASE Net!ProcessPacket
    BY <2>2, PacketKeepsPlace
  <2>3. CASE \/ Net!DeliverTimestamp \/ Net!TimestampsDone \/ Net!AnnounceDue
             \/ Net!AnnounceNotDue \/ Net!SyncDue \/ Net!SyncNotDue \/ UNCHANGED netVars
    <3>1. event' = event /\ rxPackets' = rxPackets /\ handled' = handled /\ arrived' = arrived
      BY <2>3 DEF Net!DeliverTimestamp, Net!TimestampsDone, Net!AnnounceDue,
         Net!AnnounceNotDue, Net!SyncDue, Net!SyncNotDue, netVars
    <3> QED  BY <3>1 DEF RequestsInPlace, RequestsAhead
  <2> QED  BY <2>1, <2>2, <2>3 DEF Net!Next
<1> QED  BY <1>1, <1>2, NetInvariant, PTL DEF DemoSpec

\* Every DelayReq that the event socket accepted reaches the port once and in order,
\* when the vector of packets has room for all that a socket buffers (both are four in
\* the demo: drain_socket would otherwise receive one packet more and drop it).
THEOREM NoRequestLost ==
  ASSUME SocketPackets <= MaxRxPackets
  PROVE  DemoSpec => []RequestsReachPort
<1>1. NetInv /\ RequestsInPlace => RequestsReachPort
  BY InPlaceReaches DEF NetInv
<1> QED  BY <1>1, NetInvariant, PlaceInvariant, PTL

----------------------------------------------------------------------------
(* The Ethernet driver *)

LEMMA DriverConstants ==
  /\ AddrLen \in Nat /\ AddrLen >= 1 /\ MaxFrameSize \in Nat
  /\ Eth!HeaderLen = 2 * AddrLen + 2 /\ MaxFrameSize >= Eth!HeaderLen
  /\ \A n \in Lengths : n \in Nat /\ n >= Eth!HeaderLen
BY DemoAssumption DEF Eth!DriverAssumption, Eth!HeaderLen

\* The bytes that a frame, its length and its CRC are made of.
Byte == Nat \cup {"len", "crc", Mac, Peer} \cup ({1, 2} \X Nat)

LEMMA FrameIs ==
  ASSUME NEW f \in Eth!Frames
  PROVE  /\ f \in Seq(Byte) /\ Len(f) \in Nat /\ Len(f) >= Eth!HeaderLen
         /\ \A i \in (AddrLen + 1)..(2 * AddrLen) : f[i] = f[AddrLen + 1]
<1>1. PICK src \in {Mac, Peer}, len \in Lengths, mark \in {1, 2} :
        f = Eth!FrameOf(src, len, mark)
  BY DEF Eth!Frames
<1>2. len \in Nat /\ len >= Eth!HeaderLen
  BY DriverConstants
<1>3. f = [i \in 1..len |-> IF i > AddrLen /\ i <= 2 * AddrLen THEN src ELSE <<mark, i>>]
  BY <1>1 DEF Eth!FrameOf
<1>4. \A i \in 1..len :
        (IF i > AddrLen /\ i <= 2 * AddrLen THEN src ELSE <<mark, i>>) \in Byte
  BY <1>2 DEF Byte
<1>5. f \in Seq(Byte) /\ Len(f) = len
  BY <1>2, <1>3, <1>4
<1>6. \A i \in (AddrLen + 1)..(2 * AddrLen) : f[i] = src
  BY <1>2, <1>3, DriverConstants
<1>7. AddrLen + 1 \in (AddrLen + 1)..(2 * AddrLen)
  BY DriverConstants
<1> QED  BY <1>2, <1>5, <1>6, <1>7, Zenon

\* A part of a sequence, by its positions.
LEMMA PartIs ==
  ASSUME NEW E, NEW s \in Seq(E), NEW a \in Nat, NEW b \in a..Len(s)
  PROVE  /\ SubSeq(s, a + 1, b) \in Seq(E) /\ Len(SubSeq(s, a + 1, b)) = b - a
         /\ \A j \in 1..(b - a) : SubSeq(s, a + 1, b)[j] = s[a + j]
OBVIOUS

\* Two sequences with the same elements
LEMMA SameSequence ==
  ASSUME NEW E, NEW s \in Seq(E), NEW F, NEW t \in Seq(F), Len(s) = Len(t),
         \A j \in 1..Len(s) : s[j] = t[j]
  PROVE  s = t
OBVIOUS

\* How many words of four bytes hold n bytes
WordCount(n) == ((n - 1) \div 4) + 1

LEMMA WordCountIs ==
  ASSUME NEW n \in Nat \ {0}
  PROVE  WordCount(n) \in Nat \ {0} /\ 4 * WordCount(n) >= n
BY SMT DEF WordCount

\* What WordsFrom gives, word by word and byte by byte
LEMMA WordsAre ==
  ASSUME NEW s \in Seq(Byte), NEW first \in 1..Len(s)
  PROVE  LET c == WordCount(Len(s) - first + 1)
             w == Eth!WordsFrom(s, first)
         IN  /\ w \in Seq([1..4 -> Byte]) /\ Len(w) = c
             /\ \A i \in 0..(4 * c - 1) :
                  w[(i \div 4) + 1][(i % 4) + 1] = Eth!ByteAt(s, first + i)
<1> DEFINE c == WordCount(Len(s) - first + 1)
           w == Eth!WordsFrom(s, first)
           At(i) == Eth!ByteAt(s, i)
<1>1. Len(s) \in Nat /\ c \in Nat /\ c = (Len(s) - first) \div 4 + 1
  <2>1. Len(s) \in Nat /\ Len(s) - first + 1 \in Nat \ {0}
    OBVIOUS
  <2>2. (Len(s) - first + 1) - 1 = Len(s) - first
    BY <2>1
  <2> QED  BY <2>1, <2>2, WordCountIs DEF WordCount
<1>2. \A i \in Nat \ {0} : At(i) \in Byte
  BY DEF Eth!ByteAt, Eth!Pad, Byte
<1>3. w = [j \in 1..c |-> [k \in 1..4 |-> At(first + 4 * (j - 1) + k - 1)]]
  BY <1>1 DEF Eth!WordsFrom
<1> HIDE DEF c, w, At
<1>4. \A j \in 1..c, k \in 1..4 : first + 4 * (j - 1) + k - 1 \in Nat \ {0}
  BY <1>1
<1>5. w \in Seq([1..4 -> Byte]) /\ Len(w) = c
  <2>1. \A j \in 1..c : [k \in 1..4 |-> At(first + 4 * (j - 1) + k - 1)] \in [1..4 -> Byte]
    BY <1>2, <1>4
  <2> QED  BY <2>1, <1>1, <1>3
<1>6. ASSUME NEW i \in 0..(4 * c - 1)
      PROVE  w[(i \div 4) + 1][(i % 4) + 1] = At(first + i)
  <2> DEFINE j == (i \div 4) + 1
             k == (i % 4) + 1
  <2>1. j \in 1..c /\ k \in 1..4 /\ first + 4 * (j - 1) + k - 1 = first + i
    BY <1>1, SMT
  <2> HIDE DEF j, k
  <2>2. w[j][k] = At(first + 4 * (j - 1) + k - 1)
    BY <1>3, <2>1
  <2>3. w[j][k] = At(first + i)
    BY <2>1, <2>2
  <2> QED  BY <2>3 DEF j, k
<1> QED  BY <1>5, <1>6 DEF c, w, At

\* The data register gives the bytes of a sequence back in order.
LEMMA RegisterBytes ==
  ASSUME NEW s \in Seq(Byte), Len(s) >= 1
  PROVE  LET bytes == Eth!Bytes(Eth!WordsFrom(s, 1))
         IN  /\ bytes \in Seq(Byte) /\ Len(bytes) >= Len(s)
             /\ \A i \in 1..Len(s) : bytes[i] = s[i]
<1> DEFINE c == WordCount(Len(s))
           w == Eth!WordsFrom(s, 1)
           bytes == Eth!Bytes(w)
<1>1. Len(s) \in Nat /\ Len(s) - 1 + 1 = Len(s) /\ 1 \in 1..Len(s)
  OBVIOUS
<1>2. c \in Nat \ {0} /\ 4 * c >= Len(s)
  BY <1>1, WordCountIs
<1>3. /\ w \in Seq([1..4 -> Byte]) /\ Len(w) = c
      /\ \A i \in 0..(4 * c - 1) : w[(i \div 4) + 1][(i % 4) + 1] = Eth!ByteAt(s, 1 + i)
  <2>1. WordCount(Len(s) - 1 + 1) = c
    BY <1>1
  <2> HIDE DEF c
  <2> QED  BY <1>1, <2>1, WordsAre
<1>4. bytes = [i \in 1..(4 * c) |-> w[((i - 1) \div 4) + 1][((i - 1) % 4) + 1]]
  BY <1>3, Zenon DEF Eth!Bytes
<1> HIDE DEF c, w, bytes
<1>5. ASSUME NEW i \in 1..(4 * c) PROVE bytes[i] = Eth!ByteAt(s, i)
  <2>1. i - 1 \in 0..(4 * c - 1) /\ 1 + (i - 1) = i
    BY <1>2
  <2>2. w[((i - 1) \div 4) + 1][((i - 1) % 4) + 1] = Eth!ByteAt(s, 1 + (i - 1))
    BY <2>1, <1>3, Zenon
  <2>3. bytes[i] = w[((i - 1) \div 4) + 1][((i - 1) % 4) + 1]
    BY <1>4, Zenon
  <2> QED  BY <2>1, <2>2, <2>3
<1>6. \A i \in 1..(4 * c) : bytes[i] \in Byte /\ (i <= Len(s) => bytes[i] = s[i])
  BY <1>1, <1>2, <1>5 DEF Eth!ByteAt, Eth!Pad, Byte
<1>7. bytes \in Seq(Byte) /\ Len(bytes) = 4 * c
  <2>1. bytes \in [1..(4 * c) -> Byte]
    BY <1>4, <1>6, Zenon
  <2> QED  BY <2>1, <1>2
<1>8. \A i \in 1..Len(s) : i \in 1..(4 * c)
  BY <1>1, <1>2, SMTT(20)
<1> QED  BY <1>2, <1>6, <1>7, <1>8 DEF bytes, w

\* What the controller queues for a frame: as many words as Lm3sRxToken::consume
\* reads, with the length first and the frame from the third byte on.
LEMMA QueuedIs ==
  ASSUME NEW f \in Eth!Frames
  PROVE  /\ Eth!Queued(f) \in Seq([1..4 -> Byte])
         /\ Len(Eth!Queued(f)) = Eth!WordsRead(Len(f) + 6)
         /\ Len(Eth!Queued(f)) >= 1 /\ Eth!Queued(f)[1][1] = Len(f) + 6
         /\ Eth!Bytes(Eth!Queued(f)) \in Seq(Byte)
         /\ Len(Eth!Bytes(Eth!Queued(f))) >= Len(f) + 6
         /\ \A j \in 1..Len(f) : Eth!Bytes(Eth!Queued(f))[2 + j] = f[j]
<1> DEFINE size == <<Len(f) + 6, "len">>
           start == size \o f
           crc == Eth!Crc
           whole == start \o crc
           q == Eth!Queued(f)
<1>1. f \in Seq(Byte) /\ Len(f) \in Nat
  BY FrameIs
<1>2. /\ size \in Seq(Byte) /\ Len(size) = 2 /\ size[1] = Len(f) + 6
      /\ crc \in Seq(Byte) /\ Len(crc) = 4
  BY <1>1 DEF Byte, Eth!Crc
<1> HIDE DEF size, crc
<1>3. /\ start \in Seq(Byte) /\ Len(start) = 2 + Len(f) /\ start[1] = Len(f) + 6
      /\ \A j \in 1..Len(f) : start[2 + j] = f[j]
  <2>1. /\ start \in Seq(Byte) /\ Len(start) = Len(size) + Len(f)
        /\ \A i \in 1..Len(size) : start[i] = size[i]
        /\ \A i \in (Len(size) + 1)..(Len(size) + Len(f)) : start[i] = f[i - Len(size)]
    BY <1>1, <1>2, Concatenated, Zenon
  <2> HIDE DEF start
  <2>2. \A j \in 1..Len(f) : 2 + j \in (2 + 1)..(2 + Len(f)) /\ (2 + j) - 2 = j
    BY <1>1
  <2>3. 1 \in 1..2
    OBVIOUS
  <2> QED  BY <2>1, <2>2, <2>3, <1>2
<1> HIDE DEF start
<1>4. /\ whole \in Seq(Byte) /\ Len(whole) = Len(f) + 6 /\ whole[1] = Len(f) + 6
      /\ \A j \in 1..Len(f) : whole[2 + j] = f[j]
  <2>1. /\ whole \in Seq(Byte) /\ Len(whole) = Len(start) + Len(crc)
        /\ \A i \in 1..Len(start) : whole[i] = start[i]
    <3>1. start \in Seq(Byte) /\ crc \in Seq(Byte)
      BY <1>2, <1>3
    <3> QED  BY <3>1, Concatenated, Zenon
  <2> HIDE DEF whole
  <2>2. 1 \in 1..(2 + Len(f)) /\ \A j \in 1..Len(f) : 2 + j \in 1..(2 + Len(f))
    BY <1>1
  <2>3. (2 + Len(f)) + 4 = Len(f) + 6
    BY <1>1
  <2> QED  BY <2>1, <2>2, <2>3, <1>2, <1>3
<1>5. q = Eth!WordsFrom(whole, 1)
  BY DEF Eth!Queued, whole, start, size, crc
<1> HIDE DEF whole, q
<1> DEFINE c == WordCount(Len(whole))
<1>6. Len(whole) >= 1 /\ 1 \in 1..Len(whole) /\ Len(whole) - 1 + 1 = Len(whole)
      /\ c \in Nat \ {0}
  <2>1. Len(whole) \in Nat \ {0}
    BY <1>1, <1>4
  <2> QED  BY <2>1, WordCountIs
<1>7. /\ q \in Seq([1..4 -> Byte]) /\ Len(q) = c
      /\ \A i \in 0..(4 * c - 1) :
           q[(i \div 4) + 1][(i % 4) + 1] = Eth!ByteAt(whole, 1 + i)
  <2>1. WordCount(Len(whole) - 1 + 1) = c
    BY <1>6
  <2> HIDE DEF c
  <2> QED  BY <1>4, <1>5, <1>6, <2>1, WordsAre, Zenon
<1>8. c = Eth!WordsRead(Len(f) + 6)
  BY <1>1, <1>4, SMT DEF WordCount, Eth!WordsRead
<1>9. q[1][1] = Len(f) + 6
  <2>1. 0 \in 0..(4 * c - 1) /\ (0 \div 4) + 1 = 1 /\ (0 % 4) + 1 = 1 /\ 1 + 0 = 1
    <3> HIDE DEF c
    <3> QED  BY <1>6, SMT
  <2>2. q[1][1] = Eth!ByteAt(whole, 1)
    <3> HIDE DEF c
    <3> QED  BY <2>1, <1>7
  <2> QED  BY <2>2, <1>4, <1>6 DEF Eth!ByteAt
<1> HIDE DEF c
<1>10. /\ Eth!Bytes(q) \in Seq(Byte) /\ Len(Eth!Bytes(q)) >= Len(whole)
       /\ \A i \in 1..Len(whole) : Eth!Bytes(q)[i] = whole[i]
  BY <1>4, <1>5, <1>6, RegisterBytes, Zenon
<1>11. \A j \in 1..Len(f) : Eth!Bytes(q)[2 + j] = f[j]
  <2>1. \A j \in 1..Len(f) : 2 + j \in 1..(Len(f) + 6)
    BY <1>1
  <2> QED  BY <2>1, <1>4, <1>10, Zenon
<1>12. Len(q) >= 1
  BY <1>6, <1>7
<1> QED  BY <1>4, <1>7, <1>8, <1>9, <1>10, <1>11, <1>12 DEF q

\* start says where the words of every frame start, one frame after the other.
Starts(start) ==
  /\ start \in [1..(Len(wire) + 1) -> 0..Len(rx)]
  /\ start[1] = 0 /\ start[Len(wire) + 1] = Len(rx)
  /\ \A i, j \in 1..(Len(wire) + 1) : i <= j => start[i] <= start[j]
  /\ \A i \in 1..Len(wire) : SubSeq(rx, start[i] + 1, start[i + 1]) = Eth!Queued(wire[i])

EthInv ==
  /\ wire \in Seq(Eth!Frames) /\ rx \in Seq([1..4 -> Byte])
  /\ \E start : Starts(start)
  /\ Eth!HandedIntact /\ Eth!SentIntact

\* Parts of a longer queue, and of one that lost its first words
LEMMA PartOfLonger ==
  ASSUME NEW E, NEW s \in Seq(E), NEW t \in Seq(E), NEW a \in Nat, NEW b \in a..Len(s)
  PROVE  SubSeq(s \o t, a + 1, b) = SubSeq(s, a + 1, b)
<1>1. /\ s \o t \in Seq(E) /\ b \in a..Len(s \o t) /\ Len(s) \in Nat
      /\ \A i \in 1..Len(s) : (s \o t)[i] = s[i]
  BY Concatenated
<1>2. /\ SubSeq(s, a + 1, b) \in Seq(E) /\ Len(SubSeq(s, a + 1, b)) = b - a
      /\ \A j \in 1..(b - a) : SubSeq(s, a + 1, b)[j] = s[a + j]
  BY PartIs
<1>3. /\ SubSeq(s \o t, a + 1, b) \in Seq(E) /\ Len(SubSeq(s \o t, a + 1, b)) = b - a
      /\ \A j \in 1..(b - a) : SubSeq(s \o t, a + 1, b)[j] = (s \o t)[a + j]
  BY <1>1, PartIs, Zenon
<1>4. \A j \in 1..(b - a) : a + j \in 1..Len(s)
  BY <1>1
<1>5. \A j \in 1..(b - a) : SubSeq(s \o t, a + 1, b)[j] = SubSeq(s, a + 1, b)[j]
  BY <1>1, <1>2, <1>3, <1>4, Zenon
<1> QED  BY <1>2, <1>3, <1>5, SameSequence, Zenon

LEMMA PartAtEnd ==
  ASSUME NEW E, NEW s \in Seq(E), NEW t \in Seq(E)
  PROVE  SubSeq(s \o t, Len(s) + 1, Len(s) + Len(t)) = t
<1> DEFINE b == Len(s) + Len(t)
<1>1. /\ s \o t \in Seq(E) /\ Len(s \o t) = b /\ Len(s) \in Nat /\ Len(t) \in Nat
      /\ \A i \in (Len(s) + 1)..b : (s \o t)[i] = t[i - Len(s)]
  BY Concatenated
<1>2. b \in Len(s)..Len(s \o t) /\ b - Len(s) = Len(t)
  BY <1>1
<1> HIDE DEF b
<1>3. /\ SubSeq(s \o t, Len(s) + 1, b) \in Seq(E)
      /\ Len(SubSeq(s \o t, Len(s) + 1, b)) = b - Len(s)
      /\ \A j \in 1..(b - Len(s)) : SubSeq(s \o t, Len(s) + 1, b)[j] = (s \o t)[Len(s) + j]
  BY <1>1, <1>2, PartIs, Zenon
<1>4. \A j \in 1..Len(t) : Len(s) + j \in (Len(s) + 1)..b /\ (Len(s) + j) - Len(s) = j
  BY <1>1 DEF b
<1>5. \A j \in 1..Len(t) : SubSeq(s \o t, Len(s) + 1, b)[j] = t[j]
  BY <1>1, <1>2, <1>3, <1>4
<1>6. SubSeq(s \o t, Len(s) + 1, b) = t
  BY <1>2, <1>3, <1>5, SameSequence, Zenon
<1> QED  BY <1>6 DEF b

LEMMA PartOfRest ==
  ASSUME NEW E, NEW s \in Seq(E), NEW n \in 0..Len(s), NEW a \in n..Len(s),
         NEW b \in a..Len(s)
  PROVE  SubSeq(SubSeq(s, n + 1, Len(s)), (a - n) + 1, b - n) = SubSeq(s, a + 1, b)
<1> DEFINE rest == SubSeq(s, n + 1, Len(s))
<1>1. Len(s) \in Nat /\ n \in Nat /\ a \in Nat /\ b \in Nat /\ Len(s) \in n..Len(s)
      /\ a - n \in Nat
  OBVIOUS
<1>2. /\ rest \in Seq(E) /\ Len(rest) = Len(s) - n
      /\ \A j \in 1..(Len(s) - n) : rest[j] = s[n + j]
  BY <1>1, PartIs
<1> HIDE DEF rest
<1> DEFINE lo == a - n
           hi == b - n
<1>3. lo \in Nat /\ hi \in lo..Len(rest) /\ hi - lo = b - a
  BY <1>1, <1>2
<1>4. \A j \in 1..(b - a) : lo + j \in 1..(Len(s) - n) /\ n + (lo + j) = a + j
  BY <1>1
<1> HIDE DEF lo, hi
<1> DEFINE left == SubSeq(rest, lo + 1, hi)
           right == SubSeq(s, a + 1, b)
<1>5. /\ left \in Seq(E) /\ Len(left) = hi - lo
      /\ \A j \in 1..(hi - lo) : left[j] = rest[lo + j]
  <2>1. rest \in Seq(E) /\ lo \in Nat /\ hi \in lo..Len(rest)
    BY <1>2, <1>3
  <2> QED  BY <2>1, PartIs, Zenon
<1>6. /\ right \in Seq(E) /\ Len(right) = b - a
      /\ \A j \in 1..(b - a) : right[j] = s[a + j]
  BY <1>1, PartIs, Zenon
<1> HIDE DEF left, right
<1>7. Len(left) = Len(right) /\ \A j \in 1..Len(left) : left[j] = right[j]
  <2>1. Len(left) = b - a /\ Len(right) = b - a
    BY <1>3, <1>5, <1>6
  <2>2. ASSUME NEW j \in 1..(b - a) PROVE left[j] = right[j]
    <3>1. left[j] = rest[lo + j]
      BY <1>3, <1>5
    <3>2. rest[lo + j] = s[n + (lo + j)]
      BY <1>2, <1>4, Zenon
    <3> QED  BY <3>1, <3>2, <1>4, <1>6, Zenon
  <2> QED  BY <2>1, <2>2, Zenon
<1>8. left = right
  BY <1>5, <1>6, <1>7, SameSequence, Zenon
<1> QED  BY <1>8 DEF rest, left, right, lo, hi

\* What Lm3sRxToken::consume copies is the frame, up to MaxFrameSize.
LEMMA CopiedIs ==
  ASSUME NEW f \in Eth!Frames
  PROVE  LET k == Eth!Least(Len(f), MaxFrameSize)
             buf == Eth!Copied(Eth!Bytes(Eth!Queued(f)), Len(f) + 6)
         IN  /\ buf = SubSeq(f, 1, k)
             /\ Eth!IsOwn(buf) <=> f[AddrLen + 1] = Mac
<1> DEFINE k == Eth!Least(Len(f), MaxFrameSize)
           bytes == Eth!Bytes(Eth!Queued(f))
           buf == Eth!Copied(bytes, Len(f) + 6)
           cut == SubSeq(f, 1, k)
<1>1. /\ f \in Seq(Byte) /\ Len(f) \in Nat /\ Len(f) >= 2 * AddrLen + 2
      /\ AddrLen \in Nat /\ AddrLen >= 1 /\ MaxFrameSize \in Nat
      /\ MaxFrameSize >= 2 * AddrLen + 2
      /\ \A i \in (AddrLen + 1)..(2 * AddrLen) : f[i] = f[AddrLen + 1]
  BY FrameIs, DriverConstants
<1>2. /\ bytes \in Seq(Byte) /\ Len(bytes) >= Len(f) + 6
      /\ \A j \in 1..Len(f) : bytes[2 + j] = f[j]
  BY QueuedIs
<1>3. k \in Nat /\ k <= Len(f) /\ k >= 2 * AddrLen + 2
  BY <1>1 DEF Eth!Least
<1>4. buf = SubSeq(bytes, 3, 2 + k)
  <2>1. Eth!SaturatingSub(Len(f) + 6, 6) = Len(f)
    BY <1>1 DEF Eth!SaturatingSub
  <2> HIDE DEF bytes
  <2> QED  BY <2>1, Zenon DEF Eth!Copied
<1> HIDE DEF k, bytes, buf
<1>5. /\ buf \in Seq(Byte) /\ Len(buf) = k /\ \A j \in 1..k : buf[j] = bytes[2 + j]
  <2>1. 2 \in Nat /\ 2 + k \in 2..Len(bytes) /\ 2 + 1 = 3 /\ (2 + k) - 2 = k
    BY <1>1, <1>2, <1>3
  <2>2. /\ SubSeq(bytes, 2 + 1, 2 + k) \in Seq(Byte)
        /\ Len(SubSeq(bytes, 2 + 1, 2 + k)) = (2 + k) - 2
        /\ \A j \in 1..((2 + k) - 2) : SubSeq(bytes, 2 + 1, 2 + k)[j] = bytes[2 + j]
    <3>1. bytes \in Seq(Byte) /\ 2 \in Nat /\ 2 + k \in 2..Len(bytes)
      BY <1>2, <2>1
    <3> QED  BY <3>1, PartIs, Zenon
  <2> QED  BY <2>1, <2>2, <1>4
<1>6. /\ cut \in Seq(Byte) /\ Len(cut) = k /\ \A j \in 1..k : cut[j] = f[j]
  BY <1>1, <1>3
<1> HIDE DEF cut
<1>7. \A j \in 1..k : buf[j] = f[j]
  <2>1. \A j \in 1..k : j \in 1..Len(f)
    BY <1>1, <1>3
  <2> QED  BY <2>1, <1>2, <1>5, Zenon
<1>8. buf = cut
  BY <1>5, <1>6, <1>7, SameSequence, Zenon
<1>9. Eth!IsOwn(buf) <=> f[AddrLen + 1] = Mac
  <2>1. Len(buf) >= 2 * AddrLen /\ AddrLen + 1 \in (AddrLen + 1)..(2 * AddrLen)
    BY <1>1, <1>3, <1>5
  <2>2. \A i \in (AddrLen + 1)..(2 * AddrLen) : buf[i] = f[AddrLen + 1]
    <3>1. \A i \in (AddrLen + 1)..(2 * AddrLen) : i \in 1..k
      BY <1>1, <1>3
    <3> QED  BY <3>1, <1>1, <1>7
  <2>3. (\A i \in (AddrLen + 1)..(2 * AddrLen) : buf[i] = Mac) <=> f[AddrLen + 1] = Mac
    BY <2>1, <2>2
  <2> QED  BY <2>1, <2>3, Zenon DEF Eth!IsOwn
<1> QED  BY <1>8, <1>9, Zenon DEF k, bytes, buf, cut

\* What the controller sends is the frame that Lm3sTxToken::consume was given.
LEMMA TransmittedIs ==
  ASSUME NEW f \in Eth!Frames
  PROVE  Eth!Transmitted(<<Eth!FirstWord(f)>> \o Eth!WordsFrom(f, 3)) = f
<1> DEFINE rest == Eth!WordsFrom(f, 3)
           head == Eth!FirstWord(f)
           words == <<head>> \o rest
           c == WordCount(Len(f) - 3 + 1)
           bytes == Eth!Bytes(words)
<1>1. /\ f \in Seq(Byte) /\ Len(f) \in Nat /\ Len(f) >= Eth!HeaderLen
      /\ Eth!HeaderLen \in Nat /\ Eth!HeaderLen >= 4 /\ 3 \in 1..Len(f)
  BY FrameIs, DriverConstants
<1>2. c \in Nat \ {0} /\ 4 * c >= Len(f) - 2
  <2>1. Len(f) - 3 + 1 \in Nat \ {0} /\ Len(f) - 3 + 1 = Len(f) - 2
    <3>1. Len(f) \in Nat /\ Len(f) >= 3
      BY <1>1
    <3>2. \A n \in Nat : n >= 3 => n - 3 + 1 \in Nat \ {0} /\ n - 3 + 1 = n - 2
      OBVIOUS
    <3> QED  BY <3>1, <3>2, Zenon
  <2> QED  BY <2>1, WordCountIs, Zenon
<1> HIDE DEF c
<1>3. /\ rest \in Seq([1..4 -> Byte]) /\ Len(rest) = c
      /\ \A i \in 0..(4 * c - 1) :
           rest[(i \div 4) + 1][(i % 4) + 1] = Eth!ByteAt(f, 3 + i)
  BY <1>1, WordsAre, Zenon DEF c
<1>4. head \in [1..4 -> Byte] /\ head[1] = Len(f) - Eth!HeaderLen
      /\ head[3] = f[1] /\ head[4] = f[2]
  <2>1. Eth!SaturatingSub(Len(f), Eth!HeaderLen) = Len(f) - Eth!HeaderLen
        /\ Len(f) - Eth!HeaderLen \in Nat
    BY <1>1 DEF Eth!SaturatingSub
  <2>2. Eth!ByteAt(f, 1) = f[1] /\ Eth!ByteAt(f, 2) = f[2] /\ f[1] \in Byte /\ f[2] \in Byte
    BY <1>1 DEF Eth!ByteAt
  <2>3. head = <<Len(f) - Eth!HeaderLen, "len", f[1], f[2]>>
    BY <2>1, <2>2, Zenon DEF Eth!FirstWord
  <2>4. Len(f) - Eth!HeaderLen \in Byte /\ "len" \in Byte
    BY <2>1 DEF Byte
  <2> HIDE DEF head
  <2> QED  BY <2>2, <2>3, <2>4
<1> HIDE DEF rest, head
<1>5. /\ words \in Seq([1..4 -> Byte]) /\ Len(words) = 1 + c /\ words[1] = head
      /\ \A i \in 1..c : words[1 + i] = rest[i]
  BY <1>2, <1>3, <1>4
<1>6. bytes = [i \in 1..(4 * (1 + c)) |-> words[((i - 1) \div 4) + 1][((i - 1) % 4) + 1]]
  BY <1>5, Zenon DEF Eth!Bytes
<1>7. Eth!Transmitted(words) = SubSeq(bytes, 3, 2 + Len(f))
  <2>1. words[1][1] + Eth!HeaderLen = Len(f) /\ 4 * Len(words) - 2 \in Int
        /\ Len(f) <= 4 * Len(words) - 2
    BY <1>1, <1>2, <1>4, <1>5
  <2>2. Eth!Least(Len(f), 4 * Len(words) - 2) = Len(f)
    BY <1>1, <2>1 DEF Eth!Least
  <2> HIDE DEF words
  <2> QED  BY <2>1, <2>2, Zenon DEF Eth!Transmitted
<1> HIDE DEF words, bytes
<1>8. ASSUME NEW j \in 1..Len(f)
      PROVE  2 + j \in 1..(4 * (1 + c)) /\ bytes[2 + j] = f[j]
  <2>1. 2 + j \in 1..(4 * (1 + c)) /\ (2 + j) - 1 = j + 1
    BY <1>1, <1>2
  <2>2. bytes[2 + j] = words[((j + 1) \div 4) + 1][((j + 1) % 4) + 1]
    BY <2>1, <1>6
  <2>3. CASE j \in {1, 2}
    <3>1. (j + 1) \div 4 = 0 /\ ((j + 1) % 4) + 1 = j + 2
      BY <2>3, SMT
    <3> QED  BY <2>1, <2>2, <2>3, <3>1, <1>4, <1>5
  <2>4. CASE j > 2
    <3> DEFINE i == j - 3
    <3>1. /\ i \in 0..(4 * c - 1) /\ (i \div 4) + 1 \in 1..c /\ 3 + i = j
          /\ (j + 1) \div 4 = (i \div 4) + 1 /\ (j + 1) % 4 = i % 4
      BY <2>4, <1>1, <1>2, SMT
    <3> HIDE DEF i
    <3>2. words[1 + ((i \div 4) + 1)] = rest[(i \div 4) + 1]
      BY <3>1, <1>5, Zenon
    <3>3. ((j + 1) \div 4) + 1 = 1 + ((i \div 4) + 1)
      BY <3>1
    <3>4. rest[(i \div 4) + 1][(i % 4) + 1] = Eth!ByteAt(f, 3 + i)
      BY <3>1, <1>3, Zenon
    <3>5. Eth!ByteAt(f, j) = f[j]
      BY <1>1 DEF Eth!ByteAt
    <3>6. bytes[2 + j] = rest[(i \div 4) + 1][(i % 4) + 1]
      BY <2>2, <3>1, <3>2, <3>3, Zenon
    <3> QED  BY <2>1, <3>1, <3>4, <3>5, <3>6, Zenon
  <2> QED  BY <2>3, <2>4, <1>1
<1>9. bytes \in Seq(Byte) /\ Len(bytes) = 4 * (1 + c)
  <2>1. \A i \in 1..(4 * (1 + c)) : ((i - 1) \div 4) + 1 \in 1..(1 + c)
                                    /\ ((i - 1) % 4) + 1 \in 1..4
    BY <1>2, SMT
  <2>2. \A i \in 1..(1 + c) : words[i] \in [1..4 -> Byte]
    BY <1>2, <1>5
  <2>3. bytes \in [1..(4 * (1 + c)) -> Byte]
    BY <2>1, <2>2, <1>6, Zenon
  <2> QED  BY <2>3, <1>2
<1>10. /\ SubSeq(bytes, 3, 2 + Len(f)) \in Seq(Byte)
       /\ Len(SubSeq(bytes, 3, 2 + Len(f))) = Len(f)
       /\ \A j \in 1..Len(f) : SubSeq(bytes, 3, 2 + Len(f))[j] = bytes[2 + j]
  <2>1. 2 \in Nat /\ 2 + Len(f) \in 2..Len(bytes) /\ 2 + 1 = 3 /\ (2 + Len(f)) - 2 = Len(f)
    BY <1>1, <1>2, <1>9
  <2>2. /\ SubSeq(bytes, 2 + 1, 2 + Len(f)) \in Seq(Byte)
        /\ Len(SubSeq(bytes, 2 + 1, 2 + Len(f))) = (2 + Len(f)) - 2
        /\ \A j \in 1..((2 + Len(f)) - 2) :
             SubSeq(bytes, 2 + 1, 2 + Len(f))[j] = bytes[2 + j]
    BY <1>9, <2>1, PartIs, Zenon
  <2> QED  BY <2>1, <2>2
<1>11. SubSeq(bytes, 3, 2 + Len(f)) = f
  BY <1>1, <1>8, <1>10, SameSequence, Zenon
<1> QED  BY <1>7, <1>11, Zenon DEF words, rest, head

LEMMA Appended ==
  ASSUME NEW E, NEW s \in Seq(E), NEW e \in E
  PROVE  /\ Append(s, e) \in Seq(E) /\ Len(Append(s, e)) = Len(s) + 1
         /\ Append(s, e)[Len(s) + 1] = e
         /\ \A i \in 1..Len(s) : Append(s, e)[i] = s[i]
OBVIOUS

LEMMA ArriveKeeps ==
  ASSUME EthInv, NEW f \in Eth!Frames, Eth!Arrive(f)
  PROVE  EthInv'
<1> DEFINE n == Len(wire)
           len == Len(rx)
           q == Eth!Queued(f)
<1>1. /\ rx' = rx \o q /\ wire' = Append(wire, f) /\ handed' = handed /\ sent' = sent
  BY DEF Eth!Arrive
<1>2. /\ wire \in Seq(Eth!Frames) /\ rx \in Seq([1..4 -> Byte]) /\ n \in Nat /\ len \in Nat
      /\ q \in Seq([1..4 -> Byte]) /\ Len(q) \in Nat
  <2>1. q \in Seq([1..4 -> Byte])
    BY QueuedIs
  <2> HIDE DEF q
  <2> QED  BY <2>1, SMTT(20) DEF EthInv
<1>3. PICK start : Starts(start)
  BY DEF EthInv
<1>4. /\ start \in [1..(n + 1) -> 0..len] /\ start[1] = 0 /\ start[n + 1] = len
      /\ \A i, j \in 1..(n + 1) : i <= j => start[i] <= start[j]
      /\ \A i \in 1..n : SubSeq(rx, start[i] + 1, start[i + 1]) = Eth!Queued(wire[i])
  BY <1>3 DEF Starts
<1>5. /\ wire' \in Seq(Eth!Frames) /\ Len(wire') = n + 1 /\ wire'[n + 1] = f
      /\ \A i \in 1..n : wire'[i] = wire[i]
  <2>1. /\ Append(wire, f) \in Seq(Eth!Frames) /\ Len(Append(wire, f)) = Len(wire) + 1
        /\ Append(wire, f)[Len(wire) + 1] = f
        /\ \A i \in 1..Len(wire) : Append(wire, f)[i] = wire[i]
    <3>1. wire \in Seq(Eth!Frames) /\ f \in Eth!Frames
      BY <1>2
    <3> QED  BY <3>1, Appended, SMTT(30)
  <2> QED  BY <2>1, <1>1, Zenon
<1>6. rx' \in Seq([1..4 -> Byte]) /\ Len(rx') = len + Len(q)
  <2>1. rx \o q \in Seq([1..4 -> Byte]) /\ Len(rx \o q) = Len(rx) + Len(q)
    BY <1>2, Concatenated, Zenon
  <2> QED  BY <2>1, <1>1, Zenon
<1> HIDE DEF n, len, q
<1> PICK next : next = [i \in 1..(n + 2) |-> IF i <= n + 1 THEN start[i] ELSE len + Len(q)]
  BY Zenon
<1>7. /\ next \in [1..(n + 2) -> 0..(len + Len(q))]
      /\ \A i \in 1..(n + 1) : next[i] = start[i] /\ next[i] \in 0..len
      /\ next[n + 2] = len + Len(q)
  <2>1. \A i \in 1..(n + 1) : start[i] \in 0..len
    BY <1>4
  <2>2. \A i \in 1..(n + 2) : (IF i <= n + 1 THEN start[i] ELSE len + Len(q)) \in 0..(len + Len(q))
    BY <2>1, <1>2
  <2> QED  BY <2>1, <2>2, <1>2
<1>8. \A i, j \in 1..(n + 2) : i <= j => next[i] <= next[j]
  <2> SUFFICES ASSUME NEW i \in 1..(n + 2), NEW j \in 1..(n + 2), i <= j
               PROVE  next[i] <= next[j]
    BY Zenon
  <2>1. CASE j <= n + 1
    <3>1. i \in 1..(n + 1) /\ j \in 1..(n + 1)
      BY <2>1, <1>2
    <3> QED  BY <3>1, <1>4, <1>7
  <2>2. CASE j > n + 1
    <3>1. j = n + 2 /\ next[i] \in 0..(len + Len(q))
      BY <2>2, <1>2, <1>7
    <3> QED  BY <3>1, <1>2, <1>7
  <2> QED  BY <2>1, <2>2, <1>2
<1>9. ASSUME NEW i \in 1..(n + 1)
      PROVE  SubSeq(rx', next[i] + 1, next[i + 1]) = Eth!Queued(wire'[i])
  <2>1. CASE i = n + 1
    <3>1. next[i] = len /\ next[i + 1] = len + Len(q)
      <4>1. i + 1 = n + 2 /\ n + 1 \in 1..(n + 1)
        BY <2>1, <1>2
      <4> QED  BY <4>1, <2>1, <1>4, <1>7
    <3>2. SubSeq(rx \o q, len + 1, len + Len(q)) = q
      BY <1>2, PartAtEnd, Zenon DEF len
    <3> QED  BY <2>1, <3>1, <3>2, <1>1, <1>5, Zenon DEF q
  <2>2. CASE i # n + 1
    <3>1. i \in 1..n /\ i \in 1..(n + 1) /\ i + 1 \in 1..(n + 1) /\ i <= i + 1
      BY <2>2, <1>2
    <3>2. /\ next[i] = start[i] /\ next[i + 1] = start[i + 1]
          /\ start[i] \in Nat /\ start[i + 1] \in start[i]..len
      BY <3>1, <1>2, <1>4, <1>7
    <3>3. SubSeq(rx \o q, start[i] + 1, start[i + 1]) = SubSeq(rx, start[i] + 1, start[i + 1])
      <4>1. start[i] \in Nat /\ start[i + 1] \in start[i]..Len(rx)
        BY <3>2 DEF len
      <4> QED  BY <4>1, <1>2, PartOfLonger, Zenon
    <3> QED  BY <3>1, <3>2, <3>3, <1>1, <1>4, <1>5, Zenon
  <2> QED  BY <2>1, <2>2, Zenon
<1>10. next[1] = 0 /\ (n + 1) + 1 = n + 2
  BY <1>2, <1>4, <1>7
<1>11. Starts(next)'
  BY <1>5, <1>6, <1>7, <1>8, <1>9, <1>10, Zenon DEF Starts
<1> QED  BY <1>1, <1>5, <1>6, <1>11 DEF EthInv, Eth!HandedIntact, Eth!SentIntact

LEMMA TransmitKeeps ==
  ASSUME EthInv, NEW f \in Eth!Frames, Eth!Transmit(f)
  PROVE  EthInv'
<1>1. /\ rx' = rx /\ wire' = wire /\ handed' = handed
      /\ sent' = [frame |-> f,
                  out |-> Eth!Transmitted(<<Eth!FirstWord(f)>> \o Eth!WordsFrom(f, 3))]
  BY DEF Eth!Transmit
<1>2. sent' = [frame |-> f, out |-> f]
  BY <1>1, TransmittedIs
<1>3. Eth!SentIntact'
  BY <1>2 DEF Eth!SentIntact
<1> QED  BY <1>1, <1>3, Zenon DEF EthInv, Starts, Eth!HandedIntact

LEMMA ReceiveKeeps ==
  ASSUME EthInv, Eth!Receive
  PROVE  EthInv'
<1> DEFINE n == Len(wire)
           len == Len(rx)
           f == wire[1]
           q == Eth!Queued(f)
<1>1. /\ wire \in Seq(Eth!Frames) /\ rx \in Seq([1..4 -> Byte]) /\ rx # <<>>
      /\ n \in Nat /\ len \in Nat /\ len >= 1
  BY DEF EthInv, Eth!Receive
<1>2. PICK start : Starts(start)
  BY DEF EthInv
<1>3. /\ start \in [1..(n + 1) -> 0..len] /\ start[1] = 0 /\ start[n + 1] = len
      /\ \A i, j \in 1..(n + 1) : i <= j => start[i] <= start[j]
      /\ \A i \in 1..n : SubSeq(rx, start[i] + 1, start[i + 1]) = Eth!Queued(wire[i])
  BY <1>2 DEF Starts
<1>4. n >= 1 /\ f \in Eth!Frames /\ Head(wire) = f
  <2>1. n # 0
    BY <1>1, <1>3, SMTT(20)
  <2> QED  BY <2>1, <1>1
<1>5. /\ q \in Seq([1..4 -> Byte]) /\ Len(q) = Eth!WordsRead(Len(f) + 6) /\ Len(q) >= 1
      /\ q[1][1] = Len(f) + 6
  BY <1>4, QueuedIs
<1> HIDE DEF n, len, f, q
<1> DEFINE k == start[2]
<1>6. /\ k \in 0..len /\ k \in Nat /\ SubSeq(rx, 1, k) = q
  <2>1. 1 \in 1..n /\ 1 \in 1..(n + 1) /\ 2 \in 1..(n + 1) /\ 0 + 1 = 1 /\ 1 + 1 = 2
    BY <1>1, <1>4
  <2>2. k \in 0..len /\ SubSeq(rx, start[1] + 1, start[1 + 1]) = q
    BY <2>1, <1>3, Zenon DEF f, q
  <2> QED  BY <2>1, <2>2, <1>1, <1>3
<1> HIDE DEF k
<1>7. Len(q) = k /\ rx[1] = q[1]
  <2>1. 0 \in Nat /\ k \in 0..Len(rx) /\ 0 + 1 = 1
    BY <1>6 DEF len
  <2>2. /\ Len(SubSeq(rx, 0 + 1, k)) = k - 0
        /\ \A j \in 1..(k - 0) : SubSeq(rx, 0 + 1, k)[j] = rx[0 + j]
    BY <2>1, <1>1, PartIs, Zenon
  <2>3. k - 0 = k /\ SubSeq(rx, 0 + 1, k) = q
    BY <2>1, <1>6
  <2>4. Len(q) = k
    BY <2>2, <2>3, Zenon
  <2>5. 1 \in 1..(k - 0)
    BY <2>3, <2>4, <1>5, <1>6
  <2> QED  BY <2>1, <2>2, <2>3, <2>4, <2>5
<1>8. rx[1][1] = Len(f) + 6 /\ Eth!WordsRead(rx[1][1]) = k
  BY <1>5, <1>7
<1> DEFINE buf == Eth!Copied(Eth!Bytes(q), Len(f) + 6)
<1>9. /\ rx' = SubSeq(rx, k + 1, len) /\ wire' = Tail(wire) /\ sent' = sent
      /\ handed' = [frame |-> f, got |-> IF Eth!IsOwn(buf) THEN <<>> ELSE buf]
  BY <1>4, <1>6, <1>8, Zenon DEF Eth!Receive, len
<1>10. /\ buf = SubSeq(f, 1, Eth!Least(Len(f), MaxFrameSize))
       /\ Eth!IsOwn(buf) <=> f[AddrLen + 1] = Mac
  BY <1>4, CopiedIs, Zenon DEF q
<1> HIDE DEF buf
<1>11. Eth!HandedIntact'
  <2>1. handed'.frame = f /\ handed'.got = IF Eth!IsOwn(buf) THEN <<>> ELSE buf
    BY <1>9
  <2> QED  BY <2>1, <1>10, Zenon DEF Eth!HandedIntact
<1>12. /\ wire' \in Seq(Eth!Frames) /\ Len(wire') = n - 1
       /\ \A i \in 1..(n - 1) : wire'[i] = wire[i + 1]
  <2>1. wire # <<>>
    BY <1>1, <1>4 DEF n
  <2> QED  BY <2>1, <1>1, <1>9 DEF n
<1>13. rx' \in Seq([1..4 -> Byte]) /\ Len(rx') = len - k
  <2>1. k \in Nat /\ len \in k..Len(rx)
    BY <1>1, <1>6 DEF len
  <2>2. SubSeq(rx, k + 1, len) \in Seq([1..4 -> Byte]) /\ Len(SubSeq(rx, k + 1, len)) = len - k
    BY <2>1, <1>1, PartIs, Zenon
  <2> QED  BY <2>2, <1>9, Zenon
<1> PICK next : next = [i \in 1..n |-> start[i + 1] - k]
  BY Zenon
<1>14. ASSUME NEW i \in 1..n
       PROVE  /\ i + 1 \in 1..(n + 1) /\ start[i + 1] \in k..len
              /\ next[i] = start[i + 1] - k /\ next[i] \in 0..(len - k)
  <2>1. i + 1 \in 1..(n + 1) /\ 2 \in 1..(n + 1) /\ 2 <= i + 1
    BY <1>1, <1>4
  <2>2. start[i + 1] \in 0..len /\ k <= start[i + 1]
    BY <2>1, <1>3 DEF k
  <2>3. \A x \in 0..len : k <= x => x \in k..len /\ x - k \in 0..(len - k)
    BY <1>1, <1>6
  <2>4. next[i] = start[i + 1] - k
    BY Zenon
  <2> QED  BY <2>1, <2>2, <2>3, <2>4, Zenon
<1>15. next \in [1..n -> 0..(len - k)]
  BY <1>14, Zenon
<1>16. next[1] = 0 /\ next[n] = len - k /\ (n - 1) + 1 = n
  <2>1. 1 \in 1..n /\ n \in 1..n /\ 1 + 1 = 2 /\ k - k = 0 /\ (n - 1) + 1 = n
    BY <1>1, <1>4, <1>6
  <2> QED  BY <2>1, <1>3, <1>14 DEF k
<1>17. \A i, j \in 1..n : i <= j => next[i] <= next[j]
  <2> SUFFICES ASSUME NEW i \in 1..n, NEW j \in 1..n, i <= j
               PROVE  next[i] <= next[j]
    BY Zenon
  <2>1. i + 1 <= j + 1
    BY <1>1
  <2>2. start[i + 1] <= start[j + 1]
    BY <2>1, <1>3, <1>14, Zenon
  <2>3. \A x, y \in k..len : x <= y => x - k <= y - k
    BY <1>1, <1>6
  <2> QED  BY <2>2, <2>3, <1>14, Zenon
<1>18. ASSUME NEW i \in 1..(n - 1)
       PROVE  SubSeq(rx', next[i] + 1, next[i + 1]) = Eth!Queued(wire'[i])
  <2>1. i \in 1..n /\ i + 1 \in 1..n /\ i + 1 <= (i + 1) + 1
    BY <1>1
  <2> DEFINE a == start[i + 1]
             b == start[(i + 1) + 1]
  <2>2. a \in k..len /\ b \in k..len /\ next[i] = a - k /\ next[i + 1] = b - k
    BY <2>1, <1>14, Zenon
  <2>3. a <= b
    BY <2>1, <1>3, <1>14, Zenon
  <2>4. SubSeq(rx, a + 1, b) = Eth!Queued(wire[i + 1])
    BY <2>1, <1>3, Zenon
  <2> HIDE DEF a, b
  <2>5. b \in a..len /\ k \in 0..len
    BY <2>2, <2>3, <1>1, <1>6
  <2>6. SubSeq(SubSeq(rx, k + 1, len), (a - k) + 1, b - k) = SubSeq(rx, a + 1, b)
    BY <2>2, <2>5, <1>1, PartOfRest, Zenon DEF len
  <2> QED  BY <2>2, <2>4, <2>6, <1>9, <1>12, Zenon
<1>19. Starts(next)'
  BY <1>12, <1>13, <1>15, <1>16, <1>17, <1>18, Zenon DEF Starts
<1>20. Eth!SentIntact'
  BY <1>9 DEF EthInv, Eth!SentIntact
<1> QED  BY <1>11, <1>12, <1>13, <1>19, <1>20, Zenon DEF EthInv

LEMMA EthInitially == Eth!Init => EthInv
<1> SUFFICES ASSUME Eth!Init PROVE EthInv
  OBVIOUS
<1>1. rx = <<>> /\ wire = <<>> /\ handed = NoFrame /\ sent = NoFrame
  BY DEF Eth!Init
<1> PICK start : start = [i \in 1..1 |-> 0]
  BY Zenon
<1>2. start \in [1..1 -> 0..0] /\ start[1] = 0
  OBVIOUS
<1>3. Len(rx) = 0 /\ Len(wire) = 0 /\ 0 + 1 = 1
  BY <1>1
<1>4. \A i, j \in 1..1 : start[i] <= start[j]
  BY <1>2
<1>5. 1..0 = {}
  OBVIOUS
<1>6. Starts(start)
  BY <1>2, <1>3, <1>4, <1>5 DEF Starts
<1> QED  BY <1>1, <1>6 DEF EthInv, Eth!HandedIntact, Eth!SentIntact

LEMMA OnlyEthernetSteps == [DemoNext]_demoVars => Eth!Next \/ UNCHANGED ethVars
BY DEF DemoNext, ClocksStep, MainLoopStep, SysTickStep, NetStep, EthernetStep, demoVars

\* Whatever the lengths of the frames and however many wait in the controller, the
\* driver never reads a frame askew, the stack gets every frame of another device
\* whole and none of its own, and what it sends goes out unchanged
\* (Lm3sRxToken::consume, Lm3sTxToken::consume).
THEOREM FramesStayIntact == DemoSpec => []FramesIntact
<1>1. DemoInit => EthInv
  BY EthInitially DEF DemoInit
<1>2. EthInv /\ [DemoNext]_demoVars => EthInv'
  <2> SUFFICES ASSUME EthInv, Eth!Next \/ UNCHANGED ethVars PROVE EthInv'
    BY OnlyEthernetSteps
  <2>1. CASE Eth!Next
    BY <2>1, ReceiveKeeps, ArriveKeeps, TransmitKeeps DEF Eth!Next
  <2>2. CASE UNCHANGED ethVars
    BY <2>2, Zenon DEF ethVars, EthInv, Starts, Eth!HandedIntact, Eth!SentIntact
  <2> QED  BY <2>1, <2>2
<1>3. EthInv => FramesIntact
  <2> SUFFICES ASSUME EthInv PROVE Eth!QueueAligned /\ Eth!HandedIntact /\ Eth!SentIntact
    BY DEF FramesIntact
  <2>1. PICK start : Starts(start)
    BY DEF EthInv
  <2>2. Eth!QueueAligned
    BY <2>1, Zenon DEF Starts, Eth!QueueAligned
  <2> QED  BY <2>2 DEF EthInv
<1> QED  BY <1>1, <1>2, <1>3, PTL DEF DemoSpec
=============================================================================
