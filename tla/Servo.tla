------------------------------- MODULE Servo -------------------------------
(***************************************************************************)
(* The servos (servo.rs) at work on the clock of the daemon                *)
(* (virtualclock.rs) and on the port state that owns them (uncalibrated.rs,*)
(* slave.rs).                                                              *)
(*                                                                         *)
(* Time is counted in units, Scale of them in a second.  The oscillator of *)
(* the clock ticks once a second of its own; the master advances by        *)
(* Scale - Error units per tick, so that a clock at the nominal rate of    *)
(* Scale units per tick gains Error.  Rates and drifts, which are floating *)
(* point in the code, are in units per tick, rounded down.                 *)
(***************************************************************************)
EXTENDS Integers

CONSTANTS Strategies,       \* "Stepping", "PI" or both
          Scale, Error,     \* of the clocks, see above
          Offsets,          \* where the local clock may stand when it starts
          Noise,            \* by how much a measurement may be wrong
          FirstThreshold,   \* of the StepPolicy; 0 is Disabled
          Threshold,        \* of the StepPolicy; 0 is Disabled
          DriftMin, DriftMax, MinDelta,   \* of the ServoDriftEstimate
          Kp, Ki, Gain,     \* of the PiLoop: kp is Kp / Gain, ki is Ki / Gain
          Repeats,          \* how often a FollowUp may be repeated
          MaxTicks,         \* bound on the time
          None

ASSUME ServoAssumption ==
  /\ Strategies \subseteq {"Stepping", "PI"} /\ Repeats \in Nat
  /\ Scale \in Nat \ {0} /\ Gain \in Nat \ {0} /\ Error \in Int /\ Error < Scale
  /\ Offsets \subseteq Nat /\ Noise \subseteq Int
  /\ FirstThreshold \in Nat /\ Threshold \in Nat /\ MinDelta \in Nat
  /\ DriftMin \in Int /\ DriftMax \in Int /\ Kp \in Nat /\ Ki \in Nat
  /\ MaxTicks \in Nat
  /\ None \notin Int /\ None \notin [ingress : Int, offset : Int, base : Nat, copies : Nat]

VARIABLES
  strategy, \* the servo that the host configured
  now,      \* StdInstant::now, in ticks of the oscillator
  clock,    \* VirtualClock: base ts at tick start, and rate
  servo,    \* PiServo: state, whether the first threshold is to be used, baseline, integral
  role,     \* "Uncalibrated" or "Slave"
  sync,     \* the sample that the FollowUp will complete
  steps,    \* history: how often the clock was stepped
  heard,    \* history: the tick of the last Sync
  fed,      \* history: the last sample fed since the servo was built or stepped
  first,    \* history: the first such sample
  again     \* history: a FollowUp was repeated since the servo was built

vars == <<strategy, now, clock, servo, role, sync, steps, heard, fed, first, again>>

Abs(n) == IF n < 0 THEN -n ELSE n

----------------------------------------------------------------------------
(* VirtualClock *)

\* VirtualClock::now.  A negative remainder is cast to zero nanoseconds, and what
\* would be before the epoch falls back to the base.
ClockNow ==
  LET dt == (now - clock.start) * clock.rate
      whole == IF dt >= 0 THEN dt ELSE -(((-dt) \div Scale) * Scale)
  IN IF clock.ts + whole < 0 THEN clock.ts ELSE clock.ts + whole

Step(to) == [clock EXCEPT !.ts = to, !.start = now]

\* Seeded fault: the new rate is applied to the time since the last adjustment too.
AdjustInPlace(rate) == [clock EXCEPT !.rate = rate]

Adjust(rate) == [ts |-> ClockNow, start |-> now, rate |-> rate]

MasterNow == now * (Scale - Error)

----------------------------------------------------------------------------
(* The servos *)

NewServo == [state |-> "Unlocked", initial |-> TRUE, baseline |-> None, integral |-> 0]

\* ServoSample::master_estimate
MasterEstimate(s) == IF s.ingress - s.offset >= 0 THEN s.ingress - s.offset ELSE None

\* ServoThreshold::exceeded_by
ExceededBy(threshold, s) == threshold > 0 /\ Abs(s.offset) > threshold

\* StepPolicy::should_step
ShouldStep(s) ==
  /\ MasterEstimate(s) # None
  /\ (servo.initial /\ ExceededBy(FirstThreshold, s)) \/ ExceededBy(Threshold, s)

\* ServoSample::drift
DriftSince(b, s) == ((s.offset - b.offset) * Scale) \div (s.ingress - b.ingress)

\* Drift::clamp and Drift::as_rate
Clamp(d) == IF d < DriftMin THEN DriftMin ELSE IF d > DriftMax THEN DriftMax ELSE d
AsRate(d) == Scale + d

Estimated(baseline, drift) == [baseline |-> baseline, drift |-> drift]

\* Seeded fault: a sample too close to the baseline takes its place.
EstimateMoves(b, s) ==
  IF b = None \/ s.ingress - b.ingress < MinDelta THEN Estimated(s, None)
  ELSE Estimated(s, Clamp(DriftSince(b, s)))

\* ServoDriftEstimate::estimate: the baseline it leaves and the drift it finds.
Estimate(b, s) ==
  IF b = None THEN Estimated(s, None)
  ELSE IF s.ingress <= b.ingress THEN Estimated(None, None)
  ELSE IF s.ingress - b.ingress < MinDelta THEN Estimated(b, None)
  ELSE Estimated(s, Clamp(DriftSince(b, s)))

\* PiServo::calibrate
Calibrate(s) ==
  LET e == Estimate(servo.baseline, s)
      becomes(state, baseline) ==
        servo' = [servo EXCEPT !.state = state, !.initial = FALSE, !.baseline = baseline]
  IN IF e.drift = None
     THEN becomes("Calibrating", e.baseline) /\ UNCHANGED clock
     ELSE becomes("Locked", None) /\ clock' = Adjust(AsRate(e.drift))

\* PiLoop::feed
PiLoop(s) ==
  LET integral == servo.integral + s.offset IN
    /\ servo' = [servo EXCEPT !.initial = FALSE, !.integral = integral]
    /\ clock' = Adjust(Scale - (Kp * s.offset + Ki * integral) \div Gain)

\* Seeded fault: a step leaves the baseline of the drift estimate.
StepKeepsBaseline(s) ==
  /\ clock' = Step(MasterEstimate(s))
  /\ servo' = [NewServo EXCEPT !.initial = FALSE, !.baseline = servo.baseline]

\* PiServo::step: the PI loop and the drift estimate start over, the rate stays.
StepServo(s) ==
  /\ clock' = Step(MasterEstimate(s))
  /\ servo' = [NewServo EXCEPT !.initial = FALSE]

\* PiServo::feed
FeedPi(s) ==
  IF ShouldStep(s)
  THEN StepServo(s) /\ steps' = steps + 1 /\ fed' = None /\ first' = None
  ELSE /\ IF servo.state = "Locked" THEN PiLoop(s) ELSE Calibrate(s)
       /\ fed' = s
       /\ first' = IF first = None THEN s ELSE first
       /\ UNCHANGED steps

\* SteppingServo::feed; it has no state, and servo.state is what it returned.
FeedStepping(s) ==
  /\ IF MasterEstimate(s) = None
     THEN servo' = [servo EXCEPT !.state = "Unlocked"] /\ UNCHANGED <<clock, steps>>
     ELSE /\ servo' = [servo EXCEPT !.state = "Locked"]
          /\ clock' = Step(MasterEstimate(s))
          /\ steps' = steps + 1
  /\ UNCHANGED <<fed, first>>

\* Seeded fault: Slave does not report a servo that lost its lock.
FollowServoUp == role' = IF servo'.state = "Locked" THEN "Slave" ELSE role

\* What process_follow_up decides: MasterClockSelected in Uncalibrated on Locked,
\* SynchronizationFault in Slave on anything else.
FollowServo == role' = IF servo'.state = "Locked" THEN "Slave" ELSE "Uncalibrated"

----------------------------------------------------------------------------

\* A Sync of the master arrives: its sample, once the FollowUp is there.  The
\* Syncs of a master are a tick apart or more.
SyncArrives ==
  /\ heard < now
  /\ heard' = now
  /\ \E e \in Noise :
       sync' = [ingress |-> ClockNow, offset |-> ClockNow - MasterNow + e,
                base |-> steps, copies |-> Repeats]
  /\ UNCHANGED <<strategy, now, clock, servo, role, steps, fed, first, again>>

\* The FollowUp arrives, perhaps later, perhaps again: Servo::feed
FollowUpArrives ==
  /\ sync # None
  /\ IF strategy = "PI" THEN FeedPi(sync) ELSE FeedStepping(sync)
  /\ FollowServo
  /\ sync' = IF sync.copies = 0 THEN None ELSE [sync EXCEPT !.copies = @ - 1]
  /\ again' = (again \/ sync.copies < Repeats)
  /\ UNCHANGED <<strategy, now, heard>>

\* A new parent: profile.uncalibrated builds a new servo; the clock goes on.
NewParent ==
  /\ role' = "Uncalibrated"
  /\ servo' = NewServo
  /\ sync' = None /\ fed' = None /\ first' = None /\ again' = FALSE
  /\ UNCHANGED <<strategy, now, clock, steps, heard>>

Tick ==
  /\ now < MaxTicks
  /\ now' = now + 1
  /\ UNCHANGED <<strategy, clock, servo, role, sync, steps, heard, fed, first, again>>

Init ==
  /\ strategy \in Strategies
  /\ now = 0 /\ heard = -1
  /\ clock \in [ts : Offsets, start : {0}, rate : {Scale}]
  /\ servo = NewServo
  /\ role = "Uncalibrated"
  /\ sync = None /\ fed = None /\ first = None
  /\ steps = 0 /\ again = FALSE

Next == SyncArrives \/ FollowUpArrives \/ NewParent \/ Tick

Spec == Init /\ [][Next]_vars

\* Time passes.
FairSpec == Spec /\ WF_vars(Tick)

----------------------------------------------------------------------------
(* Properties *)

\* The port is in Slave exactly while its servo is locked (process_follow_up in
\* uncalibrated.rs and slave.rs).
SlaveIsLocked == role = "Slave" <=> servo.state = "Locked"

\* Unless a FollowUp was repeated, drift is never estimated across a step: the
\* baseline was measured on the clock as it is now (PiServo::step resets the drift
\* estimate).
BaselineSinceStep == servo.baseline # None /\ ~again => servo.baseline.base = steps

\* Unless a FollowUp was repeated, samples fed since the servo was built or stepped
\* that lie MinDelta apart have calibrated it, however many came in between
\* (ServoDriftEstimate::estimate).
CalibratesInTime ==
  servo.state # "Locked" /\ fed # None /\ ~again => fed.ingress - first.ingress < MinDelta

GoesForward == steps' = steps => ClockNow' >= ClockNow

\* Except by a step, the clock never goes backwards: not as time passes, and not
\* when its rate is adjusted (VirtualClock::adjust).  The rate must not be negative,
\* which holds under a step policy that leaves only small offsets to the PI loop.
ClockForward == [][GoesForward]_vars

----------------------------------------------------------------------------
(* What the documentation says and the code does not do: this fails. *)

\* How much faster than the master the local clock runs, per tick.
RateError == clock.rate - (Scale - Error)

\* Calibration brings the rate of the clock closer to that of the master, or leaves
\* it as close as it was (PiServo::calibrate).
CalibrationHelps ==
  [][servo.state # "Locked" /\ servo'.state = "Locked" => Abs(RateError') <= Abs(RateError)]_vars
=============================================================================
