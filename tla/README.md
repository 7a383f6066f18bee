# A TLA+ model of rptp

`rptp` is the core of a PTP (IEEE 1588-2019) implementation: port state
machines, the best master clock algorithm (BMCA), the end-to-end delay mechanism
and a servo, driven by a host (a Tokio daemon, or a bare-metal demo) that
delivers messages and timeouts. This directory models the behaviour of all of
these that depends on order, timing, bounds or representation, and leaves out
input and output.

## The system

| Part | State | Operations | Module |
|---|---|---|---|
| Port state machine (`portstate.rs`, one file per state, `profile.rs`) | the state, what its BMCA role tracks, its timeouts | `dispatch_event`, `dispatch_general`, `dispatch_system`, `apply` | `PtpClock` |
| BMCA (`bmca.rs`) | previous snapshot, tracked parent or grandmaster | `consider`, `decision`, `trigger`, `gated_trigger` | `Bmca`, `PtpClock` |
| Data set comparison (`dataset.rs`, `clock.rs`) | none | `compare`, `with_added_step` | `ClockDataset` |
| Foreign clock records (`foreign.rs`, `infra.rs`, `heapless.rs`) | records and their last two arrival times | `consider`, `remember`, `prune_stale`, `snapshot` | `ForeignRecords` |
| Ordinary and boundary clock (`ordinary.rs`, `boundary.rs`) | best candidate of each port | `trigger`, `notify_all` | `PtpClock` |
| Daemon loop and timeouts (`node.rs`) | a channel per port, a task per timeout | receive, restart, fire, drop | `PtpClock`, `TokioTimeouts`, `Timeouts` |
| Delay mechanism (`e2e.rs`, `slave.rs`, `uncalibrated.rs`) | latest Sync, FollowUp, DelayReq, DelayResp; DelayReq cycle | record, sample, send | `DelayMechanism`, `SyncPath` |
| Servo (`servo.rs`), virtual clock (`virtualclock.rs`) | lock state, drift baseline, integral; base, rate | feed, step, adjust | `Servo` |
| Master cycles (`master.rs`) | sequence ids, send timeouts | send, follow up, answer | `MasterPort`, `SyncPath` |
| Embedded timers (`main.rs`) | table of slots | alloc, restart, scan | `TimerSlots`, `EmbeddedDemo` |
| Embedded network (`net.rs`, `main.rs`) | packet buffers, timestamp queue | poll, send, deliver | `EmbeddedNet`, `EmbeddedDemo` |
| Embedded clocks (`main.rs`) | last reading, accumulated time | now | `EmbeddedClocks` |
| Ethernet driver (`net.rs`) | the controller's queues | receive, transmit | `EthernetDriver`, `EmbeddedDemo` |
| Wire format and ingress (`wire.rs`, `message.rs`, `port.rs`) | none | encode, parse, dispatch | `Wire` |
| Time arithmetic (`time.rs`) | none | subtract, halve, add | `TimeArithmetic` |
| Sockets, logging, demos | none | send, print | not modelled |

How the parts interact: an Announce restarts the receipt timeout of its port and
updates the records; if the best record changed, the clock stores it as the
port's candidate, computes the best of all ports (`E_best`) and sends it to every
port as a state decision event. Each port takes the event from its own channel,
later, and compares `E_best` of that time with what it hears itself *now*
(`E_rbest`). Role decorators withhold decisions that repeat what they track.
Timeouts put their messages in the same channel, and cannot take them back.

In Master a port sends Announces and Syncs on timeouts; the host stamps each Sync
as it leaves, the stamp comes back through the channel and becomes a FollowUp. In
Slave and Uncalibrated a port pairs Syncs with FollowUps and its own DelayReqs
with DelayResps by sequence id, makes a sample of both, and feeds it to the servo,
which steps or adjusts the clock; its lock state moves the port between the two.

## Modules

- **`ClockDataset`** – clock data sets, snapshots, and `Compare`, the translation
  of `ClockDS::compare` and `Topology::compare`, error results included.
  `RanksBefore` is the reference: one lexicographic key.
- **`Bmca`** – `Best` over the ports and `Decision` (M1, P1, M2, S1, P2, M3).
- **`PtpClock`** – `N` ports. Variables: `state`, `tracked`, `best_foreign`,
  `previous`, `by_port`, `timer`, `queue`, and the history variable `mark`, the
  number of messages that were already queued when the timeout was last
  restarted. One action per handler; a handler runs to completion because the
  daemon uses a current-thread runtime (`main.rs`). `Panicked` is the state of a
  port whose `apply` panicked.
- **`ForeignRecords`** – the store of one port in discrete time. A store with
  `Capacity` no less than the number of sources is `ForeignClockRecordsVec`, a
  smaller one `HeaplessForeignClockRecords`. `heard` is a history variable.
- **`DelayMechanism`** – a port in Uncalibrated or Slave, its masters, and a
  network (`net`) that keeps every datagram, so that each may arrive any number
  of times, in any order, or never. `ex` (number of the exchange) and `base`
  (number of steps of the clock so far) are history, carried by each timestamp.
- **`MasterPort`** – a port that comes and goes from Master: `announce`, `sync`
  (sequence id, timeout running), the `channel`, and the `wire` with all it sent.
- **`SyncPath`** – both of them joined: what the master put on its wire is the
  network of the slave, whose DelayReqs are the requests that the master answers.
- **`Servo`** – a servo of either strategy, the virtual clock, the role of the
  port, and a master that runs at another rate. A FollowUp may repeat (`again` is
  history: it has done so since the servo was built), which feeds a sample twice.
- **`Timeouts`** is what `port.rs` asks of a host's timeouts, in one variable per
  fact; **`TokioTimeouts`** is the daemon's implementation with tasks and join
  handles, and `KeepsPromise` the refinement.
- **`TimerSlots`** – the main loop of the embedded host, one action per phase
  (packets, scan of one slot, wait), with a tick interrupt that may come in
  between, and the port's states as users of the slots. A panic is a final role.
- **`EmbeddedNet`** – sockets of four packets, the vector that `poll` fills, the
  timestamp queue, and the port in Master as a source of sends.
- **`EmbeddedClocks`** – `InstantClock`, `CycleClock` and `as_smol_instant`,
  over counters that wrap at `Word`.
- **`EthernetDriver`** – the driver's two tokens, word by word; the controller is
  external, modelled from how the driver reads and writes it.
- **`Wire`** – a message is encoded, perhaps changed on its way (cut short,
  another version, length, type, socket, bytes behind it), parsed and dispatched.
- **`TimeArithmetic`** – four timestamps become an offset, a step and a reading, of a
  clock that runs at a rate which is not negative.
- **`EmbeddedDemo`** – the clocks, timers, sockets and driver of the embedded
  program side by side, one at a time (`part`): in the code they share the main
  loop and no variable that any of their properties is about.
- **`MCData`** – `TimeArithmetic` and two instances of `Wire`, whole messages with a
  short byte and single codes with all 256 values, one at a time in the same way.
- The other **`MC...`** – data for TLC.
- **`...Proofs`** – theorems, see below.

Operators introduced by "Seeded fault" are wrong variants of the definition that
follows them. Putting one in its place makes a property fail, which shows that the
property depends on that piece of code.

### Abstractions

- Which record is best is a choice in `PtpClock` (`\E e \in OnPort(p)`):
  any member of `Foreign` or none. `ForeignRecords` says which of these choices
  the code makes; here all are allowed, so the properties hold for any timing of
  Announces.
- Clock accuracy and variance are left out: they are two more components of a
  tuple compared lexicographically. `MaxSteps` stands for `u16::MAX`.
- Whether a sample locks the servo (`MasterClockSelected`) or unlocks it
  (`SynchronizationFault`), and whether a send fails, is a free choice.
- A restarted announce receipt timeout fires only after the messages that were
  queued at its restart were handled (`mark[p] = 0` in `Fire`). The interval is
  seconds long and the channel is drained continuously. **This is an assumption
  about the host's timing**, and `NoIllegalTransition` needs it: with a channel
  that is not drained for a whole interval, a receipt timeout can be queued
  behind the messages that take the port through PreMaster to Master.
  Qualification timeouts may take no time (M1, M2) and have no such guard.
- Units are small and named by constants: `Byte` for 256, `Word` for 2^32,
  `SeqIds` for 2^16,
  `NanosPerSecond`, `I64Max`, `Second` (units of time in one second of
  `ForeignRecords`, whose time passes in steps of `Grain`). The code is the same
  function of them; the proofs hold for all.
- Rates and drifts in `Servo` are integers per tick, rounded down. Its properties
  are about signs, resets and order, not about precision.
- Announce intervals are declared by the sources in `ForeignRecords` and may
  change. A record is judged by the window it last declared, so a source that
  slows down may be pruned, by an Announce of another source, before its next
  Announce says so.
- In `MasterPort` a receipt timeout comes when the channel is empty: seconds of
  silence suffice to handle what was in it.
- The embedded program takes several `&mut` to the same slots; the model takes
  them for what they do to memory in order.
- `FaultCleared` is delivered by no host in the repository. `FaultsClear = TRUE`
  models a host that does, and then delivers `Initialized` again.

## Runs

| Run | Instance | Shows |
|---|---|---|
| `boundary` | 2 ports, direct and relayed path to a grandmaster, faults clear | `NoIllegalTransition`, `Settled` (ports without pending events have the roles of one decision), `AtMostOneSlave`, `NeverStranded`, `BestRanksFirst`, `TypeOK` |
| `settles` | 2 ports, better and worse master, faults stay, `FairSpec` | `ListeningDecides`, and the liveness properties `Converges` (roles come to rest) and `MasterInSilence` (receipt timeouts are not lost) |
| `silent_parent` | 1 port, `FairReceiptSpec` | **violated**: `SilentMasterForgotten` |
| `records` | 3 sources, room for 2; one degrades, one changes its interval | `SnapshotIsFirst`, `QualifiedByTwo`, `PunctualIsCandidate`, `Bounded`, `OnlyWorstEvicted` |
| `delay` | 2 masters, 2 changes of parent, a step of the clock, other requesters | `SampleFromParent`, `SampleTimeIsSync`, `SameSyncExchange`, `RequestsContinue` |
| `path` | a master that comes and goes up to four times, and a slave for the first two | `CyclesContinue`, `FollowsItsSync`, `PathPairs`, and `SyncFollowedUp` (liveness) |
| `terms` | the same, twice at most | **violated**: `PathPairsAlways` |
| `servo` | both strategies, a slow clock, offsets below and above both thresholds, a repeated sample | `SlaveIsLocked`, `BaselineSinceStep`, `CalibratesInTime`, `ClockForward` |
| `calibration` | PI, a clock that gains, no noise | **violated**: `CalibrationHelps` |
| `tokio` | 2 handles, 2 messages, 4 tasks | `NoOrphanTask`, and `KeepsPromise`: the daemon's timeouts implement `Timeouts`, fairness included |
| `embedded` | four parts of the embedded program | `RoleSettled`, `DecisionsHandled` (liveness), `RequestsReachPort`, `SendsFit`, `FramesIntact`, `InstantTracksTime`, `CyclesTrackTime` |
| `data` | all timestamps of a small range; every message and every change on its way | `OffsetExact`, `StepExact`, `ReadingExact`, `RoundTrip`, `OwnOrRefused` |

`CHECK_DEADLOCK FALSE` is said where a run may really stop: a clock all of whose
ports have failed (`FaultyPort` is a dead end in the hosts of the repository, runs
with `FaultsClear = FALSE`), an embedded program that has panicked, and a model
whose bounded counters are used up (`delay`, `path`, `servo`). `boundary`,
`records`, `tokio` and `data` check that there is no deadlock.

### Bounds

- *Clock.* Two ports are the least that can disagree, and suffice for S1, P2 and M3
  to occur together (the grandmaster is heard twice, at different distance). A
  queue of two holds an event and a timeout in either order; `MaxQueue` (`Room`)
  restrains only Announces and expiring timeouts, so a handler is never blocked
  and queues grow beyond it while events are handled. `MaxSteps = 3` is one more
  than the relayed step count after `WithAddedStep`. The roles of an authoritative
  clock (M1, P1) do not occur with the local data set of the runs; theorem
  `PortsAgree` covers them, as it holds for every local data set.
- *Records.* Time is long enough for a record to qualify, go stale, be pruned and
  come back, with one fast and one normal interval. Room for two and three sources
  makes the store evict. A store with room for all (`ForeignClockRecordsVec`) has
  the behaviours in which only two sources announce.
- *Delay, path.* Two Syncs are what it takes to combine the wrong ones; each
  datagram may arrive any number of times. `delay` has one
  DelayReq, which both masters may answer, and `path` two; the theorems about samples
  hold for any number. With two ids (`SeqIds`) the ports of `path` come to the wrap and
  not past it: a message that arrives 2^16 exchanges late is paired with a younger one,
  and `PathPairs` says so. The masters of `delay` are other devices, and use no id
  twice. Two entries to Master let ids be used twice. For a timestamp of one term to be
  answered in the next, a qualification timeout has to be ahead of it in the channel,
  which takes four decisions (`MaxEntries = 4`); with fewer it never happens. The slave
  takes part up to `MaxHeard = 2` of them, and beyond that the master goes on alone,
  because the product of both is too large. Theorems `FollowUpsFollow` and
  `PathKeepsMaster` cover any number of terms, with and without a slave.
- *Servo.* The offsets lie below the thresholds, between the first and the later
  one, and above both. The thresholds, gains and the
  minimum interval are constants of the model, not of the code.
- *Tokio.* Two handles and four tasks: each can be restarted while its old task is
  being woken.
- *Embedded.* Ten slots suffice for a few transitions; the program panics when they
  are used up, and the properties are about the port until then.
  Buffers have the sizes of the code (4 packets, 8 timestamps). Frames have every
  length modulo a word, one of them too long. Counters wrap several times (16 values, 40 ticks).
- *Data.* Seconds of three nanoseconds make borrow, carry and odd halves frequent;
  `I64Max = 9` is reached by differences of timestamps.

### Fairness

- `FairSpec` of `PtpClock`: the loop delivers `Initialized` and takes every queued
  message (an unbounded channel in a `select!` loop), and a qualification timeout
  expires. An announce receipt timeout is restarted by every Announce, so its
  expiry is fair only where Announces have stopped: `ReceiptFair`, a hypothesis of
  `MasterInSilence` and a conjunct of `FairReceiptSpec`. It is strong fairness
  because the bound on the queue, which the code does not have, may disable `Fire`.
  `Steady` and `Silence` are hypotheses of the properties, not of the specification.
- `PathSpec`: the master's port takes what is in its channel. Nothing is assumed of
  the network.
- `TokioTimeouts`: the runtime polls a task whose sleep has ended, and the loop
  takes messages.
- `EmbeddedDemo`: the main loop goes round (`loop` without a blocking call but
  `wfi`), and the tick interrupt, which ends a `wfi`, comes.
- `Servo` (`FairSpec`, only for `CalibrationHelps`): time passes.

## Findings

With a run each:

1. *A silent master is never forgotten* (`silent_parent`). `prune_stale` is
   called only when an Announce is considered. After the last Announce, the
   receipt timeout makes the port master and triggers a state decision event with the stale
   record; the port follows the dead master until the next timeout, and so on.
2. *Ids start again in each term as master* (`terms`). A slave that hears a master
   leave Master and return combines a FollowUp of the first term with a Sync of
   the second: `FollowUpMessage::master_slave_offset` compares ids only.
3. *Calibration has the wrong sign* (`calibration`). The drift is estimated as
   the growth of the offset, positive for a clock that gains, and applied as the
   rate `1 + drift`, which makes that clock faster. The PI loop subtracts.

Further places where the code differs from what its documentation says. Each is
stated as a property at the end of its module, under "What the documentation says
and the code does not do"; a configuration with the constants given shows the
violation.

| Property | Constants | What happens |
|---|---|---|
| `ExpiryMeansSilence` (`PtpClock`) | as `silent_parent`, `Spec` | a receipt timeout already in the channel when an Announce restarts it is still handled |
| `QualifiedByLatest` (`PtpClock`) | as `settles`, `MaxQueue = 3`, `Spec` | the queued qualification timeout of an earlier recommendation qualifies a later one |
| `BestFirst` (`ForeignRecords`) | as `records` | the stores are not kept sorted, though both say so; `snapshot` does not depend on it |
| `SameDelayExchange` (`DelayMechanism`) | as `delay`; or `Masters = {m1}`, `Others = FALSE`, `SeqIds = 2`, `MaxClockSteps = 0`, `MaxSync = 1`, `MaxReq = 2`, `MaxSessions = 2` | DelayReq ids start at 0 in every session, and `requesting_port_identity` is parsed and not compared: the response to another request with the same id is used |
| `SameTimeBase` (`DelayMechanism`) | as `delay` | a step resets the servo and not the delay mechanism: a Sync after the step is combined with a DelayReq stamped before it |
| `FollowsLastSync` (`MasterPort`) | `SeqIds = 2`, `MaxSync = 2`, `MaxAnnounce = 0`, `MaxAnswers = 0`, `Requests = {}`, `MaxEntries = 4` | a timestamp left from the last term is answered after a new Sync with the same id |
| `ClockForward` (`Servo`) | as `calibration`, `Offsets = {100}`, both thresholds 0 | the rate of the PI loop is not bounded; with stepping disabled a large offset makes it negative, and the virtual clock runs backwards |
| `LegalTransitions` (`TimerSlots`) | `Masters = {m1}`, `Foreign = {m1, "worse", "none"}`, `ReceiptTicks = 2`, `CycleTicks = 1`, `MaxPackets = 1`, `MaxLag = 1`, `MaxTimers = 8` | dropping a timeout does nothing: the receipt timeout of a state left long ago fires in Master, where `apply` panics |
| `SlotsSuffice` (`TimerSlots`) | the same, `MaxTimers = 16` | slots are never freed, and a master that comes and goes uses up the table |
| `ZeroFiresAtOnce` (`TimerSlots`) | the same, `MaxTimers = 8` | a timer restarted with no delay after a tick, or behind the scan, fires in the next iteration |
| `SilenceBeforeMaster` (`TimerSlots`) | the same | the timeout of a former state makes the port master just after an Announce |
| `SmolInstantExact` (`EmbeddedClocks`) | as `embedded` | `ticks * 10_000` overflows `u32` after 71.6 minutes, not 497 days |

## Proofs

All of these hold for every value of the constants (numbers of ports, masters,
handles, messages and ids, bounds, sizes of buffers, widths of counters, lengths of a
second). Assumptions on constants are the named `ASSUME`s of the component modules,
which TLC evaluates in the runs; what a theorem assumes beyond them is in its statement.

### The clock (`PtpClockProofs`, `ClockDatasetProofs`)

- `TypeCorrect`, `TransitionsLegal`. The invariant `SafetyInv` adds to the type
  invariant that a timeout belongs to the state it is armed in (`TimerOwned`), and that
  no receipt timeout waits for a port in Master, or behind a timeout that would take the
  port there, while those queued when the armed one was restarted are gone before it
  fires (`QueuesOrdered`). Without it the legality of `apply` is not inductive: it
  depends on the messages ahead of the timeout.
- `PortsAgree`, `OneSlave`. `AgreementInv` says that the candidates are what the ports
  hear, that the last event in each queue carries the current `E_best`, and that a port
  without events has the role decided from it.
- `NoPortStranded`, `ListeningMovesOn`: each has an inductive invariant of its own
  (`StrandedInv`, `ListeningInv`). The second assumes `FaultsClear = FALSE`: a port
  that recovers from a fault listens with an old record and no event.
- `BestIsFirst` assumes `SoundNetwork`: the masters agree on what they say of a
  grandmaster, and none is a port of this clock. The scan of `best()` is a recursive
  function; the proof shows by induction on the port number that it holds the first of
  the candidates so far, which is where the comparison has to be transitive.
- `ComparisonRanks`, `RankingIsStrictOrder`: for data sets whose attributes agree when
  their grandmaster does, and that no port received from itself, the comparison is a
  strict lexicographic order.

### The records (`ForeignRecordsProofs`)

`StoreBounded`, `QualifiedHeardTwice`, `SnapshotRanksFirst`, `PunctualQualifies`, and the
action property `EvictsTheWorst`. The invariant relates the store to the history of
Announces both ways: the times of a record are the last at which its source was heard
(`RecordsHeard`), and as long as all sources heard fit in the store, each one heard within
its window has a record (`HeardRecorded`). The scans of `remember` and `snapshot` are recursive
functions, and lemmas say which record each of them returns, whatever the order of the
store. The receiving port is not a source (`ForeignRecordsAssumption`).

### Master, slave and servo (`DelayMechanismProofs`, `SyncPathProofs`, `ServoProofs`)

- `SamplesFromParent`, `SampleTimeOfSync`, `SyncExchangesAreOne`, `RequestsNeverStop`.
  The invariant says that a master's id stands for one exchange (`Numbered`), that every
  fragment in the mechanism came from the present parent (`Tracked`), and that `ingress`
  is the time of the Sync that the next sample would use (`Timed`). The third theorem
  needs what is built into the model's masters, that ids are used once; finding 2 shows
  it to be necessary.
- `CyclesNeverStop`, `FollowUpsFollow`, and `PathKeepsMaster` with the slave as the
  source of requests. The invariant relates the wire, the timestamps in the channel and
  the number of Syncs: a timestamp in the channel is that of a Sync on the wire that is
  not followed up yet, and no two are of the same Sync, in all terms (`Stamped`).
- `PathPairsExchanges`. `PathInv` follows the ids through both ports and the network:
  in the master's first term, while no id was used twice, the id of every Sync and
  FollowUp, in the channel, on the wire and in the slave, is the number of its exchange
  (`SyncsCount`, `SyncsCountAtSlave`); likewise for DelayReqs and their answers
  (`DelaysCount`). Messages with equal ids then belong to one exchange.
- `SlaveFollowsLock`, `NoDriftAcrossStep`. The invariant adds that a Sync whose
  FollowUp is due was stamped by the clock as it is now (`PendingIsFresh`), and that a
  servo that was fed nothing has no baseline (`NothingFed`).
- `AdjustIsSeamless`: no adjustment moves the reading. `ClockGoesForward` follows for a
  clock whose rate is never negative, a hypothesis that the PI loop does not keep by
  itself (see `ClockForward` above).
- `CalibrationEnds`, for a positive minimum interval and a clock whose rate stays
  positive. `ComparesWithFirst` says that until it locks the servo compares every sample
  with the first, and that samples come in the order of their Syncs.
- `OffsetIsExact`, `StepIsExact`, `ReadingIsExact`: the pairs of seconds and
  nanoseconds, with their borrows, carries and checked ranges, compute what integers of
  nanoseconds would, to one rounding towards zero. Outside the range of timestamps there is no
  step, and a clock that stepped reads the time it stepped to (`unwrap_or(base)`).

### The hosts (`HostTimersProofs`, `EmbeddedDemoProofs`)

- `TasksAreJoined`, `Implements`: every sleeping task is joined by exactly one live
  handle (`TokioInv`), and under this invariant each step of the daemon's timeouts is a
  step of `Timeouts` or a stutter. The fairness part of the refinement is checked by `tokio`.
- `RolesSettle`. `TimerInv` says which timers a role awaits, and that the slot which
  holds each of them is active: that slot is the last one with its message, as
  earlier ones belong to states the port has left.
- `NoSendFails`, `NoRequestLost`. `RoomLeft` counts what may still be sent before the
  next `poll`: the DelayReqs ahead, a FollowUp, an Announce. `RequestsInPlace` says where
  each DelayReq is. `NoRequestLost` assumes that the vector of packets holds what a socket
  buffers (`SocketPackets <= MaxRxPackets`; both are four in the code).
- `FramesStayIntact`. `EthInv` says that there are positions (`Starts`) which cut the
  receive queue into the words of the frames on the wire, in order: the driver reads as
  many words as the controller has put there, for frames of every length.
- `InstantNeverDrifts`, `CyclesNeverDrift`, from `ReadInTime`: a clock is read before its
  counter comes round. The invariant bounds the distance to the last reading, and lemmas
  about `%` and `\div` show that the wrapped difference is the true one.

### Only model-checked

- Liveness, which the prover does not reach: `Converges`, `MasterInSilence`,
  `SyncFollowedUp`, `DecisionsHandled`, and the fairness part of `KeepsPromise`.
- `RoundTrip` and `OwnOrRefused` of `Wire`. Encoding and parsing build byte sequences
  field by field, with operators on sequences of any length; the data is finite, and the
  run exhausts it for its alphabet.

## Not modelled

- Sockets, logging, metrics, the demos, the end-to-end test harness, process
  start-up and shutdown, hardware initialisation: input and output without a
  decision of the protocol. What the code does with the results (a failed send, an
  egress timestamp, a timeout) is modelled.
- Floating point in the servo: its precision and the convergence of the PI loop.
  `Servo` has the same formulas over integers.
- `ForeignRecords` and `PtpClock` are not composed: the free choice of the best
  record in `PtpClock` allows every choice of the store, so what is shown of the
  clock holds with any store.
- Incoherent foreign records (attributes of one grandmaster that differ while an update
  is under way): which one is chosen depends on the order in the store, and nothing
  in the repository says what it should be.
- A faulty port keeps its candidate in the clock. Whether it should withdraw it is not
  said anywhere; `Settled` is relative to that candidate.
- Several clocks on a network with their own boundary clocks: a loop-free topology is a
  property of the protocol rather than of this code.
