--------------------------- MODULE ForeignRecords ---------------------------
(***************************************************************************)
(* The foreign clock records of one port: what it remembers of the masters *)
(* whose Announces it receives (foreign.rs), in a store that grows as      *)
(* needed (infra.rs) or that holds at most Capacity records (heapless.rs). *)
(*                                                                         *)
(* A record qualifies when two consecutive Announces of its source are at  *)
(* most a window apart, and is stale when the source was silent for longer *)
(* than the window.  PtpClock uses only what Snapshot returns.             *)
(***************************************************************************)
EXTENDS ClockDataset, Sequences, FiniteSetsExt

CONSTANTS Receiver,    \* port identity of the port
          Offers,      \* the [source, ds, interval] an Announce may carry; a port
                       \* does not hear its own
          Capacity,    \* of the store; at least the number of sources in infra.rs
          Second,      \* in units of the monotonic time
          Grain,       \* the steps in which TLC lets that time pass
          MaxTime      \* bound on it

Sources == {o.source : o \in Offers}

ASSUME ForeignRecordsAssumption ==
  /\ Receiver \in PortIdentity
  /\ Offers \subseteq [source : PortIdentity, ds : ClockDS, interval : -128..127]
  /\ Receiver \notin Sources
  /\ Capacity \in Nat \ {0}
  /\ Second \in Nat \ {0}
  /\ Grain \in Nat \ {0}
  /\ MaxTime \in Nat

VARIABLES
  records,    \* the store, in the order of its vector
  now,        \* Instant::now
  heard       \* history: the last two Announces of each source, latest first

vars == <<records, now, heard>>

Never == -1

----------------------------------------------------------------------------

MinLogValue == -20
MaxLogValue == 20

\* LogMessageInterval::log_interval: Some for the exponents the domain supports.
HasLogInterval(interval) == interval \in MinLogValue..MaxLogValue

\* LogInterval::duration of 2^interval seconds, rounded down.
IntervalDuration(interval) ==
  IF interval >= 0 THEN Second * 2^interval ELSE Second \div 2^(-interval)

\* Seeded fault: the window is as long as the interval.
WindowOfOne(interval) == IntervalDuration(interval)

\* ForeignMasterTimeWindow::duration
Window(interval) == 4 * IntervalDuration(interval)

\* ForeignClockRecord::new, not qualified yet.
NewRecord(o) ==
  [source |-> o.source, ds |-> o.ds, last |-> now,
   prev |-> Never, window |-> Window(o.interval)]

\* Seeded fault: two Announces qualify a record, however far apart.
IsQualifiedAnyTime(r) == r.prev # Never

IsQualified(r) == r.prev # Never /\ r.last >= r.prev /\ r.last - r.prev <= r.window

IsStale(r, t) == t < r.last \/ t - r.last > r.window

\* ForeignClockRecord::update_from
Updated(r, new) ==
  [r EXCEPT !.prev = r.last, !.last = new.last, !.window = new.window, !.ds = new.ds]

AsSnapshot(r) == Qualified(r.ds, r.source, Receiver)

BetterThan(r, s) == IsBetterOrBetterByTopology(AsSnapshot(r), AsSnapshot(s))

\* ForeignClockRecords::prune_stale, which retains the others in their order.
PruneStale(store) ==
  LET kept[i \in 0..Len(store)] ==
        IF i = 0 THEN <<>>
        ELSE IF IsStale(store[i], now) THEN kept[i - 1]
        ELSE Append(kept[i - 1], store[i])
  IN kept[Len(store)]

\* The first of some positions, 0 for None.
FirstOf(positions) == IF positions = {} THEN 0 ELSE Min(positions)

\* The position of the record of source.
IndexOf(store, source) == FirstOf({i \in 1..Len(store) : store[i].source = source})

\* Vec::remove
RemoveAt(store, i) == SubSeq(store, 1, i - 1) \o SubSeq(store, i + 1, Len(store))

\* Seeded fault: the first record that new beats makes room.
CandidateIsFirst(store, new) ==
  FirstOf({i \in 1..Len(store) : BetterThan(new, store[i])})

\* RemovalPolicy::candidate_index, 0 for None: the worst record that new beats.
CandidateIndex(store, new) ==
  LET worst[i \in 0..Len(store)] ==
        IF i = 0 THEN 0
        ELSE IF ~BetterThan(new, store[i]) THEN worst[i - 1]
        ELSE IF worst[i - 1] = 0 THEN i
        ELSE IF BetterThan(store[i], store[worst[i - 1]]) THEN worst[i - 1] ELSE i
  IN worst[Len(store)]

\* Room for new in a full store, or not.
Replace(store, new) ==
  LET i == CandidateIndex(store, new) IN
    IF i = 0 THEN store ELSE Append(RemoveAt(store, i), new)

\* Seeded fault: the test for room is off by one.
RememberOneMore(store, new) ==
  LET i == IndexOf(store, new.source) IN
    IF i # 0 THEN [store EXCEPT ![i] = Updated(@, new)]
    ELSE IF Len(store) <= Capacity THEN Append(store, new)
    ELSE Replace(store, new)

\* ForeignClockRecords::remember
Remember(store, new) ==
  LET i == IndexOf(store, new.source) IN
    IF i # 0 THEN [store EXCEPT ![i] = Updated(@, new)]
    ELSE IF Len(store) < Capacity THEN Append(store, new)
    ELSE Replace(store, new)

\* Seeded fault: the first qualified record is taken for the best.
SnapshotOfFirst ==
  LET i == FirstOf({j \in 1..Len(records) : IsQualified(records[j])})
  IN IF i = 0 THEN Empty ELSE AsSnapshot(records[i])

\* BestForeignRecord::snapshot: the reduction over the qualified records, whose
\* result best is 0 for None.
Snapshot ==
  LET best[i \in 0..Len(records)] ==
        IF i = 0 THEN 0
        ELSE IF ~IsQualified(records[i]) THEN best[i - 1]
        ELSE IF best[i - 1] = 0 THEN i
        ELSE IF BetterThan(records[i], records[best[i - 1]]) THEN i ELSE best[i - 1]
      b == best[Len(records)]
  IN IF b = 0 THEN Empty ELSE AsSnapshot(records[b])

----------------------------------------------------------------------------

Heard(o) == [at |-> now, interval |-> o.interval]

\* BestForeignRecord::consider, on an Announce.
Consider(o) ==
  /\ records' = Remember(PruneStale(records), NewRecord(o))
  /\ heard' = [heard EXCEPT ![o.source] =
                 <<Heard(o)>> \o (IF @ = <<>> THEN @ ELSE <<Head(@)>>)]
  /\ UNCHANGED now

\* AnnounceMessage::feed_bmca: without a supported interval the Announce is dropped.
FeedBmca(o) ==
  /\ HasLogInterval(o.interval)
  /\ Consider(o)

Tick ==
  /\ now + Grain <= MaxTime
  /\ now' = now + Grain
  /\ UNCHANGED <<records, heard>>

Init ==
  /\ records = <<>>
  /\ now = 0
  /\ heard = [s \in Sources |-> <<>>]

Next == Tick \/ \E o \in Offers : FeedBmca(o)

Spec == Init /\ [][Next]_vars

----------------------------------------------------------------------------
(***************************************************************************)
(* Properties.                                                             *)
(***************************************************************************)

Stored(store) == {store[i] : i \in 1..Len(store)}

\* The store never holds two records of a source, nor more than it has room for,
\* whatever was pruned, updated, appended and replaced in between.
Bounded ==
  /\ Len(records) <= Capacity
  /\ \A i, j \in 1..Len(records) : records[i].source = records[j].source => i = j

\* The data sets that travel with a grandmaster agree on its attributes.
Coherent(R) == \A r, s \in R : Consistent(AsSnapshot(r), AsSnapshot(s))

Before(r, s) == RanksBefore(AsSnapshot(r), AsSnapshot(s))

\* Whatever the order in the store, the snapshot is the record that ranks first
\* among the qualified ones, and it is empty only if none is qualified.
SnapshotIsFirst ==
  LET Q == {r \in Stored(records) : IsQualified(r)} IN
    Coherent(Q) =>
      /\ Snapshot.qualified <=> Q # {}
      /\ \A r \in Q : Snapshot = AsSnapshot(r) <=> \A s \in Q \ {r} : Before(r, s)

\* The snapshot is of a source whose last two Announces were at most a window
\* apart, though its record may have been pruned or replaced and come back.
QualifiedByTwo == \A r \in Stored(records) :
  IsQualified(r) => LET h == heard[r.source] IN
    /\ Len(h) = 2
    /\ h[1].at - h[2].at <= r.window

\* Announce a is no more than four of the intervals it declares in the past.
Within(a, t) == t - a.at <= 4 * IntervalDuration(a.interval)

\* While the store has had room for every source heard, a master is a candidate from
\* its second Announce in time until it falls silent, whatever the other sources
\* send and though it changes its interval: in time means at most four intervals
\* after the first, of the length that each of the two declares.
PunctualIsCandidate == \A s \in Sources :
  LET h == heard[s]
      room == Cardinality({t \in Sources : heard[t] # <<>>}) <= Capacity
  IN
    (room /\ Len(h) = 2 /\ Within(h[2], h[1].at)
      /\ h[1].at - h[2].at <= 4 * IntervalDuration(h[1].interval) /\ Within(h[1], now)) =>
    \E r \in Stored(records) : r.source = s /\ IsQualified(r) /\ ~IsStale(r, now)

\* Of the records before a step, r is gone after it only if it was stale, or the
\* lowest ranked of a full store.
EvictsWorst == \A r \in Stored(records) :
  LET kept == {s \in Stored(records) : ~IsStale(s, now)}
      gone == r.source \notin {s.source : s \in Stored(records')}
      new == {s \in Stored(records') : \A t \in kept : t.source # s.source}
  IN (Coherent(kept \cup new) /\ records' # records) =>
       /\ \A s \in Stored(records') : ~IsStale(s, now)
       /\ gone => \/ IsStale(r, now)
                  \/ /\ Cardinality(kept) = Capacity
                     /\ \A s \in (kept \cup new) \ {r} : Before(s, r)

\* An Announce leaves no record in the store that is stale, and the records it
\* removes are stale or the lowest ranked of a full store.
OnlyWorstEvicted == [][EvictsWorst]_vars

----------------------------------------------------------------------------
(* What the documentation says and the code does not do: this fails. *)

\* Records are kept best first (infra.rs and heapless.rs, the documentation of
\* the two stores).
BestFirst ==
  Coherent(Stored(records)) =>
    \A i, j \in 1..Len(records) :
      (i < j /\ IsQualified(records[j])) => ~Before(records[j], records[i])
=============================================================================
