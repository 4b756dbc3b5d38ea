----------------------------- MODULE FeedTrackers -----------------------------
(***************************************************************************)
(* multicast/gap_recovery.hpp and the trackers of multicast/multicast.hpp: *)
(* what a feed handler knows about the sequence numbers it has seen.  Each *)
(* struct is a record, each method an operator from the old record to the  *)
(* new one.  The structs are independent; FeedHandler uses them together.  *)
(***************************************************************************)
EXTENDS Integers, FiniteSets, Sequences, FiniteSetsExt, SequencesExt, Functions

Greater(a, b) == IF a > b THEN a ELSE b

------------------------------------------------------------------------------
(* GapRecovery: which numbers are missing *)

NewRecovery == [init |-> FALSE, expected |-> 0, missing |-> {}, recovered |-> 0,
                packets |-> 0, events |-> 0, duplicates |-> 0, burst |-> 0]

\* Mutant of Recovery: the number that opened the gap is taken for missing too.
RecoveryInclusive(r, seq) ==
    LET s == [r EXCEPT !.packets = @ + 1]
    IN  CASE ~r.init -> [s EXCEPT !.init = TRUE, !.expected = seq + 1]
          [] r.init /\ seq >= r.expected ->
                 [s EXCEPT !.missing = @ \cup (IF seq > r.expected THEN r.expected..seq ELSE {}),
                           !.expected = seq + 1]
          [] r.init /\ seq < r.expected /\ seq \in r.missing ->
                 [s EXCEPT !.missing = @ \ {seq}, !.recovered = @ + 1]
          [] OTHER -> [s EXCEPT !.duplicates = @ + 1]

\* observe, the primary feed: in order, ahead, or behind
Recovery(r, seq) ==
    LET s == [r EXCEPT !.packets = @ + 1]
    IN  CASE ~r.init -> [s EXCEPT !.init = TRUE, !.expected = seq + 1]
          [] r.init /\ seq >= r.expected ->
                 [s EXCEPT !.missing = @ \cup (r.expected..(seq - 1)),
                           !.events = IF seq > r.expected THEN @ + 1 ELSE @,
                           !.burst = Greater(@, seq - r.expected),
                           !.expected = seq + 1]
          [] r.init /\ seq < r.expected /\ seq \in r.missing ->
                 [s EXCEPT !.missing = @ \ {seq}, !.recovered = @ + 1]
          [] OTHER -> [s EXCEPT !.duplicates = @ + 1]

\* on_retransmit: TRUE when it filled a gap
Fills(r, seq) == seq \in r.missing
OnRetransmit(r, seq) ==
    IF Fills(r, seq) THEN [r EXCEPT !.missing = @ \ {seq}, !.recovered = @ + 1] ELSE r

\* Mutant of SnapshotResync: the holes the snapshot fills stay open.
SnapshotSkips(r, snap) == [r EXCEPT !.expected = Greater(@, snap + 1), !.init = TRUE]

\* snapshot_resync: everything up to the snapshot is known
SnapshotResync(r, snap) ==
    LET known == {s \in r.missing : s <= snap}
    IN  [r EXCEPT !.missing = @ \ known, !.recovered = @ + Cardinality(known),
                  !.expected = Greater(@, snap + 1), !.init = TRUE]

RecommendSnapshot(r, threshold) == threshold > 0 /\ Cardinality(r.missing) >= threshold

\* recovered / (recovered + missing): how much of what was ever missing came back
RecoveryCompleteness(r) == <<r.recovered, r.recovered + Cardinality(r.missing)>>
AvgGapBurst(r) == <<r.recovered + Cardinality(r.missing), r.events>>

\* next_request: the interval from the lowest to the highest hole
NextRequest(r) == <<Min(r.missing), Max(r.missing)>>

\* missing_ranges, outstanding_range_count and largest_outstanding_run scan the
\* holes in ascending order and close an interval at every break.
MissingRanges(r) ==
    LET extend(ranges, s) ==
            IF ranges # <<>> /\ Last(ranges)[2] + 1 = s
            THEN [ranges EXCEPT ![Len(ranges)] = <<@[1], s>>]
            ELSE Append(ranges, <<s, s>>)
    IN  FoldLeft(extend, <<>>, SetToSortSeq(r.missing, <))
OutstandingRangeCount(r) == Len(MissingRanges(r))
LargestOutstandingRun(r) ==
    LET step(a, s) == LET run == IF a.prev + 1 = s THEN a.run + 1 ELSE 1
                      IN  [prev |-> s, run |-> run, best |-> Greater(a.best, run)]
    IN  FoldLeft(step, [prev |-> -1, run |-> 0, best |-> 0], SetToSortSeq(r.missing, <)).best

OldestMissing(r) == IF r.missing = {} THEN 0 ELSE Min(r.missing)
HeadOfLineLag(r) == IF r.missing = {} THEN 0 ELSE r.expected - Min(r.missing)

(* MultiChannelRecovery: one GapRecovery per channel *)

WithGaps(channels) == {c \in DOMAIN channels : channels[c].missing # {}}
TotalMissing(channels) == MapThenSumSet(LAMBDA c : Cardinality(channels[c].missing), DOMAIN channels)
TotalRecovered(channels) == MapThenSumSet(LAMBDA c : channels[c].recovered, DOMAIN channels)
\* worst_channel: how much the worst one misses, 0 when none misses anything
WorstChannel(channels) == Max({0} \cup {Cardinality(channels[c].missing) : c \in DOMAIN channels})
OverallCompleteness(channels) ==
    <<TotalRecovered(channels), TotalRecovered(channels) + TotalMissing(channels)>>

------------------------------------------------------------------------------
(* ABLineArbitrator: the first copy of a packet from either line wins *)

NewArbiter == [rec |-> NewRecovery, first |-> [l \in {"A", "B"} |-> 0], dups |-> 0]

IsNew(a, seq) == \/ ~a.rec.init
                 \/ seq >= a.rec.expected
                 \/ seq \in a.rec.missing

Arbitrate(a, seq, line) ==
    IF IsNew(a, seq)
    THEN [a EXCEPT !.rec = Recovery(@, seq), !.first[line] = @ + 1]
    ELSE [a EXCEPT !.dups = @ + 1]

\* lagging_line and preferred_line, with thresholds in percent
Wins(a) == a.first["A"] + a.first["B"]
LaggingLine(a, percent) ==
    CASE Wins(a) > 0 /\ 100 * a.first["A"] <= percent * Wins(a) -> "A"
      [] Wins(a) > 0 /\ 100 * a.first["A"] > percent * Wins(a)
                     /\ 100 * a.first["B"] <= percent * Wins(a) -> "B"
      [] OTHER -> "-"
PreferredLine(a, percent) ==
    CASE Wins(a) > 0 /\ 100 * a.first["A"] >= (50 + percent) * Wins(a) -> "A"
      [] Wins(a) > 0 /\ 100 * a.first["A"] < (50 + percent) * Wins(a)
                     /\ 100 * a.first["B"] >= (50 + percent) * Wins(a) -> "B"
      [] OTHER -> "-"

(* DualFeedReconciler: the same with the set of everything seen *)

NewReconciler == [seen |-> {}, wins |-> [l \in {"A", "B"} |-> 0], duplicates |-> 0]

Reconcile(d, seq, line) ==
    IF seq \in d.seen THEN [d EXCEPT !.duplicates = @ + 1]
    ELSE [d EXCEPT !.seen = @ \cup {seq}, !.wins[line] = @ + 1]

------------------------------------------------------------------------------
(* DedupWindow: each number once, remembering only the last `window` of them *)

NewDedup == [init |-> FALSE, high |-> 0, seen |-> {}, accepted |-> 0, duplicates |-> 0]

Accepts(d, window, seq) == \/ ~d.init
                           \/ seq + window > d.high /\ seq \notin d.seen

Dedup(d, window, seq) ==
    LET high == IF d.init THEN Greater(d.high, seq) ELSE seq
    IN  IF Accepts(d, window, seq)
        THEN [d EXCEPT !.init = TRUE, !.high = high, !.accepted = @ + 1,
                       !.seen = {s \in @ \cup {seq} : s + window > high}]
        ELSE [d EXCEPT !.duplicates = @ + 1]

------------------------------------------------------------------------------
(* ContiguousTracker: the first number not yet received *)

NewContiguous == [next |-> 1, ahead |-> {}, lookahead |-> 0]

\* The first number after n that has not arrived.
NextHole(n, arrived) == Min({k \in (n + 1)..(n + 1 + Cardinality(arrived)) : k \notin arrived})

Contiguous(c, seq) ==
    CASE seq < c.next -> c
      [] seq = c.next -> LET next == NextHole(seq, c.ahead)
                         IN  [c EXCEPT !.next = next, !.ahead = {s \in @ : s > next}]
      [] OTHER -> [c EXCEPT !.ahead = @ \cup {seq}, !.lookahead = Greater(@, seq - c.next)]

(* ReorderBuffer: what arrived early waits; out is always in order *)

NewReorder == [init |-> FALSE, expected |-> 0, pending |-> {}, out |-> <<>>,
               duplicates |-> 0, deepest |-> 0]

\* Mutant of Reorder: only the expected packet is delivered, not those behind it.
ReorderOne(b, seq) ==
    LET from == IF b.init THEN b.expected ELSE seq
        held == b.pending \cup {seq}
        c == [b EXCEPT !.init = TRUE, !.expected = from]
    IN  CASE seq < from -> [c EXCEPT !.duplicates = @ + 1]
          [] seq = from -> [c EXCEPT !.out = Append(@, seq), !.expected = seq + 1]
          [] OTHER -> [c EXCEPT !.pending = held, !.deepest = Greater(@, Cardinality(held))]

\* push.  The value is known by its number.
Reorder(b, seq) ==
    LET from == IF b.init THEN b.expected ELSE seq
        held == b.pending \cup {seq}
        next == IF from \in held THEN NextHole(from, held) ELSE from
        c == [b EXCEPT !.init = TRUE, !.expected = from]
    IN  IF seq < from THEN [c EXCEPT !.duplicates = @ + 1]
        ELSE [c EXCEPT !.pending = {s \in held : s > next}, !.expected = next,
                       !.out = @ \o [i \in 1..(next - from) |-> from + i - 1],
                       !.deepest = Greater(@, Cardinality(held))]

(* SnapshotSyncBuffer: increments wait until the snapshot is there *)

NewSync == [applied |-> FALSE, snapshot |-> 0, buffered |-> {}, dropped |-> 0]

\* on_increment; once the snapshot is there an increment is applied at once
OnIncrement(y, seq) == IF y.applied THEN y ELSE [y EXCEPT !.buffered = @ \cup {seq}]

ApplySnapshot(y, snap) ==
    LET covered == {s \in y.buffered : s <= snap}
    IN  [applied |-> TRUE, snapshot |-> snap, buffered |-> y.buffered \ covered,
         dropped |-> y.dropped + Cardinality(covered)]

(* RetransmitTracker: requests for missing numbers, repeated, then given up *)

NewRetransmit == [pending |-> <<>>, fulfilled |-> 0, escalated |-> 0]

\* request: a number already asked for keeps its timer
Request(t, seq, now) ==
    IF seq \in DOMAIN t.pending THEN t
    ELSE [t EXCEPT !.pending = [s \in DOMAIN @ \cup {seq} |->
                                  IF s = seq THEN [sent |-> now, attempts |-> 1] ELSE @[s]]]

OnReceived(t, seq) ==
    IF seq \in DOMAIN t.pending
    THEN [t EXCEPT !.pending = Restrict(@, DOMAIN @ \ {seq}), !.fulfilled = @ + 1]
    ELSE t

Overdue(t, now, timeout) == {s \in DOMAIN t.pending : now - t.pending[s].sent >= timeout}
Resent(t, now, timeout, attempts) ==
    {s \in Overdue(t, now, timeout) : t.pending[s].attempts < attempts}
GivenUp(t, now, timeout, attempts) ==
    Overdue(t, now, timeout) \ Resent(t, now, timeout, attempts)

\* poll
Poll(t, now, timeout, attempts) ==
    LET lost == GivenUp(t, now, timeout, attempts)
    IN  [t EXCEPT !.escalated = @ + Cardinality(lost),
                  !.pending = [s \in DOMAIN @ \ lost |->
                                 IF s \in Resent(t, now, timeout, attempts)
                                 THEN [sent |-> now, attempts |-> @[s].attempts + 1] ELSE @[s]]]

------------------------------------------------------------------------------
(* SequenceTracker: detection only; every packet moves the expectation on *)

NewTracker == [init |-> FALSE, expected |-> 0, received |-> 0, gaps |-> 0, lost |-> 0,
               duplicates |-> 0]

Status(t, seq, count) == CASE ~t.init \/ seq = t.expected -> "OK"
                           [] t.init /\ seq > t.expected -> "GAP"
                           [] OTHER -> "DUPLICATE"

\* observe_packet: count messages from seq on (0 is a heartbeat); observe has count 1
ObservePacket(t, seq, count) ==
    LET status == Status(t, seq, count)
        passed == seq + count <= t.expected
    IN  CASE status = "OK" ->
                 [t EXCEPT !.init = TRUE, !.expected = seq + count, !.received = @ + count]
          [] status = "GAP" ->
                 [t EXCEPT !.gaps = @ + 1, !.lost = @ + seq - t.expected,
                           !.expected = seq + count, !.received = @ + count]
          [] OTHER ->
                 [t EXCEPT !.duplicates = @ + 1,
                           !.received = IF passed THEN @ ELSE @ + seq + count - t.expected,
                           !.expected = Greater(@, seq + count)]

\* ArbitratedReceiver::observe
NewReceiver == [tracker |-> NewTracker, from |-> [l \in {"A", "B"} |-> 0], deduped |-> 0]
ReceiverObserve(r, line, seq, count) ==
    LET next == [r EXCEPT !.tracker = ObservePacket(@, seq, count)]
    IN  IF Status(r.tracker, seq, count) = "DUPLICATE" THEN [next EXCEPT !.deduped = @ + 1]
        ELSE [next EXCEPT !.from[line] = @ + 1]

\* SequenceResetDetector::on_seq: a drop of more than threshold is a new session
NewDetector == [init |-> FALSE, last |-> 0, resets |-> 0]
IsReset(d, threshold, seq) == d.init /\ seq + threshold < d.last
OnSeq(d, threshold, seq) ==
    [init |-> TRUE, resets |-> d.resets + (IF IsReset(d, threshold, seq) THEN 1 ELSE 0),
     last |-> IF ~d.init \/ IsReset(d, threshold, seq) THEN seq ELSE Greater(d.last, seq)]
==============================================================================
