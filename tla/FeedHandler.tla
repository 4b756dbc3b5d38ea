----------------------------- MODULE FeedHandler -----------------------------
(***************************************************************************)
(* multicast/gap_recovery.hpp, multicast/multicast.hpp: the meters of a    *)
(* feed handler.  A meter is a record and its update an operator; a ratio  *)
(* of two counters, where a rule compares one, is compared by products.    *)
(* LatencyTracker's moving average is floating point and left out.         *)
(***************************************************************************)
EXTENDS FeedTrackers

(* FeedRateMeter, SlidingWindowRate: time stamps of the last window *)

NewRate == [ring |-> <<>>, peak |-> 0]

\* TimestampRing::evict
Evict(ring, cutoff) ==
    LET kept == {i \in DOMAIN ring : ring[i] > cutoff}
    IN  IF kept = {} THEN <<>> ELSE SubSeq(ring, Min(kept), Len(ring))
\* TimestampRing::push: a ring of N slots keeps N - 1 stamps
Stamp(ring, size, now) ==
    IF Len(ring) = size - 1 THEN Append(Tail(ring), now) ELSE Append(ring, now)
\* Mutant of Rate: what has left the window is not evicted.
RateNoEvict(m, size, window, now) ==
    LET ring == Stamp(m.ring, size, now)
    IN  [ring |-> ring, peak |-> Greater(m.peak, Len(ring))]

Rate(m, size, window, now) ==
    LET ring == Evict(Stamp(m.ring, size, now), now - window)
    IN  [ring |-> ring, peak |-> Greater(m.peak, Len(ring))]

(* InterArrivalMeter, InterArrivalStats: a clock that steps back is ignored *)

NewArrival == [started |-> FALSE, last |-> 0, min |-> 0, max |-> 0, sum |-> 0, gaps |-> 0,
               lastGap |-> 0]

Arrival(m, now) ==
    LET gap == now - m.last
    IN  CASE ~m.started -> [m EXCEPT !.started = TRUE, !.last = now]
          [] m.started /\ gap < 0 -> m
          [] OTHER -> [m EXCEPT !.last = now, !.gaps = @ + 1, !.sum = @ + gap,
                                !.min = IF m.gaps = 0 \/ gap < @ THEN gap ELSE @,
                                !.max = Greater(@, gap), !.lastGap = gap]
Jitter(m) == IF m.gaps = 0 THEN 0 ELSE m.max - m.min

(* LossRateMeter, OutOfOrderMeter *)

NewLoss == [init |-> FALSE, first |-> 0, highest |-> 0, received |-> 0]
Loss(m, seq) == [init |-> TRUE, first |-> IF m.init THEN m.first ELSE seq,
                 highest |-> IF m.init THEN Greater(m.highest, seq) ELSE seq,
                 received |-> m.received + 1]
Expected(m) == IF m.init THEN m.highest - m.first + 1 ELSE 0
Lost(m) == Greater(Expected(m) - m.received, 0)

NewOutOfOrder == [init |-> FALSE, highest |-> 0, total |-> 0, late |-> 0, depth |-> 0, deepest |-> 0]
OutOfOrder(m, seq) ==
    LET behind == m.highest - seq
        n == [m EXCEPT !.init = TRUE, !.total = @ + 1]
    IN  IF m.init /\ behind > 0
        THEN [n EXCEPT !.late = @ + 1, !.depth = @ + behind, !.deepest = Greater(@, behind)]
        ELSE [n EXCEPT !.highest = seq]

(* SnapshotRequestThrottle, TokenBucket: how often a snapshot may be asked for *)

NewThrottle == [requested |-> FALSE, last |-> 0, allowed |-> 0, suppressed |-> 0]
Allows(m, interval, now) == ~m.requested \/ now - m.last >= interval
Allow(m, interval, now) ==
    IF Allows(m, interval, now)
    THEN [m EXCEPT !.requested = TRUE, !.last = now, !.allowed = @ + 1]
    ELSE [m EXCEPT !.suppressed = @ + 1]

NewBucket(capacity) == [init |-> FALSE, tokens |-> capacity, last |-> 0, granted |-> 0, denied |-> 0]
\* Mutant of TopUp: an idle bucket fills beyond its capacity.
TopUpBeyond(m, capacity, refill, now) ==
    [m EXCEPT !.init = TRUE, !.last = now,
              !.tokens = IF ~m.init THEN @ ELSE @ + (now - m.last) * refill]

TopUp(m, capacity, refill, now) ==
    [m EXCEPT !.init = TRUE, !.last = now,
              !.tokens = IF ~m.init THEN @
                         ELSE LET t == @ + (now - m.last) * refill
                              IN  IF t > capacity THEN capacity ELSE t]
TryConsume(m, capacity, refill, now) ==
    LET t == TopUp(m, capacity, refill, now)
    IN  IF t.tokens >= 1 THEN [t EXCEPT !.tokens = @ - 1, !.granted = @ + 1]
        ELSE [t EXCEPT !.denied = @ + 1]

(* BackpressureMonitor, ConflationBuffer *)

NewPressure == [enqueued |-> 0, dequeued |-> 0, peak |-> 0]
Depth(m) == m.enqueued - m.dequeued
OnEnqueue(m, n) == [m EXCEPT !.enqueued = @ + n, !.peak = Greater(@, Depth(m) + n)]
OnDequeue(m, n) == [m EXCEPT !.dequeued = @ + (IF n > Depth(m) THEN Depth(m) ELSE n)]

NewConflation == [latest |-> <<>>, received |-> 0, conflated |-> 0, peak |-> 0]
Update(m, key, value) ==
    LET latest == [k \in DOMAIN m.latest \cup {key} |-> IF k = key THEN value ELSE m.latest[k]]
    IN  [m EXCEPT !.received = @ + 1, !.latest = latest,
                  !.conflated = IF key \in DOMAIN m.latest THEN @ + 1 ELSE @,
                  !.peak = Greater(@, Cardinality(DOMAIN latest))]
Drain(m) == [m EXCEPT !.latest = <<>>]

(* FeedStalenessMonitor: how long the feed was silent *)

NewStaleness == [seen |-> FALSE, last |-> 0, stale |-> FALSE, events |-> 0, longest |-> 0, total |-> 0]
Heard(m, now) ==
    LET outage == IF m.stale /\ m.seen THEN Greater(now - m.last, 0) ELSE 0
    IN  [m EXCEPT !.seen = TRUE, !.last = now, !.stale = FALSE,
                  !.total = @ + outage, !.longest = Greater(@, outage)]
Check(m, now, timeout) ==
    LET stale == now - m.last > timeout
    IN  IF ~m.seen THEN m
        ELSE [m EXCEPT !.stale = stale, !.events = IF stale /\ ~m.stale THEN @ + 1 ELSE @]
CompletedOutages(m) == m.events - (IF m.stale THEN 1 ELSE 0)

(* GapFillTimer; LatencyStats and LatencyTracker; PacketStats *)

NewTimer == [gaps |-> 0, total |-> 0, max |-> 0, min |-> 0, breaches |-> 0]
Record(m, sla, detect, fill) ==
    LET took == fill - detect
    IN  IF took < 0 THEN m
        ELSE [gaps |-> m.gaps + 1, total |-> m.total + took, max |-> Greater(m.max, took),
              min |-> IF m.gaps = 0 \/ took < m.min THEN took ELSE m.min,
              breaches |-> m.breaches + (IF took > sla THEN 1 ELSE 0)]

NewLatency == [count |-> 0, sum |-> 0, min |-> 0, max |-> 0]
Sample(m, ns) == [count |-> m.count + 1, sum |-> m.sum + ns, max |-> Greater(m.max, ns),
                  min |-> IF m.count = 0 \/ ns < m.min THEN ns ELSE m.min]

\* A minimum of 0 stands for none yet, also after an empty packet.
NewPackets == [packets |-> 0, bytes |-> 0, max |-> 0, min |-> 0]
OnPacket(m, n) == [packets |-> m.packets + 1, bytes |-> m.bytes + n, max |-> Greater(m.max, n),
                   min |-> IF m.min = 0 \/ n < m.min THEN n ELSE m.min]

(* FeedHealth, with rates in percent and the default weights *)

Score(loss, ooo, stale) ==
    LET s == 100 - 2 * loss - ooo - (IF stale THEN 50 ELSE 0) IN IF s < 0 THEN 0 ELSE s
IsHealthy(loss, ooo, stale) == Score(loss, ooo, stale) >= 70
WorstImpairment(loss, ooo, stale) ==
    LET s == IF stale THEN 50 ELSE 0
    IN  CASE loss = 0 /\ ooo = 0 /\ ~stale -> "none"
          [] loss + ooo + s > 0 /\ 2 * loss >= ooo /\ 2 * loss >= s -> "loss"
          [] loss + ooo + s > 0 /\ ~(2 * loss >= ooo /\ 2 * loss >= s) /\ ooo >= s -> "reorder"
          [] OTHER -> "stale"

------------------------------------------------------------------------------
(***************************************************************************)
(* The meters of multicast/gap_recovery.hpp and multicast/multicast.hpp    *)
(* fed with one log of arrivals and polls, and compared with what the log  *)
(* says.  A packet carries n messages from seq on, and n stands for its    *)
(* size, latency and value as well; a poll takes two messages off the      *)
(* queue, checks for silence and asks for a token.  Clock readings may     *)
(* step back, as the callers' do when the system clock is set.             *)
(***************************************************************************)
CONSTANTS MaxLog,       \* bound: entries
          Time, Number, Count \* bounds: readings of the clock, numbers, messages of a packet

VARIABLE log
logVars == <<log>>

Packet == [at : Time, seq : Number, n : Count]
PollEntry == [at : Time, seq : {0}, n : {0}]
IsPacket(e) == e.seq > 0

RingSize == 4       \* TimestampRing's N
RateWindow == 2
Silence == 1        \* staleness timeout
Gap == 2            \* throttle interval
Capacity == 1       \* token bucket
Refill == 1

NewMeters == [rate |-> NewRate, arrival |-> NewArrival, loss |-> NewLoss, ooo |-> NewOutOfOrder,
              throttle |-> NewThrottle, bucket |-> NewBucket(Capacity), pressure |-> NewPressure,
              latest |-> NewConflation, stale |-> NewStaleness, timer |-> NewTimer,
              latency |-> NewLatency, bytes |-> NewPackets, tracker |-> NewTracker,
              detector |-> NewDetector, rec |-> NewRecovery, channels |-> [c \in {0, 1} |-> NewRecovery]]

\* The caller: what a feed handler tells its meters.
Feed(m, e) ==
    IF IsPacket(e)
    THEN [m EXCEPT !.rate = Rate(@, RingSize, RateWindow, e.at), !.arrival = Arrival(@, e.at),
                   !.loss = Loss(@, e.seq), !.ooo = OutOfOrder(@, e.seq),
                   !.pressure = OnEnqueue(@, e.n), !.latest = Update(@, e.seq, e.n),
                   !.stale = Heard(@, e.at), !.timer = Record(@, Gap, m.stale.last, e.at),
                   !.latency = Sample(@, e.n), !.bytes = OnPacket(@, e.n),
                   !.tracker = ObservePacket(@, e.seq, e.n), !.detector = OnSeq(@, Gap, e.seq),
                   !.rec = Recovery(@, e.seq), !.channels[e.seq % 2] = Recovery(@, e.seq \div 2)]
    ELSE [m EXCEPT !.throttle = Allow(@, Gap, e.at),
                   !.bucket = TryConsume(@, Capacity, Refill, e.at),
                   !.pressure = OnDequeue(@, 2), !.stale = Check(@, e.at, Silence),
                   !.latest = Drain(@)]
Meters == FoldLeft(Feed, NewMeters, log)

LogInit == log = <<>>
Log == /\ Len(log) < MaxLog
       /\ \E e \in Packet \cup PollEntry : log' = Append(log, e)

------------------------------------------------------------------------------
(***************************************************************************)
(* The log, and properties                                                 *)
(***************************************************************************)
Packets == SelectSeq(log, IsPacket)
Seqs == {Packets[i].seq : i \in DOMAIN Packets}
Steady == \A i, j \in DOMAIN log : i < j => log[i].at <= log[j].at
Highest(i) == Max({0} \cup {Packets[j].seq : j \in 1..(i - 1)})
LatestTime(i) == Max({0} \cup {Packets[j].at : j \in 1..(i - 1)})
OfChannel(c) == {i \in DOMAIN Packets : Packets[i].seq % 2 = c}
\* packets whose clock reading does not step back
Forward == {i \in DOMAIN Packets : \A j \in 1..(i - 1) : Packets[j].at <= Packets[i].at}
Sum(S, f(_)) == MapThenSumSet(f, S)

\* Every meter says of the log what its name promises, also after packets out of
\* order, repeated or lost, and after the clock steps back: the window's rate
\* (as far as the ring reaches), the gaps between arrivals, what was lost, how
\* far behind the late ones were, how deep the queue is, the last value of every
\* key since the last drain, sizes and latencies.
MetersExact ==
    LET m == Meters
        n == Len(Packets)
        late == {i \in DOMAIN Packets : Packets[i].seq < Highest(i)}
        recent(k) == {i \in 1..k : Packets[i].at > Packets[k].at - RateWindow}
        Last2(S) == IF S > RingSize - 1 THEN RingSize - 1 ELSE S
        owed(k) == Sum((k + 1)..Len(log), LAMBDA i : IF IsPacket(log[i]) THEN log[i].n ELSE -2)
        sinceDrain == {i \in DOMAIN log : IsPacket(log[i]) /\ \A j \in i..Len(log) : IsPacket(log[j])}
    IN  log # <<>> =>
        /\ Steady /\ n > 0 => /\ Len(m.rate.ring) = Last2(Cardinality(recent(n)))
                              /\ m.rate.peak = Max({Last2(Cardinality(recent(k))) : k \in 1..n})
        /\ n > 0 => /\ m.arrival.gaps = Cardinality(Forward) - 1
                    /\ m.arrival.sum = Max({Packets[i].at : i \in Forward}) - Packets[1].at
                    /\ Jitter(m.arrival) <= m.arrival.sum
        /\ Cardinality(Seqs) = n /\ n > 0 /\ Packets[1].seq = Min(Seqs) =>
               /\ Lost(m.loss) = Cardinality(m.rec.missing)
               /\ m.rec.recovered = m.ooo.late
        /\ m.ooo.late = Cardinality(late) /\ m.ooo.depth = Sum(late, LAMBDA i : Highest(i) - Packets[i].seq)
        /\ m.ooo.deepest <= m.ooo.depth /\ m.ooo.highest = Max({0} \cup Seqs)
        /\ TotalMissing(m.channels) <= WorstChannel(m.channels) * Cardinality(WithGaps(m.channels))
        /\ Cardinality(Seqs) = n =>
               OverallCompleteness(m.channels)[2] =
                   Sum({c \in {0, 1} : OfChannel(c) # {}}, LAMBDA c :
                         LET k == [i \in OfChannel(c) |-> Packets[i].seq \div 2]
                             f == k[Min(OfChannel(c))]
                             in == {k[i] : i \in OfChannel(c)}
                             filled == {i \in OfChannel(c) : k[i] > f /\ \E j \in OfChannel(c) : j < i /\ k[j] > k[i]}
                         IN  Cardinality((f..Max(in)) \ in) + Cardinality(filled))
        /\ m.detector.resets <= m.ooo.late
        /\ Depth(m.pressure) = Max({0} \cup {owed(k) : k \in 0..Len(log)}) /\ Depth(m.pressure) <= m.pressure.peak
        /\ DOMAIN m.latest.latest = {log[i].seq : i \in sinceDrain}
        /\ \A k \in DOMAIN m.latest.latest :
               m.latest.latest[k] = log[Max({i \in sinceDrain : log[i].seq = k})].n
        /\ m.latest.received - m.latest.conflated >= Cardinality(Seqs)
        /\ m.latency.sum = m.bytes.bytes /\ m.latency.max = m.bytes.max
        /\ (\A i \in DOMAIN Packets : Packets[i].n > 0) => m.latency.min = m.bytes.min
        /\ n > 0 => m.tracker.received + m.tracker.lost = m.tracker.expected - Packets[1].seq

\* Requests are paced: two snapshots are never closer than the throttle's
\* interval, and no stretch of time sees more tokens granted than its length
\* refills plus a full bucket.  A feed counts as stale for exactly the silences
\* some check saw.
PacingHeld ==
    LET m == Meters
        polls == {i \in DOMAIN log : ~IsPacket(log[i])}
        granted(k) == FoldLeft(Feed, NewMeters, SubSeq(log, 1, k)).bucket.granted
        next(i) == {j \in DOMAIN log : j > i /\ IsPacket(log[j])}
        \* packets after which a check found silence before the next packet
        silent == {i \in DOMAIN log : /\ IsPacket(log[i])
                                      /\ \E p \in polls : /\ p > i /\ \A j \in next(i) : p < j
                                                          /\ log[p].at - log[i].at > Silence}
        over == {i \in silent : next(i) # {}}
    IN  log # <<>> /\ Steady =>
                  /\ \A i, j \in polls : i <= j =>
                         granted(j) - granted(i - 1) <= Capacity + Refill * (log[j].at - log[i].at)
                  /\ polls # {} =>
                         (m.throttle.allowed - 1) * Gap <= log[Max(polls)].at - log[Min(polls)].at
                  /\ m.throttle.allowed + m.throttle.suppressed = Cardinality(polls)
                  /\ m.stale.events = Cardinality(silent)
                  /\ CompletedOutages(m.stale) = Cardinality(over)
                  /\ m.stale.total = Sum(over, LAMBDA i : log[Min(next(i))].at - log[i].at)
                  /\ m.stale.longest <= m.stale.total
                  /\ LET loss == IF Expected(m.loss) = 0 THEN 0 ELSE (100 * Lost(m.loss)) \div Expected(m.loss)
                         ooo == IF m.ooo.total = 0 THEN 0 ELSE (100 * m.ooo.late) \div m.ooo.total
                     IN  /\ IsHealthy(loss, ooo, m.stale.stale) => ~m.stale.stale /\ loss <= 15
                         /\ WorstImpairment(loss, ooo, m.stale.stale) = "none" <=>
                                Score(loss, ooo, m.stale.stale) = 100

------------------------------------------------------------------------------
(***************************************************************************)
(* A market-data session: an exchange numbers its packets and sends each   *)
(* on lines A and B, which lose and reorder them; a retransmission *)
(* server and a snapshot server answer late or, for retransmissions, not   *)
(* at all.  The receiving side is multicast/gap_recovery.hpp's structs,    *)
(* used together the way its comments describe: no code in the repository  *)
(* combines them.  Time passes only while a timer is running.              *)
(***************************************************************************)
CONSTANTS LastSeq,      \* bound: packets of the session
          Window,       \* DedupWindow's window
          Timeout,      \* RetransmitTracker's timeout_ns, in ticks
          Attempts,     \* RetransmitTracker's max_attempts
          Interval      \* SnapshotRequestThrottle's min_interval_ns, in ticks

VARIABLES sent,     \* packets published so far
          net,      \* copies under way
          asked,    \* retransmissions the server has yet to answer
          snap,     \* snapshot under way: the last packet it holds, 0: none
          now,      \* the handler's clock
          h,        \* the handler
          seen      \* history: what arrived, and how

feedVars == <<sent, net, asked, snap, now, h, seen>>

Line == {"A", "B"}

NewHandler == [arb |-> NewArbiter, recon |-> NewReconciler, dedup |-> NewDedup,
               cont |-> NewContiguous, reorder |-> NewReorder, retx |-> NewRetransmit,
               recv |-> NewReceiver, sync |-> NewSync,
               throttle |-> NewThrottle, want |-> FALSE, asking |-> FALSE]

FeedInit == /\ sent = 0 /\ net = {} /\ asked = {} /\ snap = 0 /\ now = 0
            /\ h = NewHandler
            /\ seen = [start |-> 0, got |-> {}, passed |-> {}, base |-> 0, after |-> {}]

Missing(g) == g.arb.rec.missing

\* Every hole is requested; one already requested keeps its timer.
RequestHoles(g) ==
    LET ask(t, s) == Request(t, s, now)
    IN  [g EXCEPT !.retx = FoldLeft(ask, @, SetToSeq(Missing(g)))]

\* What a packet or a retransmission that is news leads to.
Accept(g, seq) ==
    [g EXCEPT !.reorder = Reorder(@, seq), !.retx = OnReceived(@, seq), !.cont = Contiguous(@, seq),
              !.sync = IF g.asking THEN OnIncrement(@, seq) ELSE @]

Note(seq, fresh, accepted) ==
    seen' = [seen EXCEPT !.start = IF @ = 0 THEN seq ELSE @,
                         !.got = IF fresh THEN @ \cup {seq} ELSE @,
                         !.passed = IF accepted THEN @ \cup {seq} ELSE @,
                         !.after = IF fresh /\ h.sync.applied THEN @ \cup {seq} ELSE @]

\* The exchange publishes the next packet on both lines.
Publish == /\ sent < LastSeq
           /\ sent' = sent + 1
           /\ net' = net \cup {<<l, sent + 1>> : l \in Line}
           /\ UNCHANGED <<asked, snap, now, h, seen>>

\* A copy arrives.  A lost copy is one that never arrives.
Receive(line, seq) ==
    LET fresh == IsNew(h.arb, seq)
        told == [h EXCEPT !.arb = Arbitrate(@, seq, line), !.recon = Reconcile(@, seq, line),
                          !.dedup = Dedup(@, Window, seq),
                          !.recv = ReceiverObserve(@, line, seq, 1)]
    IN  /\ <<line, seq>> \in net
        /\ net' = net \ {<<line, seq>>}
        /\ h' = RequestHoles(IF fresh THEN Accept(told, seq) ELSE told)
        /\ asked' = asked \cup (DOMAIN h'.retx.pending \ DOMAIN h.retx.pending)
        /\ Note(seq, fresh, Accepts(h.dedup, Window, seq))
        /\ UNCHANGED <<sent, snap, now>>

\* The retransmission server answers, however late; or it never does.
Retransmitted(seq) ==
    /\ seq \in asked
    /\ asked' = asked \ {seq}
    /\ LET fills == Fills(h.arb.rec, seq)
           told == [h EXCEPT !.arb.rec = OnRetransmit(@, seq)]
       IN  /\ h' = IF fills THEN Accept(told, seq) ELSE [told EXCEPT !.retx = OnReceived(@, seq)]
           /\ Note(seq, fills, FALSE)
    /\ UNCHANGED <<sent, net, snap, now>>

Running == DOMAIN h.retx.pending # {} \/ (h.want /\ ~h.asking)

\* A timer tick: poll, repeat what is overdue, ask for a snapshot when a number
\* is given up, as soon as the throttle lets it.
Tick ==
    LET t == now + 1
        lost == GivenUp(h.retx, t, Timeout, Attempts)
        want == h.want \/ lost # {}
        due == want /\ ~h.asking
        asks == due /\ Allows(h.throttle, Interval, t)
    IN  /\ Running
        /\ now' = t
        /\ asked' = asked \cup Resent(h.retx, t, Timeout, Attempts)
        /\ h' = [h EXCEPT !.retx = Poll(@, t, Timeout, Attempts),
                          !.throttle = IF due THEN Allow(@, Interval, t) ELSE @,
                          !.want = want /\ ~asks, !.asking = @ \/ asks,
                          !.sync = IF asks THEN NewSync ELSE @]
        /\ seen' = IF asks THEN [seen EXCEPT !.after = {}] ELSE seen
        /\ UNCHANGED <<sent, net, snap>>

\* The snapshot server takes its picture, and the picture arrives.
TakeSnapshot == /\ h.asking /\ snap = 0
                /\ snap' = sent
                /\ UNCHANGED <<sent, net, asked, now, h, seen>>

Resync ==
    LET done(t, s) == IF s <= snap THEN OnReceived(t, s) ELSE t
        rec == SnapshotResync(h.arb.rec, snap)
    IN  /\ snap > 0
        /\ snap' = 0
        /\ h' = [h EXCEPT !.arb.rec = rec, !.sync = ApplySnapshot(@, snap),
                          !.retx = FoldLeft(done, @, SetToSeq(DOMAIN h.retx.pending)),
                          !.asking = FALSE, !.want = @ /\ rec.missing # {}]
        /\ seen' = [seen EXCEPT !.base = Greater(@, snap), !.after = {}]
        /\ UNCHANGED <<sent, net, asked, now>>

FeedNext == \/ Publish \/ Tick \/ TakeSnapshot \/ Resync
            \/ \E l \in Line, s \in 1..LastSeq : Receive(l, s)
            \/ \E s \in 1..LastSeq : Retransmitted(s)

FeedFairness == WF_feedVars(Tick) /\ WF_feedVars(TakeSnapshot) /\ WF_feedVars(Resync)

------------------------------------------------------------------------------
(***************************************************************************)
(* Properties                                                              *)
(***************************************************************************)
\* GapRecovery knows every hole: what lies between the first packet seen and
\* the next one expected, did not arrive and is not in a snapshot.  The other
\* structs, which saw the same arrivals, agree with it: the two arbitrators on
\* what is expected, on the gaps and on how much was ever missing, the
\* contiguous tracker on the first hole, the reconciler on who delivered what.
HolesKnown ==
    LET r == h.arb.rec
        t == h.recv.tracker
    IN  sent > 0 =>
        /\ r.init => r.missing = (Greater(seen.start, seen.base + 1)..(r.expected - 1)) \ seen.got
        /\ LargestOutstandingRun(r) = Max({0} \cup {g[2] - g[1] + 1 : g \in Range(MissingRanges(r))})
        /\ UNION {g[1]..g[2] : g \in Range(MissingRanges(r))} = r.missing
        /\ r.missing # {} => /\ NextRequest(r) = <<OldestMissing(r), Max(r.missing)>>
                             /\ HeadOfLineLag(r) > Cardinality(r.missing)
        /\ h.cont.next = NextHole(0, seen.got) /\ h.cont.ahead = {s \in seen.got : s > h.cont.next}
        /\ seen.base = 0 => /\ t.expected = r.expected /\ t.gaps = r.events
                            /\ t.lost = AvgGapBurst(r)[1]
        /\ Wins(h.arb) <= h.recon.wins["A"] + h.recon.wins["B"]

\* What ReorderBuffer hands on is in order, complete and without repetition from
\* the first packet on, whatever the lines did; what it holds back lies behind a
\* hole.  DedupWindow never lets a number through twice.  A snapshot and the
\* increments kept for it cover everything that arrived.
InOrderOnce ==
    LET b == h.reorder
    IN  sent > 0 =>
        /\ b.out = [i \in 1..(b.expected - seen.start) |-> seen.start + i - 1]
        /\ Range(b.out) \cup b.pending = seen.got
        /\ b.pending # {} /\ seen.base = 0 => b.expected \in Missing(h)
        /\ h.dedup.accepted = Cardinality(seen.passed)
        /\ h.sync.applied => seen.got \subseteq (1..h.sync.snapshot) \cup h.sync.buffered \cup seen.after

\* Every gap is closed in the end, by a line, a retransmission or a snapshot,
\* although any number of packets and requests may be lost.
GapsClose == <>[](Missing(h) = {})
==============================================================================
