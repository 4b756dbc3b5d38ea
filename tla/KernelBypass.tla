----------------------------- MODULE KernelBypass -----------------------------
(***************************************************************************)
(* dpdk-bypass/kernel_bypass_sim.hpp: a thread plays the NIC and pushes    *)
(* packets into PacketRing, spinning while it is full; the benchmark polls *)
(* until it has them all, then joins the thread and sorts the latencies.   *)
(* The two benchmarks differ in delays only, which a step may take anyway. *)
(*                                                                         *)
(* head and tail are masked when stored, so one slot always stays empty.   *)
(* A copy of a slot that the producer is filling would be Garbled.         *)
(***************************************************************************)
EXTENDS Integers, Sequences, FiniteSetsExt, SequencesExt

CONSTANTS RingSize,       \* RING_SIZE
          NumPackets,     \* num_packets
          Garbled,
          MaxClock        \* bound: the clock stops there

VARIABLES packets, head, tail, clock,
          nic, i, seen,          \* producer: step, packets sent, its packet's timestamp
          poll, got, latencies   \* consumer: step, packets it popped, latencies

bypassVars == <<packets, head, tail, clock, nic, i, seen, poll, got, latencies>>

Masked(n) == n % RingSize

BypassInit ==
    /\ packets = [s \in 0..(RingSize - 1) |-> [seq |-> -1, ts |-> 0]]
    /\ head = 0 /\ tail = 0 /\ clock = 0
    /\ nic = "stamp" /\ i = 0 /\ seen = 0
    /\ poll = "test" /\ got = <<>> /\ latencies = <<>>

TimePasses ==
    /\ clock < MaxClock
    /\ clock' = clock + 1
    /\ UNCHANGED <<packets, head, tail, nic, i, seen, poll, got, latencies>>

\* The packet is stamped when it is made, before the ring has room for it.
Stamp ==
    /\ nic = "stamp" /\ i < NumPackets
    /\ seen' = clock /\ nic' = "room"
    /\ UNCHANGED <<packets, head, tail, clock, i, poll, got, latencies>>

\* Mutant of PushRoom: the ring is filled to the last slot.
PushRoomFull ==
    /\ nic = "room"
    /\ nic' = "write"
    /\ UNCHANGED <<packets, head, tail, clock, i, seen, poll, got, latencies>>

\* push: full is next = tail; otherwise the slot, then head
PushRoom ==
    /\ nic = "room" /\ Masked(head + 1) # tail
    /\ nic' = "write"
    /\ UNCHANGED <<packets, head, tail, clock, i, seen, poll, got, latencies>>

PushWrite ==
    /\ nic = "write"
    /\ packets' = [packets EXCEPT ![head] = [seq |-> i, ts |-> seen]]
    /\ nic' = "publish"
    /\ UNCHANGED <<head, tail, clock, i, seen, poll, got, latencies>>

PushPublish ==
    /\ nic = "publish"
    /\ head' = Masked(head + 1) /\ i' = i + 1 /\ nic' = "stamp"
    /\ UNCHANGED <<packets, tail, clock, seen, poll, got, latencies>>

\* pop: empty is tail = head; otherwise the copy, then tail, then the latency
PopTest ==
    /\ poll = "test" /\ Len(latencies) < NumPackets /\ tail # head
    /\ poll' = "copy"
    /\ UNCHANGED <<packets, head, tail, clock, nic, i, seen, got, latencies>>

PopCopy ==
    /\ poll = "copy"
    /\ got' = Append(got, IF nic \in {"write", "publish"} /\ head = tail
                           THEN [packets[tail] EXCEPT !.seq = Garbled] ELSE packets[tail])
    /\ poll' = "release"
    /\ UNCHANGED <<packets, head, tail, clock, nic, i, seen, latencies>>

PopRelease ==
    /\ poll = "release"
    /\ tail' = Masked(tail + 1) /\ poll' = "stamp"
    /\ UNCHANGED <<packets, head, clock, nic, i, seen, got, latencies>>

RecordLatency ==
    /\ poll = "stamp"
    /\ latencies' = Append(latencies, clock - Last(got).ts) /\ poll' = "test"
    /\ UNCHANGED <<packets, head, tail, clock, nic, i, seen, got>>

Received == poll = "test" /\ Len(latencies) = NumPackets

\* producer.join(), and the statistics
Done == Received /\ nic = "stamp" /\ i = NumPackets /\ UNCHANGED bypassVars

Producer == Stamp \/ PushRoom \/ PushWrite \/ PushPublish
Poller == PopTest \/ PopCopy \/ PopRelease \/ RecordLatency
BypassNext == TimePasses \/ Producer \/ Poller \/ Done
BypassSpec == BypassInit /\ [][BypassNext]_bypassVars /\ WF_bypassVars(Producer) /\ WF_bypassVars(Poller)

BypassStats ==
    LET l == SortSeq(latencies, <)
        n == Len(l)
    IN  [low |-> l[1], p50 |-> l[n \div 2 + 1], p99 |-> l[(n * 99) \div 100 + 1], high |-> l[n],
         sum |-> FoldFunction(+, 0, l)]

(***************************************************************************)
(* Every packet is polled once, whole and in the order it was sent, with   *)
(* the latency of its own stamp, which is never negative; the ring never   *)
(* holds more than RingSize - 1 packets; the quantiles are in order.       *)
(***************************************************************************)
PacketsOnce ==
    /\ \A k \in DOMAIN got : got[k].seq = k - 1
    /\ \A k \in DOMAIN latencies : latencies[k] \in 0..clock
    /\ i - Len(got) <= RingSize - 1
    /\ Received => LET s == BypassStats
                   IN  /\ s.low <= s.p50 /\ s.p50 <= s.p99 /\ s.p99 <= s.high
                       /\ NumPackets * s.low <= s.sum /\ s.sum <= NumPackets * s.high

\* The benchmark returns, although each side spins on the other.
BenchmarkReturns == <>(Received /\ i = NumPackets)
==============================================================================
