------------------------------- MODULE Loggers -------------------------------
(***************************************************************************)
(* logger/trade_logger.hpp: the trading thread logs into an array, linear  *)
(* or as a ring, and publishes each record by head_; the flush thread      *)
(* copies what was published to the file and sleeps.  head_ and            *)
(* flush_tail_ are ints, and in a ring the slot is the C++ remainder.      *)
(*                                                                         *)
(* A record is written in place and copied by fwrite while the other       *)
(* thread runs: a copy of a record that is being written is Torn.  The     *)
(* contiguous spans of drain_to_file are copied record by record.  The     *)
(* clocks advance by one an event.                                         *)
(***************************************************************************)
EXTENDS Integers, Sequences, TLC, FiniteSetsExt

CONSTANTS Capacity,         \* max_events_
          Half,             \* an int is in -Half .. Half - 1
          OrderIds, Kinds,  \* order ids (0: none) and event types that are logged
          Torn,
          MaxLogged,        \* bound: events
          MaxStops          \* bound: calls of stop_async_flush

VARIABLES ringMode,
          events,                 \* the array, by slot
          logHead, flushTail,
          sequence, counters,
          writing,                \* log() is between the record and head_
          running,                \* flush_running_
          flusher, h, t,          \* the flush thread, and its locals
          file,
          stops, asked,           \* asked: head_ when the stop was requested
          lapped                  \* history: a slot was reused before it was flushed

logState == <<events, logHead, sequence, counters, writing>>
flushState == <<flushTail, flusher, h, t, file>>
logVars == <<ringMode, logState, flushState, running, stops, asked, lapped>>

Blank == [seq |-> 0, order |-> 0, kind |-> 0, at |-> 0]
Wrapped(n) == IF n >= Half THEN n - 2 * Half ELSE n
\* a % b of C++, which has the sign of a
Remainder(a, b) == IF a >= 0 THEN a % b ELSE -((-a) % b)
EventSlot(n) == IF ringMode THEN Remainder(n, Capacity) ELSE n

LogInit ==
    /\ ringMode \in BOOLEAN
    /\ events = [i \in 0..(Capacity - 1) |-> Blank]
    /\ logHead = 0 /\ flushTail = 0 /\ sequence = 0 /\ counters = [k \in Kinds |-> 0]
    /\ writing = FALSE /\ running = FALSE /\ flusher = "none" /\ h = 0 /\ t = 0
    /\ file = <<>> /\ stops = 0 /\ asked = 0 /\ lapped = FALSE

\* log: the record, then head_.  A full linear buffer refuses.
LogRecord(order, kind) ==
    /\ ~writing /\ sequence < MaxLogged
    /\ ringMode \/ logHead < Capacity
    /\ sequence' = sequence + 1
    /\ events' = [events EXCEPT ![EventSlot(logHead)] = [seq |-> sequence', order |-> order, kind |-> kind, at |-> sequence']]
    /\ counters' = [counters EXCEPT ![kind] = @ + 1]
    /\ writing' = TRUE
    /\ lapped' = (lapped \/ (ringMode /\ logHead - flushTail >= Capacity))
    /\ UNCHANGED <<ringMode, logHead, flushState, running, stops, asked>>

\* Mutant of LogPublish: head_ runs ahead of the record.
LogPublishAhead ==
    /\ writing
    /\ logHead' = Wrapped(logHead + 2) /\ writing' = FALSE
    /\ UNCHANGED <<ringMode, events, sequence, counters, flushState, running, stops, asked, lapped>>

LogPublish ==
    /\ writing
    /\ logHead' = Wrapped(logHead + 1) /\ writing' = FALSE
    /\ UNCHANGED <<ringMode, events, sequence, counters, flushState, running, stops, asked, lapped>>

\* start_async_flush; the header of the session in the file is left out
StartAsyncFlush ==
    /\ flusher = "none"
    /\ running' = TRUE /\ flusher' = "load"
    /\ UNCHANGED <<ringMode, logState, flushTail, h, t, file, stops, asked, lapped>>

\* stop_async_flush, called by the trading thread; it waits for Join
StopRequest ==
    /\ running /\ ~writing /\ stops < MaxStops
    /\ running' = FALSE /\ stops' = stops + 1 /\ asked' = logHead
    /\ UNCHANGED <<ringMode, logState, flushState, lapped>>

Join ==
    /\ flusher = "done"
    /\ flusher' = "none"
    /\ UNCHANGED <<ringMode, logState, flushTail, h, t, file, running, stops, asked, lapped>>

\* flush_loop: load both indices, in the loop or for the final drain
FlushLoad ==
    /\ flusher \in {"load", "final"}
    /\ h' = logHead /\ t' = flushTail
    /\ flusher' = IF flusher = "load" THEN "drain" ELSE "finalDrain"
    /\ UNCHANGED <<ringMode, logState, flushTail, file, running, stops, asked, lapped>>

\* drain_to_file, a record
FlushCopy ==
    /\ flusher \in {"drain", "finalDrain"} /\ t # h
    /\ file' = Append(file, IF writing /\ EventSlot(t) = EventSlot(logHead) THEN Torn ELSE events[EventSlot(t)].seq)
    /\ t' = t + 1
    /\ UNCHANGED <<ringMode, logState, flushTail, h, flusher, running, stops, asked, lapped>>

\* the index is stored; the loop ends when the stop is seen
FlushStore ==
    /\ flusher \in {"drain", "finalDrain"} /\ t = h
    /\ flushTail' = t
    /\ flusher' = IF flusher = "finalDrain" THEN "done" ELSE "test"
    /\ UNCHANGED <<ringMode, logState, h, t, file, running, stops, asked, lapped>>

FlushTest ==
    /\ flusher = "test"
    /\ flusher' = IF running THEN "load" ELSE "final"
    /\ UNCHANGED <<ringMode, logState, flushTail, h, t, file, running, stops, asked, lapped>>

Flusher == FlushLoad \/ FlushCopy \/ FlushStore \/ FlushTest
\* The trading thread blocks in the join.
Stopping == ~running /\ flusher # "none"

LogNext ==
    \/ ~Stopping /\ \E order \in OrderIds, kind \in Kinds : LogRecord(order, kind)
    \/ LogPublish
    \/ ~Stopping /\ StartAsyncFlush
    \/ StopRequest
    \/ Join
    \/ Flusher

LogFair == WF_flushState(Flusher) /\ WF_flushState(Join)
LogSpec == LogInit /\ [][LogNext]_logVars /\ LogFair

------------------------------------------------------------------------------
\* What is read between sessions: the array in the order of its slots
TotalEvents == IF ringMode THEN Min({logHead, Capacity}) ELSE logHead
Stored == [i \in 1..TotalEvents |-> events[i - 1]]
FirstOf(s, maxOut) == SubSeq(s, 1, Min({Len(s), maxOut}))
GetEventsFiltered(order, kind, maxOut) ==
    FirstOf(SelectSeq(Stored, LAMBDA e : (order > 0 => e.order = order) /\ (kind >= 0 => e.kind = kind)), maxOut)
GetOrderTrail(order, maxOut) == GetEventsFiltered(order, -1, maxOut)
GetEventsInRange(from, to, maxOut) ==
    FirstOf(SelectSeq(Stored, LAMBDA e : e.at >= from /\ e.at <= to), maxOut)
UniqueOrders == Cardinality({Stored[i].order : i \in DOMAIN Stored} \ {0})
BufferFull == logHead >= Capacity
TimeSpan == IF TotalEvents < 2 THEN 0 ELSE Stored[TotalEvents].at - Stored[1].at
Gaps == SortSeq([i \in 1..(TotalEvents - 1) |-> Stored[i + 1].at - Stored[i].at], <)
LatencyStats ==
    LET n == Len(Gaps)
    IN  [count |-> n, low |-> Gaps[1], high |-> Gaps[n],
         mean |-> FoldFunction(+, 0, Gaps) \div n, p50 |-> Gaps[n \div 2 + 1],
         p90 |-> Gaps[(n * 90) \div 100 + 1], p99 |-> Gaps[Min({(n * 99) \div 100, n - 1}) + 1]]

(***************************************************************************)
(* The audit file.  As long as no slot is reused before it is flushed, the *)
(* file has every event once, in order and whole, whatever the flush       *)
(* thread sees of head_ while it drains, and over stops and restarts; once *)
(* stop_async_flush returns, everything logged before it is there.  The    *)
(* linear buffer never laps.                                               *)
(***************************************************************************)
AuditComplete ==
    /\ ~lapped => file = [i \in 1..Len(file) |-> i]
    /\ flusher = "none" /\ stops > 0 /\ ~running /\ ~lapped => Len(file) >= asked
    /\ ~ringMode => ~lapped

(***************************************************************************)
(* What is read back from a buffer that has not wrapped is the same events *)
(* in the same order, and the counters by kind add up to all of them.      *)
(***************************************************************************)
AuditReads ==
    /\ FoldFunction(+, 0, counters) = sequence
    /\ ~writing /\ sequence = logHead /\ logHead <= Capacity =>
          /\ [i \in DOMAIN Stored |-> Stored[i].seq] = [i \in 1..sequence |-> i]
          /\ \A k \in Kinds : Len(GetEventsFiltered(0, k, Capacity)) = counters[k]
          /\ UniqueOrders = Cardinality({o \in OrderIds \ {0} : GetOrderTrail(o, 1) # <<>>})
          /\ Len(GetEventsInRange(2, sequence, Capacity)) = Max({0, sequence - 1})
          /\ BufferFull <=> sequence = Capacity
          /\ TimeSpan = Max({0, sequence - 1})
          /\ sequence > 1 => LET s == LatencyStats
                             IN  s.count = sequence - 1 /\ s.low <= s.p50 /\ s.p50 <= s.p90
                                 /\ s.p90 <= s.p99 /\ s.p99 <= s.high /\ s.mean \in s.low..s.high

\* stop_async_flush returns: the flush thread leaves its loop, whatever it had to drain.
StopReturns == Stopping ~> flusher = "none"

------------------------------------------------------------------------------
(***************************************************************************)
(* logger/lockfree_logger.hpp: TradeLogger with an SPSCQueue in the place  *)
(* of the array.  The queue is the bounded FIFO that PipelineProofs shows  *)
(* it to be; a pop and the fwrite after it are one step, which only the    *)
(* flush thread sees.                                                      *)
(***************************************************************************)
CONSTANTS QueueCapacity,    \* what the lfQueue holds
          MaxQueued         \* bound: events

VARIABLES lfQueue, lfNumber, lfLogged, lfCounters, lfRunning, lfFlusher, lfFile, lfStops, lfAsked

queueState == <<lfQueue, lfFile, lfFlusher>>
lfVars == <<queueState, lfNumber, lfLogged, lfCounters, lfRunning, lfStops, lfAsked>>

LfInit ==
    /\ lfQueue = <<>> /\ lfNumber = 0 /\ lfLogged = 0 /\ lfCounters = [k \in Kinds |-> 0]
    /\ lfRunning = FALSE /\ lfFlusher = "none" /\ lfFile = <<>> /\ lfStops = 0 /\ lfAsked = 0

LfStopping == ~lfRunning /\ lfFlusher # "none"

\* Mutant of LfLog: the number of a refused event is not given back.
LfLogBurns(kind) ==
    /\ ~LfStopping /\ lfLogged < MaxQueued /\ lfNumber < 2 * MaxQueued
    /\ lfNumber' = lfNumber + 1
    /\ \/ /\ Len(lfQueue) < QueueCapacity
          /\ lfQueue' = Append(lfQueue, lfNumber + 1) /\ lfLogged' = lfLogged + 1
          /\ lfCounters' = [lfCounters EXCEPT ![kind] = @ + 1]
       \/ /\ Len(lfQueue) = QueueCapacity
          /\ UNCHANGED <<lfQueue, lfLogged, lfCounters>>
    /\ UNCHANGED <<lfRunning, lfFlusher, lfFile, lfStops, lfAsked>>

\* log: the number is taken, and given back when the lfQueue is full
LfLog(kind) ==
    /\ ~LfStopping /\ lfLogged < MaxQueued
    /\ \/ /\ Len(lfQueue) < QueueCapacity
          /\ lfQueue' = Append(lfQueue, lfNumber + 1) /\ lfNumber' = lfNumber + 1
          /\ lfLogged' = lfLogged + 1
          /\ lfCounters' = [lfCounters EXCEPT ![kind] = @ + 1]
       \/ /\ Len(lfQueue) = QueueCapacity
          /\ UNCHANGED <<lfQueue, lfNumber, lfLogged, lfCounters>>
    /\ UNCHANGED <<lfRunning, lfFlusher, lfFile, lfStops, lfAsked>>

LfStart ==
    /\ lfFlusher = "none"
    /\ lfRunning' = TRUE /\ lfFlusher' = "drain"
    /\ UNCHANGED <<lfQueue, lfNumber, lfLogged, lfCounters, lfFile, lfStops, lfAsked>>

LfStopRequest ==
    /\ lfRunning /\ lfStops < MaxStops
    /\ lfRunning' = FALSE /\ lfStops' = lfStops + 1 /\ lfAsked' = lfLogged
    /\ UNCHANGED <<queueState, lfNumber, lfLogged, lfCounters>>

LfJoin ==
    /\ lfFlusher = "done"
    /\ lfFlusher' = "none"
    /\ UNCHANGED <<lfQueue, lfNumber, lfLogged, lfCounters, lfRunning, lfFile, lfStops, lfAsked>>

\* flush_loop: pop and write; on an empty lfQueue test the flag, or end the final drain
LfPop ==
    /\ lfFlusher \in {"drain", "final"} /\ lfQueue # <<>>
    /\ lfFile' = Append(lfFile, Head(lfQueue)) /\ lfQueue' = Tail(lfQueue)
    /\ UNCHANGED <<lfNumber, lfLogged, lfCounters, lfRunning, lfFlusher, lfStops, lfAsked>>

LfEmpty ==
    /\ lfFlusher \in {"drain", "final"} /\ lfQueue = <<>>
    /\ lfFlusher' = IF lfFlusher = "drain" THEN "test" ELSE "done"
    /\ UNCHANGED <<lfQueue, lfNumber, lfLogged, lfCounters, lfRunning, lfFile, lfStops, lfAsked>>

LfTest ==
    /\ lfFlusher = "test"
    /\ lfFlusher' = IF lfRunning THEN "drain" ELSE "final"
    /\ UNCHANGED <<lfQueue, lfNumber, lfLogged, lfCounters, lfRunning, lfFile, lfStops, lfAsked>>

LfFlusher == LfPop \/ LfEmpty \/ LfTest

LfNext ==
    \/ \E kind \in Kinds : LfLog(kind)
    \/ LfStart \/ LfStopRequest \/ LfJoin \/ LfFlusher

LfSpec == LfInit /\ [][LfNext]_lfVars /\ WF_queueState(LfFlusher) /\ WF_queueState(LfJoin)

(***************************************************************************)
(* Every event that got a number is in the file once and in order, with no *)
(* number missing, although a full queue refuses events and gives their    *)
(* numbers back; when stop_async_flush returns the queue is in the file.   *)
(***************************************************************************)
NumbersUnbroken ==
    /\ lfFile \o lfQueue = [i \in 1..lfLogged |-> i]
    /\ lfFlusher = "none" /\ lfStops > 0 /\ ~lfRunning => Len(lfFile) >= lfAsked

\* The counters by kind add up to the events that were accepted.
LfCountersTell == FoldFunction(+, 0, lfCounters) = lfLogged

------------------------------------------------------------------------------
(***************************************************************************)
(* logger/mmap_logger.hpp: records are written straight into a mapped      *)
(* file; the kernel writes dirty pages back when it likes, flush_sync and  *)
(* close force them out.  The record of an event is its sequence number,   *)
(* and 0 a record never written.  A crash of the machine loses the region  *)
(* and keeps the disk.                                                     *)
(***************************************************************************)
CONSTANTS RegionCapacity,    \* capacity_
          MaxOpens           \* bound: calls of open_file that succeed

VARIABLES open, region, disk, mapNumber, mapLogged,
          opens, synced, base   \* history: files opened, numbers forced out, total at the open

mmapVars == <<open, region, disk, mapNumber, mapLogged, opens, synced, base>>

Zeros == [i \in 1..RegionCapacity |-> 0]

MmapInit ==
    /\ open = FALSE /\ region = Zeros /\ disk = Zeros /\ mapNumber = 0 /\ mapLogged = 0
    /\ opens = 0 /\ synced = 0 /\ base = 0

\* open_file truncates the file; the counters keep their values
OpenFile ==
    /\ ~open /\ opens < MaxOpens
    /\ open' = TRUE /\ region' = Zeros /\ disk' = Zeros /\ opens' = opens + 1
    /\ base' = mapLogged /\ synced' = mapLogged
    /\ UNCHANGED <<mapNumber, mapLogged>>

MmapLog ==
    /\ open /\ mapLogged < RegionCapacity
    /\ region' = [region EXCEPT ![mapLogged + 1] = mapNumber + 1]
    /\ mapNumber' = mapNumber + 1 /\ mapLogged' = mapLogged + 1
    /\ UNCHANGED <<open, disk, opens, synced, base>>

\* what msync(region, used) forces out
Forced(used) == [i \in 1..RegionCapacity |-> IF i <= used THEN region[i] ELSE disk[i]]

\* Mutant of FlushSync: the prefix ends one record early.
FlushSyncShort ==
    /\ open
    /\ disk' = Forced(mapLogged - 1) /\ synced' = mapLogged
    /\ UNCHANGED <<open, region, mapNumber, mapLogged, opens, base>>

FlushSync ==
    /\ open
    /\ disk' = Forced(mapLogged) /\ synced' = mapLogged
    /\ UNCHANGED <<open, region, mapNumber, mapLogged, opens, base>>

CloseFile ==
    /\ open
    /\ open' = FALSE /\ disk' = Forced(mapLogged) /\ synced' = mapLogged
    /\ UNCHANGED <<region, mapNumber, mapLogged, opens, base>>

\* the kernel writes a page back
Writeback(i) ==
    /\ open
    /\ disk' = [disk EXCEPT ![i] = region[i]]
    /\ UNCHANGED <<open, region, mapNumber, mapLogged, opens, synced, base>>

\* the machine stops; what is on the disk stays
PowerLoss ==
    /\ open
    /\ open' = FALSE /\ region' = disk /\ mapNumber' = 0 /\ mapLogged' = 0
    /\ opens' = MaxOpens
    /\ UNCHANGED <<disk, synced, base>>

MmapNext ==
    \/ OpenFile \/ MmapLog \/ FlushSync \/ CloseFile
    \/ \E i \in 1..RegionCapacity : Writeback(i)
    \/ PowerLoss

MmapSpec == MmapInit /\ [][MmapNext]_mmapVars

(***************************************************************************)
(* After a flush_sync or a close, every record logged before it is on the  *)
(* disk, over any later write-back and loss of power; and the disk never   *)
(* has a record that was not logged.  A logger that is opened again starts *)
(* its new file after the records of the old one, which stay zero.         *)
(***************************************************************************)
SyncedSurvives ==
    /\ \A i \in (base + 1)..synced : disk[i] = i
    /\ \A i \in 1..RegionCapacity : disk[i] \in {0, i}
    /\ \A i \in 1..base : disk[i] = 0

------------------------------------------------------------------------------
(***************************************************************************)
(* What the three loggers promise the reader of their files: TradeLogger   *)
(* writes every event once and in order unless the ring was lapped,        *)
(* LockfreeLogger leaves no hole although its full queue refuses events,   *)
(* and what MmapLogger has synced survives a loss of power.                *)
(***************************************************************************)
LogsComplete == AuditComplete /\ NumbersUnbroken /\ SyncedSurvives
==============================================================================
