----------------------------- MODULE LoggerProofs -----------------------------
(***************************************************************************)
(* The files of the three loggers for every size of the array, the queue   *)
(* and the mapped region: the flush thread of TradeLogger copies every     *)
(* event once and whole unless the ring is lapped, LockfreeLogger leaves   *)
(* no hole in its numbers, and what MmapLogger has synced survives a loss  *)
(* of power.                                                               *)
(***************************************************************************)
EXTENDS Loggers, Lemmas

\* An array and a region of any size; head_ does not overflow.
Sizes == /\ Capacity \in Nat \ {0} /\ MaxLogged \in Nat /\ Half \in Nat /\ MaxLogged < Half
         /\ QueueCapacity \in Nat /\ RegionCapacity \in Nat

------------------------------------------------------------------------------
(***************************************************************************)
(* MmapLogger.  While the file is open the region holds zeros up to base,  *)
(* then the records logged since the open, then zeros; the disk is behind  *)
(* the region, but never behind what was forced out.                       *)
(***************************************************************************)
Record(i) == IF i > base /\ i <= mapLogged THEN i ELSE 0

MmapInv ==
    /\ open \in BOOLEAN
    /\ mapLogged \in 0..RegionCapacity /\ mapNumber = mapLogged
    /\ base \in 0..RegionCapacity /\ synced \in 0..RegionCapacity
    /\ region \in [1..RegionCapacity -> Nat] /\ disk \in [1..RegionCapacity -> Nat]
    /\ open => /\ base <= mapLogged /\ synced <= mapLogged
               /\ \A i \in 1..RegionCapacity : region[i] = Record(i)
    /\ SyncedSurvives

LEMMA MmapStart == ASSUME Sizes PROVE MmapInit => MmapInv
<1> SUFFICES ASSUME MmapInit PROVE MmapInv
  OBVIOUS
<1>1. Zeros \in [1..RegionCapacity -> Nat] /\ \A i \in 1..RegionCapacity : Zeros[i] = 0
  BY DEF Zeros
<1>2. /\ open = FALSE /\ region = Zeros /\ disk = Zeros /\ mapNumber = 0 /\ mapLogged = 0
      /\ synced = 0 /\ base = 0 /\ RegionCapacity \in Nat
  BY DEF MmapInit, Sizes
<1>3. SyncedSurvives
  BY ONLY <1>1, <1>2 DEF SyncedSurvives
<1>4. open \in BOOLEAN /\ ~open
  BY ONLY <1>2
<1>5. /\ mapLogged \in 0..RegionCapacity /\ mapNumber = mapLogged
      /\ base \in 0..RegionCapacity /\ synced \in 0..RegionCapacity
      /\ region \in [1..RegionCapacity -> Nat] /\ disk \in [1..RegionCapacity -> Nat]
  BY ONLY <1>1, <1>2
<1> QED BY ONLY <1>3, <1>4, <1>5 DEF MmapInv

LEMMA MmapStep == ASSUME Sizes, MmapInv, [MmapNext]_mmapVars PROVE MmapInv'
<1>0. /\ RegionCapacity \in Nat /\ open \in BOOLEAN
      /\ mapLogged \in 0..RegionCapacity /\ mapNumber = mapLogged
      /\ base \in 0..RegionCapacity /\ synced \in 0..RegionCapacity
      /\ region \in [1..RegionCapacity -> Nat] /\ disk \in [1..RegionCapacity -> Nat]
  BY DEF Sizes, MmapInv
<1>a. open => /\ base <= mapLogged /\ synced <= mapLogged
              /\ \A i \in 1..RegionCapacity : region[i] = Record(i)
  BY DEF MmapInv
<1>b. /\ \A i \in (base + 1)..synced : disk[i] = i
      /\ \A i \in 1..RegionCapacity : disk[i] \in {0, i}
      /\ \A i \in 1..base : disk[i] = 0
  BY DEF MmapInv, SyncedSurvives
<1>1. CASE OpenFile
  <2>1. /\ region' = Zeros /\ disk' = Zeros /\ base' = mapLogged /\ synced' = mapLogged
        /\ mapLogged' = mapLogged /\ mapNumber' = mapNumber /\ open' = TRUE
    BY <1>1 DEF OpenFile
  <2>2. Zeros \in [1..RegionCapacity -> Nat] /\ \A i \in 1..RegionCapacity : Zeros[i] = 0
    BY DEF Zeros
  <2>3. \A i \in 1..RegionCapacity : Record(i)' = 0
    BY <1>0, <2>1 DEF Record
  <2>4. SyncedSurvives'
    BY ONLY <1>0, <2>1, <2>2 DEF SyncedSurvives
  <2> QED BY ONLY <1>0, <2>1, <2>2, <2>3, <2>4 DEF MmapInv
<1>2. CASE MmapLog
  <2>1. /\ region' = [region EXCEPT ![mapLogged + 1] = mapNumber + 1] /\ mapLogged < RegionCapacity
        /\ mapNumber' = mapNumber + 1 /\ mapLogged' = mapLogged + 1
        /\ open /\ UNCHANGED <<open, disk, synced, base>>
    BY <1>2 DEF MmapLog
  <2>2. region' \in [1..RegionCapacity -> Nat]
    BY ONLY <1>0, <2>1
  <2>3. \A i \in 1..RegionCapacity : region'[i] = Record(i)'
    BY ONLY <1>0, <1>a, <2>1 DEF Record
  <2>4. SyncedSurvives'
    BY ONLY <1>b, <2>1 DEF SyncedSurvives
  <2> QED BY ONLY <1>0, <1>a, <2>1, <2>2, <2>3, <2>4 DEF MmapInv
<1>3. CASE FlushSync \/ CloseFile
  <2>1. /\ disk' = Forced(mapLogged) /\ synced' = mapLogged /\ open /\ open' \in BOOLEAN
        /\ UNCHANGED <<region, mapNumber, mapLogged, base>>
    BY <1>3 DEF FlushSync, CloseFile
  <2>2. disk' \in [1..RegionCapacity -> Nat]
    BY <1>0, <2>1 DEF Forced
  <2>3. \A i \in 1..RegionCapacity : disk'[i] = IF i <= mapLogged THEN Record(i) ELSE disk[i]
    BY <1>a, <2>1 DEF Forced
  <2>4. SyncedSurvives'
    BY ONLY <1>0, <1>a, <1>b, <2>1, <2>3 DEF SyncedSurvives, Record
  <2>5. \A i \in 1..RegionCapacity : Record(i)' = Record(i)
    BY ONLY <2>1 DEF Record
  <2> QED BY ONLY <1>0, <1>a, <2>1, <2>2, <2>4, <2>5 DEF MmapInv
<1>4. ASSUME NEW k \in 1..RegionCapacity, Writeback(k) PROVE MmapInv'
  <2>1. /\ disk' = [disk EXCEPT ![k] = region[k]] /\ open
        /\ UNCHANGED <<open, region, mapNumber, mapLogged, synced, base>>
    BY <1>4 DEF Writeback
  <2>2. region[k] = Record(k) /\ synced <= mapLogged
    BY ONLY <1>4, <1>a, <2>1
  <2>3. \A i \in 1..RegionCapacity : disk'[i] = IF i = k THEN Record(i) ELSE disk[i]
    BY ONLY <1>0, <2>1, <2>2
  <2>4. SyncedSurvives'
    BY ONLY <1>0, <1>a, <1>b, <2>1, <2>3 DEF SyncedSurvives, Record
  <2>5. \A i \in 1..RegionCapacity : Record(i)' = Record(i)
    BY ONLY <2>1 DEF Record
  <2>6. disk' \in [1..RegionCapacity -> Nat]
    BY ONLY <1>0, <2>1
  <2> QED BY ONLY <1>0, <1>a, <2>1, <2>4, <2>5, <2>6 DEF MmapInv
<1>5. CASE PowerLoss
  <2>1. /\ open' = FALSE /\ region' = disk /\ mapNumber' = 0 /\ mapLogged' = 0
        /\ UNCHANGED <<disk, synced, base>>
    BY <1>5 DEF PowerLoss
  <2>2. SyncedSurvives'
    BY ONLY <1>b, <2>1 DEF SyncedSurvives
  <2>3. open' \in BOOLEAN /\ ~open'
    BY ONLY <2>1
  <2>4. /\ mapLogged' \in 0..RegionCapacity /\ mapNumber' = mapLogged'
        /\ base' \in 0..RegionCapacity /\ synced' \in 0..RegionCapacity
        /\ region' \in [1..RegionCapacity -> Nat] /\ disk' \in [1..RegionCapacity -> Nat]
    BY ONLY <1>0, <2>1
  <2> QED BY ONLY <2>2, <2>3, <2>4 DEF MmapInv
<1>6. CASE UNCHANGED mmapVars
  BY <1>6 DEF mmapVars, MmapInv, SyncedSurvives, Record
<1> QED BY <1>1, <1>2, <1>3, <1>4, <1>5, <1>6 DEF MmapNext

\* What flush_sync or a close has forced out stays on the disk, over any
\* write-back and loss of power, for a region of any size.
THEOREM SyncedStays == ASSUME Sizes PROVE MmapSpec => []SyncedSurvives
<1>1. MmapInv /\ [MmapNext]_mmapVars => MmapInv'
  BY MmapStep
<1>2. MmapInv => SyncedSurvives
  BY DEF MmapInv
<1> QED BY <1>1, <1>2, MmapStart, PTL DEF MmapSpec

------------------------------------------------------------------------------
(***************************************************************************)
(* LockfreeLogger.  The file and the queue behind it are the numbers from  *)
(* one, without a hole; a flush thread that ended after the stop has found *)
(* the queue empty, and the trading thread logs nothing until it joins.    *)
(***************************************************************************)
LfRecords ==
    /\ lfFile \in Seq(Nat) /\ lfQueue \in Seq(Nat) /\ lfLogged \in Nat /\ lfNumber = lfLogged
    /\ Len(lfFile) + Len(lfQueue) = lfLogged
    /\ \A k \in 1..Len(lfFile) : lfFile[k] = k
    /\ \A k \in 1..Len(lfQueue) : lfQueue[k] = Len(lfFile) + k

LfThread ==
    /\ lfAsked \in Nat /\ lfAsked <= lfLogged
    /\ lfRunning \in BOOLEAN
    /\ lfFlusher \in {"none", "drain", "test", "final", "done"}
    /\ lfRunning => lfFlusher \in {"drain", "test"}
    /\ lfStops > 0 /\ ~lfRunning /\ lfFlusher \in {"none", "done"} => lfAsked <= Len(lfFile)

LfInv == LfRecords /\ LfThread

LEMMA LfStart0 == LfInit => LfInv
<1> SUFFICES ASSUME LfInit PROVE LfInv
  OBVIOUS
<1>1. /\ lfQueue = <<>> /\ lfFile = <<>> /\ lfLogged = 0 /\ lfNumber = 0 /\ lfAsked = 0
      /\ lfFlusher = "none"
  BY DEF LfInit
<1>2. lfRunning \in BOOLEAN /\ ~lfRunning
  BY DEF LfInit
<1>3. <<>> \in Seq(Nat) /\ Len(<<>>) = 0
  OBVIOUS
<1>4. LfRecords
  BY ONLY <1>1, <1>3 DEF LfRecords
<1>5. LfThread
  BY ONLY <1>1, <1>2, <1>3 DEF LfThread
<1> QED BY <1>4, <1>5 DEF LfInv

LEMMA LfStep == ASSUME LfInv, [LfNext]_lfVars PROVE LfInv'
<1>0. LfRecords /\ LfThread
  BY DEF LfInv
<1>a. Len(lfFile) + Len(lfQueue) = lfLogged
  BY ONLY <1>0 DEF LfRecords
<1>b. \A k \in 1..Len(lfFile) : lfFile[k] = k
  BY ONLY <1>0 DEF LfRecords
<1>c. \A k \in 1..Len(lfQueue) : lfQueue[k] = Len(lfFile) + k
  BY ONLY <1>0 DEF LfRecords
\* A number goes to the end of the queue.
<1>1. ASSUME NEW kind \in Kinds, LfLog(kind) PROVE LfInv'
  <2>1. UNCHANGED <<lfRunning, lfFlusher, lfFile, lfStops, lfAsked>>
    BY ONLY <1>1 DEF LfLog
  <2>2. CASE UNCHANGED <<lfQueue, lfNumber, lfLogged>>
    BY ONLY <1>0, <2>1, <2>2 DEF LfInv, LfRecords, LfThread
  <2>3. CASE lfQueue' = Append(lfQueue, lfNumber + 1) /\ lfNumber' = lfNumber + 1 /\ lfLogged' = lfLogged + 1
    <3>0. Len(lfFile) \in Nat /\ Len(lfQueue) \in Nat /\ lfLogged \in Nat
      BY ONLY <1>0 DEF LfRecords
    <3>1. /\ lfQueue \in Seq(Nat) /\ lfLogged + 1 \in Nat /\ lfLogged \in Nat /\ Len(lfQueue) \in Nat
          /\ lfQueue' = Append(lfQueue, lfLogged + 1) /\ Len(lfFile) \in Nat
      BY ONLY <1>0, <2>3 DEF LfRecords
    <3>2. /\ lfQueue' \in Seq(Nat) /\ Len(lfQueue') = Len(lfQueue) + 1
          /\ lfQueue'[Len(lfQueue) + 1] = lfLogged + 1
          /\ \A k \in 1..Len(lfQueue) : lfQueue'[k] = lfQueue[k]
      BY ONLY <3>1, Appended
    <3>3. ASSUME NEW k \in 1..Len(lfQueue') PROVE lfQueue'[k] = Len(lfFile) + k
      <4>1. CASE k = Len(lfQueue) + 1
        <5>1. lfQueue'[k] = lfLogged + 1
          BY ONLY <3>2, <4>1
        <5>2. lfLogged + 1 = Len(lfFile) + (Len(lfQueue) + 1)
          BY ONLY <1>a, <3>0
        <5> QED BY ONLY <4>1, <5>1, <5>2
      <4>2. CASE k \in 1..Len(lfQueue)
        BY ONLY <1>c, <3>2, <4>2
      <4> QED BY ONLY <3>1, <3>2, <4>1, <4>2
    <3>4. LfRecords'
      BY ONLY <1>0, <2>1, <2>3, <3>1, <3>2, <3>3 DEF LfRecords
    <3>5. LfThread'
      BY ONLY <1>0, <2>1, <2>3, <3>1 DEF LfThread
    <3> QED BY ONLY <3>4, <3>5 DEF LfInv
  <2> QED BY ONLY <1>1, <2>2, <2>3 DEF LfLog
\* The logHead of the queue goes to the end of the file.
<1>2. CASE LfPop
  <2>1. /\ lfQueue # <<>> /\ lfFile' = Append(lfFile, Head(lfQueue)) /\ lfQueue' = Tail(lfQueue)
        /\ UNCHANGED <<lfNumber, lfLogged, lfRunning, lfFlusher, lfStops, lfAsked>>
        /\ lfFlusher \in {"drain", "final"}
    BY ONLY <1>2 DEF LfPop
  <2>2. lfFile \in Seq(Nat) /\ lfQueue \in Seq(Nat) /\ Len(lfFile) \in Nat /\ Len(lfQueue) \in Nat
    BY ONLY <1>0 DEF LfRecords
  <2>3. /\ Head(lfQueue) = lfQueue[1] /\ Head(lfQueue) \in Nat /\ Len(lfQueue) >= 1
        /\ lfQueue' \in Seq(Nat) /\ Len(lfQueue') = Len(lfQueue) - 1
        /\ \A k \in 1..(Len(lfQueue) - 1) : lfQueue'[k] = lfQueue[k + 1]
    BY ONLY <2>1, <2>2
  <2>4. /\ lfFile' \in Seq(Nat) /\ Len(lfFile') = Len(lfFile) + 1
        /\ lfFile'[Len(lfFile) + 1] = Head(lfQueue)
        /\ \A k \in 1..Len(lfFile) : lfFile'[k] = lfFile[k]
    BY ONLY <2>1, <2>2, <2>3, Appended
  <2>5. Head(lfQueue) = Len(lfFile) + 1
    BY ONLY <1>c, <2>2, <2>3
  <2>6. ASSUME NEW k \in 1..Len(lfFile') PROVE lfFile'[k] = k
    <3>1. CASE k = Len(lfFile) + 1
      BY ONLY <2>4, <2>5, <3>1
    <3>2. CASE k \in 1..Len(lfFile)
      BY ONLY <1>b, <2>4, <3>2
    <3> QED BY ONLY <2>2, <2>4, <3>1, <3>2
  <2>7. ASSUME NEW k \in 1..Len(lfQueue') PROVE lfQueue'[k] = Len(lfFile') + k
    <3>1. k \in 1..(Len(lfQueue) - 1) /\ k + 1 \in 1..Len(lfQueue)
      BY ONLY <2>2, <2>3
    <3>2. lfQueue'[k] = Len(lfFile) + (k + 1)
      BY ONLY <1>c, <2>3, <3>1
    <3>3. Len(lfFile) + (k + 1) = Len(lfFile') + k
      BY ONLY <2>2, <2>4, <3>1
    <3> QED BY ONLY <3>2, <3>3
  <2>a. Len(lfFile') + Len(lfQueue') = lfLogged'
    BY ONLY <1>a, <2>1, <2>2, <2>3, <2>4
  <2>b. lfLogged' \in Nat /\ lfNumber' = lfLogged'
    BY ONLY <1>0, <2>1 DEF LfRecords
  <2>8. LfRecords'
    BY ONLY <2>3, <2>4, <2>6, <2>7, <2>a, <2>b DEF LfRecords
  <2>9. LfThread'
    BY ONLY <1>0, <2>1, <2>2, <2>4 DEF LfThread
  <2> QED BY ONLY <2>8, <2>9 DEF LfInv
<1>3. CASE LfEmpty
  <2>1. /\ lfQueue = <<>> /\ lfFlusher \in {"drain", "final"}
        /\ lfFlusher' = IF lfFlusher = "drain" THEN "test" ELSE "done"
        /\ UNCHANGED <<lfQueue, lfNumber, lfLogged, lfRunning, lfFile, lfStops, lfAsked>>
    BY ONLY <1>3 DEF LfEmpty
  <2>2. Len(lfFile) = lfLogged
    BY ONLY <1>0, <2>1 DEF LfRecords
  <2>3. LfThread'
    BY ONLY <1>0, <2>1, <2>2 DEF LfThread
  <2>4. LfRecords'
    BY ONLY <1>0, <2>1 DEF LfRecords
  <2> QED BY ONLY <2>3, <2>4 DEF LfInv
<1>4. CASE LfStart \/ LfJoin \/ LfTest
  <2>1. UNCHANGED <<lfQueue, lfNumber, lfLogged, lfFile, lfStops, lfAsked>>
    BY ONLY <1>4 DEF LfStart, LfJoin, LfTest
  <2>2. LfRecords'
    BY ONLY <1>0, <2>1 DEF LfRecords
  <2>3. CASE LfStart
    BY ONLY <1>0, <2>1, <2>2, <2>3 DEF LfStart, LfThread, LfInv
  <2>4. CASE LfJoin
    BY ONLY <1>0, <2>1, <2>2, <2>4 DEF LfJoin, LfThread, LfInv
  <2>5. CASE LfTest
    BY ONLY <1>0, <2>1, <2>2, <2>5 DEF LfTest, LfThread, LfInv
  <2> QED BY ONLY <1>4, <2>3, <2>4, <2>5
<1>5. CASE LfStopRequest
  <2>1. /\ lfRunning /\ lfRunning' = FALSE /\ lfAsked' = lfLogged
        /\ UNCHANGED <<lfQueue, lfFile, lfFlusher, lfNumber, lfLogged>>
    BY ONLY <1>5 DEF LfStopRequest, queueState
  <2>2. LfRecords'
    BY ONLY <1>0, <2>1 DEF LfRecords
  <2>3. lfFlusher' \in {"drain", "test"} /\ lfAsked' \in Nat /\ lfAsked' <= lfLogged'
    BY ONLY <1>0, <2>1 DEF LfThread, LfRecords
  <2>4. LfThread'
    BY ONLY <2>1, <2>3 DEF LfThread
  <2> QED BY ONLY <2>2, <2>4 DEF LfInv
<1>6. CASE UNCHANGED lfVars
  BY ONLY <1>0, <1>6 DEF lfVars, queueState, LfInv, LfRecords, LfThread
<1> QED BY <1>1, <1>2, <1>3, <1>4, <1>5, <1>6 DEF LfNext, LfFlusher

\* The file of LockfreeLogger and its queue have every number once and in
\* order, and a stop that returned has emptied the queue, for a queue of any
\* size and any kinds of event.
THEOREM NumbersStayUnbroken == LfSpec => []NumbersUnbroken
<1>1. LfInv /\ [LfNext]_lfVars => LfInv'
  BY LfStep
<1>2. ASSUME LfInv PROVE NumbersUnbroken
  <2>0. LfRecords /\ LfThread
    BY <1>2 DEF LfInv
  <2> DEFINE all == lfFile \o lfQueue
  <2>1. lfFile \in Seq(Nat) /\ lfQueue \in Seq(Nat) /\ Len(lfFile) \in Nat /\ Len(lfQueue) \in Nat
    BY ONLY <2>0 DEF LfRecords
  <2>2. /\ all \in Seq(Nat) /\ Len(all) = Len(lfFile) + Len(lfQueue)
        /\ \A k \in 1..(Len(lfFile) + Len(lfQueue)) :
              all[k] = IF k <= Len(lfFile) THEN lfFile[k] ELSE lfQueue[k - Len(lfFile)]
    BY ONLY <2>1
  <2> HIDE DEF all
  <2>3. Len(all) = lfLogged /\ lfLogged \in Nat
    BY ONLY <2>0, <2>2 DEF LfRecords
  <2>4. ASSUME NEW k \in 1..lfLogged PROVE all[k] = k
    <3>1. CASE k <= Len(lfFile)
      <4>1. k \in 1..Len(lfFile) /\ k \in 1..(Len(lfFile) + Len(lfQueue))
        BY ONLY <2>1, <2>2, <2>3, <3>1
      <4>2. lfFile[k] = k
        BY ONLY <2>0, <4>1 DEF LfRecords
      <4> QED BY ONLY <2>2, <3>1, <4>1, <4>2
    <3>2. CASE ~(k <= Len(lfFile))
      <4>1. k - Len(lfFile) \in 1..Len(lfQueue)
        BY ONLY <2>1, <2>2, <2>3, <3>2
      <4>2. lfQueue[k - Len(lfFile)] = Len(lfFile) + (k - Len(lfFile))
        BY ONLY <2>0, <4>1 DEF LfRecords
      <4> QED BY ONLY <2>1, <2>2, <2>3, <3>2, <4>2
    <3> QED BY ONLY <3>1, <3>2
  <2>5. all = [i \in 1..lfLogged |-> i]
    BY ONLY <2>2, <2>3, <2>4
  <2>6. lfFlusher = "none" /\ lfStops > 0 /\ ~lfRunning => Len(lfFile) >= lfAsked
    BY ONLY <2>0, <2>1 DEF LfThread
  <2> QED BY <2>5, <2>6 DEF NumbersUnbroken, all
<1> QED BY <1>1, <1>2, LfStart0, PTL DEF LfSpec

------------------------------------------------------------------------------
(***************************************************************************)
(* TradeLogger.  What log() has written and the flush thread has not yet   *)
(* stored is in the array, whole, as long as the ring is not lapped: there *)
(* are at most Capacity such events, so their slots differ, and the one    *)
(* being written is none of those the thread may copy.                     *)
(***************************************************************************)
Event == [seq : Nat, order : OrderIds \cup {0}, kind : Kinds \cup {0}, at : Nat]
Draining == flusher \in {"drain", "finalDrain"}

LogTypes ==
    /\ ringMode \in BOOLEAN /\ writing \in BOOLEAN /\ lapped \in BOOLEAN
    /\ events \in [0..(Capacity - 1) -> Event]
    /\ sequence \in 0..MaxLogged /\ logHead \in Nat /\ flushTail \in Nat /\ asked \in Nat
    /\ logHead = IF writing THEN sequence - 1 ELSE sequence
    /\ flushTail <= logHead /\ asked <= logHead

InArray ==
    /\ ~ringMode => sequence <= Capacity /\ ~lapped
    /\ ~lapped => /\ sequence - flushTail <= Capacity
                  /\ \A n \in flushTail..(sequence - 1) : events[EventSlot(n)].seq = n + 1

InFile ==
    /\ file \in Seq(Nat \cup {Torn})
    /\ Draining => /\ h \in Nat /\ t \in Nat /\ flushTail <= t /\ t <= h /\ h <= logHead
                   /\ Len(file) = t
    /\ ~Draining => Len(file) = flushTail
    /\ ~lapped => \A n \in 1..Len(file) : file[n] = n

FlushThread ==
    /\ running \in BOOLEAN
    /\ flusher \in {"none", "load", "drain", "test", "final", "finalDrain", "done"}
    /\ running => flusher \in {"load", "drain", "test"}
    /\ stops > 0 /\ ~running /\ flusher = "finalDrain" => asked <= h
    /\ stops > 0 /\ ~running /\ flusher \in {"none", "done"} => asked <= flushTail

LogInv == LogTypes /\ InArray /\ InFile /\ FlushThread

\* The slot of a number, and two numbers less than a lap apart.
LEMMA SlotIn ==
    ASSUME Sizes, NEW n \in Nat, ringMode \/ n < Capacity
    PROVE  EventSlot(n) \in 0..(Capacity - 1)
<1>0. Capacity \in Nat \ {0}
  BY DEF Sizes
<1>1. CASE ringMode
  <2>1. EventSlot(n) = n % Capacity
    BY <1>1 DEF EventSlot, Remainder
  <2> QED BY ONLY <1>0, <2>1, n \in Nat, ModRange
<1>2. CASE ~ringMode
  BY <1>0, <1>2 DEF EventSlot
<1> QED BY <1>1, <1>2

LEMMA SlotsApart ==
    ASSUME Sizes, NEW m \in Nat, NEW n \in Nat, m < n, n < m + Capacity
    PROVE  EventSlot(m) # EventSlot(n)
<1>0. Capacity \in Nat \ {0}
  BY DEF Sizes
<1>1. CASE ringMode
  <2>1. EventSlot(m) = m % Capacity /\ EventSlot(n) = n % Capacity
    BY <1>1 DEF EventSlot, Remainder
  <2>2. m % Capacity # n % Capacity
    BY <1>0, ModDistinct
  <2> QED BY ONLY <2>1, <2>2
<1>2. CASE ~ringMode
  BY <1>2 DEF EventSlot
<1> QED BY <1>1, <1>2

LEMMA LogStart == ASSUME Sizes PROVE LogInit => LogInv
<1> SUFFICES ASSUME LogInit PROVE LogInv
  OBVIOUS
<1>1. /\ events = [i \in 0..(Capacity - 1) |-> Blank]
      /\ logHead = 0 /\ flushTail = 0 /\ sequence = 0 /\ flusher = "none" /\ file = <<>> /\ asked = 0
      /\ Capacity \in Nat \ {0} /\ MaxLogged \in Nat
  BY DEF LogInit, Sizes
<1>2. /\ ringMode \in BOOLEAN /\ writing \in BOOLEAN /\ ~writing /\ lapped \in BOOLEAN /\ ~lapped
      /\ running \in BOOLEAN /\ ~running
  BY DEF LogInit
<1>3. Blank \in Event
  BY DEF Blank, Event
<1>4. LogTypes
  BY ONLY <1>1, <1>2, <1>3 DEF LogTypes
<1>5. InArray
  BY ONLY <1>1, <1>2 DEF InArray
<1>6. InFile
  <2>1. <<>> \in Seq(Nat \cup {Torn}) /\ Len(<<>>) = 0
    OBVIOUS
  <2>2. ~Draining
    BY ONLY <1>1 DEF Draining
  <2> QED BY ONLY <1>1, <2>1, <2>2 DEF InFile
<1>7. FlushThread
  BY ONLY <1>1, <1>2 DEF FlushThread
<1> QED BY ONLY <1>4, <1>5, <1>6, <1>7 DEF LogInv

\* The thread that logs.  The record goes into a slot that holds nothing the
\* flush thread still needs, or the ring is lapped.
LEMMA RecordStep ==
    ASSUME Sizes, LogInv, NEW o \in OrderIds, NEW kind \in Kinds, LogRecord(o, kind)
    PROVE  LogInv'
<1>0. LogTypes /\ InArray /\ InFile /\ FlushThread
  BY DEF LogInv
<1> DEFINE e == [seq |-> sequence + 1, order |-> o, kind |-> kind, at |-> sequence + 1]
<1>1. /\ sequence < MaxLogged /\ sequence' = sequence + 1
      /\ events' = [events EXCEPT ![EventSlot(logHead)] = e]
      /\ UNCHANGED <<ringMode, logHead, flushTail, flusher, h, t, file, running, stops, asked>>
  BY DEF LogRecord, flushState
<1>2. ~writing /\ writing' = TRUE /\ (ringMode \/ logHead < Capacity)
  BY DEF LogRecord
<1>3. lapped' = (lapped \/ (ringMode /\ logHead - flushTail >= Capacity))
  BY DEF LogRecord
<1>4. /\ Capacity \in Nat \ {0} /\ MaxLogged \in Nat /\ sequence \in Nat /\ logHead = sequence
      /\ flushTail \in Nat /\ flushTail <= logHead /\ asked \in Nat /\ asked <= logHead
  BY ONLY Sizes, <1>0, <1>2 DEF Sizes, LogTypes
<1>5. e \in Event /\ e.seq = sequence + 1
  BY ONLY <1>4, o \in OrderIds, kind \in Kinds DEF Event
<1> HIDE DEF e
<1>6. EventSlot(logHead) \in 0..(Capacity - 1)
  BY ONLY Sizes, <1>2, <1>4, SlotIn
<1>7. LogTypes'
  <2>1. events' \in [0..(Capacity - 1) -> Event]
    BY ONLY <1>0, <1>1, <1>5 DEF LogTypes
  <2>2. ringMode' \in BOOLEAN /\ writing' \in BOOLEAN /\ writing' /\ lapped' \in BOOLEAN
    BY ONLY <1>0, <1>1, <1>2, <1>3 DEF LogTypes
  <2>3. /\ sequence' \in 0..MaxLogged /\ logHead' \in Nat /\ flushTail' \in Nat /\ asked' \in Nat
        /\ flushTail' <= logHead' /\ asked' <= logHead' /\ logHead' = sequence' - 1
    BY ONLY <1>1, <1>4
  <2> QED BY ONLY <2>1, <2>2, <2>3 DEF LogTypes
<1>8. InArray'
  <2>1. ASSUME ~ringMode PROVE sequence' <= Capacity /\ ~lapped'
    <3>1. sequence' <= Capacity
      BY ONLY <1>1, <1>2, <1>4, <2>1
    <3>a. ~lapped
      BY ONLY <1>0, <2>1 DEF InArray
    <3>2. ~lapped'
      BY ONLY <1>3, <2>1, <3>a
    <3> QED BY ONLY <3>1, <3>2
  <2>2. ASSUME ~lapped' PROVE logHead < flushTail + Capacity
    <3>1. CASE ringMode
      <4>1. ~(logHead - flushTail >= Capacity)
        BY ONLY <1>3, <2>2, <3>1
      <4> QED BY ONLY <1>4, <4>1
    <3>2. CASE ~ringMode
      BY ONLY <1>2, <1>4, <3>2
    <3> QED BY ONLY <3>1, <3>2
  <2>3. ASSUME ~lapped', NEW n \in flushTail..sequence PROVE events'[EventSlot(n)].seq = n + 1
    <3>1. CASE n = logHead
      BY ONLY <1>0, <1>1, <1>4, <1>5, <1>6, <3>1 DEF LogTypes
    <3>2. CASE n # logHead
      <4>1. n \in Nat /\ n < logHead /\ logHead < n + Capacity /\ n \in flushTail..(sequence - 1)
        BY ONLY <1>4, <2>2, <2>3, <3>2
      <4>2. EventSlot(n) # EventSlot(logHead)
        BY ONLY Sizes, <1>4, <4>1, SlotsApart
      <4>3. ringMode \/ n < Capacity
        BY ONLY <1>2, <1>4, <4>1
      <4>4. EventSlot(n) \in 0..(Capacity - 1)
        BY ONLY Sizes, <4>1, <4>3, SlotIn
      <4>5. events'[EventSlot(n)] = events[EventSlot(n)]
        BY ONLY <1>0, <1>1, <4>2, <4>4 DEF LogTypes
      <4>6. ~lapped
        BY ONLY <1>3, <2>3
      <4>7. events[EventSlot(n)].seq = n + 1
        BY ONLY <1>0, <4>1, <4>6 DEF InArray
      <4> QED BY ONLY <4>5, <4>7
    <3> QED BY ONLY <3>1, <3>2
  <2>4. \A n : EventSlot(n)' = EventSlot(n)
    BY ONLY <1>1 DEF EventSlot
  <2>5. /\ flushTail' = flushTail /\ sequence' - 1 = sequence /\ ringMode' = ringMode
        /\ ~lapped' => sequence' - flushTail <= Capacity
    BY ONLY <1>1, <1>4, <2>2
  <2> QED BY ONLY <2>1, <2>3, <2>4, <2>5 DEF InArray
<1>9. InFile'
  <2>1. Draining' <=> Draining
    BY ONLY <1>1 DEF Draining
  <2>2. ~lapped' => ~lapped
    BY ONLY <1>3
  <2> QED BY ONLY <1>0, <1>1, <2>1, <2>2 DEF InFile
<1>10. FlushThread'
  BY ONLY <1>0, <1>1 DEF FlushThread
<1> QED BY ONLY <1>7, <1>8, <1>9, <1>10 DEF LogInv

\* head_ reaches the record that was written, and does not overflow.
LEMMA PublishStep == ASSUME Sizes, LogInv, LogPublish PROVE LogInv'
<1>0. LogTypes /\ InArray /\ InFile /\ FlushThread
  BY DEF LogInv
<1>1. /\ logHead' = Wrapped(logHead + 1)
      /\ UNCHANGED <<ringMode, events, sequence, flushTail, flusher, h, t, file, running, stops, asked, lapped>>
  BY DEF LogPublish, flushState
<1>2. writing /\ writing' \in BOOLEAN /\ ~writing'
  BY DEF LogPublish
<1>3. /\ MaxLogged \in Nat /\ Half \in Nat /\ MaxLogged < Half /\ sequence \in 0..MaxLogged
      /\ logHead \in Nat /\ logHead + 1 = sequence
      /\ flushTail \in Nat /\ flushTail <= logHead /\ asked \in Nat /\ asked <= logHead
  BY ONLY Sizes, <1>0, <1>2 DEF Sizes, LogTypes
<1>4. logHead' = logHead + 1
  BY ONLY <1>1, <1>3 DEF Wrapped
<1>5. LogTypes'
  <2>1. /\ ringMode' \in BOOLEAN /\ lapped' \in BOOLEAN /\ events' \in [0..(Capacity - 1) -> Event]
    BY ONLY <1>0, <1>1 DEF LogTypes
  <2>2. /\ sequence' \in 0..MaxLogged /\ logHead' \in Nat /\ flushTail' \in Nat /\ asked' \in Nat
        /\ flushTail' <= logHead' /\ asked' <= logHead' /\ logHead' = sequence'
    BY ONLY <1>1, <1>3, <1>4
  <2> QED BY ONLY <1>2, <2>1, <2>2 DEF LogTypes
<1>6. InArray'
  <2>1. \A n : EventSlot(n)' = EventSlot(n)
    BY ONLY <1>1 DEF EventSlot
  <2> QED BY ONLY <1>0, <1>1, <2>1 DEF InArray
<1>7. InFile'
  <2>1. Draining' <=> Draining
    BY ONLY <1>1 DEF Draining
  <2>2. Draining => h <= logHead'
    BY ONLY <1>0, <1>3, <1>4 DEF InFile
  <2> QED BY ONLY <1>0, <1>1, <2>1, <2>2 DEF InFile
<1>8. FlushThread'
  BY ONLY <1>0, <1>1 DEF FlushThread
<1> QED BY ONLY <1>5, <1>6, <1>7, <1>8 DEF LogInv

\* Starting, stopping and joining move no event.
LEMMA ControlStep ==
    ASSUME LogInv, StartAsyncFlush \/ StopRequest \/ Join \/ FlushTest
    PROVE  LogInv'
<1>0. LogTypes /\ InArray /\ InFile /\ FlushThread
  BY DEF LogInv
<1>1. /\ UNCHANGED <<ringMode, events, logHead, sequence, writing, flushTail, file, lapped>>
      /\ h' = h /\ t' = t
  BY DEF StartAsyncFlush, StopRequest, Join, FlushTest, logState, flushState
<1>2. asked' \in {asked, logHead}
  BY DEF StartAsyncFlush, StopRequest, Join, FlushTest
<1>3. LogTypes'
  <2>1. asked' \in Nat /\ asked' <= logHead'
    BY ONLY <1>0, <1>1, <1>2 DEF LogTypes
  <2> QED BY ONLY <1>0, <1>1, <2>1 DEF LogTypes
<1>4. InArray'
  <2>1. \A n : EventSlot(n)' = EventSlot(n)
    BY ONLY <1>1 DEF EventSlot
  <2> QED BY ONLY <1>0, <1>1, <2>1 DEF InArray
<1>5. InFile'
  <2>1. Draining' <=> Draining
    <3>1. CASE StopRequest
      BY ONLY <3>1 DEF StopRequest, flushState, Draining
    <3>2. CASE StartAsyncFlush \/ Join \/ FlushTest
      BY ONLY <3>2 DEF StartAsyncFlush, Join, FlushTest, Draining
    <3> QED BY <3>1, <3>2
  <2> QED BY ONLY <1>0, <1>1, <2>1 DEF InFile
<1>6. FlushThread'
  <2>1. CASE StartAsyncFlush
    BY ONLY <1>0, <2>1 DEF StartAsyncFlush, FlushThread
  <2>2. CASE StopRequest
    <3>1. running /\ running' \in BOOLEAN /\ ~running' /\ flusher' = flusher
      BY ONLY <2>2 DEF StopRequest, flushState
    <3>2. flusher \in {"load", "drain", "test"}
      BY ONLY <1>0, <3>1 DEF FlushThread
    <3> QED BY ONLY <3>1, <3>2 DEF FlushThread
  <2>3. CASE Join
    BY ONLY <1>0, <2>3 DEF Join, FlushThread
  <2>4. CASE FlushTest
    BY ONLY <1>0, <2>4 DEF FlushTest, FlushThread
  <2> QED BY <2>1, <2>2, <2>3, <2>4
<1> QED BY ONLY <1>3, <1>4, <1>5, <1>6 DEF LogInv

\* The thread that flushes: it loads both indices, copies, stores.
LEMMA LoadStep == ASSUME LogInv, FlushLoad PROVE LogInv'
<1>0. LogTypes /\ InArray /\ InFile /\ FlushThread
  BY DEF LogInv
<1>1. /\ UNCHANGED <<ringMode, events, logHead, sequence, writing, flushTail, file, running, stops, asked, lapped>>
      /\ h' = logHead /\ t' = flushTail
  BY DEF FlushLoad, logState
<1>2. /\ flusher \in {"load", "final"}
      /\ flusher' = IF flusher = "load" THEN "drain" ELSE "finalDrain"
  BY DEF FlushLoad
<1>3. LogTypes'
  BY ONLY <1>0, <1>1 DEF LogTypes
<1>4. InArray'
  <2>1. \A n : EventSlot(n)' = EventSlot(n)
    BY ONLY <1>1 DEF EventSlot
  <2> QED BY ONLY <1>0, <1>1, <2>1 DEF InArray
<1>5. InFile'
  <2>1. ~Draining /\ Draining'
    BY ONLY <1>2 DEF Draining
  <2>2. logHead \in Nat /\ flushTail \in Nat /\ flushTail <= logHead
    BY ONLY <1>0 DEF LogTypes
  <2> QED BY ONLY <1>0, <1>1, <2>1, <2>2 DEF InFile
<1>6. FlushThread'
  <2>1. asked <= h'
    BY ONLY <1>0, <1>1 DEF LogTypes
  <2>2. running => flusher = "load"
    BY ONLY <1>0, <1>2 DEF FlushThread
  <2> QED BY ONLY <1>0, <1>1, <1>2, <2>1, <2>2 DEF FlushThread
<1> QED BY ONLY <1>3, <1>4, <1>5, <1>6 DEF LogInv

LEMMA CopyStep == ASSUME Sizes, LogInv, FlushCopy PROVE LogInv'
<1>0. LogTypes /\ InArray /\ InFile /\ FlushThread
  BY DEF LogInv
<1> DEFINE c == IF writing /\ EventSlot(t) = EventSlot(logHead) THEN Torn ELSE events[EventSlot(t)].seq
<1>1. /\ UNCHANGED <<ringMode, events, logHead, sequence, writing, flushTail, h, flusher, running, stops, asked, lapped>>
      /\ t # h /\ file' = Append(file, c) /\ t' = t + 1
  BY DEF FlushCopy, logState
<1>2. Draining /\ Draining'
  BY DEF FlushCopy, Draining
<1>3. /\ h \in Nat /\ t \in Nat /\ flushTail <= t /\ t < h /\ h <= logHead /\ Len(file) = t
      /\ file \in Seq(Nat \cup {Torn})
  BY ONLY <1>0, <1>1, <1>2 DEF InFile
<1>4. /\ Capacity \in Nat \ {0} /\ sequence \in Nat /\ logHead \in Nat /\ flushTail \in Nat
      /\ logHead <= sequence /\ (writing => logHead + 1 = sequence)
  BY ONLY Sizes, <1>0 DEF Sizes, LogTypes
<1>5. ringMode \/ t < Capacity
  <2>1. ~ringMode => sequence <= Capacity
    BY ONLY <1>0 DEF InArray
  <2> QED BY ONLY <1>3, <1>4, <2>1
<1>6. EventSlot(t) \in 0..(Capacity - 1)
  BY ONLY Sizes, <1>3, <1>5, SlotIn
<1>7. c \in Nat \cup {Torn}
  <2>1. events[EventSlot(t)].seq \in Nat
    BY ONLY <1>0, <1>6 DEF LogTypes, Event
  <2> QED BY ONLY <2>1
<1>8. ASSUME ~lapped PROVE c = t + 1
  <2>1. t \in flushTail..(sequence - 1) /\ sequence - flushTail <= Capacity
    BY ONLY <1>0, <1>3, <1>4, <1>8 DEF InArray
  <2>2. events[EventSlot(t)].seq = t + 1
    BY ONLY <1>0, <1>8, <2>1 DEF InArray
  <2>3. ASSUME writing PROVE EventSlot(t) # EventSlot(logHead)
    <3>1. t < logHead /\ logHead < t + Capacity
      BY ONLY <1>3, <1>4, <2>1, <2>3
    <3> QED BY ONLY Sizes, <1>3, <1>4, <3>1, SlotsApart
  <2> QED BY ONLY <2>2, <2>3
<1> HIDE DEF c
<1>9. LogTypes'
  BY ONLY <1>0, <1>1 DEF LogTypes
<1>10. InArray'
  <2>1. \A n : EventSlot(n)' = EventSlot(n)
    BY ONLY <1>1 DEF EventSlot
  <2> QED BY ONLY <1>0, <1>1, <2>1 DEF InArray
<1>11. InFile'
  <2>1. /\ file' \in Seq(Nat \cup {Torn}) /\ Len(file') = Len(file) + 1
        /\ file'[Len(file) + 1] = c /\ \A n \in 1..Len(file) : file'[n] = file[n]
    BY ONLY <1>1, <1>3, <1>7, Appended
  <2>2. ASSUME ~lapped, NEW n \in 1..Len(file') PROVE file'[n] = n
    <3>1. CASE n = Len(file) + 1
      BY ONLY <1>3, <1>8, <2>1, <2>2, <3>1
    <3>2. CASE n \in 1..Len(file)
      <4>1. file[n] = n
        BY ONLY <1>0, <2>2, <3>2 DEF InFile
      <4> QED BY ONLY <2>1, <3>2, <4>1
    <3> QED BY ONLY <1>3, <2>1, <3>1, <3>2
  <2>3. /\ h' \in Nat /\ t' \in Nat /\ flushTail' <= t' /\ t' <= h' /\ h' <= logHead' /\ Len(file') = t'
    BY ONLY <1>1, <1>3, <1>4, <2>1
  <2>4. lapped' = lapped
    BY ONLY <1>1
  <2> QED BY ONLY <1>2, <2>1, <2>2, <2>3, <2>4 DEF InFile
<1>12. FlushThread'
  BY ONLY <1>0, <1>1 DEF FlushThread
<1> QED BY ONLY <1>9, <1>10, <1>11, <1>12 DEF LogInv

LEMMA StoreStep == ASSUME Sizes, LogInv, FlushStore PROVE LogInv'
<1>0. LogTypes /\ InArray /\ InFile /\ FlushThread
  BY DEF LogInv
<1>1. /\ UNCHANGED <<ringMode, events, logHead, sequence, writing, h, t, file, running, stops, asked, lapped>>
      /\ t = h /\ flushTail' = t
  BY DEF FlushStore, logState
<1>2. /\ flusher \in {"drain", "finalDrain"}
      /\ flusher' = IF flusher = "finalDrain" THEN "done" ELSE "test"
  BY DEF FlushStore
<1>3. /\ h \in Nat /\ t \in Nat /\ flushTail <= t /\ t <= logHead /\ Len(file) = t
  BY ONLY <1>0, <1>1, <1>2 DEF InFile, Draining
<1>4. sequence \in Nat /\ flushTail \in Nat
  BY ONLY <1>0 DEF LogTypes
<1>5. LogTypes'
  BY ONLY <1>0, <1>1, <1>3 DEF LogTypes
<1>6. InArray'
  <2>1. \A n : EventSlot(n)' = EventSlot(n)
    BY ONLY <1>1 DEF EventSlot
  <2>2. \A n \in flushTail'..(sequence - 1) : n \in flushTail..(sequence - 1)
    BY ONLY <1>1, <1>3, <1>4
  <2>3. sequence - flushTail' <= sequence - flushTail
    BY ONLY <1>1, <1>3, <1>4
  <2>4. ~ringMode' => sequence' <= Capacity /\ ~lapped'
    BY ONLY <1>0, <1>1 DEF InArray
  <2>5. ASSUME ~lapped' PROVE /\ sequence' - flushTail' <= Capacity
                              /\ \A n \in flushTail'..(sequence' - 1) : events'[EventSlot(n)'].seq = n + 1
    <3>1. /\ sequence - flushTail <= Capacity
          /\ \A n \in flushTail..(sequence - 1) : events[EventSlot(n)].seq = n + 1
      BY ONLY <1>0, <1>1, <2>5 DEF InArray
    <3>2. sequence - flushTail' <= Capacity
      BY ONLY Sizes, <1>1, <1>3, <1>4, <2>3, <3>1 DEF Sizes
    <3> QED BY ONLY <1>1, <2>1, <2>2, <3>1, <3>2
  <2> QED BY ONLY <2>4, <2>5 DEF InArray
<1>7. InFile'
  <2>1. ~Draining'
    BY ONLY <1>2 DEF Draining
  <2> QED BY ONLY <1>0, <1>1, <1>3, <2>1 DEF InFile
<1>8. FlushThread'
  BY ONLY <1>0, <1>1, <1>2 DEF FlushThread
<1> QED BY ONLY <1>5, <1>6, <1>7, <1>8 DEF LogInv

LEMMA LogStep == ASSUME Sizes, LogInv, [LogNext]_logVars PROVE LogInv'
<1>1. CASE UNCHANGED logVars
  BY <1>1 DEF logVars, logState, flushState, LogInv, LogTypes, InArray, InFile, FlushThread, Draining, EventSlot
<1> QED BY <1>1, RecordStep, PublishStep, ControlStep, LoadStep, CopyStep, StoreStep
        DEF LogNext, Flusher

\* The audit file of TradeLogger has every event once, whole and in order,
\* and everything that was logged before a stop that returned, unless a slot
\* was reused before it was flushed; for an array of any size, linear or ring.
THEOREM AuditStaysComplete == ASSUME Sizes PROVE LogSpec => []AuditComplete
<1>1. LogInv /\ [LogNext]_logVars => LogInv'
  BY LogStep
<1>2. ASSUME LogInv PROVE AuditComplete
  <2>0. LogTypes /\ InArray /\ InFile /\ FlushThread
    BY <1>2 DEF LogInv
  <2>1. ASSUME ~lapped PROVE file = [i \in 1..Len(file) |-> i]
    BY ONLY <2>0, <2>1 DEF InFile
  <2>2. flusher = "none" /\ stops > 0 /\ ~running => Len(file) >= asked
    <3>1. flusher = "none" => Len(file) = flushTail
      BY ONLY <2>0 DEF InFile, Draining
    <3> QED BY ONLY <2>0, <3>1 DEF FlushThread, LogTypes
  <2>3. ~ringMode => ~lapped
    BY ONLY <2>0 DEF InArray
  <2> QED BY <2>1, <2>2, <2>3 DEF AuditComplete
<1> QED BY <1>1, <1>2, LogStart, PTL DEF LogSpec

(***************************************************************************)
(* The three loggers together: what their files promise holds for every    *)
(* size of the array, of the queue and of the region, and for any kinds of *)
(* event and orders.                                                       *)
(***************************************************************************)
THEOREM LogsStayComplete == ASSUME Sizes PROVE LogSpec /\ LfSpec /\ MmapSpec => []LogsComplete
<1>1. AuditComplete /\ NumbersUnbroken /\ SyncedSurvives => LogsComplete
  BY DEF LogsComplete
<1> QED BY <1>1, AuditStaysComplete, NumbersStayUnbroken, SyncedStays, PTL
==============================================================================
