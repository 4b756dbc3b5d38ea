------------------------------ MODULE Sequencer ------------------------------
(***************************************************************************)
(* lockfree/sequencer.hpp: a Disruptor-style ring.  One producer claims    *)
(* sequence numbers, writes the slot in place and publishes; every         *)
(* consumer reads every published slot, in place.  The producer may not    *)
(* wrap onto a slot before gating_ says that the slowest consumer is done  *)
(* with it.  The payload of a slot is the sequence number it was written   *)
(* for, so that a slot written too early is seen.                          *)
(*                                                                         *)
(* With several consumers "an external aggregator publishes min(all seqs)  *)
(* to mark_consumed": it samples their progress one after the other.       *)
(***************************************************************************)
EXTENDS Integers

CONSTANTS RingSize,   \* the template parameter: slots of the ring
          Reader,     \* the consumer threads
          MaxSeq      \* bound: sequence numbers claimed

ASSUME SizeAssumption == RingSize \in Nat \ {0}
ASSUME BoundAssumption == MaxSeq \in Nat

VARIABLES buffer,     \* buffer_
          cursor,     \* cursor_: the last published sequence number
          gating,     \* gating_: what the slowest consumer is done with
          next,       \* next_seq_
          ppc,        \* where the producer is between claim and publish
          mine,       \* mine[c]: the next sequence number c reads
          hi,         \* hi[c]: what available() returned to c last
          done        \* done[c]: c's progress as the aggregator saw it last

seqVars == <<buffer, cursor, gating, next, ppc, mine, hi, done>>

\* seq & MASK
Slot(n) == n % RingSize

SeqInit == /\ buffer = [s \in 0..(RingSize - 1) |-> -1]
           /\ cursor = -1
           /\ gating = -1
           /\ next = 0
           /\ ppc = "idle"
           /\ mine = [c \in Reader |-> 0]
           /\ hi = [c \in Reader |-> -1]
           /\ done = [c \in Reader |-> -1]

------------------------------------------------------------------------------
\* Mutant of Wraps: off by one.
WrapsLate == next - RingSize > gating + 1

\* wrap_min > gating_.load(acquire)
Wraps == next - RingSize > gating

\* try_claim() returns -1: the ring is full.
ClaimFull == /\ ppc = "idle"
             /\ Wraps
             /\ UNCHANGED seqVars

\* try_claim() returns next_seq_.
Claim == /\ ppc = "idle"
         /\ next < MaxSeq
         /\ ~Wraps
         /\ next' = next + 1
         /\ ppc' = "write"
         /\ UNCHANGED <<buffer, cursor, gating, mine, hi, done>>

\* slot(seq) = data
Write == /\ ppc = "write"
         /\ buffer' = [buffer EXCEPT ![Slot(next - 1)] = next - 1]
         /\ ppc' = "publish"
         /\ UNCHANGED <<cursor, gating, next, mine, hi, done>>

\* publish(seq)
Publish == /\ ppc = "publish"
           /\ cursor' = next - 1
           /\ ppc' = "idle"
           /\ UNCHANGED <<buffer, gating, next, mine, hi, done>>

\* Mutant of Available: the last published sequence number is left out.
AvailableShort(c) == /\ mine[c] > hi[c]
                     /\ hi' = [hi EXCEPT ![c] = cursor - 1]
                     /\ UNCHANGED <<buffer, cursor, gating, next, ppc, mine, done>>

\* hi = available()
Available(c) == /\ mine[c] > hi[c]
                /\ hi' = [hi EXCEPT ![c] = cursor]
                /\ UNCHANGED <<buffer, cursor, gating, next, ppc, mine, done>>

\* use(read(i)); ++i
Read(c) == /\ mine[c] <= hi[c]
           /\ mine' = [mine EXCEPT ![c] = @ + 1]
           /\ UNCHANGED <<buffer, cursor, gating, next, ppc, hi, done>>

\* The aggregator reads the progress of consumer c.
Sample(c) == /\ done' = [done EXCEPT ![c] = mine[c] - 1]
             /\ UNCHANGED <<buffer, cursor, gating, next, ppc, mine, hi>>

\* Mutant of Slowest: the aggregator publishes the fastest consumer.
Fastest(n) == \A c \in Reader : done[c] <= n

\* n is not beyond any consumer's progress.
Slowest(n) == \A c \in Reader : n <= done[c]

\* mark_consumed(min(all seqs))
MarkConsumed(c) == /\ Slowest(done[c])
                   /\ gating' = done[c]
                   /\ UNCHANGED <<buffer, cursor, next, ppc, mine, hi, done>>

SeqNext == \/ ClaimFull \/ Claim \/ Write \/ Publish
           \/ \E c \in Reader : Available(c) \/ Read(c) \/ Sample(c) \/ MarkConsumed(c)

SeqSpec == SeqInit /\ [][SeqNext]_seqVars

\* The threads run, and consumers spin on available().
FairSeqSpec == /\ SeqSpec
               /\ WF_seqVars(Claim \/ Write \/ Publish)
               /\ \A c \in Reader : /\ WF_seqVars(Available(c))
                                    /\ WF_seqVars(Read(c))
                                    /\ WF_seqVars(Sample(c))
                                    /\ WF_seqVars(MarkConsumed(c))

------------------------------------------------------------------------------
SeqTypeOK == /\ buffer \in [0..(RingSize - 1) -> Nat \cup {-1}]
             /\ cursor \in Nat \cup {-1}
             /\ gating \in Nat \cup {-1}
             /\ next \in Nat
             /\ ppc \in {"idle", "write", "publish"}
             /\ mine \in [Reader -> Nat]
             /\ hi \in [Reader -> Nat \cup {-1}]
             /\ done \in [Reader -> Nat \cup {-1}]

(***************************************************************************)
(* No published slot is overwritten before every consumer has read it,     *)
(* however far the consumers drift apart and however old the aggregator's  *)
(* samples are: a consumer reads, at sequence number n, what was published *)
(* under n.                                                                *)
(***************************************************************************)
UnreadIntact ==
    \A c \in Reader : \A n \in mine[c]..cursor : buffer[Slot(n)] = n

(***************************************************************************)
(* The producer never writes a slot that a consumer may be reading: the    *)
(* slot accesses of read() and slot() are plain memory accesses.           *)
(***************************************************************************)
NoSlotRace ==
    ppc = "write" =>
        \A c \in Reader : \A n \in mine[c]..hi[c] : Slot(n) # Slot(next - 1)

(***************************************************************************)
(* Nobody waits on everybody: with consumers that keep polling and an      *)
(* aggregator that keeps publishing, a full ring drains and every sequence *)
(* number reaches every consumer.                                          *)
(***************************************************************************)
EveryoneReadsEverything == <>(\A c \in Reader : mine[c] = MaxSeq)
==============================================================================
