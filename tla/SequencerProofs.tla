--------------------------- MODULE SequencerProofs ---------------------------
(***************************************************************************)
(* For every RingSize, every set of readers and every number of sequence   *)
(* numbers: published slots stay intact until every consumer has read      *)
(* them.  The inductive invariant orders the counters:                     *)
(*   gating <= done[c] < mine[c] <= hi[c] + 1 <= cursor + 1 <= next, and   *)
(*   the producer is at most RingSize ahead of gating.                     *)
(***************************************************************************)
EXTENDS Sequencer, Lemmas

IInv ==
    /\ SeqTypeOK
    /\ next <= gating + RingSize + 1
    /\ \A c \in Reader : /\ gating <= done[c]
                         /\ done[c] < mine[c]
                         /\ mine[c] <= cursor + 1
                         /\ hi[c] <= cursor
    /\ cursor = IF ppc = "idle" THEN next - 1 ELSE next - 2
    /\ ppc = "publish" => buffer[Slot(next - 1)] = next - 1
    /\ UnreadIntact

LEMMA SlotIndex == ASSUME NEW n \in Nat PROVE Slot(n) \in 0..(RingSize - 1)
  BY SizeAssumption, ModRange DEF Slot

LEMMA SlotApart ==
    ASSUME NEW m \in Nat, NEW n \in Nat, m < n, n < m + RingSize
    PROVE  Slot(m) # Slot(n)
  BY SizeAssumption, ModDistinct DEF Slot

LEMMA InitIInv == SeqInit => IInv
  BY SizeAssumption DEF SeqInit, IInv, SeqTypeOK, UnreadIntact

LEMMA StepIInv == IInv /\ [SeqNext]_seqVars => IInv'
<1> SUFFICES ASSUME IInv, [SeqNext]_seqVars PROVE IInv'
  OBVIOUS
<1>0. RingSize \in Nat /\ RingSize > 0
  BY SizeAssumption
<1> USE <1>0 DEF IInv, SeqTypeOK
<1>1. CASE ClaimFull
  BY <1>1 DEF ClaimFull, seqVars, UnreadIntact
<1>2. CASE Claim
  BY <1>2 DEF Claim, Wraps, UnreadIntact
<1>3. CASE Write
  <2> DEFINE m == next - 1
  <2>1. /\ m \in Nat /\ Slot(m) \in 0..(RingSize - 1)
        /\ buffer' = [buffer EXCEPT ![Slot(m)] = m] /\ ppc' = "publish"
        /\ UNCHANGED <<cursor, gating, next, mine, hi, done>>
    <3>1. m \in Nat
      BY <1>3 DEF Write
    <3> QED BY <1>3, <3>1, SlotIndex DEF Write
  <2>2. ASSUME NEW c \in Reader, NEW n \in mine[c]..cursor PROVE buffer'[Slot(n)] = n
    <3>3. buffer[Slot(n)] = n
      BY <2>2 DEF UnreadIntact
    <3>4. /\ mine[c] \in Nat /\ cursor \in Nat \cup {-1} /\ next \in Nat /\ done[c] \in Nat \cup {-1}
          /\ gating \in Nat \cup {-1} /\ gating <= done[c] /\ done[c] < mine[c]
          /\ next <= gating + RingSize + 1 /\ cursor = next - 2
      BY <1>3, <2>2 DEF Write
    <3>1. /\ n \in Nat /\ n < m /\ m < n + RingSize /\ buffer[Slot(n)] = n
      BY ONLY <1>0, <2>2, <3>3, <3>4 DEF m
    <3> HIDE DEF m
    <3>2. Slot(n) # Slot(m) /\ Slot(n) \in 0..(RingSize - 1)
      BY <2>1, <3>1, SlotApart, SlotIndex
    <3> QED BY <2>1, <3>1, <3>2
  <2>3. UnreadIntact'
    BY <2>1, <2>2 DEF UnreadIntact, Slot
  <2>4. buffer'[Slot(m)] = m
    BY <2>1
  <2> QED BY <1>3, <2>1, <2>3, <2>4 DEF Write, Slot
<1>4. CASE Publish
  <2>1. UnreadIntact'
    <3> SUFFICES ASSUME NEW c \in Reader, NEW n \in mine[c]..(next - 1)
                 PROVE  buffer[Slot(n)] = n
      BY <1>4 DEF Publish, UnreadIntact, Slot
    <3>1. n \in mine[c]..cursor \/ n = next - 1
      BY <1>4 DEF Publish
    <3> QED BY <1>4, <3>1 DEF Publish, UnreadIntact
  <2>2. cursor' \in Nat \cup {-1} /\ cursor' = cursor + 1
    BY <1>4 DEF Publish
  <2>3. SeqTypeOK' /\ cursor' = next - 1 /\ ppc' = "idle" /\ UNCHANGED <<next, gating, mine, done, hi>>
    BY <1>4, <2>2 DEF Publish
  <2> QED BY <2>1, <2>2, <2>3
<1>5. ASSUME NEW c \in Reader, Available(c) PROVE IInv'
  BY <1>5 DEF Available, UnreadIntact, Slot
<1>6. ASSUME NEW c \in Reader, Read(c) PROVE IInv'
  <2>1. /\ mine' \in [Reader -> Nat]
        /\ \A d \in Reader : mine'[d] = IF d = c THEN mine[c] + 1 ELSE mine[d]
        /\ UNCHANGED <<buffer, cursor, gating, next, ppc, hi, done>>
        /\ mine[c] <= hi[c]
    BY <1>6 DEF Read
  <2>2. UnreadIntact'
    <3> SUFFICES ASSUME NEW d \in Reader, NEW n \in mine'[d]..cursor
                 PROVE  buffer[Slot(n)] = n
      BY <2>1 DEF UnreadIntact, Slot
    <3>1. mine[d] \in Nat /\ mine[c] \in Nat /\ cursor \in Int
      OBVIOUS
    <3>2. n \in mine[d]..cursor
      <4>1. n >= mine'[d] /\ n <= cursor /\ n \in Int
        BY <3>1, <2>1
      <4>2. mine'[d] >= mine[d] /\ mine'[d] \in Int
        BY ONLY <3>1, <2>1
      <4> QED BY ONLY <3>1, <4>1, <4>2
    <3> QED BY <3>2 DEF UnreadIntact
  <2>3. \A d \in Reader : done[d] < mine'[d] /\ mine'[d] <= cursor + 1
    BY <2>1
  <2> QED BY <2>1, <2>2, <2>3 DEF Slot
<1>7. ASSUME NEW c \in Reader, Sample(c) PROVE IInv'
  <2>1. /\ done' = [done EXCEPT ![c] = mine[c] - 1]
        /\ UNCHANGED <<buffer, cursor, gating, next, ppc, mine, hi>>
    BY <1>7 DEF Sample
  <2>2. mine[c] - 1 \in Nat \cup {-1} /\ gating <= mine[c] - 1 /\ mine[c] - 1 < mine[c]
    <3>1. /\ mine[c] \in Nat /\ done[c] \in Nat \cup {-1} /\ gating \in Nat \cup {-1}
          /\ gating <= done[c] /\ done[c] < mine[c]
      OBVIOUS
    <3> QED BY ONLY <3>1
  <2>3. \A d \in Reader : gating <= done'[d] /\ done'[d] < mine[d]
    BY <2>1, <2>2
  <2>4. UnreadIntact'
    BY ONLY UnreadIntact, <2>1 DEF UnreadIntact, Slot
  <2> QED BY <2>1, <2>2, <2>3, <2>4 DEF Slot
<1>8. ASSUME NEW c \in Reader, MarkConsumed(c) PROVE IInv'
  <2>1. /\ gating' = done[c] /\ \A d \in Reader : done[c] <= done[d]
        /\ UNCHANGED <<buffer, cursor, next, ppc, mine, hi, done>>
    BY <1>8 DEF MarkConsumed, Slowest
  <2>2. done[c] \in Nat \cup {-1} /\ gating \in Nat \cup {-1} /\ gating <= done[c] /\ RingSize \in Nat /\ next \in Nat
    BY SizeAssumption
  <2>3. next <= done[c] + RingSize + 1
    BY ONLY <2>2, next <= gating + RingSize + 1
  <2>4. UnreadIntact'
    BY ONLY UnreadIntact, <2>1 DEF UnreadIntact, Slot
  <2> QED BY <2>1, <2>2, <2>3, <2>4 DEF Slot
<1>9. CASE UNCHANGED seqVars
  BY <1>9 DEF seqVars, UnreadIntact, Slot
<1> QED BY <1>1, <1>2, <1>3, <1>4, <1>5, <1>6, <1>7, <1>8, <1>9 DEF SeqNext

LEMMA Invariance == SeqSpec => []IInv
  BY InitIInv, StepIInv, PTL DEF SeqSpec

\* A consumer reads, under each sequence number, what was published under it.
THEOREM ReadsIntact == SeqSpec => []UnreadIntact
<1>1. IInv => UnreadIntact
  BY DEF IInv
<1> QED BY <1>1, Invariance, PTL

\* The producer and a consumer never access one slot at the same time.
THEOREM SlotRaceFree == SeqSpec => []NoSlotRace
<1>1. IInv => NoSlotRace
  <2> SUFFICES ASSUME IInv, ppc = "write", NEW c \in Reader, NEW n \in mine[c]..hi[c]
               PROVE  Slot(n) # Slot(next - 1)
    BY DEF NoSlotRace
  <2> DEFINE m == next - 1
  <2>1. n \in Nat /\ m \in Nat /\ n < m /\ m < n + RingSize
    BY SizeAssumption DEF IInv, SeqTypeOK
  <2> HIDE DEF m
  <2>2. Slot(n) # Slot(m)
    BY <2>1, SlotApart
  <2> QED BY <2>2 DEF m
<1> QED BY <1>1, Invariance, PTL
==============================================================================
