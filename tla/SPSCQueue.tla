------------------------------ MODULE SPSCQueue ------------------------------
(***************************************************************************)
(* lockfree/spsc_queue.hpp: the single-producer, single-consumer ring.     *)
(* Each access to shared memory is a step of its own: the producer's       *)
(* acquire load of tail_, its plain write of the slot, its release store   *)
(* of head_; the consumer's acquire load of head_, its plain read of the   *)
(* slot, its release store of tail_.  A load of a thread's own counter is  *)
(* not a step, since no other thread writes it.                            *)
(***************************************************************************)
EXTENDS Naturals, Sequences

CONSTANTS SIZE,       \* the template parameter: slots of the ring
          Value,      \* the items pushed
          NoValue     \* the content of a slot or of `out' never assigned

ASSUME SizeAssumption == SIZE \in Nat \ {0}
ASSUME ValueAssumption == NoValue \notin Value

VARIABLES buffer,     \* buffer_
          head,       \* head_, written by the producer only
          tail,       \* tail_, written by the consumer only
          ppc,        \* where the producer is in push()
          item,       \* push()'s argument
          cpc,        \* where the consumer is in pop()
          out         \* pop()'s out parameter

vars == <<buffer, head, tail, ppc, item, cpc, out>>

Index == 0..(SIZE - 1)

\* (i + 1) & (SIZE - 1)
Succ(i) == (i + 1) % SIZE

\* (h - t) & (SIZE - 1): the subtraction wraps modulo a multiple of SIZE.
Used(h, t) == (h + SIZE - t) % SIZE

\* Mutant of Full and of Empty: the other side's counter is not consulted.
Unchecked == FALSE

\* full() and the test of push(): next == tail_
Full == Succ(head) = tail

\* empty() and the test of pop(): t == head_
Empty == tail = head

Init == /\ buffer = [i \in Index |-> NoValue]
        /\ head = 0
        /\ tail = 0
        /\ ppc = "idle"
        /\ item = NoValue
        /\ cpc = "idle"
        /\ out = NoValue

------------------------------------------------------------------------------
(***************************************************************************)
(* push                                                                    *)
(***************************************************************************)
\* The load of tail_ finds the ring full: push returns false.
PushFull(v) == /\ ppc = "idle"
               /\ Full
               /\ item' = v
               /\ UNCHANGED <<buffer, head, tail, ppc, cpc, out>>

\* The load of tail_ finds a free slot.
PushLoad(v) == /\ ppc = "idle"
               /\ ~Full
               /\ item' = v
               /\ ppc' = "write"
               /\ UNCHANGED <<buffer, head, tail, cpc, out>>

\* buffer_[h] = item
PushWrite == /\ ppc = "write"
             /\ buffer' = [buffer EXCEPT ![head] = item]
             /\ ppc' = "publish"
             /\ UNCHANGED <<head, tail, item, cpc, out>>

\* head_.store(next, release)
PushPublish == /\ ppc = "publish"
               /\ head' = Succ(head)
               /\ ppc' = "idle"
               /\ UNCHANGED <<buffer, tail, item, cpc, out>>

(***************************************************************************)
(* pop                                                                     *)
(***************************************************************************)
\* The load of head_ finds the ring empty: pop returns false.
PopEmpty == /\ cpc = "idle"
            /\ Empty
            /\ UNCHANGED vars

\* The load of head_ finds a published slot.
PopLoad == /\ cpc = "idle"
           /\ ~Empty
           /\ cpc' = "read"
           /\ UNCHANGED <<buffer, head, tail, ppc, item, out>>

\* out = buffer_[t]
PopRead == /\ cpc = "read"
           /\ out' = buffer[tail]
           /\ cpc' = "release"
           /\ UNCHANGED <<buffer, head, tail, ppc, item>>

\* tail_.store((t + 1) & (SIZE - 1), release)
PopRelease == /\ cpc = "release"
              /\ tail' = Succ(tail)
              /\ cpc' = "idle"
              /\ UNCHANGED <<buffer, head, ppc, item, out>>

Producer == \/ \E v \in Value : PushFull(v) \/ PushLoad(v)
            \/ PushWrite
            \/ PushPublish

Consumer == PopEmpty \/ PopLoad \/ PopRead \/ PopRelease

Next == Producer \/ Consumer

Spec == Init /\ [][Next]_vars

------------------------------------------------------------------------------
TypeOK == /\ buffer \in [Index -> Value \cup {NoValue}]
          /\ head \in Index
          /\ tail \in Index
          /\ ppc \in {"idle", "write", "publish"}
          /\ item \in Value \cup {NoValue}
          /\ cpc \in {"idle", "read", "release"}
          /\ out \in Value \cup {NoValue}

(***************************************************************************)
(* Freedom from data races.  The slots are plain memory: the producer's    *)
(* write of buffer_[h] never meets the consumer's read of the same slot,   *)
(* although the two checks of the other side's counter were made earlier   *)
(* and the counters have moved since.                                      *)
(***************************************************************************)
NoSlotRace == ~(ppc = "write" /\ cpc = "read" /\ head = tail)

(***************************************************************************)
(* The values the ring holds: from the first slot not copied out by pop()  *)
(* up to the last published one.                                           *)
(***************************************************************************)
First == IF cpc = "release" THEN Succ(tail) ELSE tail
Contents == [i \in 1..Used(head, First) |-> buffer[(First + i - 1) % SIZE]]

(***************************************************************************)
(* The ring implements a FIFO of SIZE - 1 values (capacity()): a push      *)
(* takes effect at its store of head_, a pop at its read of the slot.      *)
(* Nothing is lost, duplicated, reordered or overwritten before it is read.*)
(***************************************************************************)
FIFO == INSTANCE BoundedFIFO WITH Consumer <- {"consumer"},
                                  Cap <- SIZE - 1,
                                  queue <- Contents,
                                  out <- [c \in {"consumer"} |-> out]
ImplementsFIFO == FIFO!Spec
==============================================================================
