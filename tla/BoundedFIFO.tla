----------------------------- MODULE BoundedFIFO -----------------------------
(***************************************************************************)
(* What every queue under lockfree/ promises, whatever its slots and       *)
(* counters look like: a FIFO of at most Cap values.  An enqueue appends a *)
(* value, a dequeue hands the oldest one to the consumer that asked for    *)
(* it.  SPSCQueue, MPSCQueue and MPMCQueue are each shown to implement     *)
(* this module.                                                            *)
(***************************************************************************)
EXTENDS Naturals, Sequences

CONSTANTS Value,      \* the values a producer may enqueue
          Consumer,   \* the threads that dequeue
          NoValue,    \* what a consumer holds before its first dequeue
          Cap         \* capacity()

VARIABLES queue,      \* the values enqueued and not yet dequeued, oldest first
          out         \* out[c]: the last value handed to consumer c

vars == <<queue, out>>

Init == /\ queue = <<>>
        /\ out = [c \in Consumer |-> NoValue]

Enqueue(v) == /\ Len(queue) < Cap
              /\ queue' = Append(queue, v)
              /\ UNCHANGED out

Dequeue(c) == /\ queue # <<>>
              /\ queue' = Tail(queue)
              /\ out' = [out EXCEPT ![c] = Head(queue)]

Next == \/ \E v \in Value : Enqueue(v)
        \/ \E c \in Consumer : Dequeue(c)

Spec == Init /\ [][Next]_vars
==============================================================================
