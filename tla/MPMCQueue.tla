------------------------------ MODULE MPMCQueue ------------------------------
(***************************************************************************)
(* lockfree/mpmc_queue.hpp: the bounded queue of many producers and many   *)
(* consumers.  Every cell carries a sequence number that says whose turn   *)
(* it is; producers race for positions with a CAS on head_, consumers with *)
(* a CAS on tail_.  Each load, CAS, store, and each access to the plain    *)
(* data of a cell, is a step of its own.                                   *)
(*                                                                         *)
(* The loads of head_ and tail_ are relaxed: they may return any value not *)
(* older than the one the thread saw last.  A compare_exchange_weak may    *)
(* fail spuriously; when it fails it returns the current value.            *)
(***************************************************************************)
EXTENDS Integers, Sequences

CONSTANTS SIZE,       \* the template parameter: cells of the ring
          Producer,   \* threads calling push()
          Consumer,   \* threads calling pop()
          Value,      \* the items pushed
          NoValue,    \* data never assigned
          MaxHead     \* bound: no push begins once this many were claimed

ASSUME SizeAssumption == SIZE \in Nat \ {0}
ASSUME ThreadAssumption == Producer \cap Consumer = {}
ASSUME ValueAssumption == NoValue \notin Value
ASSUME BoundAssumption == MaxHead \in Nat

VARIABLES seq,        \* seq[i]: the sequence number of cell i
          data,       \* data[i]: the payload of cell i
          head,       \* head_: the next position to push
          tail,       \* tail_: the next position to pop
          pc,         \* where each thread is in its call
          pos,        \* each thread's local pos
          val         \* push()'s argument, pop()'s out

vars == <<seq, data, head, tail, pc, pos, val>>

Thread == Producer \cup Consumer
Index == 0..(SIZE - 1)

\* pos & MASK
Cell(n) == n % SIZE

Init == /\ seq = [i \in Index |-> i]
        /\ data = [i \in Index |-> NoValue]
        /\ head = 0
        /\ tail = 0
        /\ pc = [t \in Thread |-> "idle"]
        /\ pos = [t \in Thread |-> 0]
        /\ val = [t \in Thread |-> NoValue]

Goto(t, l) == pc' = [pc EXCEPT ![t] = l]

------------------------------------------------------------------------------
(***************************************************************************)
(* push                                                                    *)
(***************************************************************************)
\* pos = head_.load(relaxed)
PushBegin(p, v) == /\ pc[p] = "idle"
                   /\ head < MaxHead
                   /\ \E n \in pos[p]..head : pos' = [pos EXCEPT ![p] = n]
                   /\ val' = [val EXCEPT ![p] = v]
                   /\ Goto(p, "seq")
                   /\ UNCHANGED <<seq, data, head, tail>>

\* diff == 0: the cell is free in this lap.
PushFree(p) == /\ pc[p] = "seq"
               /\ seq[Cell(pos[p])] = pos[p]
               /\ Goto(p, "cas")
               /\ UNCHANGED <<seq, data, head, tail, pos, val>>

\* diff < 0: the cell still belongs to the previous lap; push returns false.
PushFull(p) == /\ pc[p] = "seq"
               /\ seq[Cell(pos[p])] < pos[p]
               /\ Goto(p, "idle")
               /\ UNCHANGED <<seq, data, head, tail, pos, val>>

\* diff > 0: another producer took the position; reload head_.
PushReload(p) == /\ pc[p] = "seq"
                 /\ seq[Cell(pos[p])] > pos[p]
                 /\ \E n \in pos[p]..head : pos' = [pos EXCEPT ![p] = n]
                 /\ UNCHANGED <<seq, data, head, tail, pc, val>>

\* Mutant of PushClaim: a blind store instead of the CAS.
PushClaimBlind(p) == /\ pc[p] = "cas"
                     /\ head' = pos[p] + 1
                     /\ Goto(p, "write")
                     /\ UNCHANGED <<seq, data, tail, pos, val>>

\* compare_exchange_weak succeeds.
PushClaim(p) == /\ pc[p] = "cas"
                /\ head = pos[p]
                /\ head' = pos[p] + 1
                /\ Goto(p, "write")
                /\ UNCHANGED <<seq, data, tail, pos, val>>

\* compare_exchange_weak fails, spuriously or not, and reloads pos.
PushRetry(p) == /\ pc[p] = "cas"
                /\ pos' = [pos EXCEPT ![p] = head]
                /\ Goto(p, "seq")
                /\ UNCHANGED <<seq, data, head, tail, val>>

\* c->data = item
PushWrite(p) == /\ pc[p] = "write"
                /\ data' = [data EXCEPT ![Cell(pos[p])] = val[p]]
                /\ Goto(p, "publish")
                /\ UNCHANGED <<seq, head, tail, pos, val>>

\* c->seq.store(pos + 1, release)
PushPublish(p) == /\ pc[p] = "publish"
                  /\ seq' = [seq EXCEPT ![Cell(pos[p])] = pos[p] + 1]
                  /\ Goto(p, "idle")
                  /\ UNCHANGED <<data, head, tail, pos, val>>

(***************************************************************************)
(* pop                                                                     *)
(***************************************************************************)
\* pos = tail_.load(relaxed)
PopBegin(c) == /\ pc[c] = "idle"
               /\ \E n \in pos[c]..tail : pos' = [pos EXCEPT ![c] = n]
               /\ Goto(c, "seq")
               /\ UNCHANGED <<seq, data, head, tail, val>>

\* diff == 0: the cell is published.
PopReady(c) == /\ pc[c] = "seq"
               /\ seq[Cell(pos[c])] = pos[c] + 1
               /\ Goto(c, "cas")
               /\ UNCHANGED <<seq, data, head, tail, pos, val>>

\* diff < 0: nothing published at this position; pop returns false.
PopEmpty(c) == /\ pc[c] = "seq"
               /\ seq[Cell(pos[c])] < pos[c] + 1
               /\ Goto(c, "idle")
               /\ UNCHANGED <<seq, data, head, tail, pos, val>>

\* diff > 0: another consumer took the position; reload tail_.
PopReload(c) == /\ pc[c] = "seq"
                /\ seq[Cell(pos[c])] > pos[c] + 1
                /\ \E n \in pos[c]..tail : pos' = [pos EXCEPT ![c] = n]
                /\ UNCHANGED <<seq, data, head, tail, pc, val>>

PopClaim(c) == /\ pc[c] = "cas"
               /\ tail = pos[c]
               /\ tail' = pos[c] + 1
               /\ Goto(c, "read")
               /\ UNCHANGED <<seq, data, head, pos, val>>

PopRetry(c) == /\ pc[c] = "cas"
               /\ pos' = [pos EXCEPT ![c] = tail]
               /\ Goto(c, "seq")
               /\ UNCHANGED <<seq, data, head, tail, val>>

\* out = c->data
PopRead(c) == /\ pc[c] = "read"
              /\ val' = [val EXCEPT ![c] = data[Cell(pos[c])]]
              /\ Goto(c, "release")
              /\ UNCHANGED <<seq, data, head, tail, pos>>

\* c->seq.store(pos + SIZE, release)
PopRelease(c) == /\ pc[c] = "release"
                 /\ seq' = [seq EXCEPT ![Cell(pos[c])] = pos[c] + SIZE]
                 /\ Goto(c, "idle")
                 /\ UNCHANGED <<data, head, tail, pos, val>>

Push(p) == \/ \E v \in Value : PushBegin(p, v)
           \/ PushFree(p) \/ PushFull(p) \/ PushReload(p)
           \/ PushClaim(p) \/ PushRetry(p) \/ PushWrite(p) \/ PushPublish(p)

Pop(c) == \/ PopBegin(c)
          \/ PopReady(c) \/ PopEmpty(c) \/ PopReload(c)
          \/ PopClaim(c) \/ PopRetry(c) \/ PopRead(c) \/ PopRelease(c)

Next == \/ \E p \in Producer : Push(p)
        \/ \E c \in Consumer : Pop(c)

Spec == Init /\ [][Next]_vars

------------------------------------------------------------------------------
TypeOK == /\ seq \in [Index -> Nat]
          /\ data \in [Index -> Value \cup {NoValue}]
          /\ head \in Nat
          /\ tail \in Nat
          /\ pc \in [Thread -> {"idle", "seq", "cas", "write", "publish", "read", "release"}]
          /\ pos \in [Thread -> Nat]
          /\ val \in [Thread -> Value \cup {NoValue}]

(***************************************************************************)
(* Freedom from data races.  The payload of a cell is plain memory: no two *)
(* threads are ever about to access the same cell's data, whatever the     *)
(* position each of them claimed and however long it was delayed since.    *)
(***************************************************************************)
NoCellRace ==
    \A t, u \in Thread :
        /\ t # u
        /\ pc[t] \in {"write", "read"}
        /\ pc[u] \in {"write", "read"}
        => Cell(pos[t]) # Cell(pos[u])

(***************************************************************************)
(* Producers never run more than a lap ahead of consumers: at most         *)
(* capacity() = SIZE positions are claimed by a push and not by a pop, so  *)
(* no item is overwritten before it is popped.                             *)
(***************************************************************************)
WithinCapacity == head - tail <= SIZE

\* p has claimed position n and has not published it yet.
Claims(p, n) == pc[p] \in {"write", "publish"} /\ pos[p] = n

\* The item at position n: still with its producer, or in its cell.
ItemAt(n) == IF \E p \in Producer : Claims(p, n)
             THEN val[CHOOSE p \in Producer : Claims(p, n)]
             ELSE data[Cell(n)]

(***************************************************************************)
(* The queue implements a FIFO of SIZE items (capacity()).  A push takes   *)
(* effect when its CAS claims a position, a pop when its CAS does; the     *)
(* items come out in the order of their positions, each to one consumer.   *)
(***************************************************************************)
Contents == [i \in 1..(head - tail) |-> ItemAt(tail + i - 1)]
Received == [c \in Consumer |-> IF pc[c] = "read" THEN data[Cell(pos[c])] ELSE val[c]]
FIFO == INSTANCE BoundedFIFO WITH Cap <- SIZE, queue <- Contents, out <- Received
ImplementsFIFO == FIFO!Spec
==============================================================================
